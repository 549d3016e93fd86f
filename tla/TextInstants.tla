---------------------------- MODULE TextInstants ----------------------------
(***************************************************************************)
(* The instants of a text (tltext/tltext.cpp) over the registry of the     *)
(* system: declarations are read, then expressions, each of which becomes  *)
(* an assignment to the output "demand" in a slot at this time; System::go *)
(* evaluates the assignments of all instants so far, those of other times  *)
(* being passed over, and compiles what it evaluates if it has changed     *)
(* (libs/system/bestfit.cpp); and the slots are printed from a vector that *)
(* is kept from instant to instant (tltext/demandhd.cpp).                  *)
(***************************************************************************)
EXTENDS SystemRegistry

CONSTANTS MaxLines,   \* bound: lines before the input ends
          MaxSlots    \* bound: expressions of an instant

VARIABLES phase,        \* what the main loop is doing
          first,        \* processDefinitions has read no line yet
          lines,        \* lines read
          exprs,        \* the expressions of the instant, here identifiers
          assignments,  \* the definitions of the assignment "demand"
          at,           \* the assignment go comes to next
          evaluators,   \* m_evaluators of the objects evaluated, by change
          results,      \* m_results of the DemandHD
          printed       \* what has been printed of the instant

loopVars == <<phase, first, lines, exprs, assignments, at, evaluators, results,
              printed>>
textVars == <<registryVars, loopVars>>

None == {<<>>}   \* what a slot holds that nothing was put in

(***************************************************************************)
(* Compilation                                                             *)
(***************************************************************************)
\* m_changes: every addition, deletion and replacement is one
ChangesOf(o) ==
  {defs[o][i].start : i \in DOMAIN defs[o]}
  \cup {defs[o][i].end : i \in {j \in DOMAIN defs[o] : defs[o][j].end # Open}}

\* Which definitions the evaluator of the change c is made of; as the code has it, one
\* that ended before c is among them, and one that ends later is not
CompileInstant(o, c) ==
  {<<o, i>> : i \in {j \in DOMAIN defs[o] :
                       /\ defs[o][j].start <= c
                       /\ defs[o][j].end = Open \/ defs[o][j].end < c}}

HasEvaluator(o, c) == o \in DOMAIN evaluators /\ c \in DOMAIN evaluators[o]

\* The changes of the objects S that have no evaluator are given one
CompiledWith(S) ==
  [o \in DOMAIN evaluators \cup S |->
     IF o \notin S THEN evaluators[o]
     ELSE [c \in ChangesOf(o) |->
             IF HasEvaluator(o, c) THEN evaluators[o][c] ELSE CompileInstant(o, c)]]

LastBy(changes, t) ==
  CHOOSE c \in changes : c <= t /\ \A b \in changes : b <= t => b <= c

\* The change whose evaluator holds t
LastChange(o, t) == LastBy(ChangesOf(o), t)

Named(n) == {identifiers[m] : m \in DOMAIN identifiers \cap {n}}

\* An identifier that denotes no object has no value, nor has an object whose
\* evaluator is made of no definitions
UsedBy(ev, n, t) ==
  IF n \in DOMAIN identifiers
  THEN ev[identifiers[n]][LastChange(identifiers[n], t)]
  ELSE {}

In(p) == phase = p /\ UNCHANGED registryVars

Read == lines < MaxLines /\ lines' = lines + 1

(***************************************************************************)
(* Reading                                                                 *)
(***************************************************************************)
\* A definition is declared, or reports a parse error and is left out
DefinitionLine ==
  /\ phase = "definitions" /\ Read
  /\ first' = FALSE
  /\ \/ \E n \in Name : AddVariable(n)
     \/ \E u \in 1..MaxUUID : u \in DOMAIN objects /\ (DelDecl(u) \/ ReplDecl(u))
     \/ UNCHANGED registryVars
  /\ UNCHANGED <<phase, exprs, assignments, at, evaluators, results, printed>>

\* %% begins the expressions, $$ ends the instant without any
EndDefinitions(next) ==
  /\ In("definitions") /\ Read
  /\ phase' = next
  /\ UNCHANGED <<first, exprs, assignments, at, evaluators, results, printed>>

\* Mutant: it closes one more instant
DefinitionsEmptyOn ==
  /\ In("definitions")
  /\ phase' = "assign"
  /\ UNCHANGED <<first, lines, exprs, assignments, at, evaluators, results, printed>>

\* The end of the input: if it is where an instant would begin, there is none
DefinitionsEmpty ==
  /\ In("definitions")
  /\ phase' = IF first THEN "ended" ELSE "assign"
  /\ UNCHANGED <<first, lines, exprs, assignments, at, evaluators, results, printed>>

\* An expression, or one that does not parse, which is reported and left out; a
\* further %% is ignored
ExpressionLine ==
  /\ In("expressions") /\ Read
  /\ \/ Len(exprs) < MaxSlots /\ \E n \in Name : exprs' = Append(exprs, n)
     \/ UNCHANGED exprs
  /\ UNCHANGED <<phase, first, assignments, at, evaluators, results, printed>>

\* $$ or the end of the input
EndExpressions ==
  /\ In("expressions")
  /\ lines' \in {lines, lines + 1} /\ lines' <= MaxLines
  /\ phase' = "assign"
  /\ UNCHANGED <<first, exprs, assignments, at, evaluators, results, printed>>

(***************************************************************************)
(* Running                                                                 *)
(***************************************************************************)
Assigned(n, slot) == [name |-> n, time |-> time, slot |-> slot]

Assign ==
  /\ In("assign")
  /\ assignments' = assignments \o [i \in DOMAIN exprs |-> Assigned(exprs[i], i - 1)]
  /\ at' = 1
  /\ phase' = "go"
  /\ UNCHANGED <<first, lines, exprs, evaluators, results, printed>>

\* Mutant: the slot is compared with the size, and not made room for beyond it
PutWithin(slot, value) ==
  LET size == IF Len(results) < slot THEN (slot + 1) * 2 ELSE Len(results)
  IN  [i \in 1..size |-> IF i = slot + 1 THEN value
                         ELSE IF i <= Len(results) THEN results[i] ELSE None]

\* DemandHD::put, which makes room for twice what it needs
Put(slot, value) ==
  LET size == IF Len(results) <= slot THEN (slot + 1) * 2 ELSE Len(results)
  IN  [i \in 1..size |-> IF i = slot + 1 THEN value
                         ELSE IF i <= Len(results) THEN results[i] ELSE None]

\* Its region fits the context of this instant
Applies(a) == a.time = time

\* Evaluating an identifier compiles its object, and those its definitions mention
EvaluateAssignment ==
  /\ In("go") /\ at <= Len(assignments)
  /\ LET a == assignments[at]
     IN  IF Applies(a)
         THEN /\ \E mentioned \in SUBSET DOMAIN defs :
                   evaluators' = CompiledWith(Named(a.name) \cup mentioned)
              /\ results' = Put(a.slot, UsedBy(evaluators', a.name, time))
         ELSE UNCHANGED <<evaluators, results>>
  /\ at' = at + 1
  /\ UNCHANGED <<phase, first, lines, exprs, assignments, printed>>

\* An evaluation throws, and the program ends
EvaluationThrows ==
  /\ In("go") /\ at <= Len(assignments) /\ Applies(assignments[at])
  /\ phase' = "failed"
  /\ UNCHANGED <<first, lines, exprs, assignments, at, evaluators, results, printed>>

\* go ends with the next instant
EndGo ==
  /\ phase = "go" /\ at > Len(assignments)
  /\ AdvanceTime
  /\ phase' = "print"
  /\ UNCHANGED <<first, lines, exprs, assignments, at, evaluators, results, printed>>

PrintSlot ==
  /\ In("print") /\ Len(printed) < Len(exprs)
  /\ printed' = Append(printed, results[Len(printed) + 1])
  /\ UNCHANGED <<phase, first, lines, exprs, assignments, at, evaluators, results>>

\* RETURN is 0 and the next instant is read, or the program ends with its value
EndInstant ==
  /\ In("print") /\ Len(printed) = Len(exprs)
  /\ phase' \in {"definitions", "failed"}
  /\ first' = TRUE
  /\ exprs' = <<>> /\ printed' = <<>>
  /\ UNCHANGED <<lines, assignments, at, evaluators, results>>

InitText ==
  /\ InitRegistry
  /\ phase = "definitions" /\ first = TRUE /\ lines = 0
  /\ exprs = <<>> /\ assignments = <<>> /\ at = 1
  /\ evaluators = Nothing /\ results = <<>> /\ printed = <<>>

NextText ==
  \/ DefinitionLine
  \/ EndDefinitions("expressions")
  \/ EndDefinitions("assign")
  \/ DefinitionsEmpty
  \/ ExpressionLine
  \/ EndExpressions
  \/ Assign
  \/ EvaluateAssignment
  \/ EvaluationThrows
  \/ EndGo
  \/ PrintSlot
  \/ EndInstant

SpecText == InitText /\ [][NextText]_textVars /\ WF_textVars(NextText)

(***************************************************************************)
(* Properties                                                              *)
(***************************************************************************)
\* The definitions that compileInstant chooses at the last change by t, from all
\* that are declared
Value(n, t) ==
  IF n \in DOMAIN identifiers
  THEN CompileInstant(identifiers[n], LastChange(identifiers[n], t))
  ELSE {}

\* What is printed for an expression is its value in the instant it was asked in:
\* whenever its evaluator was compiled, it is made of what the definitions of that
\* instant say, and not of those of an earlier one; the slots are those of earlier
\* instants and time has moved on; and every slot that is printed is there.
PrintedIsDemanded ==
  phase = "print" =>
    /\ Len(exprs) <= Len(results)
    /\ \A i \in DOMAIN printed : printed[i] = Value(exprs[i], time - 1)

\* The loop ends with its input, or with a failure: no instant is run for ever,
\* and an end of the input that closes an instant is read again as the end.
TextEnds == <>(phase \in {"ended", "failed"})
=============================================================================
