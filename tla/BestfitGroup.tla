---------------------------- MODULE BestfitGroup ----------------------------
(***************************************************************************)
(* The definitions of one named object (a variable, function, operator or  *)
(* constructor) over the instants of the system: class BestfitGroup of     *)
(* tl/bestfit.hpp and libs/system/bestfit.cpp.                             *)
(*                                                                         *)
(* A definition is added, deleted or replaced at the current instant; it   *)
(* is parsed and compiled just in time, on the first evaluation that needs *)
(* it, into one evaluator per recorded change; an evaluation at context    *)
(* time t uses the evaluator whose interval holds t.                       *)
(***************************************************************************)
EXTENDS Integers, Sequences, FiniteSets

CONSTANTS
  UUID,             \* identifiers handed out by System, one per declaration
  Operations,       \* the operations clients perform: subset of the three
  Interleaved,      \* may an object be evaluated before the instant's last
                    \* declaration?  (a parser or a library client does,
                    \* the loop of tltext does not)
  Texts,            \* the texts of definitions clients write: of a variable or
                    \* of a function called by value or by name, of an object
                    \* of another kind, or malformed
  LinearSearchMaxSize, \* LINEAR_SEARCH_MAX_SIZE
  MaxTime,          \* bound: last instant explored
  MaxDefinitions    \* bound: number of definitions ever made

ASSUME GroupAssumption ==
  /\ Operations \subseteq {"add", "del", "repl"}
  /\ Interleaved \in BOOLEAN
  /\ Texts \subseteq {"byvalue", "byname", "other", "malformed"}
  /\ LinearSearchMaxSize \in Nat
  /\ MaxTime \in Nat
  /\ MaxDefinitions \in Nat

Open == -1   \* the end of a definition or evaluator that has not ended

VARIABLES
  now,          \* System::m_time
  phase,        \* which part of the instant the client is in
  definitions,  \* m_definitions
  uuids,        \* m_uuids
  changes,      \* m_changes
  evaluators,   \* m_evaluators
  parsed,       \* m_parsed
  compiling,    \* m_compiling
  answer        \* what the last operation returned or threw

vars == <<now, phase, definitions, uuids, changes, evaluators, parsed,
          compiling, answer>>

Definition ==
  [uuid : UUID, start : Nat, end : Nat \cup {Open}, text : Texts]

Evaluator == [start : Nat, end : Int, valid : SUBSET Nat]

Results == {"true", "false", "undef", "throw", "value"}

Said(op, result) == [op |-> op, result |-> result, time |-> now, valid |-> {}]

-----------------------------------------------------------------------------
(* Declarations *)

\* Sequence::back()
Back(s) == s[Len(s)]

\* Mutant: only the first instant is ever recorded
ChangeOnce(s, time) == IF s = <<>> THEN Append(s, time) ELSE s

\* change(time): an instant is recorded once, and only after the last one
Change(s, time) ==
  IF s = <<>> \/ Back(s) < time THEN Append(s, time) ELSE s

NewDefinition(id, text) ==
  [uuid |-> id, start |-> now, end |-> Open, text |-> text]

\* Mutant: the size of m_definitions is taken for the index of its last element
AddUUIDBySize(id) ==
  [u \in DOMAIN uuids \cup {id} |->
     IF u \in DOMAIN uuids THEN uuids[u] ELSE <<Len(definitions) + 2>>]

\* std::map::insert in addUUID keeps an entry that is already there
AddUUID(id) ==
  [u \in DOMAIN uuids \cup {id} |->
     IF u \in DOMAIN uuids THEN uuids[u] ELSE <<Len(definitions) + 1>>]

AddEquation(id, text) ==
  /\ definitions' = Append(definitions, NewDefinition(id, text))
  /\ uuids' = AddUUID(id)
  /\ changes' = Change(changes, now)
  /\ answer' = Said("add", "true")
  /\ UNCHANGED <<evaluators, parsed, compiling>>

\* The definition m_uuids records for id is there and has not ended
Live(id) == id \in DOMAIN uuids /\ definitions[Back(uuids[id])].end = Open

Refuse(op) ==
  /\ answer' = Said(op, "false")
  /\ UNCHANGED <<definitions, uuids, changes, evaluators, parsed, compiling>>

\* setEnd(time) of EquationDefinition
SetEnd(d, time) ==
  [uuid |-> d.uuid, start |-> d.start, end |-> time, text |-> d.text]

Ended(id) ==
  [definitions EXCEPT ![Back(uuids[id])] =
     SetEnd(definitions[Back(uuids[id])], now)]

Del(id) ==
  \/ /\ ~Live(id)
     /\ Refuse("del")
  \/ /\ Live(id)
     /\ definitions' = Ended(id)
     /\ changes' = Change(changes, now)
     /\ answer' = Said("del", "true")
     /\ UNCHANGED <<uuids, evaluators, parsed, compiling>>

\* The new definition gets the uuid of the old one, and m_uuids is left alone
Repl(id, text) ==
  \/ /\ ~Live(id)
     /\ Refuse("repl")
  \/ /\ Live(id)
     /\ definitions' = Append(Ended(id), NewDefinition(id, text))
     /\ changes' = Change(changes, now)
     /\ answer' = Said("repl", "true")
     /\ UNCHANGED <<uuids, evaluators, parsed, compiling>>

-----------------------------------------------------------------------------
(* Just-in-time compilation *)

\* Mutant: a definition is compiled only after the instant it starts at
CompileInstantLater(time) ==
  {i \in 1..Len(definitions) :
     /\ definitions[i].start < time
     /\ definitions[i].end = Open \/ definitions[i].end < time}

\* compileInstant: the definitions it hands to the grouper
CompileInstant(time) ==
  {i \in 1..Len(definitions) :
     /\ definitions[i].start <= time
     /\ definitions[i].end = Open \/ definitions[i].end < time}

\* The grouper of every object throws at a text that declares another kind of
\* object, which a replacement may
OfOneKind(valid) == \A i \in valid : definitions[i].text # "other"

\* FunctionWS::group throws also when the parameters of two definitions differ
SameParameters(valid) ==
  \A i, j \in valid : definitions[i].text = definitions[j].text

Groups(valid) == OfOneKind(valid) /\ SameParameters(valid)

\* Mutant: an evaluator ends at the next change instead of just before it
CompiledToTouching(pushed, begun) ==
  [c \in 1..pushed |->
     [start |-> changes[c],
      end   |-> IF c < begun THEN changes[c + 1] ELSE Open,
      valid |-> IF c <= Len(evaluators) THEN evaluators[c].valid
                ELSE CompileInstant(changes[c])]]

\* Mutant: every change is compiled again, the earlier ones included
CompiledToAfresh(pushed, begun) ==
  [c \in 1..pushed |->
     [start |-> changes[c],
      end   |-> IF c < begun THEN changes[c + 1] - 1 ELSE Open,
      valid |-> CompileInstant(changes[c])]]

\* m_evaluators once the loop of compile has begun change "begun" and pushed
\* the evaluators of the first "pushed" changes
CompiledTo(pushed, begun) ==
  [c \in 1..pushed |->
     [start |-> changes[c],
      end   |-> IF c < begun THEN changes[c + 1] - 1 ELSE Open,
      valid |-> IF c <= Len(evaluators) THEN evaluators[c].valid
                ELSE CompileInstant(changes[c])]]

Pending == (Len(evaluators) + 1)..Len(changes)

Unparsed == (parsed + 1)..Len(definitions)

Parses(i) == definitions[i].text # "malformed"

\* parse throws at the first definition whose text is wrong
ParseFails(i) ==
  /\ i \in Unparsed
  /\ ~Parses(i)
  /\ \A j \in Unparsed : j < i => Parses(j)

\* Mutant: a failure to parse is not noticed
NoParseError == TRUE

AllParse == \A i \in Unparsed : Parses(i)

\* the grouper throws at change c, the ones before it are compiled
GroupFails(c) ==
  /\ c \in Pending
  /\ ~Groups(CompileInstant(changes[c]))
  /\ \A b \in Pending : b < c => Groups(CompileInstant(changes[b]))

AllGroup == \A c \in Pending : Groups(CompileInstant(changes[c]))

-----------------------------------------------------------------------------
(* Choosing the evaluator *)

\* Mutant: the last instant of an interval is left out
HoldsBeforeEnd(e, t) == t >= e.start /\ t < e.end

Holds(e, t) == t >= e.start /\ t <= e.end

NotFound == 0

\* the linear search goes backwards, so the latest match is the result
LinearSearch(ev, t) ==
  LET matches == {i \in 1..Len(ev) : Holds(ev[i], t)}
  IN  IF matches = {} THEN NotFound
      ELSE CHOOSE i \in matches : \A j \in matches : j <= i

\* the binary search leaves out the last evaluator; begin is inclusive and
\* end exclusive, and once they meet the loop can only run for ever
BinarySearch(ev, t) ==
  LET Ends == 1..(Len(ev) + 1)
      search[range \in Ends \X Ends] ==
        LET begin == range[1]
            end == range[2]
            current == begin + ((end - begin) \div 2)
        IN  IF begin >= end THEN NotFound
            ELSE IF Holds(ev[current], t) THEN current
            ELSE IF t < ev[current].start THEN search[<<begin, current>>]
            ELSE search[<<current + 1, end>>]
  IN  search[<<1, Len(ev)>>]

Search(ev, t) ==
  IF Len(ev) <= LinearSearchMaxSize THEN LinearSearch(ev, t)
  ELSE BinarySearch(ev, t)

\* evaluate: the last evaluator first, SP_UNDEF outside every interval
Chosen(ev, t) ==
  IF t >= Back(ev).start /\ (Back(ev).end = Open \/ t <= Back(ev).end)
  THEN Len(ev)
  ELSE IF t > Back(ev).start \/ t < ev[1].start THEN NotFound
  ELSE Search(ev, t)

Returned(ev, t) ==
  IF Chosen(ev, t) = NotFound
  THEN [op |-> "evaluate", result |-> "undef", time |-> t, valid |-> {}]
  ELSE [op |-> "evaluate", result |-> "value", time |-> t,
        valid |-> ev[Chosen(ev, t)].valid]

Throw == answer' = Said("evaluate", "throw")

-----------------------------------------------------------------------------
(* operator()(k), with the checks of preEvalCheck *)

\* Mutant: the throw clears the flag it reports
EvaluateWhileCompilingOnce ==
  /\ compiling
  /\ Throw
  /\ compiling' = FALSE
  /\ UNCHANGED <<evaluators, parsed>>

\* a compilation that threw left m_compiling set
EvaluateWhileCompiling ==
  /\ compiling
  /\ Throw
  /\ UNCHANGED <<evaluators, parsed, compiling>>

EvaluateCompiled(t) ==
  /\ ~compiling
  /\ Pending = {}
  /\ answer' = Returned(evaluators, t)
  /\ UNCHANGED <<evaluators, parsed, compiling>>

EvaluateCompiles(t) ==
  /\ ~compiling
  /\ Pending # {}
  /\ AllParse
  /\ AllGroup
  /\ parsed' = Len(definitions)
  /\ evaluators' = CompiledTo(Len(changes), Len(changes))
  /\ answer' = Returned(evaluators', t)
  /\ UNCHANGED compiling

EvaluateParseError ==
  /\ ~compiling
  /\ Pending # {}
  /\ \E i \in Unparsed : ParseFails(i) /\ parsed' = i - 1
  /\ compiling' = TRUE
  /\ Throw
  /\ UNCHANGED evaluators

EvaluateGroupError ==
  /\ ~compiling
  /\ Pending # {}
  /\ AllParse
  /\ parsed' = Len(definitions)
  /\ \E c \in Pending : GroupFails(c) /\ evaluators' = CompiledTo(c - 1, c)
  /\ compiling' = TRUE
  /\ Throw

Evaluate(t) ==
  /\ definitions # <<>>
  /\ \/ EvaluateWhileCompiling
     \/ EvaluateCompiled(t)
     \/ EvaluateCompiles(t)
     \/ EvaluateParseError
     \/ EvaluateGroupError
  /\ UNCHANGED <<definitions, uuids, changes>>

-----------------------------------------------------------------------------
(* The instants of the system *)

Init ==
  /\ now = 0
  /\ phase = "declare"
  /\ definitions = <<>>
  /\ uuids = <<>>
  /\ changes = <<>>
  /\ evaluators = <<>>
  /\ parsed = 0
  /\ compiling = FALSE
  /\ answer = Said("none", "true")

\* System::addDeclaration chooses the object by the first words of the text, so
\* only a replacement brings the text of another kind of object
Declare ==
  /\ phase = "declare"
  /\ \/ /\ "add" \in Operations
        /\ Len(definitions) < MaxDefinitions
        /\ \E id \in UUID \ DOMAIN uuids, text \in Texts \ {"other"} :
             AddEquation(id, text)
     \/ /\ "del" \in Operations
        /\ \E id \in UUID : Del(id)
     \/ /\ "repl" \in Operations
        /\ Len(definitions) < MaxDefinitions
        /\ \E id \in UUID, text \in Texts : Repl(id, text)
  /\ UNCHANGED <<now, phase>>

\* A context carries an instant at most the current one: @ refuses a later one
Demand ==
  /\ phase = "evaluate" \/ Interleaved
  /\ \E t \in -1..now : Evaluate(t)
  /\ UNCHANGED <<now, phase>>

StartEvaluation ==
  /\ phase = "declare"
  /\ phase' = "evaluate"
  /\ UNCHANGED <<now, definitions, uuids, changes, evaluators, parsed,
                 compiling, answer>>

\* System::go ends the instant
NextInstant ==
  /\ phase = "evaluate"
  /\ now < MaxTime
  /\ now' = now + 1
  /\ phase' = "declare"
  /\ UNCHANGED <<definitions, uuids, changes, evaluators, parsed, compiling,
                 answer>>

Next == Declare \/ Demand \/ StartEvaluation \/ NextInstant

Spec == Init /\ [][Next]_vars

-----------------------------------------------------------------------------
(* Correctness *)

\* Every variable has the type its declaration in tl/bestfit.hpp gives it, and
\* the counters and indices point into the vectors they index.
TypeOK ==
  /\ now \in Nat
  /\ phase \in {"declare", "evaluate"}
  /\ definitions \in Seq(Definition)
  /\ DOMAIN uuids \subseteq UUID
  /\ \A id \in DOMAIN uuids :
       uuids[id] \in Seq(1..Len(definitions)) /\ uuids[id] # <<>>
  /\ changes \in Seq(Nat)
  /\ evaluators \in Seq(Evaluator)
  /\ parsed \in 0..Len(definitions)
  /\ compiling \in BOOLEAN
  /\ answer.op \in {"none", "add", "del", "repl", "evaluate"}
  /\ answer.result \in Results
  /\ answer.time \in Int

\* The instants recorded by change() are strictly increasing, none in the future
ChangesOrdered ==
  /\ \A i \in 1..Len(changes) : changes[i] <= now
  /\ \A i, j \in 1..Len(changes) : i < j => changes[i] < changes[j]

\* The changes are in order, evaluator i is the one of change i, it ends just
\* before change i + 1, and only the last one may be open: the intervals leave
\* no gap and no overlap, also after a compilation that threw half way.
EvaluatorsTile ==
  /\ ChangesOrdered
  /\ Len(evaluators) <= Len(changes)
  /\ \A i \in 1..Len(evaluators) :
       /\ evaluators[i].start = changes[i]
       /\ i < Len(evaluators) => evaluators[i].end = changes[i + 1] - 1
  /\ evaluators # <<>> /\ ~compiling => Back(evaluators).end = Open

\* "this is guaranteed to find a match now": for every instant since the first
\* change, the linear and the binary search find the same evaluator, the one
\* whose interval holds the instant, and neither reads past the end.
SearchFinds ==
  evaluators # <<>> =>
    \A t \in evaluators[1].start..(Back(evaluators).start - 1) :
      /\ LinearSearch(evaluators, t) # NotFound
      /\ BinarySearch(evaluators, t) = LinearSearch(evaluators, t)
      /\ Holds(evaluators[Search(evaluators, t)], t)

\* No declaration goes unnoticed: the instant at which a definition starts or
\* ends is a recorded change, so that some evaluator begins there.
EveryChangeRecorded ==
  \A i \in 1..Len(definitions) :
    /\ \E c \in 1..Len(changes) : changes[c] = definitions[i].start
    /\ definitions[i].end # Open =>
         \E c \in 1..Len(changes) : changes[c] = definitions[i].end

\* "all the definitions in lines are guaranteed to have a parsed definition"
\* (equation.cpp): an evaluator is only ever built from definitions the parser
\* has accepted.
OnlyParsedCompiled ==
  \A e \in 1..Len(evaluators) :
    \A i \in evaluators[e].valid :
      i <= parsed /\ Parses(i)

\* One cannot change the past: once an earlier instant is covered by compiled
\* evaluators, no later declaration, evaluation or failure changes the
\* definitions an evaluation at that instant uses.
Covered(t) ==
  /\ evaluators # <<>>
  /\ t < now
  /\ \A c \in Pending : t < changes[c]

PastKept ==
  \A t \in 0..(now - 1) :
    Covered(t) => Returned(evaluators', t) = Returned(evaluators, t)

PastIsFixed == [][PastKept]_vars

\* A compilation that throws is final: the flag is set only by an evaluation
\* that threw, and no operation ever clears it, so that every later evaluation
\* of the object throws too.
FailedForGood ==
  [][/\ compiling => compiling'
     /\ compiling' /\ answer'.op = "evaluate" => answer'.result = "throw"
     /\ compiling' /\ ~compiling => answer'.result = "throw"]_vars

\* "look for everything that is valid at time" (compileInstant): a definition
\* that has been deleted or replaced takes part in no evaluator that starts at
\* or after its end.
DeletedStaysOut ==
  \A e \in 1..Len(evaluators) :
    \A i \in evaluators[e].valid :
      definitions[i].end = Open \/ evaluators[e].start < definitions[i].end

\* "look for everything that is valid at time": an evaluator has all the
\* definitions that were in force at its instant, whenever it is compiled.
ValidAreCompiled ==
  \A e \in 1..Len(evaluators) :
    \A i \in 1..Len(definitions) :
      /\ definitions[i].start <= evaluators[e].start
      /\ definitions[i].end = Open \/ evaluators[e].start < definitions[i].end
      /\ definitions[i].start < now
      => i \in evaluators[e].valid

\* "we can't replace if something has already been deleted", and only then: as
\* long as a definition with some uuid is open, del and repl accept that uuid.
OpenIsLive ==
  \A i \in 1..Len(definitions) :
    definitions[i].end = Open => Live(definitions[i].uuid)

\* "add in the extra definitions for that which has changed" (compile): an
\* evaluation in the current instant uses every definition added so far.
AddedAreUsed ==
  answer.op = "evaluate" /\ answer.result = "value" /\ answer.time = now
  => \A i \in 1..Len(definitions) :
       definitions[i].end = Open => i \in answer.valid

-----------------------------------------------------------------------------
(* Refinement: with additions only, each instant's before its evaluations *)

Intervals ==
  [i \in 1..Len(definitions) |->
     [uuid |-> definitions[i].uuid, start |-> definitions[i].start,
      end |-> definitions[i].end]]

Log == INSTANCE DefinitionLog WITH log <- Intervals

\* The group answers as the log does: parsing and compiling late, and searching
\* the evaluators, cannot be told from looking every definition up.
ImplementsLog == Log!LogSpec

=============================================================================
