------------------------- MODULE BestfitGroupProofs -------------------------
(***************************************************************************)
(* Theorems about BestfitGroup for every set of identifiers, every set of  *)
(* operations and every bound.                                             *)
(***************************************************************************)
EXTENDS BestfitGroup, TLAPS, WellFoundedInduction

-----------------------------------------------------------------------------
(* Facts about the helpers *)

\* change() records the current instant: a sequence of instants up to now that
\* is in order stays so, keeps its elements and then holds now.
LEMMA ChangeRecords ==
  ASSUME now \in Nat, changes \in Seq(Nat), ChangesOrdered
  PROVE  LET s == Change(changes, now) IN
         /\ s \in Seq(Nat)
         /\ Len(changes) <= Len(s)
         /\ \A i \in 1..Len(changes) : s[i] = changes[i]
         /\ \A i \in 1..Len(s) : s[i] <= now
         /\ \A i, j \in 1..Len(s) : i < j => s[i] < s[j]
         /\ \E i \in 1..Len(s) : s[i] = now
<1>1. CASE changes = <<>>
  BY <1>1 DEF Change
<1>2. CASE changes # <<>> /\ Back(changes) < now
  <2>1. Change(changes, now) = Append(changes, now)
    BY <1>2 DEF Change
  <2>2. \A i \in 1..Len(changes) : changes[i] < now
    <3>1. SUFFICES ASSUME NEW i \in 1..Len(changes)
                   PROVE  changes[i] < now
      OBVIOUS
    <3>2. CASE i = Len(changes)
      BY <1>2, <3>2 DEF Back
    <3>3. CASE i < Len(changes)
      BY <1>2, <3>3 DEF Back, ChangesOrdered
    <3> QED BY <3>2, <3>3
  <2> QED BY <2>1, <2>2 DEF ChangesOrdered
<1>3. CASE changes # <<>> /\ ~(Back(changes) < now)
  <2>1. Change(changes, now) = changes
    BY <1>3 DEF Change
  <2>2. Len(changes) \in 1..Len(changes)
    BY <1>3
  <2>3. changes[Len(changes)] = now
    BY <1>3, <2>2 DEF Back, ChangesOrdered
  <2> QED BY <2>1, <2>2, <2>3 DEF ChangesOrdered
<1> QED BY <1>1, <1>2, <1>3

\* compileInstant selects indices of m_definitions.
LEMMA CompileInstantIndices ==
  ASSUME definitions \in Seq(Definition), NEW time
  PROVE  CompileInstant(time) \subseteq 1..Len(definitions)
BY DEF CompileInstant

\* What compile leaves in m_evaluators, for any point at which it stops.
LEMMA CompiledToTiles ==
  ASSUME TypeOK, EvaluatorsTile,
         NEW pushed \in Nat, NEW begun \in Nat,
         pushed <= begun, begun <= Len(changes)
  PROVE  LET ev == CompiledTo(pushed, begun) IN
         /\ ev \in Seq(Evaluator)
         /\ Len(ev) = pushed
         /\ \A i \in 1..pushed :
              /\ ev[i].start = changes[i]
              /\ i < begun => ev[i].end = changes[i + 1] - 1
              /\ ~(i < begun) => ev[i].end = Open
<1> DEFINE ev == CompiledTo(pushed, begun)
<1>1. \A i \in 1..pushed : ev[i] \in Evaluator
  <2>1. SUFFICES ASSUME NEW i \in 1..pushed
                 PROVE  ev[i] \in Evaluator
    OBVIOUS
  <2>2. /\ changes[i] \in Nat
        /\ i < begun => changes[i + 1] - 1 \in Int
    BY DEF TypeOK
  <2>3. CompileInstant(changes[i]) \subseteq Nat
    BY CompileInstantIndices, <2>2 DEF TypeOK
  <2>4. ASSUME i <= Len(evaluators)
        PROVE  evaluators[i].valid \subseteq Nat
    <3>1. evaluators[i] \in Evaluator
      BY <2>4 DEF TypeOK
    <3> QED BY <3>1 DEF Evaluator
  <2> QED BY <2>2, <2>3, <2>4 DEF CompiledTo, Evaluator, Open
<1>2. ev = [i \in 1..pushed |-> ev[i]]
  BY DEF CompiledTo
<1>3. ev \in Seq(Evaluator) /\ Len(ev) = pushed
  BY <1>1, <1>2
<1> QED BY <1>3 DEF CompiledTo

-----------------------------------------------------------------------------
(* The inductive invariant *)

IInv == TypeOK /\ EvaluatorsTile

LEMMA InitEstablishes == Init => IInv
<1> SUFFICES ASSUME Init PROVE IInv
  OBVIOUS
<1>1. /\ Len(definitions) = 0 /\ Len(changes) = 0 /\ Len(evaluators) = 0
      /\ DOMAIN uuids = {}
  BY DEF Init
<1>2. TypeOK
  <2>1. /\ definitions \in Seq(Definition)
        /\ changes \in Seq(Nat)
        /\ evaluators \in Seq(Evaluator)
    BY DEF Init
  <2>2. /\ answer.op = "none"
        /\ answer.result = "true"
        /\ answer.time = 0
    BY DEF Init, Said
  <2>3. parsed \in 0..Len(definitions)
    BY <1>1 DEF Init
  <2>4. /\ now \in Nat
        /\ phase \in {"declare", "evaluate"}
        /\ compiling \in BOOLEAN
    BY DEF Init
  <2>5. /\ answer.op \in {"none", "add", "del", "repl", "evaluate"}
        /\ answer.result \in Results
        /\ answer.time \in Int
    BY <2>2 DEF Results
  <2>6. /\ DOMAIN uuids \subseteq UUID
        /\ \A id \in DOMAIN uuids :
             uuids[id] \in Seq(1..Len(definitions)) /\ uuids[id] # <<>>
    BY <1>1
  <2> QED BY <2>1, <2>3, <2>4, <2>5, <2>6 DEF TypeOK
<1>3. EvaluatorsTile
  BY <1>1 DEF Init, EvaluatorsTile, ChangesOrdered
<1> QED BY <1>2, <1>3 DEF IInv

\* A declaration leaves the evaluators alone and appends at most one change.
LEMMA ChangeTiles ==
  ASSUME IInv, changes' = Change(changes, now),
         UNCHANGED <<now, evaluators, compiling>>
  PROVE  changes' \in Seq(Nat) /\ EvaluatorsTile'
<1>1. now \in Nat /\ changes \in Seq(Nat) /\ ChangesOrdered
  BY DEF IInv, TypeOK, EvaluatorsTile
<1>2. /\ changes' \in Seq(Nat)
      /\ Len(changes) <= Len(changes')
      /\ \A i \in 1..Len(changes) : changes'[i] = changes[i]
      /\ ChangesOrdered'
  BY <1>1, ChangeRecords DEF ChangesOrdered
<1>3. Len(evaluators) \in Nat /\ Len(changes) \in Nat /\ Len(changes') \in Nat
  BY <1>1, <1>2 DEF IInv, TypeOK
<1>4. /\ Len(evaluators) <= Len(changes)
      /\ \A i \in 1..Len(evaluators) :
           /\ evaluators[i].start = changes[i]
           /\ i < Len(evaluators) => evaluators[i].end = changes[i + 1] - 1
      /\ evaluators # <<>> /\ ~compiling => Back(evaluators).end = Open
  BY DEF IInv, EvaluatorsTile
<1>5. \A i \in 1..Len(evaluators) :
        /\ evaluators[i].start = changes'[i]
        /\ i < Len(evaluators) => evaluators[i].end = changes'[i + 1] - 1
  <2>1. SUFFICES ASSUME NEW i \in 1..Len(evaluators)
                 PROVE  /\ evaluators[i].start = changes'[i]
                        /\ i < Len(evaluators) =>
                             evaluators[i].end = changes'[i + 1] - 1
    OBVIOUS
  <2>2. i \in 1..Len(changes)
    BY <1>3, <1>4
  <2>3. i < Len(evaluators) => i + 1 \in 1..Len(changes)
    BY <1>3, <1>4
  <2>4. evaluators[i].start = changes'[i]
    BY <1>2, <1>4, <2>2
  <2>5. ASSUME i < Len(evaluators)
        PROVE  evaluators[i].end = changes'[i + 1] - 1
    <3>1. changes'[i + 1] = changes[i + 1]
      BY <1>2, <2>3, <2>5
    <3> QED BY <1>4, <2>5, <3>1
  <2> QED BY <2>4, <2>5
<1>6. EvaluatorsTile'
  <2>1. evaluators' = evaluators /\ compiling' = compiling
    OBVIOUS
  <2>2. evaluators' # <<>> /\ ~compiling' => Back(evaluators').end = Open
    BY <1>4, <2>1
  <2>3. Len(evaluators') <= Len(changes')
    BY <1>2, <1>3, <1>4, <2>1
  <2> QED BY <1>2, <1>5, <2>1, <2>2, <2>3 DEF EvaluatorsTile
<1> QED BY <1>2, <1>6

LEMMA AddPreserves ==
  ASSUME IInv, NEW id \in UUID \ DOMAIN uuids, NEW text \in Texts,
         AddEquation(id, text), UNCHANGED <<now, phase>>
  PROVE  IInv'
<1>1. changes' \in Seq(Nat) /\ EvaluatorsTile'
  BY ChangeTiles DEF AddEquation
<1>2. NewDefinition(id, text) \in Definition
  BY DEF NewDefinition, Definition, IInv, TypeOK, Open
<1>3. /\ definitions' \in Seq(Definition)
      /\ Len(definitions') = Len(definitions) + 1
  BY <1>2 DEF AddEquation, IInv, TypeOK
<1>4. \A u \in DOMAIN uuids' :
        uuids'[u] \in Seq(1..Len(definitions')) /\ uuids'[u] # <<>>
  <2>1. SUFFICES ASSUME NEW u \in DOMAIN uuids'
                 PROVE  /\ uuids'[u] \in Seq(1..Len(definitions'))
                        /\ uuids'[u] # <<>>
    OBVIOUS
  <2>2. CASE u \in DOMAIN uuids
    <3>1. uuids'[u] = uuids[u]
      BY <2>2 DEF AddEquation, AddUUID
    <3>2. uuids[u] \in Seq(1..Len(definitions)) /\ uuids[u] # <<>>
      BY <2>2 DEF IInv, TypeOK
    <3> QED BY <1>3, <3>1, <3>2
  <2>3. CASE u \notin DOMAIN uuids
    <3>1. uuids'[u] = <<Len(definitions) + 1>>
      BY <2>3 DEF AddEquation, AddUUID
    <3>2. Len(definitions) + 1 \in 1..Len(definitions')
      BY <1>3 DEF IInv, TypeOK
    <3> QED BY <3>1, <3>2
  <2> QED BY <2>2, <2>3
<1>5. DOMAIN uuids' \subseteq UUID
  BY DEF AddEquation, AddUUID, IInv, TypeOK
<1> QED BY <1>1, <1>3, <1>4, <1>5
        DEF AddEquation, IInv, TypeOK, Said, Results

LEMMA EndedTyped ==
  ASSUME IInv, NEW id, Live(id)
  PROVE  /\ Ended(id) \in Seq(Definition)
         /\ Len(Ended(id)) = Len(definitions)
<1>1. Back(uuids[id]) \in 1..Len(definitions)
  BY DEF Live, IInv, TypeOK, Back
<1>2. definitions[Back(uuids[id])] \in Definition /\ now \in Nat
  BY <1>1 DEF IInv, TypeOK
<1>3. SetEnd(definitions[Back(uuids[id])], now) \in Definition
  BY <1>2 DEF SetEnd, Definition
<1> QED BY <1>1, <1>3 DEF Ended, IInv, TypeOK

LEMMA RefusePreserves ==
  ASSUME IInv, NEW op \in {"del", "repl"}, Refuse(op), UNCHANGED <<now, phase>>
  PROVE  IInv'
BY DEF Refuse, IInv, TypeOK, EvaluatorsTile, ChangesOrdered, Back, Said,
       Results

LEMMA DelPreserves ==
  ASSUME IInv, NEW id \in UUID, Del(id), UNCHANGED <<now, phase>>
  PROVE  IInv'
<1>1. CASE ~Live(id)
  BY <1>1, RefusePreserves DEF Del
<1>2. CASE Live(id)
  <2>1. changes' \in Seq(Nat) /\ EvaluatorsTile'
    BY <1>2, ChangeTiles DEF Del
  <2>2. definitions' \in Seq(Definition) /\ Len(definitions') = Len(definitions)
    BY <1>2, EndedTyped DEF Del
  <2> QED BY <1>2, <2>1, <2>2 DEF Del, IInv, TypeOK, Said, Results
<1> QED BY <1>1, <1>2

LEMMA ReplPreserves ==
  ASSUME IInv, NEW id \in UUID, NEW text \in Texts,
         Repl(id, text), UNCHANGED <<now, phase>>
  PROVE  IInv'
<1>1. CASE ~Live(id)
  BY <1>1, RefusePreserves DEF Repl
<1>2. CASE Live(id)
  <2>1. changes' \in Seq(Nat) /\ EvaluatorsTile'
    BY <1>2, ChangeTiles DEF Repl
  <2>2. NewDefinition(id, text) \in Definition
    BY DEF NewDefinition, Definition, IInv, TypeOK, Open
  <2>3. /\ definitions' \in Seq(Definition)
        /\ Len(definitions') = Len(definitions) + 1
    BY <1>2, <2>2, EndedTyped DEF Repl
  <2>4. \A u \in DOMAIN uuids :
          uuids[u] \in Seq(1..Len(definitions')) /\ uuids[u] # <<>>
    BY <2>3 DEF IInv, TypeOK
  <2> QED BY <1>2, <2>1, <2>3, <2>4 DEF Repl, IInv, TypeOK, Said, Results
<1> QED BY <1>1, <1>2

\* A compilation, finished or abandoned, leaves evaluators that tile.
LEMMA CompileTiles ==
  ASSUME IInv, NEW pushed \in Nat, NEW begun \in Nat,
         pushed <= begun, begun <= Len(changes),
         evaluators' = CompiledTo(pushed, begun),
         compiling' \/ pushed = begun,
         UNCHANGED <<now, changes>>
  PROVE  evaluators' \in Seq(Evaluator) /\ EvaluatorsTile'
<1>1. TypeOK /\ EvaluatorsTile
  BY DEF IInv
<1>2. /\ evaluators' \in Seq(Evaluator)
      /\ Len(evaluators') = pushed
      /\ \A i \in 1..pushed :
           /\ evaluators'[i].start = changes[i]
           /\ i < begun => evaluators'[i].end = changes[i + 1] - 1
           /\ ~(i < begun) => evaluators'[i].end = Open
  BY <1>1, CompiledToTiles
<1>3. ChangesOrdered'
  BY <1>1 DEF EvaluatorsTile, ChangesOrdered
<1>4. ASSUME evaluators' # <<>>, ~compiling'
      PROVE  Back(evaluators').end = Open
  <2>1. pushed \in 1..pushed /\ ~(pushed < begun)
    BY <1>2, <1>4
  <2> QED BY <1>2, <2>1 DEF Back
<1>5. \A i \in 1..Len(evaluators') :
        /\ evaluators'[i].start = changes'[i]
        /\ i < Len(evaluators') => evaluators'[i].end = changes'[i + 1] - 1
  <2>1. changes' = changes
    OBVIOUS
  <2> QED BY <1>2, <2>1
<1>6. Len(evaluators') <= Len(changes')
  BY <1>1, <1>2 DEF TypeOK
<1> QED BY <1>2, <1>3, <1>4, <1>5, <1>6 DEF EvaluatorsTile

LEMMA ReturnedTyped ==
  ASSUME NEW ev, NEW t \in Int
  PROVE  /\ Returned(ev, t).op = "evaluate"
         /\ Returned(ev, t).result \in Results
         /\ Returned(ev, t).time = t
BY DEF Returned, Results

LEMMA ThrowTyped ==
  ASSUME TypeOK, Throw
  PROVE  /\ answer'.op = "evaluate"
         /\ answer'.result = "throw"
         /\ answer'.time \in Int
BY DEF Throw, Said, TypeOK

LEMMA EvaluatePreserves ==
  ASSUME IInv, NEW t \in Int, Evaluate(t), UNCHANGED <<now, phase>>
  PROVE  IInv'
<1>1. TypeOK /\ EvaluatorsTile
  BY DEF IInv
<1>2. UNCHANGED <<definitions, uuids, changes>>
  BY DEF Evaluate
<1>3. /\ Len(changes) \in Nat
      /\ Len(evaluators) \in Nat
      /\ Len(definitions) \in Nat
      /\ Len(evaluators) <= Len(changes)
  BY <1>1 DEF TypeOK, EvaluatorsTile
<1>4. ASSUME evaluators' \in Seq(Evaluator), EvaluatorsTile',
             parsed' \in 0..Len(definitions), compiling' \in BOOLEAN,
             answer'.op = "evaluate", answer'.result \in Results,
             answer'.time \in Int
      PROVE  IInv'
  <2>1. /\ now' \in Nat
        /\ phase' \in {"declare", "evaluate"}
        /\ definitions' \in Seq(Definition)
        /\ changes' \in Seq(Nat)
        /\ DOMAIN uuids' \subseteq UUID
        /\ \A id \in DOMAIN uuids' :
             uuids'[id] \in Seq(1..Len(definitions')) /\ uuids'[id] # <<>>
    BY <1>1, <1>2 DEF TypeOK
  <2>2. parsed' \in 0..Len(definitions')
    BY <1>2, <1>4
  <2>3. answer'.op \in {"none", "add", "del", "repl", "evaluate"}
    BY <1>4
  <2> QED BY <1>4, <2>1, <2>2, <2>3 DEF IInv, TypeOK
<1>5. ASSUME UNCHANGED <<evaluators, compiling>>
      PROVE  evaluators' \in Seq(Evaluator) /\ EvaluatorsTile'
                /\ compiling' \in BOOLEAN
  BY <1>1, <1>2, <1>5 DEF TypeOK, EvaluatorsTile, ChangesOrdered, Back
<1>6. CASE EvaluateWhileCompiling
  <2>1. UNCHANGED <<evaluators, parsed, compiling>> /\ Throw
    BY <1>6 DEF EvaluateWhileCompiling
  <2>2. parsed' \in 0..Len(definitions)
    BY <1>1, <2>1 DEF TypeOK
  <2> QED BY <1>1, <1>4, <1>5, <2>1, <2>2, ThrowTyped DEF Results
<1>7. CASE EvaluateCompiled(t)
  <2>1. /\ UNCHANGED <<evaluators, parsed, compiling>>
        /\ answer' = Returned(evaluators, t)
    BY <1>7 DEF EvaluateCompiled
  <2>2. parsed' \in 0..Len(definitions)
    BY <1>1, <2>1 DEF TypeOK
  <2> QED BY <1>4, <1>5, <2>1, <2>2, ReturnedTyped
<1>8. CASE EvaluateCompiles(t)
  <2>1. /\ evaluators' = CompiledTo(Len(changes), Len(changes))
        /\ answer' = Returned(evaluators', t)
        /\ parsed' = Len(definitions)
        /\ compiling' = compiling
    BY <1>8 DEF EvaluateCompiles
  <2>2. evaluators' \in Seq(Evaluator) /\ EvaluatorsTile'
    BY <1>2, <1>3, <2>1, CompileTiles
  <2>3. parsed' \in 0..Len(definitions) /\ compiling' \in BOOLEAN
    BY <1>1, <1>3, <2>1 DEF TypeOK
  <2>4. /\ answer'.op = "evaluate"
        /\ answer'.result \in Results
        /\ answer'.time \in Int
    BY <2>1, ReturnedTyped
  <2> QED BY <1>4, <2>2, <2>3, <2>4
<1>9. CASE EvaluateParseError
  <2>1. evaluators' = evaluators /\ compiling' = TRUE /\ Throw
    BY <1>9 DEF EvaluateParseError
  <2>2. PICK i \in Unparsed : parsed' = i - 1
    BY <1>9 DEF EvaluateParseError, ParseFails
  <2>3. parsed' \in 0..Len(definitions)
    BY <1>1, <1>3, <2>2 DEF TypeOK, Unparsed
  <2>4. evaluators' \in Seq(Evaluator) /\ EvaluatorsTile'
    BY <1>1, <1>2, <2>1 DEF TypeOK, EvaluatorsTile, ChangesOrdered
  <2> QED BY <1>1, <1>4, <2>1, <2>3, <2>4, ThrowTyped DEF Results
<1>10. CASE EvaluateGroupError
  <2>1. parsed' = Len(definitions) /\ compiling' = TRUE /\ Throw
    BY <1>10 DEF EvaluateGroupError
  <2>2. PICK c \in Pending : evaluators' = CompiledTo(c - 1, c)
    BY <1>10 DEF EvaluateGroupError
  <2>3. /\ c - 1 \in Nat /\ c \in Nat
        /\ c - 1 <= c /\ c <= Len(changes)
    BY <1>3, <2>2 DEF Pending
  <2>4. evaluators' \in Seq(Evaluator) /\ EvaluatorsTile'
    BY <1>2, <2>1, <2>2, <2>3, CompileTiles
  <2>5. parsed' \in 0..Len(definitions)
    BY <1>3, <2>1
  <2> QED BY <1>1, <1>4, <2>1, <2>4, <2>5, ThrowTyped DEF Results
<1> QED BY <1>6, <1>7, <1>8, <1>9, <1>10 DEF Evaluate

\* Steps that declare and evaluate nothing: only the clock and the phase move.
LEMMA InstantPreserves ==
  ASSUME IInv, StartEvaluation \/ NextInstant \/ UNCHANGED vars
  PROVE  IInv'
<1>1. TypeOK /\ EvaluatorsTile
  BY DEF IInv
<1>2. UNCHANGED <<definitions, uuids, changes, evaluators, parsed, compiling,
                  answer>>
  BY DEF StartEvaluation, NextInstant, vars
<1>3. now' \in Nat /\ now <= now' /\ phase' \in {"declare", "evaluate"}
  BY <1>1 DEF StartEvaluation, NextInstant, vars, TypeOK
<1>4. ChangesOrdered'
  BY <1>1, <1>2, <1>3 DEF EvaluatorsTile, ChangesOrdered, TypeOK
<1>5. TypeOK'
  BY <1>1, <1>2, <1>3 DEF TypeOK
<1>6. EvaluatorsTile'
  BY <1>1, <1>2, <1>4 DEF EvaluatorsTile, Back
<1> QED BY <1>5, <1>6 DEF IInv

LEMMA NextPreserves == IInv /\ [Next]_vars => IInv'
<1> SUFFICES ASSUME IInv, [Next]_vars PROVE IInv'
  OBVIOUS
<1>1. CASE Declare
  <2>1. UNCHANGED <<now, phase>>
    BY <1>1 DEF Declare
  <2>2. ASSUME NEW id \in UUID \ DOMAIN uuids, NEW text \in Texts,
               AddEquation(id, text)
        PROVE  IInv'
    BY <2>1, <2>2, AddPreserves
  <2>3. ASSUME NEW id \in UUID, Del(id)
        PROVE  IInv'
    BY <2>1, <2>3, DelPreserves
  <2>4. ASSUME NEW id \in UUID, NEW text \in Texts, Repl(id, text)
        PROVE  IInv'
    BY <2>1, <2>4, ReplPreserves
  <2> QED BY <1>1, <2>2, <2>3, <2>4 DEF Declare
<1>2. CASE Demand
  <2>1. UNCHANGED <<now, phase>>
    BY <1>2 DEF Demand
  <2>2. PICK t \in -1..now : Evaluate(t)
    BY <1>2 DEF Demand
  <2>3. t \in Int
    BY <2>2 DEF IInv, TypeOK
  <2> QED BY <2>1, <2>2, <2>3, EvaluatePreserves
<1>3. CASE StartEvaluation \/ NextInstant \/ UNCHANGED vars
  BY <1>3, InstantPreserves
<1> QED BY <1>1, <1>2, <1>3 DEF Next

-----------------------------------------------------------------------------
(* No declaration goes unnoticed *)

\* The recorded changes survive a declaration, and the current instant is one
\* of them afterwards; so nothing that starts or ends now is missed.
LEMMA DeclarationRecorded ==
  ASSUME IInv, EveryChangeRecorded,
         changes' = Change(changes, now),
         Len(definitions') \in Nat,
         \A i \in 1..Len(definitions') :
           /\ \/ definitions'[i].start = now
              \/ /\ i \in 1..Len(definitions)
                 /\ definitions'[i].start = definitions[i].start
           /\ \/ definitions'[i].end \in {now, Open}
              \/ /\ i \in 1..Len(definitions)
                 /\ definitions'[i].end = definitions[i].end
  PROVE  EveryChangeRecorded'
<1>1. /\ Len(changes) <= Len(changes')
      /\ \A c \in 1..Len(changes) : changes'[c] = changes[c]
      /\ \E c \in 1..Len(changes') : changes'[c] = now
      /\ Len(changes) \in Nat /\ Len(changes') \in Nat
  <2>1. now \in Nat /\ changes \in Seq(Nat) /\ ChangesOrdered
    BY DEF IInv, TypeOK, EvaluatorsTile
  <2> QED BY <2>1, ChangeRecords
<1>2. ASSUME NEW time, \E c \in 1..Len(changes) : changes[c] = time
      PROVE  \E c \in 1..Len(changes') : changes'[c] = time
  <2>1. PICK c \in 1..Len(changes) : changes[c] = time
    BY <1>2
  <2>2. c \in 1..Len(changes') /\ changes'[c] = time
    BY <1>1, <2>1
  <2> QED BY <2>2
<1>3. ASSUME NEW i \in 1..Len(definitions')
      PROVE  /\ \E c \in 1..Len(changes') : changes'[c] = definitions'[i].start
             /\ definitions'[i].end # Open =>
                  \E c \in 1..Len(changes') : changes'[c] = definitions'[i].end
  <2>1. \E c \in 1..Len(changes') : changes'[c] = definitions'[i].start
    BY <1>1, <1>2 DEF EveryChangeRecorded
  <2>2. ASSUME definitions'[i].end # Open
        PROVE  \E c \in 1..Len(changes') : changes'[c] = definitions'[i].end
    BY <1>1, <1>2, <2>2 DEF EveryChangeRecorded
  <2> QED BY <2>1, <2>2
<1> QED BY <1>3 DEF EveryChangeRecorded

\* What a declaration leaves in m_definitions: the old definitions with the
\* same start and text, one of them perhaps ended now, and perhaps a new one.
LEMMA DeclarationKeeps ==
  ASSUME IInv, Declare, ~(UNCHANGED <<definitions, changes>>)
  PROVE  /\ changes' = Change(changes, now)
         /\ Len(definitions') \in Nat
         /\ Len(definitions) <= Len(definitions')
         /\ \A i \in 1..Len(definitions) :
              /\ definitions'[i].start = definitions[i].start
              /\ definitions'[i].text = definitions[i].text
              /\ definitions'[i].end \in {now, definitions[i].end}
         /\ \A i \in 1..Len(definitions') : i > Len(definitions) =>
              definitions'[i].start = now /\ definitions'[i].end = Open
<1> DEFINE Kept(s) ==
      /\ Len(definitions) = Len(s)
      /\ \A i \in 1..Len(definitions) :
           /\ s[i].start = definitions[i].start
           /\ s[i].text = definitions[i].text
           /\ s[i].end \in {now, definitions[i].end}
<1>1. definitions \in Seq(Definition) /\ Len(definitions) \in Nat
  BY DEF IInv, TypeOK
<1>2. ASSUME NEW id, Live(id)
      PROVE  Ended(id) \in Seq(Definition) /\ Kept(Ended(id))
  <2>1. Ended(id) \in Seq(Definition) /\ Len(Ended(id)) = Len(definitions)
    BY <1>2, EndedTyped
  <2>2. \A i \in 1..Len(definitions) :
          /\ Ended(id)[i].start = definitions[i].start
          /\ Ended(id)[i].text = definitions[i].text
          /\ Ended(id)[i].end \in {now, definitions[i].end}
    BY <1>1 DEF Ended, SetEnd
  <2> QED BY <2>1, <2>2
<1>3. CASE \E id \in UUID \ DOMAIN uuids, text \in Texts \ {"other"} :
             AddEquation(id, text)
  <2>1. PICK id \in UUID, text \in Texts : AddEquation(id, text)
    BY <1>3
  <2>2. /\ definitions' = Append(definitions, NewDefinition(id, text))
        /\ changes' = Change(changes, now)
    BY <2>1 DEF AddEquation
  <2> QED BY <1>1, <2>2 DEF NewDefinition
<1>4. CASE \E id \in UUID : Del(id)
  <2>1. PICK id \in UUID : Del(id)
    BY <1>4
  <2>2. Live(id)
    BY <2>1 DEF Del, Refuse
  <2>3. definitions' = Ended(id) /\ changes' = Change(changes, now)
    BY <2>1, <2>2 DEF Del
  <2> QED BY <1>1, <1>2, <2>2, <2>3
<1>5. CASE \E id \in UUID, text \in Texts : Repl(id, text)
  <2>1. PICK id \in UUID, text \in Texts : Repl(id, text)
    BY <1>5
  <2>2. Live(id)
    BY <2>1 DEF Repl, Refuse
  <2>3. /\ definitions' = Append(Ended(id), NewDefinition(id, text))
        /\ changes' = Change(changes, now)
    BY <2>1, <2>2 DEF Repl
  <2>4. Ended(id) \in Seq(Definition) /\ Kept(Ended(id))
    BY <1>2, <2>2
  <2> QED BY <1>1, <2>3, <2>4 DEF NewDefinition
<1> QED BY <1>3, <1>4, <1>5 DEF Declare

LEMMA RecordedPreserved ==
  IInv /\ EveryChangeRecorded /\ [Next]_vars => EveryChangeRecorded'
<1> SUFFICES ASSUME IInv, EveryChangeRecorded, [Next]_vars
             PROVE  EveryChangeRecorded'
  OBVIOUS
<1>1. CASE UNCHANGED <<definitions, changes>>
  BY <1>1 DEF EveryChangeRecorded
<1>2. CASE Declare /\ ~(UNCHANGED <<definitions, changes>>)
  <2>1. Len(definitions) \in Nat
    BY DEF IInv, TypeOK
  <2>2. \A i \in 1..Len(definitions') :
          i \in 1..Len(definitions) \/ i > Len(definitions)
    BY <2>1
  <2> QED BY <1>2, <2>2, DeclarationKeeps, DeclarationRecorded
<1>3. CASE Demand \/ StartEvaluation \/ NextInstant \/ UNCHANGED vars
  <2>1. UNCHANGED <<definitions, changes>>
    BY <1>3 DEF Demand, Evaluate, StartEvaluation, NextInstant, vars
  <2> QED BY <1>1, <2>1
<1> QED BY <1>1, <1>2, <1>3 DEF Next

-----------------------------------------------------------------------------
(* Only parsed definitions are compiled *)

\* The definitions counted by m_parsed have been accepted by the parser, and
\* they are the only ones evaluators are built from.
ParsedParse == \A i \in 1..parsed : Parses(i)

CompiledParsed ==
  \A e \in 1..Len(evaluators) : evaluators[e].valid \subseteq 1..parsed

PInv == ParsedParse /\ CompiledParsed

\* A compilation that got past the parser uses parsed definitions only.
LEMMA CompiledToParsed ==
  ASSUME IInv, PInv, AllParse, parsed' = Len(definitions),
         NEW pushed \in Nat, NEW begun \in Nat,
         evaluators' = CompiledTo(pushed, begun),
         definitions' = definitions
  PROVE  PInv'
<1>1. /\ definitions \in Seq(Definition) /\ Len(definitions) \in Nat
      /\ Len(evaluators) \in Nat
      /\ parsed \in 0..Len(definitions)
  BY DEF IInv, TypeOK
<1>2. ParsedParse'
  <2>1. SUFFICES ASSUME NEW i \in 1..Len(definitions)
                 PROVE  Parses(i)
    BY DEF ParsedParse, Parses
  <2>2. i \in 1..parsed \/ i \in Unparsed
    BY <1>1 DEF Unparsed
  <2> QED BY <2>2 DEF PInv, ParsedParse, AllParse
<1>3. CompiledParsed'
  <2>1. Len(evaluators') = pushed
    BY DEF CompiledTo
  <2>2. SUFFICES ASSUME NEW e \in 1..pushed
                 PROVE  evaluators'[e].valid \subseteq 1..Len(definitions)
    BY <2>1 DEF CompiledParsed
  <2>3. CASE e <= Len(evaluators)
    <3>1. evaluators'[e].valid = evaluators[e].valid
      BY <2>3 DEF CompiledTo
    <3>2. evaluators[e].valid \subseteq 1..parsed
      BY <1>1, <2>3 DEF PInv, CompiledParsed
    <3> QED BY <1>1, <3>1, <3>2
  <2>4. CASE ~(e <= Len(evaluators))
    <3>1. evaluators'[e].valid = CompileInstant(changes[e])
      BY <2>4 DEF CompiledTo
    <3> QED BY <1>1, <3>1, CompileInstantIndices
  <2> QED BY <2>3, <2>4
<1> QED BY <1>2, <1>3 DEF PInv

LEMMA ParsedPreserved == IInv /\ PInv /\ [Next]_vars => PInv'
<1> SUFFICES ASSUME IInv, PInv, [Next]_vars PROVE PInv'
  OBVIOUS
<1>1. CASE UNCHANGED <<definitions, evaluators, parsed>>
  BY <1>1 DEF PInv, ParsedParse, CompiledParsed, Parses
<1>2. CASE Declare
  <2>1. UNCHANGED <<evaluators, parsed>>
    BY <1>2 DEF Declare, AddEquation, Del, Repl, Refuse
  <2>2. CASE UNCHANGED <<definitions, changes>>
    BY <1>1, <2>1, <2>2
  <2>3. CASE ~(UNCHANGED <<definitions, changes>>)
    <3>1. parsed \in 0..Len(definitions) /\ Len(definitions) \in Nat
      BY DEF IInv, TypeOK
    <3>2. \A i \in 1..parsed : definitions'[i].text = definitions[i].text
      BY <1>2, <2>3, <3>1, DeclarationKeeps
    <3> QED BY <2>1, <3>2 DEF PInv, ParsedParse, CompiledParsed, Parses
  <2> QED BY <2>2, <2>3
<1>3. CASE Demand
  <2>1. PICK t \in -1..now : Evaluate(t)
    BY <1>3 DEF Demand
  <2>2. UNCHANGED <<definitions, changes>> /\ Len(changes) \in Nat
        /\ Len(evaluators) \in Nat /\ Len(definitions) \in Nat
        /\ parsed \in 0..Len(definitions)
    BY <2>1 DEF Evaluate, IInv, TypeOK
  <2>3. CASE EvaluateWhileCompiling \/ EvaluateCompiled(t)
    BY <1>1, <2>2, <2>3 DEF EvaluateWhileCompiling, EvaluateCompiled
  <2>4. CASE EvaluateCompiles(t)
    BY <2>2, <2>4, CompiledToParsed DEF EvaluateCompiles
  <2>5. CASE EvaluateParseError
    <3>1. PICK i \in Unparsed : ParseFails(i) /\ parsed' = i - 1
      BY <2>5 DEF EvaluateParseError, ParseFails
    <3>2. evaluators' = evaluators
      BY <2>5 DEF EvaluateParseError
    <3>3. parsed <= parsed' /\ parsed' \in Nat
      BY <2>2, <3>1 DEF Unparsed
    <3>4. ASSUME NEW j \in 1..parsed'
          PROVE  Parses(j)
      <4>1. j \in 1..parsed \/ (j \in Unparsed /\ j < i)
        BY <2>2, <3>1, <3>3, <3>4 DEF Unparsed
      <4> QED BY <3>1, <4>1 DEF PInv, ParsedParse, ParseFails
    <3>5. ParsedParse'
      BY <2>2, <3>4 DEF ParsedParse, Parses
    <3>6. CompiledParsed'
      <4>1. 1..parsed \subseteq 1..parsed'
        BY <2>2, <3>3
      <4> QED BY <3>2, <4>1 DEF PInv, CompiledParsed
    <3> QED BY <3>5, <3>6 DEF PInv
  <2>6. CASE EvaluateGroupError
    <3>1. PICK c \in Pending : evaluators' = CompiledTo(c - 1, c)
      BY <2>6 DEF EvaluateGroupError
    <3>2. c - 1 \in Nat /\ c \in Nat
      BY <2>2, <3>1 DEF Pending
    <3> QED BY <2>2, <2>6, <3>1, <3>2, CompiledToParsed
            DEF EvaluateGroupError
  <2> QED BY <2>1, <2>3, <2>4, <2>5, <2>6 DEF Evaluate
<1>4. CASE StartEvaluation \/ NextInstant \/ UNCHANGED vars
  BY <1>1, <1>4 DEF StartEvaluation, NextInstant, vars
<1> QED BY <1>2, <1>3, <1>4 DEF Next

-----------------------------------------------------------------------------
(* A failure is final *)

\* Once a compilation has thrown, no evaluation has answered with a value.
FailureAnswered ==
  compiling /\ answer.op = "evaluate" => answer.result = "throw"

FailureStep ==
  /\ compiling => compiling'
  /\ compiling' /\ answer'.op = "evaluate" => answer'.result = "throw"
  /\ compiling' /\ ~compiling => answer'.result = "throw"

LEMMA FailureKept ==
  ASSUME IInv, FailureAnswered, [Next]_vars
  PROVE  FailureStep
<1>1. CASE Declare
  <2>1. compiling' = compiling /\ answer'.op \in {"add", "del", "repl"}
    BY <1>1 DEF Declare, AddEquation, Del, Repl, Refuse, Said
  <2> QED BY <2>1 DEF FailureStep
<1>2. CASE Demand
  <2>1. PICK t \in -1..now : Evaluate(t)
    BY <1>2 DEF Demand
  <2>2. ASSUME Throw PROVE answer'.result = "throw"
    BY <2>2 DEF Throw, Said
  <2> QED BY <2>1, <2>2
          DEF Evaluate, EvaluateWhileCompiling, EvaluateCompiled,
              EvaluateCompiles, EvaluateParseError, EvaluateGroupError,
              FailureStep
<1>3. CASE StartEvaluation \/ NextInstant \/ UNCHANGED vars
  BY <1>3 DEF StartEvaluation, NextInstant, vars, FailureAnswered, FailureStep
<1> QED BY <1>1, <1>2, <1>3 DEF Next

-----------------------------------------------------------------------------
(* The theorems *)

\* Every reachable state of a group of definitions satisfies the inductive
\* invariant, whatever the operations, the failures and the bounds.
THEOREM Invariance == Spec => []IInv
BY InitEstablishes, NextPreserves, PTL DEF Spec

\* The vectors, indices and counters of the group are well formed in every
\* reachable state.
THEOREM TypeCorrect == Spec => []TypeOK
<1>1. IInv => TypeOK
  BY DEF IInv
<1> QED BY <1>1, Invariance, PTL

\* The compiled evaluators cover the instants since the first change without a
\* gap or an overlap, also after a compilation that threw.
THEOREM Tiling == Spec => []EvaluatorsTile
<1>1. IInv => EvaluatorsTile
  BY DEF IInv
<1> QED BY <1>1, Invariance, PTL

\* In every reachable state the instant at which any definition starts or ends
\* is a recorded change, whatever was declared and whatever threw.
THEOREM Recorded == Spec => []EveryChangeRecorded
<1>1. Init => EveryChangeRecorded
  <2>1. SUFFICES ASSUME Init PROVE EveryChangeRecorded
    OBVIOUS
  <2>2. Len(definitions) = 0
    BY <2>1 DEF Init
  <2> QED BY <2>2 DEF EveryChangeRecorded
<1> QED BY <1>1, RecordedPreserved, Invariance, PTL DEF Spec

\* No evaluator is ever built from a definition the parser has not accepted,
\* also when a parse error stops a compilation and the object is used again.
THEOREM ParsedOnly == Spec => []OnlyParsedCompiled
<1>1. Init => PInv
  <2>1. SUFFICES ASSUME Init PROVE PInv
    OBVIOUS
  <2>2. Len(evaluators) = 0 /\ parsed = 0
    BY <2>1 DEF Init
  <2> QED BY <2>2 DEF PInv, ParsedParse, CompiledParsed
<1>2. IInv /\ PInv => OnlyParsedCompiled
  <2>1. SUFFICES ASSUME IInv, PInv,
                        NEW e \in 1..Len(evaluators),
                        NEW i \in evaluators[e].valid
                 PROVE  i <= parsed /\ Parses(i)
    BY DEF OnlyParsedCompiled
  <2>2. i \in 1..parsed /\ parsed \in Nat
    BY <2>1 DEF PInv, CompiledParsed, IInv, TypeOK
  <2> QED BY <2>1, <2>2 DEF PInv, ParsedParse
<1> QED BY <1>1, <1>2, ParsedPreserved, Invariance, PTL DEF Spec

\* A compilation that throws is final: nothing ever clears m_compiling, and
\* every later evaluation of the object throws.
THEOREM FailureFinal == Spec => FailedForGood
<1>1. Init => FailureAnswered
  BY DEF Init, FailureAnswered
<1>2. IInv /\ FailureAnswered /\ [Next]_vars => FailureAnswered'
  BY FailureKept DEF FailureAnswered, FailureStep
<1>3. IInv /\ FailureAnswered /\ [Next]_vars => [FailureStep]_vars
  BY FailureKept
<1>4. Spec => [][FailureStep]_vars
  BY <1>1, <1>2, <1>3, Invariance, PTL DEF Spec
<1> QED BY <1>4 DEF FailedForGood, FailureStep

-----------------------------------------------------------------------------
(* The searches *)

LEMMA LeastOfNat ==
  ASSUME NEW S \in SUBSET Nat, S # {}
  PROVE  \E n \in S : \A m \in S : n <= m
<1>1. PICK n \in S : \A m \in S : ~(<<m, n>> \in OpToRel(<, Nat))
  BY NatLessThanWellFounded, WFMin, Zenon
<1>2. \A m \in S : ~(m < n)
  BY <1>1 DEF OpToRel
<1> QED BY <1>2

\* Evaluators as EvaluatorsTile has them, without the changes: they start in
\* order, and each but the last ends just before the next one starts.
InOrder(ev) ==
  /\ Len(ev) \in Nat
  /\ \A i \in 1..Len(ev) : ev[i].start \in Int
  /\ \A i, j \in 1..Len(ev) : i < j => ev[i].start < ev[j].start
  /\ \A i \in 1..Len(ev) : i < Len(ev) => ev[i].end = ev[i + 1].start - 1

\* Evaluator m is the one before the last whose interval holds t
Between(ev, t, m) ==
  m \in 1..Len(ev) /\ m < Len(ev) /\ ev[m].start <= t /\ t < ev[m + 1].start

\* There is one for every instant from the first start to before the last
LEMMA OneHolds ==
  ASSUME NEW ev, InOrder(ev), NEW t \in Int, Len(ev) # 0,
         ev[1].start <= t, t < Back(ev).start
  PROVE  \E m \in 1..Len(ev) : Between(ev, t, m)
<1> DEFINE S == {i \in 1..Len(ev) : t < ev[i].start}
<1>1. Len(ev) \in S /\ S \in SUBSET Nat
  BY DEF InOrder, Back
<1>2. PICK i \in S : \A j \in S : i <= j
  BY <1>1, LeastOfNat
<1>3. i \in 1..Len(ev) /\ t < ev[i].start /\ 1 \in 1..Len(ev)
  BY <1>1 DEF InOrder
<1>4. i # 1 /\ ev[1].start \in Int
  BY <1>3 DEF InOrder
<1>5. i - 1 \in 1..Len(ev) /\ i - 1 < Len(ev) /\ (i - 1) + 1 = i /\ ~(i <= i - 1)
  BY <1>3, <1>4 DEF InOrder
<1>6. ~(t < ev[i - 1].start) /\ ev[i - 1].start \in Int
  BY <1>2, <1>5 DEF InOrder
<1>7. ev[i - 1].start <= t
  BY <1>6
<1> QED BY <1>3, <1>5, <1>7 DEF Between

LEMMA OnlyItHolds ==
  ASSUME NEW ev, InOrder(ev), NEW t \in Int, NEW m, Between(ev, t, m)
  PROVE  \A i \in 1..Len(ev) :
           /\ Holds(ev[i], t) <=> i = m
           /\ i < m => ev[i].start <= t
           /\ i > m => t < ev[i].start
<1> TAKE i \in 1..Len(ev)
<1>1. /\ m \in 1..Len(ev) /\ m + 1 \in 1..Len(ev) /\ m < Len(ev) /\ Len(ev) \in Nat
      /\ ev[m].start <= t /\ t < ev[m + 1].start
      /\ ev[m].start \in Int /\ ev[m + 1].start \in Int /\ ev[i].start \in Int
      /\ ev[m].end = ev[m + 1].start - 1
  BY DEF InOrder, Between
<1>2. CASE i = m
  BY <1>1, <1>2 DEF Holds
<1>3. CASE i < m
  <2>1. i < Len(ev) /\ i + 1 \in 1..Len(ev) /\ (i + 1 < m \/ i + 1 = m)
    BY <1>1, <1>3
  <2>2. /\ ev[i].end = ev[i + 1].start - 1 /\ ev[i + 1].start \in Int
        /\ ev[i].start < ev[m].start
        /\ ev[i + 1].start <= ev[m].start
    BY <1>1, <1>3, <2>1 DEF InOrder
  <2> QED BY <1>1, <1>3, <2>2 DEF Holds
<1>4. CASE i > m
  <2>1. i = m + 1 \/ m + 1 < i
    BY <1>1, <1>4
  <2>2. ev[m + 1].start <= ev[i].start
    BY <1>1, <2>1 DEF InOrder
  <2> QED BY <1>1, <1>4, <2>2 DEF Holds
<1> QED BY <1>1, <1>2, <1>3, <1>4

LEMMA LinearFinds ==
  ASSUME NEW ev, InOrder(ev), NEW t \in Int, NEW m, Between(ev, t, m)
  PROVE  LinearSearch(ev, t) = m
<1>1. m \in 1..Len(ev) /\ {i \in 1..Len(ev) : Holds(ev[i], t)} = {m}
  BY OnlyItHolds DEF Between
<1> QED BY <1>1 DEF LinearSearch, InOrder

\* One round of the binary search, given what the rounds after it find
Probe(ev, t, found, begin, end) ==
  LET current == begin + ((end - begin) \div 2)
  IN  IF begin >= end THEN NotFound
      ELSE IF Holds(ev[current], t) THEN current
      ELSE IF t < ev[current].start THEN found[<<begin, current>>]
      ELSE found[<<current + 1, end>>]

Ends(ev) == 1..(Len(ev) + 1)

Round(ev, t, found) ==
  [range \in Ends(ev) \X Ends(ev) |-> Probe(ev, t, found, range[1], range[2])]

\* The rounds for begin and end find m if it is between them
Found(m, begin, end) == IF begin <= m /\ m < end THEN m ELSE NotFound

Finds(ev, m) == [range \in Ends(ev) \X Ends(ev) |-> Found(m, range[1], range[2])]

LEMMA MiddleIs ==
  ASSUME NEW b \in Int, NEW e \in Int, b < e
  PROVE  /\ b + ((e - b) \div 2) \in Int
         /\ b <= b + ((e - b) \div 2) /\ b + ((e - b) \div 2) < e
OBVIOUS

LEMMA PairIn ==
  ASSUME NEW D, NEW b \in D, NEW e \in D
  PROVE  <<b, e>> \in D \X D /\ <<b, e>>[1] = b /\ <<b, e>>[2] = e
OBVIOUS

\* A function of ranges that finds m in every smaller range finds it in this one
LEMMA ProbeFinds ==
  ASSUME NEW ev, InOrder(ev), NEW t \in Int, NEW m, Between(ev, t, m),
         NEW f, NEW b \in Ends(ev), NEW e \in Ends(ev),
         \A x, y \in Ends(ev) : y - x < e - b => f[<<x, y>>] = Found(m, x, y)
  PROVE  Probe(ev, t, f, b, e) = Found(m, b, e)
<1> DEFINE n == Len(ev)
           c == b + ((e - b) \div 2)
<1>1. n \in Nat /\ m \in 1..n /\ b \in 1..(n + 1) /\ e \in 1..(n + 1)
  BY DEF InOrder, Between, Ends
<1>2. Probe(ev, t, f, b, e) =
        IF b >= e THEN NotFound
        ELSE IF Holds(ev[c], t) THEN c
        ELSE IF t < ev[c].start THEN f[<<b, c>>]
        ELSE f[<<c + 1, e>>]
  BY DEF Probe
<1>3. CASE b >= e
  BY <1>1, <1>2, <1>3 DEF Found
<1>4. CASE b < e
  <2>1. c \in Int /\ b <= c /\ c < e
    BY <1>1, <1>4, MiddleIs
  <2> HIDE DEF c
  <2>2. c \in 1..n /\ c \in Ends(ev) /\ c + 1 \in Ends(ev)
    BY <1>1, <2>1 DEF Ends
  <2>3. /\ Holds(ev[c], t) <=> c = m
        /\ c < m => ev[c].start <= t
        /\ c > m => t < ev[c].start
        /\ ev[c].start \in Int
    BY <2>2, OnlyItHolds DEF InOrder
  <2>4. CASE c = m
    BY <1>1, <1>2, <1>4, <2>1, <2>3, <2>4 DEF Found
  <2>5. CASE c < m
    <3>1. e - (c + 1) < e - b
      BY <1>1, <2>1
    <3>2. f[<<c + 1, e>>] = Found(m, c + 1, e)
      BY <2>2, <3>1
    <3>3. Found(m, c + 1, e) = Found(m, b, e)
      BY <1>1, <2>1, <2>5 DEF Found
    <3>4. ~Holds(ev[c], t) /\ ~(t < ev[c].start) /\ ~(b >= e)
      BY <1>1, <1>4, <2>1, <2>3, <2>5
    <3> QED BY <1>2, <3>2, <3>3, <3>4
  <2>6. CASE c > m
    <3>1. c - b < e - b
      BY <1>1, <2>1
    <3>2. f[<<b, c>>] = Found(m, b, c)
      BY <2>2, <3>1
    <3>3. Found(m, b, c) = Found(m, b, e)
      BY <1>1, <2>1, <2>6 DEF Found
    <3>4. ~Holds(ev[c], t) /\ t < ev[c].start /\ ~(b >= e)
      BY <1>1, <1>4, <2>1, <2>3, <2>6
    <3> QED BY <1>2, <3>2, <3>3, <3>4
  <2> QED BY <1>1, <2>1, <2>4, <2>5, <2>6
<1> QED BY <1>1, <1>3, <1>4

\* So the recursion of the search has a solution
LEMMA FindsIsFixed ==
  ASSUME NEW ev, InOrder(ev), NEW t \in Int, NEW m, Between(ev, t, m)
  PROVE  Finds(ev, m) = Round(ev, t, Finds(ev, m))
<1> DEFINE D == Ends(ev)
           f == Finds(ev, m)
<1>1. ASSUME NEW x \in D, NEW y \in D
      PROVE  f[<<x, y>>] = Found(m, x, y)
  <2>1. <<x, y>> \in D \X D /\ <<x, y>>[1] = x /\ <<x, y>>[2] = y
    BY PairIn
  <2> QED BY <2>1, Zenon DEF Finds
<1> HIDE DEF f
<1>2. ASSUME NEW r \in D \X D
      PROVE  Probe(ev, t, f, r[1], r[2]) = Found(m, r[1], r[2])
  <2>1. r[1] \in D /\ r[2] \in D
    OBVIOUS
  <2> QED BY <1>1, <2>1, ProbeFinds
<1>3. [r \in D \X D |-> Probe(ev, t, f, r[1], r[2])]
        = [r \in D \X D |-> Found(m, r[1], r[2])]
  BY <1>2, Zenon
<1> QED BY <1>3 DEF Finds, Round, f

\* and it is the only one
LEMMA BinaryFinds ==
  ASSUME NEW ev, InOrder(ev), NEW t \in Int, NEW m, Between(ev, t, m)
  PROVE  BinarySearch(ev, t) = m
<1> DEFINE n == Len(ev)
           D == Ends(ev)
           f == CHOOSE g : g = Round(ev, t, g)
<1>1. n \in Nat /\ m \in 1..n /\ m < n
  BY DEF InOrder, Between
<1>2. f = Round(ev, t, f)
  BY FindsIsFixed, Zenon
<1>3. BinarySearch(ev, t) = f[<<1, n>>]
  BY Zenon DEF BinarySearch, Round, Probe, Ends
<1> HIDE DEF f
<1>4. ASSUME NEW b \in D, NEW e \in D
      PROVE  f[<<b, e>>] = Probe(ev, t, f, b, e)
  <2>1. <<b, e>> \in D \X D /\ <<b, e>>[1] = b /\ <<b, e>>[2] = e
    BY PairIn
  <2>2. Round(ev, t, f)[<<b, e>>] = Probe(ev, t, f, b, e)
    BY <2>1, Zenon DEF Round
  <2> QED BY <1>2, <2>2
<1>5. \A b, e \in D : f[<<b, e>>] = Found(m, b, e)
  <2> DEFINE Size(b, e) == (e - b) + (n + 1)
             Wrong == {s \in 0..(2 * (n + 1)) : \E b, e \in D :
                         s = Size(b, e) /\ f[<<b, e>>] # Found(m, b, e)}
  <2>1. \A b, e \in D : b \in Int /\ e \in Int /\ Size(b, e) \in 0..(2 * (n + 1))
    BY <1>1 DEF Ends
  <2>2. CASE Wrong = {}
    BY <2>1, <2>2
  <2>3. CASE Wrong # {}
    <3>1. Wrong \in SUBSET Nat
      BY <1>1
    <3>2. PICK s \in Wrong : \A r \in Wrong : s <= r
      BY <2>3, <3>1, LeastOfNat
    <3>3. PICK b \in D, e \in D : s = Size(b, e) /\ f[<<b, e>>] # Found(m, b, e)
      BY <3>2
    <3>4. ASSUME NEW x \in D, NEW y \in D, y - x < e - b
          PROVE  f[<<x, y>>] = Found(m, x, y)
      <4>0. x \in Int /\ y \in Int /\ b \in Int /\ e \in Int /\ n \in Int
        BY <1>1, <2>1
      <4>1. Size(x, y) \in 0..(2 * (n + 1)) /\ ~(s <= Size(x, y))
        <5>1. (y - x) + (n + 1) < (e - b) + (n + 1)
          BY <3>4, <4>0
        <5>2. Size(x, y) \in 0..(2 * (n + 1))
          BY <2>1
        <5> QED BY <3>3, <4>0, <5>1, <5>2
      <4>2. Size(x, y) \notin Wrong
        BY <3>2, <4>1
      <4> QED BY <4>1, <4>2
    <3>5. Probe(ev, t, f, b, e) = Found(m, b, e)
      <4>1. b \in Ends(ev) /\ e \in Ends(ev)
        OBVIOUS
      <4>2. \A x, y \in Ends(ev) : y - x < e - b => f[<<x, y>>] = Found(m, x, y)
        BY <3>4, Zenon
      <4> HIDE DEF D
      <4> QED BY <4>1, <4>2, ProbeFinds
    <3> QED BY <1>4, <3>3, <3>5
  <2> QED BY <2>2, <2>3
<1>6. 1 \in D /\ n \in D /\ Found(m, 1, n) = m
  BY <1>1 DEF Ends, Found
<1> QED BY <1>3, <1>5, <1>6

LEMMA SearchIs ==
  ASSUME NEW ev, InOrder(ev), NEW t \in Int, NEW m, Between(ev, t, m)
  PROVE  Search(ev, t) = m
BY LinearFinds, BinaryFinds DEF Search

LEMMA Lengths ==
  ASSUME IInv
  PROVE  /\ TypeOK /\ EvaluatorsTile
         /\ now \in Nat /\ Len(definitions) \in Nat
         /\ Len(changes) \in Nat /\ Len(evaluators) \in Nat
         /\ Len(evaluators) <= Len(changes)
         /\ evaluators # <<>> <=> Len(evaluators) # 0
<1>1. TypeOK /\ EvaluatorsTile
  BY DEF IInv
<1>2. /\ definitions \in Seq(Definition) /\ changes \in Seq(Nat)
      /\ evaluators \in Seq(Evaluator) /\ now \in Nat
  BY <1>1 DEF TypeOK
<1>3. Len(evaluators) <= Len(changes)
  BY <1>1 DEF EvaluatorsTile
<1> QED BY <1>1, <1>2, <1>3

LEMMA TilesInOrder ==
  ASSUME IInv
  PROVE  InOrder(evaluators)
<1>1. /\ Len(evaluators) \in Nat /\ Len(changes) \in Nat
      /\ Len(evaluators) <= Len(changes)
      /\ \A i \in 1..Len(changes) : changes[i] \in Int
      /\ \A i, j \in 1..Len(changes) : i < j => changes[i] < changes[j]
      /\ \A i \in 1..Len(evaluators) :
           /\ evaluators[i].start = changes[i]
           /\ i < Len(evaluators) => evaluators[i].end = changes[i + 1] - 1
  BY DEF IInv, TypeOK, EvaluatorsTile, ChangesOrdered
<1>2. \A i \in 1..Len(evaluators) :
        /\ i \in 1..Len(changes)
        /\ i < Len(evaluators) => i + 1 \in 1..Len(evaluators)
  BY <1>1
<1> QED BY <1>1, <1>2 DEF InOrder

-----------------------------------------------------------------------------
(* The past *)

\* Which evaluator an evaluation chooses
LEMMA ChosenIs ==
  ASSUME NEW ev, InOrder(ev), Len(ev) # 0, NEW t \in Int
  PROVE  /\ t < ev[1].start => Chosen(ev, t) = NotFound
         /\ \A m : Between(ev, t, m) => Chosen(ev, t) = m
         /\ t >= Back(ev).start /\ (Back(ev).end = Open \/ t <= Back(ev).end)
              => Chosen(ev, t) = Len(ev)
<1>1. /\ Len(ev) \in 1..Len(ev) /\ 1 \in 1..Len(ev) /\ Len(ev) \in Nat
      /\ Back(ev).start = ev[Len(ev)].start
      /\ Back(ev).start \in Int /\ ev[1].start \in Int
      /\ Len(ev) # 1 => ev[1].start < Back(ev).start
  <2>1. Len(ev) \in 1..Len(ev) /\ 1 \in 1..Len(ev) /\ Len(ev) \in Nat
    BY DEF InOrder
  <2>2. Back(ev).start = ev[Len(ev)].start
    BY DEF Back
  <2>3. ev[Len(ev)].start \in Int /\ ev[1].start \in Int
    BY <2>1 DEF InOrder
  <2>4. ASSUME Len(ev) # 1
        PROVE  ev[1].start < ev[Len(ev)].start
    <3>1. 1 < Len(ev)
      <4>1. \A n \in Nat : 1 \in 1..n /\ n # 1 => 1 < n
        OBVIOUS
      <4> QED BY <2>1, <2>4, <4>1
    <3> QED BY <2>1, <3>1 DEF InOrder
  <2> QED BY <2>1, <2>2, <2>3, <2>4
<1>2. ASSUME t < ev[1].start
      PROVE  Chosen(ev, t) = NotFound
  <2>1. ~(t >= Back(ev).start)
    BY <1>1, <1>2
  <2> QED BY <1>2, <2>1 DEF Chosen
<1>3. ASSUME NEW m, Between(ev, t, m)
      PROVE  Chosen(ev, t) = m
  <2>1. t < Back(ev).start
    <3>1. m \in 1..Len(ev) /\ m < Len(ev)
      BY <1>3 DEF Between
    <3> QED BY <1>1, <1>3, <3>1, OnlyItHolds
  <2>2. ~(t < ev[1].start)
    <3>1. 1 <= m /\ m \in 1..Len(ev) /\ ev[m].start <= t /\ ev[m].start \in Int
      BY <1>1, <1>3 DEF Between, InOrder
    <3>2. 1 < m \/ 1 = m
      BY <3>1
    <3>3. ev[1].start <= t
      BY <1>1, <1>3, <3>1, <3>2, OnlyItHolds
    <3> QED BY <1>1, <3>3
  <2>3. Search(ev, t) = m
    BY <1>3, SearchIs
  <2>4. ~(t >= Back(ev).start) /\ ~(t > Back(ev).start)
    BY <1>1, <2>1
  <2> QED BY <2>2, <2>3, <2>4 DEF Chosen
<1>4. t >= Back(ev).start /\ (Back(ev).end = Open \/ t <= Back(ev).end)
        => Chosen(ev, t) = Len(ev)
  BY DEF Chosen
<1> QED BY <1>2, <1>3, <1>4

\* ew goes on where ev ends
Continues(ew, ev) ==
  /\ Len(ev) <= Len(ew)
  /\ \A i \in 1..Len(ev) : ew[i].start = ev[i].start /\ ew[i].valid = ev[i].valid

LEMMA ContinuedSame ==
  ASSUME NEW ev, InOrder(ev), Len(ev) # 0, Back(ev).end = Open,
         NEW ew, InOrder(ew), Continues(ew, ev), NEW t \in Int,
         Len(ew) > Len(ev) => t < ew[Len(ev) + 1].start,
         Len(ew) = Len(ev) => Back(ew).end = Open \/ t <= Back(ew).end
  PROVE  Returned(ew, t) = Returned(ev, t)
<1> DEFINE n == Len(ev)
<1>0. n \in Nat /\ n # 0 /\ Len(ew) \in Nat /\ n <= Len(ew)
  BY DEF InOrder, Continues
<1>1. /\ n \in Nat /\ n # 0 /\ Len(ew) \in Nat /\ n <= Len(ew) /\ Len(ew) # 0
      /\ 1 \in 1..n /\ n \in 1..n
      /\ ev[1].start \in Int /\ ev[n].start \in Int /\ Back(ev).start = ev[n].start
      /\ \A i \in 1..n : i \in 1..Len(ew) /\ ew[i].start = ev[i].start
                         /\ ew[i].valid = ev[i].valid
  <2>1. /\ 1 \in 1..n /\ n \in 1..n /\ Len(ew) # 0
        /\ \A i \in 1..n : i \in 1..Len(ew)
    BY <1>0
  <2>2. ev[1].start \in Int /\ ev[n].start \in Int
    BY <2>1 DEF InOrder
  <2> QED BY <1>0, <2>1, <2>2 DEF Continues, Back
<1>2. Chosen(ew, t) = Chosen(ev, t) /\ Chosen(ev, t) \in 0..n
  <2>1. CASE t < ev[1].start
    BY <1>1, <2>1, ChosenIs DEF NotFound
  <2>2. CASE ev[1].start <= t /\ t < ev[n].start
    <3>1. PICK m \in 1..n : Between(ev, t, m)
      BY <1>1, <2>2, OneHolds
    <3>2. m \in 1..n /\ m + 1 \in 1..n /\ m < n
      BY <1>1, <3>1 DEF Between
    <3>3. Between(ew, t, m)
      BY <1>1, <3>1, <3>2 DEF Between
    <3>4. Chosen(ew, t) = m
      BY <1>1, <3>3, ChosenIs
    <3>5. Chosen(ev, t) = m
      BY <1>1, <3>1, ChosenIs
    <3> QED BY <1>1, <3>2, <3>4, <3>5
  <2>3. CASE t >= ev[n].start
    <3>1. Chosen(ev, t) = n
      BY <1>1, <2>3, ChosenIs
    <3>2. CASE Len(ew) > n
      <4>1. Between(ew, t, n)
        BY <1>1, <2>3, <3>2 DEF Between
      <4>2. Chosen(ew, t) = n
        BY <1>1, <4>1, ChosenIs
      <4> QED BY <1>1, <3>1, <4>2
    <3>3. CASE Len(ew) = n
      <4>1. t >= Back(ew).start
        BY <1>1, <2>3, <3>3 DEF Back
      <4>2. Chosen(ew, t) = Len(ew)
        BY <1>1, <3>3, <4>1, ChosenIs
      <4> QED BY <1>1, <3>1, <3>3, <4>2
    <3> QED BY <1>1, <3>2, <3>3
  <2> QED BY <1>1, <2>1, <2>2, <2>3
<1>3. Chosen(ev, t) # NotFound => ew[Chosen(ev, t)].valid = ev[Chosen(ev, t)].valid
  BY <1>1, <1>2 DEF NotFound
<1> QED BY <1>2, <1>3 DEF Returned

\* A compilation that gets past the parser, finished or not
LEMMA CompileKeepsPast ==
  ASSUME IInv, IInv', ~compiling, Pending # {},
         NEW pushed \in Nat, NEW begun \in Nat,
         Len(evaluators) <= pushed, Len(evaluators) < begun,
         pushed <= begun, begun <= Len(changes), begun <= pushed + 1,
         evaluators' = CompiledTo(pushed, begun)
  PROVE  PastKept
<1> SUFFICES ASSUME NEW t \in 0..(now - 1), Covered(t)
             PROVE  Returned(evaluators', t) = Returned(evaluators, t)
  BY DEF PastKept
<1> DEFINE ew == CompiledTo(pushed, begun)
           n == Len(evaluators)
<1>1. /\ TypeOK /\ EvaluatorsTile /\ InOrder(evaluators) /\ InOrder(evaluators')
      /\ n \in Nat /\ Len(changes) \in Nat /\ now \in Nat /\ evaluators # <<>>
      /\ n # 0 /\ Back(evaluators).end = Open
  <2>1. InOrder(evaluators)
    BY TilesInOrder
  <2>2. InOrder(evaluators)'
    BY TilesInOrder, PTL
  <2>3. InOrder(evaluators')
    BY <2>2
  <2>4. evaluators # <<>>
    BY DEF Covered
  <2>5. Back(evaluators).end = Open
    BY <2>4 DEF IInv, EvaluatorsTile
  <2> QED BY <2>1, <2>3, <2>4, <2>5, Lengths
<1>2. /\ Len(ew) = pushed
      /\ \A i \in 1..pushed :
           /\ ew[i].start = changes[i]
           /\ i < begun => ew[i].end = changes[i + 1] - 1
           /\ ~(i < begun) => ew[i].end = Open
  BY <1>1, CompiledToTiles
<1>3. \A i \in 1..n : ew[i].valid = evaluators[i].valid
  BY <1>1 DEF CompiledTo
<1> HIDE DEF ew
<1>4. Continues(ew, evaluators)
  <2>1. \A i \in 1..n : i \in 1..pushed /\ evaluators[i].start = changes[i]
    BY <1>1 DEF EvaluatorsTile
  <2> QED BY <1>2, <1>3, <2>1 DEF Continues
<1>5. n + 1 \in Pending
  BY <1>1 DEF Pending
<1>6. t < changes[n + 1] /\ t \in Int /\ changes[n + 1] \in Int
  BY <1>1, <1>5 DEF Covered, TypeOK, Pending
<1>7. Len(ew) > n => t < ew[n + 1].start
  BY <1>1, <1>2, <1>6
<1>8. Len(ew) = n => t <= Back(ew).end
  <2>1. ASSUME Len(ew) = n
        PROVE  Back(ew).end = changes[n + 1] - 1
    BY <1>1, <1>2, <2>1 DEF Back
  <2> QED BY <1>6, <2>1
<1> QED BY <1>1, <1>4, <1>6, <1>7, <1>8, ContinuedSame DEF ew

LEMMA PastStep == IInv /\ IInv' /\ [Next]_vars => PastKept
<1> SUFFICES ASSUME IInv, IInv', [Next]_vars PROVE PastKept
  OBVIOUS
<1>1. CASE evaluators' = evaluators
  BY <1>1 DEF PastKept
<1>2. CASE Declare \/ StartEvaluation \/ NextInstant \/ UNCHANGED vars
  BY <1>1, <1>2
    DEF Declare, AddEquation, Del, Repl, Refuse, StartEvaluation, NextInstant, vars
<1>3. CASE Demand
  <2>1. PICK t \in -1..now : Evaluate(t)
    BY <1>3 DEF Demand
  <2>2. /\ Len(changes) \in Nat /\ Len(evaluators) \in Nat
        /\ Len(evaluators) <= Len(changes)
    BY Lengths
  <2>3. CASE EvaluateWhileCompiling \/ EvaluateCompiled(t) \/ EvaluateParseError
    BY <1>1, <2>3 DEF EvaluateWhileCompiling, EvaluateCompiled, EvaluateParseError
  <2>4. CASE EvaluateCompiles(t)
    <3>1. /\ ~compiling /\ Pending # {}
          /\ evaluators' = CompiledTo(Len(changes), Len(changes))
      BY <2>4 DEF EvaluateCompiles
    <3>2. Len(evaluators) < Len(changes)
      BY <2>2, <3>1 DEF Pending
    <3> QED BY <2>2, <3>1, <3>2, CompileKeepsPast
  <2>5. CASE EvaluateGroupError
    <3>1. ~compiling /\ Pending # {}
      BY <2>5 DEF EvaluateGroupError
    <3>2. PICK c \in Pending : evaluators' = CompiledTo(c - 1, c)
      BY <2>5 DEF EvaluateGroupError
    <3>3. /\ c - 1 \in Nat /\ c \in Nat /\ Len(evaluators) <= c - 1
          /\ Len(evaluators) < c /\ c - 1 <= c /\ c <= Len(changes)
          /\ c <= (c - 1) + 1
      BY <2>2, <3>2 DEF Pending
    <3> QED BY <3>1, <3>2, <3>3, CompileKeepsPast
  <2> QED BY <2>1, <2>3, <2>4, <2>5 DEF Evaluate
<1> QED BY <1>2, <1>3 DEF Next

\* "this is guaranteed to find a match now": for every number of evaluators
\* the binary search ends, within the vector, at the one whose interval holds
\* the instant, and so does the linear search that is used for few of them.
THEOREM SearchesAgree == Spec => []SearchFinds
<1>1. IInv => SearchFinds
  <2> SUFFICES ASSUME IInv, evaluators # <<>>,
                      NEW t \in evaluators[1].start..(Back(evaluators).start - 1)
               PROVE  /\ LinearSearch(evaluators, t) # NotFound
                      /\ BinarySearch(evaluators, t) = LinearSearch(evaluators, t)
                      /\ Holds(evaluators[Search(evaluators, t)], t)
    BY DEF SearchFinds
  <2>1. InOrder(evaluators) /\ Len(evaluators) # 0
    BY TilesInOrder DEF IInv, TypeOK
  <2>2. /\ evaluators[1].start \in Int /\ Back(evaluators).start \in Int
        /\ Len(evaluators) \in Nat
    BY <2>1 DEF InOrder, Back
  <2>3. t \in Int /\ evaluators[1].start <= t /\ t < Back(evaluators).start
    BY <2>2
  <2>4. PICK m \in 1..Len(evaluators) : Between(evaluators, t, m)
    BY <2>1, <2>3, OneHolds
  <2>5. /\ LinearSearch(evaluators, t) = m /\ BinarySearch(evaluators, t) = m
        /\ Search(evaluators, t) = m /\ m # NotFound
    BY <2>1, <2>2, <2>3, <2>4, LinearFinds, BinaryFinds, SearchIs DEF NotFound
  <2>6. Holds(evaluators[m], t)
    BY <2>1, <2>3, <2>4, OnlyItHolds
  <2> QED BY <2>5, <2>6
<1> QED BY <1>1, Invariance, PTL

\* One cannot change the past: what an evaluation returns for an instant that
\* compiled evaluators cover is fixed, whatever is declared, compiled or thrown
\* later; a later compilation only closes the interval of the last evaluator.
THEOREM PastFixed == Spec => PastIsFixed
<1>1. IInv /\ IInv' /\ [Next]_vars => [PastKept]_vars
  BY PastStep
<1> QED BY <1>1, Invariance, PTL DEF PastIsFixed, Spec

-----------------------------------------------------------------------------
(* Additions are a log *)

\* Clients only add definitions, in one way of being called, and evaluate after
\* the declarations of the instant
AdditionsOnly ==
  /\ Operations = {"add"} /\ ~Interleaved
  /\ \E called \in {"byvalue", "byname"} : Texts \subseteq {called, "other"}

\* Nothing ends or throws; m_uuids and m_changes have what the definitions have;
\* an evaluator has every definition from before its start, and an instant that
\* is still declared has none.
LInv ==
  /\ ~compiling
  /\ \A i \in 1..Len(definitions) :
       definitions[i].end = Open /\ definitions[i].text \in Texts \ {"other"}
  /\ DOMAIN uuids = {definitions[i].uuid : i \in 1..Len(definitions)}
  /\ Len(definitions) # 0 => Len(changes) # 0 /\ definitions[1].start = changes[1]
  /\ Len(definitions) = 0 => Len(changes) = 0
  /\ \A e \in 1..Len(evaluators) :
       /\ evaluators[e].valid =
            {i \in 1..Len(definitions) : definitions[i].start <= evaluators[e].start}
       /\ phase = "declare" => evaluators[e].start < now

LEMMA InitLInv == Init => LInv
<1> SUFFICES ASSUME Init PROVE LInv
  OBVIOUS
<1>1. Len(definitions) = 0 /\ Len(changes) = 0 /\ Len(evaluators) = 0
      /\ DOMAIN uuids = {} /\ ~compiling
  BY DEF Init
<1> QED BY <1>1 DEF LInv

LEMMA NothingFails ==
  ASSUME AdditionsOnly, IInv, LInv
  PROVE  AllParse /\ AllGroup
<1>1. PICK called \in {"byvalue", "byname"} : Texts \subseteq {called, "other"}
  BY DEF AdditionsOnly
<1>2. \A i \in 1..Len(definitions) : definitions[i].text = called
  BY <1>1 DEF LInv
<1>3. \A i \in Unparsed : i \in 1..Len(definitions)
  BY DEF IInv, TypeOK, Unparsed
<1>4. AllParse
  BY <1>2, <1>3 DEF AllParse, Parses
<1>5. \A time : Groups(CompileInstant(time))
  BY <1>2 DEF CompileInstant, Groups, OfOneKind, SameParameters
<1> QED BY <1>4, <1>5 DEF AllGroup

LEMMA AddKeepsLog ==
  ASSUME IInv, LInv, phase = "declare", NEW id \in UUID \ DOMAIN uuids,
         NEW text \in Texts \ {"other"}, AddEquation(id, text),
         UNCHANGED <<now, phase>>
  PROVE  LInv'
<1> DEFINE n == Len(definitions)
           d == NewDefinition(id, text)
<1>1. /\ definitions' = Append(definitions, d) /\ changes' = Change(changes, now)
      /\ uuids' = AddUUID(id) /\ UNCHANGED <<evaluators, compiling>>
  BY DEF AddEquation
<1>2. /\ definitions \in Seq(Definition) /\ n \in Nat /\ Len(changes) \in Nat
      /\ Len(evaluators) \in Nat
  BY Lengths DEF TypeOK
<1>3. /\ d.end = Open /\ d.text = text /\ d.uuid = id /\ d.start = now
  BY DEF NewDefinition
<1> HIDE DEF d
<1>4. /\ Len(definitions') = n + 1 /\ definitions'[n + 1] = d
      /\ \A i \in 1..n : definitions'[i] = definitions[i]
      /\ \A i \in 1..(n + 1) : i \in 1..n \/ i = n + 1
      /\ n + 1 \in 1..(n + 1) /\ \A i \in 1..n : i \in 1..(n + 1)
  BY <1>1, <1>2
<1>5. \A i \in 1..(n + 1) :
        definitions'[i].end = Open /\ definitions'[i].text \in Texts \ {"other"}
  BY <1>3, <1>4 DEF LInv
<1>6. DOMAIN uuids' = {definitions'[i].uuid : i \in 1..(n + 1)}
  <2>1. DOMAIN uuids' = DOMAIN uuids \cup {id}
    BY <1>1 DEF AddUUID
  <2>2. DOMAIN uuids = {definitions[i].uuid : i \in 1..n}
    BY DEF LInv
  <2>3. {definitions'[i].uuid : i \in 1..(n + 1)}
          = {definitions[i].uuid : i \in 1..n} \cup {id}
    BY <1>3, <1>4
  <2> QED BY <2>1, <2>2, <2>3
<1>7. Len(changes') # 0 /\ definitions'[1].start = changes'[1]
  <2>1. /\ changes \in Seq(Nat) /\ now \in Nat /\ ChangesOrdered
    BY Lengths DEF TypeOK, EvaluatorsTile
  <2>2. CASE n = 0
    <3>1. changes = <<>>
      BY <2>1, <2>2 DEF LInv
    <3>2. changes' = <<now>>
      BY <1>1, <3>1 DEF Change
    <3> QED BY <1>3, <1>4, <2>2, <3>2
  <2>3. CASE n # 0
    <3>1. 1 \in 1..n /\ Len(changes) # 0 /\ definitions[1].start = changes[1]
      BY <1>2, <2>3 DEF LInv
    <3>2. /\ Len(changes) <= Len(changes') /\ Len(changes') \in Nat
          /\ \A i \in 1..Len(changes) : changes'[i] = changes[i]
      BY <1>1, <2>1, ChangeRecords
    <3>3. 1 \in 1..Len(changes) /\ Len(changes') # 0
      BY <1>2, <3>1, <3>2
    <3> QED BY <1>4, <3>1, <3>2, <3>3
  <2> QED BY <2>2, <2>3
<1>8. \A e \in 1..Len(evaluators) :
        /\ evaluators[e].valid =
             {i \in 1..(n + 1) : definitions'[i].start <= evaluators[e].start}
        /\ evaluators[e].start < now
  <2> TAKE e \in 1..Len(evaluators)
  <2>1. evaluators[e].start < now
    BY DEF LInv
  <2>2. evaluators[e].start \in Int /\ now \in Int
    BY Lengths, TilesInOrder DEF InOrder
  <2>3. ~(definitions'[n + 1].start <= evaluators[e].start)
    BY <1>3, <1>4, <2>1, <2>2
  <2>4. {i \in 1..(n + 1) : definitions'[i].start <= evaluators[e].start}
          = {i \in 1..n : definitions[i].start <= evaluators[e].start}
    BY <1>4, <2>3
  <2> QED BY <2>1, <2>4 DEF LInv
<1> QED BY <1>1, <1>2, <1>4, <1>5, <1>6, <1>7, <1>8 DEF LInv

LEMMA CompilesKeepsLog ==
  ASSUME IInv, LInv, phase = "evaluate",
         evaluators' = CompiledTo(Len(changes), Len(changes)),
         UNCHANGED <<now, phase, definitions, uuids, changes, compiling>>
  PROVE  LInv'
<1>1. /\ TypeOK /\ EvaluatorsTile /\ Len(changes) \in Nat /\ Len(evaluators) \in Nat
      /\ Len(evaluators) <= Len(changes)
  BY Lengths
<1>2. /\ Len(evaluators') = Len(changes)
      /\ \A e \in 1..Len(changes) : evaluators'[e].start = changes[e]
  BY <1>1, CompiledToTiles
<1>3. ASSUME NEW e \in 1..Len(changes)
      PROVE  evaluators'[e].valid =
               {i \in 1..Len(definitions) : definitions[i].start <= changes[e]}
  <2>1. CASE e <= Len(evaluators)
    <3>1. evaluators'[e].valid = evaluators[e].valid
      BY <2>1 DEF CompiledTo
    <3>2. e \in 1..Len(evaluators) /\ evaluators[e].start = changes[e]
      BY <1>1, <2>1 DEF EvaluatorsTile
    <3> QED BY <3>1, <3>2 DEF LInv
  <2>2. CASE ~(e <= Len(evaluators))
    <3>1. evaluators'[e].valid = CompileInstant(changes[e])
      BY <2>2 DEF CompiledTo
    <3> QED BY <3>1 DEF CompileInstant, LInv
  <2> QED BY <2>1, <2>2
<1> QED BY <1>2, <1>3 DEF LInv

LEMMA NextLInv ==
  ASSUME AdditionsOnly, IInv, LInv, [Next]_vars
  PROVE  LInv'
<1>1. CASE Declare
  <2>1. PICK id \in UUID \ DOMAIN uuids, text \in Texts \ {"other"} :
          AddEquation(id, text)
    BY <1>1 DEF Declare, AdditionsOnly
  <2>2. phase = "declare" /\ UNCHANGED <<now, phase>>
    BY <1>1 DEF Declare
  <2> QED BY <2>1, <2>2, AddKeepsLog
<1>2. CASE Demand
  <2>1. phase = "evaluate" /\ UNCHANGED <<now, phase>>
    BY <1>2 DEF Demand, AdditionsOnly, IInv, TypeOK
  <2>2. PICK t \in -1..now : Evaluate(t)
    BY <1>2 DEF Demand
  <2>3. UNCHANGED <<definitions, uuids, changes>>
    BY <2>2 DEF Evaluate
  <2>4. CASE EvaluateCompiled(t)
    BY <2>1, <2>3, <2>4 DEF EvaluateCompiled, LInv
  <2>5. CASE EvaluateCompiles(t)
    BY <2>1, <2>3, <2>5, CompilesKeepsLog DEF EvaluateCompiles
  <2>6. ~EvaluateWhileCompiling
    BY DEF EvaluateWhileCompiling, LInv
  <2>7. ~EvaluateParseError /\ ~EvaluateGroupError
    BY NothingFails
      DEF EvaluateParseError, ParseFails, AllParse, EvaluateGroupError, GroupFails, AllGroup
  <2> QED BY <2>2, <2>4, <2>5, <2>6, <2>7 DEF Evaluate
<1>3. CASE StartEvaluation \/ UNCHANGED vars
  <2>1. /\ UNCHANGED <<now, definitions, uuids, changes, evaluators, compiling>>
        /\ phase' = "declare" => phase = "declare"
    BY <1>3 DEF StartEvaluation, vars
  <2> QED BY <2>1 DEF LInv
<1>4. CASE NextInstant
  <2>1. /\ now' = now + 1
        /\ UNCHANGED <<definitions, uuids, changes, evaluators, compiling>>
    BY <1>4 DEF NextInstant
  <2>2. \A e \in 1..Len(evaluators) :
          evaluators[e].start <= now /\ evaluators[e].start \in Int /\ now \in Int
    <3>1. \A e \in 1..Len(evaluators) :
            e \in 1..Len(changes) /\ evaluators[e].start = changes[e]
      BY Lengths DEF EvaluatorsTile
    <3> QED BY <3>1, Lengths, TilesInOrder DEF EvaluatorsTile, ChangesOrdered, InOrder
  <2>3. \A e \in 1..Len(evaluators) : evaluators[e].start < now + 1
    BY <2>2
  <2> QED BY <2>1, <2>3 DEF LInv
<1> QED BY <1>1, <1>2, <1>3, <1>4 DEF Next

\* What the log answers at t
Looked(t) ==
  [op     |-> "evaluate",
   result |-> IF t < Intervals[1].start THEN "undef" ELSE "value",
   time   |-> t,
   valid  |-> Log!ValidAt(t)]

\* Compiled evaluators answer as the log does
AnswersAsLog ==
  Pending = {} /\ Len(definitions) # 0 =>
    \A t \in Int : Returned(evaluators, t) = Looked(t)

LEMMA Answers ==
  IInv /\ EveryChangeRecorded /\ LInv => AnswersAsLog
<1> SUFFICES ASSUME IInv, EveryChangeRecorded, LInv,
                    Pending = {}, Len(definitions) # 0,
                    NEW t \in Int
             PROVE  Returned(evaluators, t) = Looked(t)
  BY DEF AnswersAsLog
<1> DEFINE n == Len(definitions)
           N == Len(evaluators)
<1>1. /\ TypeOK /\ EvaluatorsTile /\ n \in Nat /\ N \in Nat
      /\ Len(changes) \in Nat /\ N <= Len(changes)
      /\ InOrder(evaluators)
      /\ Len(changes) # 0 /\ definitions[1].start = changes[1]
  BY Lengths, TilesInOrder DEF LInv
<1>2. N = Len(changes)
  <2>1. ~(N < Len(changes))
    <3>1. N < Len(changes) => N + 1 \in Pending
      BY <1>1 DEF Pending
    <3> QED BY <3>1
  <2> QED BY <1>1, <2>1
<1>3. /\ 1 \in 1..N /\ N \in 1..N /\ 1 \in 1..n /\ N # 0
      /\ \A e \in 1..N : evaluators[e].start = changes[e] /\ changes[e] \in Int
  <2>1. 1 \in 1..N /\ N \in 1..N /\ N # 0 /\ 1 \in 1..n
    BY <1>1, <1>2
  <2>2. \A e \in 1..N : changes[e] \in Int
    BY <1>1, <1>2 DEF TypeOK
  <2> QED BY <1>1, <2>1, <2>2 DEF EvaluatorsTile
<1>4. /\ \A i \in 1..n : definitions[i].start \in Int
  <2>1. \A d \in Definition : d.start \in Int
    BY DEF Definition
  <2> QED BY <1>1, <2>1 DEF TypeOK
<1>5. /\ Len(Intervals) = n
      /\ \A i \in 1..n : /\ Intervals[i].start = definitions[i].start
                         /\ Intervals[i].end = Open
  BY <1>1 DEF Intervals, LInv
<1>6. Log!ValidAt(t) = {i \in 1..n : definitions[i].start <= t}
  BY <1>5 DEF Log!ValidAt, Log!InForce, Log!Forever, Open
<1>7. \A i \in 1..n : \E c \in 1..N : definitions[i].start = evaluators[c].start
  BY <1>2, <1>3 DEF EveryChangeRecorded
<1>8. Intervals[1].start = evaluators[1].start
  BY <1>1, <1>3, <1>5
<1>9. CASE t < evaluators[1].start
  <2>1. Chosen(evaluators, t) = NotFound
    BY <1>1, <1>3, <1>9, ChosenIs
  <2>2. \A i \in 1..n : ~(definitions[i].start <= t)
    <3> TAKE i \in 1..n
    <3>1. PICK c \in 1..N : definitions[i].start = evaluators[c].start
      BY <1>7
    <3>2. 1 = c \/ 1 < c
      BY <1>1
    <3>3. evaluators[1].start <= evaluators[c].start
      BY <1>1, <1>3, <3>2 DEF InOrder
    <3> QED BY <1>1, <1>3, <1>9, <3>1, <3>3
  <2>3. Log!ValidAt(t) = {}
    BY <1>6, <2>2
  <2> QED BY <1>8, <1>9, <2>1, <2>3 DEF Returned, Looked
<1>10. CASE evaluators[1].start <= t
  <2>1. ASSUME NEW m \in 1..N, Chosen(evaluators, t) = m, evaluators[m].start <= t,
               m < N => t < evaluators[m + 1].start
        PROVE  Returned(evaluators, t) = Looked(t)
    <3>1. evaluators[m].valid = {i \in 1..n : definitions[i].start <= evaluators[m].start}
      BY DEF LInv
    <3>2. ASSUME NEW i \in 1..n
          PROVE  definitions[i].start <= t <=> definitions[i].start <= evaluators[m].start
      <4>1. PICK c \in 1..N : definitions[i].start = evaluators[c].start
        BY <1>7
      <4>2. evaluators[c].start \in Int /\ evaluators[m].start \in Int
        BY <1>3
      <4>3. CASE c <= m
        <5>1. c = m \/ c < m
          BY <1>1, <4>3
        <5>2. evaluators[c].start <= evaluators[m].start
          BY <1>1, <4>2, <5>1 DEF InOrder
        <5> QED BY <2>1, <4>1, <4>2, <5>2
      <4>4. CASE m < c
        <5>1. m < N /\ m + 1 \in 1..N /\ (m + 1 = c \/ m + 1 < c)
          BY <1>1, <4>4
        <5>2. /\ t < evaluators[m + 1].start /\ evaluators[m + 1].start \in Int
              /\ evaluators[m + 1].start <= evaluators[c].start
          BY <1>1, <1>3, <2>1, <5>1 DEF InOrder
        <5> QED BY <2>1, <4>1, <4>2, <5>2
      <4> QED BY <1>1, <4>3, <4>4
    <3>3. evaluators[m].valid = Log!ValidAt(t)
      BY <1>6, <3>1, <3>2
    <3>4. m # NotFound /\ ~(t < Intervals[1].start)
      BY <1>1, <1>3, <1>8, <1>10 DEF NotFound
    <3> QED BY <2>1, <3>3, <3>4 DEF Returned, Looked
  <2>2. CASE t < evaluators[N].start
    <3>1. PICK m \in 1..N : Between(evaluators, t, m)
      BY <1>1, <1>3, <1>10, <2>2, OneHolds DEF Back
    <3>2. Chosen(evaluators, t) = m
      BY <1>1, <1>3, <3>1, ChosenIs
    <3> QED BY <2>1, <3>1, <3>2 DEF Between
  <2>3. CASE ~(t < evaluators[N].start)
    <3>1. Back(evaluators).end = Open
      BY <1>1, <1>3 DEF EvaluatorsTile, LInv
    <3>2. evaluators[N].start <= t /\ Back(evaluators).start = evaluators[N].start
      BY <1>3, <2>3 DEF Back
    <3>3. Chosen(evaluators, t) = N
      BY <1>1, <1>3, <3>1, <3>2, ChosenIs
    <3>4. ~(N < N)
      BY <1>1
    <3> QED BY <1>3, <2>1, <3>2, <3>3, <3>4
  <2> QED BY <2>2, <2>3
<1> QED BY <1>1, <1>3, <1>9, <1>10

LEMMA AppendIs ==
  ASSUME NEW n \in Nat, NEW s, s = [i \in 1..n |-> s[i]], NEW e
  PROVE  Append(s, e) = [i \in 1..(n + 1) |-> IF i <= n THEN s[i] ELSE e]
<1> DEFINE S == {s[i] : i \in 1..n} \cup {e}
           q == Append(s, e)
<1>1. \A i \in 1..n : s[i] \in S
  OBVIOUS
<1>2. e \in S
  OBVIOUS
<1> HIDE DEF S
<1>3. s \in [1..n -> S]
  BY <1>1
<1>4. s \in Seq(S) /\ Len(s) = n
  BY <1>3
<1>5. /\ q \in Seq(S) /\ Len(q) = n + 1 /\ q[n + 1] = e
      /\ \A i \in 1..n : q[i] = s[i]
  BY <1>2, <1>4
<1>6. q = [i \in 1..(n + 1) |-> q[i]]
  <2>1. \A u \in Seq(S) : u = [i \in 1..Len(u) |-> u[i]]
    OBVIOUS
  <2> QED BY <1>5, <2>1
<1> HIDE DEF q
<1>7. \A i \in 1..(n + 1) : q[i] = IF i <= n THEN s[i] ELSE e
  <2> TAKE i \in 1..(n + 1)
  <2>1. \/ i \in 1..n /\ i <= n
        \/ i = n + 1 /\ ~(i <= n)
    OBVIOUS
  <2> QED BY <1>5, <2>1
<1> QED BY <1>6, <1>7 DEF q

LEMMA LogInitial == Init => Log!LogInit
<1> SUFFICES ASSUME Init PROVE Log!LogInit
  OBVIOUS
<1>1. Len(definitions) = 0
  BY DEF Init
<1>2. Intervals = <<>>
  BY <1>1 DEF Intervals
<1> QED BY <1>2 DEF Init, Log!LogInit, Log!Outcome, Said

LEMMA LogStep ==
  ASSUME AdditionsOnly, IInv, LInv, AnswersAsLog, AnswersAsLog', [Next]_vars
  PROVE  [Log!LogNext]_(Log!logVars)
<1> DEFINE n == Len(definitions)
<1>1. n \in Nat /\ definitions \in Seq(Definition)
  BY Lengths DEF TypeOK
<1>2. CASE Declare
  <2>1. PICK id \in UUID \ DOMAIN uuids, text \in Texts \ {"other"} :
          AddEquation(id, text)
    BY <1>2 DEF Declare, AdditionsOnly
  <2>2. /\ phase = "declare" /\ UNCHANGED <<now, phase>>
        /\ "add" \in Operations /\ n < MaxDefinitions
    BY <1>2 DEF Declare, AdditionsOnly
  <2> DEFINE d == NewDefinition(id, text)
  <2>3. definitions' = Append(definitions, d) /\ answer' = Said("add", "true")
    BY <2>1 DEF AddEquation
  <2>4. d.uuid = id /\ d.start = now /\ d.end = Open
    BY DEF NewDefinition
  <2> HIDE DEF d
  <2>5. /\ Len(definitions') = n + 1 /\ definitions'[n + 1] = d
        /\ \A i \in 1..n : definitions'[i] = definitions[i]
    BY <1>1, <2>3
  <2>6. /\ Len(Intervals) = n
        /\ \A i \in 1..n : Intervals[i].uuid = definitions[i].uuid
    BY <1>1 DEF Intervals
  <2>7. Intervals' = Append(Intervals, Log!Entry(id))
    <3>1. Intervals' = [i \in 1..(n + 1) |->
            [uuid |-> definitions'[i].uuid, start |-> definitions'[i].start,
             end |-> definitions'[i].end]]
      BY <2>5 DEF Intervals
    <3>2. Append(Intervals, Log!Entry(id)) =
            [i \in 1..(n + 1) |-> IF i <= n THEN Intervals[i] ELSE Log!Entry(id)]
      <4>1. Intervals = [i \in 1..n |-> Intervals[i]]
        BY DEF Intervals
      <4> QED BY <1>1, <4>1, AppendIs
    <3>3. Log!Entry(id) = [uuid |-> id, start |-> now, end |-> Open]
      BY DEF Log!Entry, Log!Forever, Open
    <3>4. ASSUME NEW i \in 1..(n + 1)
          PROVE  [uuid |-> definitions'[i].uuid, start |-> definitions'[i].start,
                  end |-> definitions'[i].end]
                   = IF i <= n THEN Intervals[i] ELSE Log!Entry(id)
      <4>1. CASE i <= n
        <5>1. i \in 1..n
          BY <1>1, <4>1
        <5> QED BY <2>5, <4>1, <5>1 DEF Intervals
      <4>2. CASE ~(i <= n)
        <5>1. i = n + 1
          BY <1>1, <4>2
        <5> QED BY <2>4, <2>5, <3>3, <4>2, <5>1
      <4> QED BY <4>1, <4>2
    <3> QED BY <3>1, <3>2, <3>4
  <2>8. id \notin Log!Known
    <3>1. DOMAIN uuids = {definitions[i].uuid : i \in 1..n}
      BY DEF LInv
    <3>2. Log!Known = {definitions[i].uuid : i \in 1..n}
      BY <2>6 DEF Log!Known
    <3> QED BY <2>1, <3>1, <3>2
  <2>9. Log!LogAdd(id)
    BY <2>2, <2>3, <2>6, <2>7, <2>8 DEF Log!LogAdd, Log!Outcome, Said
  <2> QED BY <2>1, <2>2, <2>9 DEF Log!LogNext, Log!Declaration
<1>3. CASE Demand
  <2>1. phase = "evaluate" /\ UNCHANGED <<now, phase>>
    BY <1>3 DEF Demand, AdditionsOnly, IInv, TypeOK
  <2>2. PICK t \in -1..now : Evaluate(t)
    BY <1>3 DEF Demand
  <2>3. definitions # <<>> /\ UNCHANGED <<definitions, uuids, changes>>
    BY <2>2 DEF Evaluate
  <2>4. ~EvaluateWhileCompiling /\ ~EvaluateParseError /\ ~EvaluateGroupError
    BY NothingFails
      DEF EvaluateParseError, ParseFails, AllParse, EvaluateGroupError, GroupFails,
          AllGroup, EvaluateWhileCompiling, LInv
  <2>5. EvaluateCompiled(t) \/ EvaluateCompiles(t)
    BY <2>2, <2>4 DEF Evaluate
  <2>6. Len(definitions) # 0 /\ Len(Intervals) # 0 /\ t \in Int
    BY <1>1, <2>3, Lengths DEF Intervals
  <2>7. answer' = Returned(evaluators', t) /\ Pending' = {}
    <3>1. CASE EvaluateCompiled(t)
      BY <2>3, <3>1 DEF EvaluateCompiled, Pending
    <3>2. CASE EvaluateCompiles(t)
      <4>1. /\ answer' = Returned(evaluators', t)
            /\ evaluators' = CompiledTo(Len(changes), Len(changes))
        BY <3>2 DEF EvaluateCompiles
      <4>2. Len(evaluators') = Len(changes) /\ Len(changes) \in Nat
        <5>1. TypeOK /\ EvaluatorsTile /\ Len(changes) \in Nat
          BY Lengths
        <5>2. Len(CompiledTo(Len(changes), Len(changes))) = Len(changes)
          BY <5>1, CompiledToTiles
        <5> QED BY <4>1, <5>1, <5>2
      <4>3. Pending' = {}
        BY <2>3, <4>2 DEF Pending
      <4> QED BY <4>1, <4>3
    <3> QED BY <2>5, <3>1, <3>2
  <2>8. answer' = Looked(t)
    <3>1. Returned(evaluators', t) = Looked(t)'
      BY <2>3, <2>6, <2>7 DEF AnswersAsLog
    <3>2. Looked(t)' = Looked(t)
      BY <2>3 DEF Looked, Intervals, Log!ValidAt, Log!InForce
    <3> QED BY <2>7, <3>1, <3>2
  <2>9. Intervals' = Intervals
    BY <2>3 DEF Intervals
  <2>10. Log!Evaluation
    <3>1. Intervals # <<>>
      BY <2>6
    <3> QED BY <2>1, <2>8, <2>9, <3>1 DEF Log!Evaluation, Looked
  <2> QED BY <2>10 DEF Log!LogNext
<1>4. CASE StartEvaluation
  <2>1. Log!Close
    BY <1>4 DEF StartEvaluation, Log!Close, Intervals
  <2> QED BY <2>1 DEF Log!LogNext
<1>5. CASE NextInstant
  <2>1. Log!Tick
    BY <1>5 DEF NextInstant, Log!Tick, Intervals
  <2> QED BY <2>1 DEF Log!LogNext
<1>6. CASE UNCHANGED vars
  BY <1>6 DEF vars, Log!logVars, Intervals
<1> QED BY <1>2, <1>3, <1>4, <1>5, <1>6 DEF Next

\* With additions only, each instant's before its evaluations, nobody can tell
\* the group from a log of its definitions: that it parses and compiles just in
\* time, keeps one evaluator for each change and searches them is not seen.
THEOREM AdditionsAsLogged ==
  ASSUME AdditionsOnly
  PROVE  Spec => ImplementsLog
<1>1. LInv /\ IInv /\ [Next]_vars => LInv'
  BY NextLInv
<1>2. Spec => [](IInv /\ EveryChangeRecorded /\ LInv)
  BY <1>1, InitLInv, Invariance, Recorded, PTL DEF Spec
<1>3. IInv /\ EveryChangeRecorded /\ LInv => AnswersAsLog
  BY Answers
<1>4. IInv /\ LInv /\ AnswersAsLog /\ AnswersAsLog' /\ [Next]_vars
        => [Log!LogNext]_(Log!logVars)
  BY LogStep
<1> QED BY <1>2, <1>3, <1>4, LogInitial, PTL DEF Spec, ImplementsLog, Log!LogSpec

=============================================================================
