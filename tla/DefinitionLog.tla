---------------------------- MODULE DefinitionLog ----------------------------
(***************************************************************************)
(* What the definitions of one object promise, without parsing,            *)
(* compilation or search: a log of validity intervals, and evaluations     *)
(* that use exactly the definitions valid at the time of their context.    *)
(* BestfitGroup is checked against this specification.                     *)
(***************************************************************************)
EXTENDS Integers, Sequences

CONSTANTS UUID, Operations, MaxTime, MaxDefinitions

VARIABLES now, phase, log, answer

logVars == <<now, phase, log, answer>>

Forever == -1

Outcome(op, result) == [op |-> op, result |-> result, time |-> now, valid |-> {}]

\* The definition i is in force from its start until, and not at, its end
InForce(i, t) ==
  /\ log[i].start <= t
  /\ log[i].end = Forever \/ t < log[i].end

ValidAt(t) == {i \in 1..Len(log) : InForce(i, t)}

Entry(id) == [uuid |-> id, start |-> now, end |-> Forever]

Running(id) == {i \in 1..Len(log) : log[i].uuid = id /\ log[i].end = Forever}

Known == {log[i].uuid : i \in 1..Len(log)}

EndRunning(id) ==
  [i \in 1..Len(log) |->
     IF i \in Running(id) THEN [log[i] EXCEPT !.end = now] ELSE log[i]]

LogInit ==
  /\ now = 0
  /\ phase = "declare"
  /\ log = <<>>
  /\ answer = Outcome("none", "true")

LogAdd(id) ==
  /\ "add" \in Operations
  /\ Len(log) < MaxDefinitions
  /\ id \notin Known
  /\ log' = Append(log, Entry(id))
  /\ answer' = Outcome("add", "true")

LogDel(id) ==
  /\ "del" \in Operations
  /\ log' = EndRunning(id)
  /\ answer' = Outcome("del", IF Running(id) = {} THEN "false" ELSE "true")

LogRepl(id) ==
  /\ "repl" \in Operations
  /\ Len(log) < MaxDefinitions
  /\ log' = IF Running(id) = {} THEN log
            ELSE Append(EndRunning(id), Entry(id))
  /\ answer' = Outcome("repl", IF Running(id) = {} THEN "false" ELSE "true")

Declaration ==
  /\ phase = "declare"
  /\ \E id \in UUID : LogAdd(id) \/ LogDel(id) \/ LogRepl(id)
  /\ UNCHANGED <<now, phase>>

\* No answer before the first definition, every valid definition after it
Evaluation ==
  /\ phase = "evaluate"
  /\ log # <<>>
  /\ \E t \in -1..now :
       answer' = [op     |-> "evaluate",
                  result |-> IF t < log[1].start THEN "undef" ELSE "value",
                  time   |-> t,
                  valid  |-> ValidAt(t)]
  /\ UNCHANGED <<now, phase, log>>

Close ==
  /\ phase = "declare"
  /\ phase' = "evaluate"
  /\ UNCHANGED <<now, log, answer>>

Tick ==
  /\ phase = "evaluate"
  /\ now < MaxTime
  /\ now' = now + 1
  /\ phase' = "declare"
  /\ UNCHANGED <<log, answer>>

LogNext == Declaration \/ Evaluation \/ Close \/ Tick

LogSpec == LogInit /\ [][LogNext]_logVars

=============================================================================
