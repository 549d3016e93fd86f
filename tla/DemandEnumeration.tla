------------------------- MODULE DemandEnumeration -------------------------
(***************************************************************************)
(* How an assignment is evaluated in every context of its demand           *)
(* (enumerateContextSet, libs/assignment.cpp): the ranges of the region    *)
(* count like the digits of an odometer, and the contexts that have the    *)
(* time of the instant are put into the output.                            *)
(***************************************************************************)
EXTENDS Integers, Sequences, FiniteSets

CONSTANTS Limits,   \* the demands: sequences of ranges, [lower, upper]
          Infinite  \* the bound of a range that has none

Bounds == [lower : Int, upper : Int]

\* A bound is an integer, the one that stands for a missing bound too
ASSUME LimitsAssumption == \A l \in Limits : l \in Seq(Bounds)

VARIABLES limits,   \* the ranges of the demand
          current,  \* the value each range has now
          put,      \* the contexts put into the output, in order
          step      \* "start", "evaluate", "count", "done" or "thrown"

enumVars == <<limits, current, put, step>>

Digits == DOMAIN limits

\* Mutant: the last value of a range is left out
WithinOpen(r, value) == r.lower <= value /\ value < r.upper

\* Range::within
Within(r, value) == r.lower <= value /\ value <= r.upper

\* The time of a demand is its first range, and the instant has time 0
InInstant(c) == c = <<>> \/ c[1] = 0

Begin ==
  /\ step = "start"
  /\ IF \E i \in Digits : Infinite \in {limits[i].lower, limits[i].upper}
     THEN step' = "thrown" /\ UNCHANGED current
     ELSE step' = "evaluate" /\ current' = [i \in Digits |-> limits[i].lower]
  /\ UNCHANGED <<limits, put>>

EvaluateContext ==
  /\ step = "evaluate"
  /\ put' = IF InInstant(current) THEN Append(put, current) ELSE put
  /\ step' = "count"
  /\ UNCHANGED <<limits, current>>

\* The digits that can go on; the first of them does, those before it start again
CanCount == {i \in Digits : Within(limits[i], current[i] + 1)}
Counting == CHOOSE i \in CanCount : \A j \in CanCount : i <= j

\* Mutant: the carry is lost
CountedNoCarry ==
  [j \in Digits |-> IF j < Counting THEN limits[j].lower
                    ELSE IF j = Counting /\ j = 1 THEN current[j] + 1 ELSE current[j]]

Counted ==
  [j \in Digits |-> IF j < Counting THEN limits[j].lower
                    ELSE IF j = Counting THEN current[j] + 1 ELSE current[j]]

Count ==
  /\ step = "count"
  /\ IF CanCount = {}
     THEN step' = "done" /\ current' = [i \in Digits |-> limits[i].lower]
     ELSE step' = "evaluate" /\ current' = Counted
  /\ UNCHANGED <<limits, put>>

InitEnum ==
  /\ limits \in Limits
  /\ current = <<>>
  /\ put = <<>>
  /\ step = "start"

NextEnum == Begin \/ EvaluateContext \/ Count

SpecEnum == InitEnum /\ [][NextEnum]_enumVars /\ WF_enumVars(NextEnum)

(***************************************************************************)
(* Properties                                                              *)
(***************************************************************************)
Values(r) == IF r.lower > r.upper THEN {r.lower} ELSE r.lower..r.upper

Demanded ==
  {c \in [Digits -> UNION {Values(limits[i]) : i \in Digits}] :
     InInstant(c) /\ \A i \in Digits : c[i] \in Values(limits[i])}

\* No context is evaluated twice, none that is not demanded, and at the end each
\* has been, where an empty range stands for its lower bound.
DemandPutOnce ==
  step \in {"evaluate", "count", "done"} =>
    /\ \A i, j \in DOMAIN put : put[i] = put[j] => i = j
    /\ {put[i] : i \in DOMAIN put} \subseteq Demanded
    /\ step = "done" => {put[i] : i \in DOMAIN put} = Demanded

\* Every enumeration of a demand ends.
EnumerationEnds == <>(step \in {"done", "thrown"})
=============================================================================
