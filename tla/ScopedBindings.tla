-------------------------- MODULE ScopedBindings --------------------------
(***************************************************************************)
(* What the perturbers of a context promise: dynamic scoping.  An          *)
(* evaluation sees an ordinate for every dimension and a set of dimensions *)
(* that delta has; scopes are entered, bind dimensions, and are left again *)
(* with everything as it was on entering.                                  *)
(***************************************************************************)
EXTENDS Integers, Sequences

CONSTANTS Dim, TimeDim, Ordinate, All

VARIABLES seen,    \* the ordinates and the delta of the running evaluation
          saved    \* those of the evaluations it returns to

bindingVars == <<seen, saved>>

Unset == [d \in Dim |-> All]

Enter ==
  /\ saved' = Append(saved, seen)
  /\ UNCHANGED seen

\* d is set to o, and perhaps added to delta
Bind(d, o) ==
  /\ saved # <<>>
  /\ seen' \in {[ordinates |-> [seen.ordinates EXCEPT ![d] = o], delta |-> del] :
                  del \in {seen.delta, seen.delta \cup {d}}}
  /\ UNCHANGED saved

Leave ==
  /\ saved # <<>>
  /\ seen' = saved[Len(saved)]
  /\ saved' = SubSeq(saved, 1, Len(saved) - 1)

\* A new instant: nothing is set but the time
Renew(o) ==
  /\ saved = <<>>
  /\ seen' = [seen EXCEPT !.ordinates = [Unset EXCEPT ![TimeDim] = o]]
  /\ UNCHANGED saved

Init == seen = [ordinates |-> Unset, delta |-> {}] /\ saved = <<>>

Next ==
  \/ Enter
  \/ \E d \in Dim, o \in Ordinate : Bind(d, o)
  \/ Leave
  \/ \E o \in Ordinate : Renew(o)

Spec == Init /\ [][Next]_bindingVars
=============================================================================
