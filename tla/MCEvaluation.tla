---------------------------- MODULE MCEvaluation ----------------------------
(***************************************************************************)
(* Small instances of ContextScopes and WhereDims for TLC: an evaluation   *)
(* perturbs the dimensions of a program and numbers operands, or evaluates *)
(* where clauses, without the cache or with it.                            *)
(***************************************************************************)
EXTENDS WhereDims, TLC

CONSTANTS MaxPlainScopes,  \* bound: scopes alive at once without where clauses
          MaxCalls         \* bound: where clauses in progress, with the cache

VARIABLE part    \* which of the three, chosen at the start

MCTime  == -1
MCNamed == {-2, 1}
MCFirst == -7
MCLast  == -8
MCHidden == MCLast..MCFirst
MCDim   == MCNamed \cup {MCTime, -5, -4, -3} \cup MCHidden
MCPlain == {1, 2}
MCOrdinate == MCPlain \cup 0..MaxScopes \cup MCHidden

MCDeclares == "w1" :> <<-4>> @@ "w2" :> <<-5>>
MCPsiQ     == "w1" :> -2 @@ "w2" :> -3
MCTagQ     == "w1" :> -10 @@ "w2" :> -11

Evaluate ==
  \/ part = "context" /\ NextContext /\ Len(scopes') <= MaxPlainScopes
                       /\ UNCHANGED <<chi, nextIndex, chivalue, wheres>>
  \/ part = "where" /\ (NextUncached \/ NextCommon)
  \/ part = "cached" /\ (NextCached \/ NextCommon) /\ Len(wheres') <= MaxCalls

InitEvaluation == InitWhere /\ part \in {"context", "where", "cached"}
SpecEvaluation == InitEvaluation /\ [][Evaluate /\ UNCHANGED part]_<<whereVars, part>>
=============================================================================
