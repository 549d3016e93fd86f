----------------------------- MODULE WhereDims -----------------------------
(***************************************************************************)
(* The dimensions a where clause allocates when it is evaluated (WhereWS,  *)
(* libs/eval_workshops.cpp).  Each is a ChiDim, for which ChiMap           *)
(* (libs/chi.cpp) keeps one hidden dimension: its place in the clause and, *)
(* without the cache, the rho of the context, or with it a stack of the    *)
(* clause: its tag and depths.  Scopes are those of ContextScopes.         *)
(***************************************************************************)
EXTENDS ContextScopes, FiniteSets, SequencesExt

CONSTANTS Clause,      \* the where clauses of the program
          Declares,    \* of a clause, its dimAllocation
          TagQ, PsiQ,  \* of a clause, the hidden dimensions it was given
          FirstHidden, \* m_nextIndex of the DimensionTranslator
          LastHidden   \* bound: the last dimension allocated

\* The dimensions of a program, those of the clauses and those ChiMap allocates
\* all come from the DimensionTranslator, which gives none twice
ASSUME WhereAssumption ==
  LET hidden == LastHidden..FirstHidden
  IN  /\ FirstHidden \in Int /\ LastHidden \in Int
      /\ hidden \subseteq Dim /\ hidden \subseteq Ordinate
      /\ Declares \in [Clause -> Seq(Dim)]
      /\ TagQ \in [Clause -> Int] /\ PsiQ \in [Clause -> Dim \ hidden]
      /\ \A e, f \in Clause : e # f => TagQ[e] # TagQ[f] /\ PsiQ[e] # PsiQ[f]
      /\ \A e, f \in Clause : \A i \in DOMAIN Declares[e] :
           Declares[e][i] \notin hidden \cup {PsiQ[f]}
      /\ 1..MaxPerturb \subseteq Ordinate
      /\ MaxIndex >= 1 /\ \A e \in Clause : Len(Declares[e]) <= MaxIndex

VARIABLES chi,         \* ChiMap: from the ChiDims asked for to dimensions
          nextIndex,   \* the next hidden dimension, counting down
          chivalue,    \* of a clause, its m_chivalue
          wheres       \* the evaluations of clauses in progress, innermost last

whereVars == <<contextVars, chi, nextIndex, chivalue, wheres>>

(***************************************************************************)
(* An evaluation of a clause: "before" is the number of scopes around it,  *)
(* "at" that number with its own RhoManager, "phase" is allocating,        *)
(* evaluating an initialiser, the body, leaving or thrown, "which" the     *)
(* dimension it is at, "change" the perturbations still to make, "given"   *)
(* what its hidden dimensions were set to.                                 *)
(***************************************************************************)
Call(e, cached, at) ==
  [clause |-> e, cached |-> cached, before |-> Len(scopes), at |-> at,
   phase |-> "dims", which |-> 1, hidden |-> 0, change |-> <<>>, given |-> <<>>]

Current == wheres[Len(wheres)]
In(phase) == wheres # <<>> /\ Current.phase = phase
OwnScopes == Current.at + (IF Current.phase = "body" THEN 1 ELSE 0)
Here(phase) == In(phase) /\ Len(scopes) = OwnScopes

Update(w) == wheres' = [wheres EXCEPT ![Len(wheres)] = w]
Return == wheres' = SubSeq(wheres, 1, Len(wheres) - 1)

\* Some other workshop runs: in an initialiser, in a body, or no clause does
Inside == In("initialiser") \/ (In("body") /\ Current.change = <<>>)
Free == wheres = <<>> \/ Inside
FreeScope == wheres = <<>> \/ (Inside /\ Len(scopes) > OwnScopes)

\* Mutant: the stack of the ChiDim is not compared
LookupChiByPlace(key, d) ==
  LET same == {x \in DOMAIN chi : x.which = key.which}
  IN  \/ same # {} /\ (\E x \in same : d = chi[x]) /\ UNCHANGED <<chi, nextIndex>>
      \/ /\ same = {}
         /\ d = nextIndex /\ nextIndex >= LastHidden
         /\ chi' = [x \in DOMAIN chi \cup {key} |-> IF x = key THEN d ELSE chi[x]]
         /\ nextIndex' = nextIndex - 1

\* ChiMap::lookup: d is the dimension of this ChiDim
LookupChi(key, d) ==
  \/ key \in DOMAIN chi /\ d = chi[key] /\ UNCHANGED <<chi, nextIndex>>
  \/ /\ key \notin DOMAIN chi
     /\ d = nextIndex /\ nextIndex >= LastHidden
     /\ chi' = [x \in DOMAIN chi \cup {key} |-> IF x = key THEN d ELSE chi[x]]
     /\ nextIndex' = nextIndex - 1

HasDims == Current.which <= Len(Declares[Current.clause])

\* What a dimension of the clause adds to the perturbations: the hidden one is
\* set to the initialiser, the declared one to the hidden one
Changes(d, o) == <<<<d, o>>, <<Declares[Current.clause][Current.which], d>>>>

(***************************************************************************)
(* Without the cache                                                       *)
(***************************************************************************)
EnterWhere(e) ==
  /\ Free
  /\ OpenRho(0)
  /\ wheres' = Append(wheres, Call(e, FALSE, Len(scopes) + 1))
  /\ UNCHANGED <<chi, nextIndex, chivalue>>

\* The next dimension is allocated, and its initialiser begins
Allocate ==
  /\ Here("dims") /\ ~Current.cached /\ HasDims
  /\ \E d \in LastHidden..FirstHidden :
       /\ LookupChi([which |-> Current.which, stack |-> rho], d)
       /\ Update([Current EXCEPT !.phase = "initialiser", !.hidden = d])
  /\ ChangeTop(Current.which)
  /\ UNCHANGED chivalue

\* The initialiser has the value o
Initialised(o) ==
  /\ Here("initialiser") /\ ~Current.cached
  /\ Update([Current EXCEPT
       !.phase = "dims", !.which = @ + 1,
       !.change = @ \o Changes(Current.hidden, o),
       !.given = Append(@, <<Current.hidden, o>>)])
  /\ UNCHANGED <<contextVars, chi, nextIndex, chivalue>>

\* All are: rho goes back to 0 and the perturber of the body is opened
BeginBody ==
  /\ Here("dims") /\ ~Current.cached /\ ~HasDims
  /\ Len(scopes) < MaxScopes
  /\ LET shown == [scopes EXCEPT ![Len(scopes)].index = 0]
     IN  scopes' = Append(shown, Scope("perturb", 0))
  /\ rho' = [rho EXCEPT ![Len(rho)] = 0]
  /\ Update([Current EXCEPT !.phase = "body"])
  /\ UNCHANGED <<k, delta, instant, chi, nextIndex, chivalue>>

(***************************************************************************)
(* With the cache                                                          *)
(***************************************************************************)
\* How many evaluations of this clause are around this one
Depth(e) == IF HasEntry(k, PsiQ[e]) THEN Lookup(k, PsiQ[e]) ELSE 0

CachedWhere(e) ==
  /\ Free
  /\ Len(wheres) < MaxScopes /\ Len(chivalue[e]) < MaxScopes
  /\ chivalue' = [chivalue EXCEPT ![e] = Append(@, Depth(e))]
  /\ wheres' = Append(wheres,
       [Call(e, TRUE, Len(scopes)) EXCEPT !.phase = "initialiser"])
  /\ UNCHANGED <<contextVars, chi, nextIndex>>

\* The initialiser has the value o, and its dimension is allocated
CachedInitialised(o) ==
  /\ Here("initialiser") /\ Current.cached /\ HasDims
  /\ \E d \in LastHidden..FirstHidden :
       /\ LookupChi([which |-> Current.which - 1, stack |-> chivalue[Current.clause]], d)
       /\ Update([Current EXCEPT
            !.which = @ + 1,
            !.phase = IF Current.which = Len(Declares[Current.clause])
                      THEN "dims" ELSE "initialiser",
            !.change = @ \o Changes(d, o),
            !.given = Append(@, <<d, o>>)])
  /\ UNCHANGED <<contextVars, chivalue>>

\* Each initialiser is evaluated, also when one has answered with a demand, and
\* then the demands are the answer
CachedDemands ==
  /\ Here("dims") /\ Current.cached
  /\ chivalue' = [chivalue EXCEPT ![Current.clause] = Front(@)]
  /\ Return
  /\ UNCHANGED <<contextVars, chi, nextIndex>>

CachedBody ==
  /\ Here("dims") /\ Current.cached
  /\ OpenPerturber
  /\ chivalue' = [chivalue EXCEPT ![Current.clause] = Front(@)]
  /\ LET e == Current.clause
     IN  Update([Current EXCEPT
           !.phase = "body",
           !.change = Append(@, <<PsiQ[e], Depth(e) + 1>>)])
  /\ UNCHANGED <<chi, nextIndex>>

(***************************************************************************)
(* Both                                                                    *)
(***************************************************************************)
\* The perturbers take the changes in one by one
MakeChange ==
  /\ Here("body") /\ Current.change # <<>>
  /\ LET first == Head(Current.change)
     IN  Perturb(first[1], first[2], Current.cached)
  /\ Update([Current EXCEPT !.change = Tail(@)])
  /\ UNCHANGED <<chi, nextIndex, chivalue>>

\* The body has a value
LeaveBody ==
  /\ Here("body") /\ Current.change = <<>>
  /\ ClosePerturber
  /\ IF Current.cached THEN Return ELSE Update([Current EXCEPT !.phase = "leaving"])
  /\ UNCHANGED <<chi, nextIndex, chivalue>>

LeaveWhere ==
  /\ Here("leaving")
  /\ CloseRho
  /\ Return
  /\ UNCHANGED <<chi, nextIndex, chivalue>>

\* What is evaluated in an initialiser or a body throws: the destructors run,
\* innermost scope first, and the exception goes on in the evaluation around this
\* one, out to the outermost.  Nothing takes a depth off the stack of a clause.
Throw ==
  /\ Inside
  /\ Update([Current EXCEPT !.phase = "thrown"])
  /\ UNCHANGED <<contextVars, chi, nextIndex, chivalue>>

UnwindScope ==
  /\ In("thrown") /\ Len(scopes) > Current.before
  /\ ClosePerturber \/ CloseRho
  /\ UNCHANGED <<chi, nextIndex, chivalue, wheres>>

UnwindCall ==
  /\ In("thrown") /\ Len(scopes) = Current.before
  /\ LET around == Front(wheres)
     IN  wheres' = IF around = <<>> THEN <<>>
                   ELSE [around EXCEPT ![Len(around)].phase = "thrown"]
  /\ UNCHANGED <<contextVars, chi, nextIndex, chivalue>>

\* The other workshops number their operands around whatever they evaluate.  A
\* manager below the current evaluation is not theirs to change.
Workshop ==
  /\ \/ Free /\ OpenRho(1)
     \/ /\ FreeScope
        /\ \E j \in Managers : wheres # <<>> => j > OwnScopes
        /\ \E i \in 1..MaxIndex : ChangeTop(i)
     \/ FreeScope /\ CloseRho
  /\ UNCHANGED <<chi, nextIndex, chivalue, wheres>>

InitWhere ==
  /\ InitContext
  /\ chi = <<>>
  /\ nextIndex = FirstHidden
  /\ chivalue = [e \in Clause |-> <<TagQ[e]>>]
  /\ wheres = <<>>

\* Evaluation with the cache
NextCached ==
  \/ \E e \in Clause : CachedWhere(e)
  \/ \E o \in Plain : CachedInitialised(o)
  \/ CachedDemands
  \/ CachedBody

NextUncached ==
  \/ \E e \in Clause : EnterWhere(e)
  \/ Allocate
  \/ \E o \in Plain : Initialised(o)
  \/ BeginBody
  \/ LeaveWhere
  \/ Workshop

NextCommon == MakeChange \/ LeaveBody \/ Throw \/ UnwindScope \/ UnwindCall

SpecUncached == InitWhere /\ [][NextUncached \/ NextCommon]_whereVars
SpecCached   == InitWhere /\ [][NextCached \/ NextCommon]_whereVars

(***************************************************************************)
(* Properties                                                              *)
(***************************************************************************)
InTheirBody == {w \in Range(wheres) : w.phase = "body" /\ w.change = <<>>}

\* As long as the body of a clause is evaluated, whatever is evaluated inside
\* it, each dimension allocated for the clause has the value of its initialiser:
\* no evaluation inside is given the same dimension.
HiddenDimsKeep ==
  \A w \in InTheirBody : \A i \in DOMAIN w.given :
    Lookup(k, w.given[i][1]) = w.given[i][2]
=============================================================================
