-------------------------- MODULE WhereDimsProofs ---------------------------
(***************************************************************************)
(* While the body of a where clause is evaluated, its hidden dimensions    *)
(* keep the values of its initialisers, for any program of where clauses,  *)
(* any nesting and any exception, without the cache and with it.           *)
(*                                                                         *)
(* The first part is common to both: what the calls in progress, the       *)
(* scopes and the stacks of the context have to do with one another.  It   *)
(* asks that no two calls are given the same dimension, which each of the  *)
(* other parts then shows: without the cache since the rho of a call is    *)
(* longer than that of a call around it, with it since a clause that is    *)
(* entered again has another stack.                                        *)
(***************************************************************************)
EXTENDS WhereDims, ContextScopesProofs, FiniteSetTheorems

Hidden == LastHidden..FirstHidden
Phases == {"dims", "initialiser", "body", "leaving", "thrown"}

\* What a clause gives a dimension, and what it perturbs
Given == Hidden \X Ordinate
Change == Dim \X (Ordinate \cup Nat)

CallType ==
  [clause : Clause, cached : BOOLEAN, before : Nat, at : Nat, phase : Phases,
   which : Nat \ {0}, hidden : Int, change : Seq(Change), given : Seq(Given)]

(***************************************************************************)
(* Calls in progress                                                       *)
(***************************************************************************)
\* The scopes below which an evaluation inside this one may not go
Own(w) == w.at + (IF w.phase = "body" THEN 1 ELSE 0)

Complete(w) == w.phase = "body" /\ w.change = <<>>

\* What is perturbed for a call: the dimensions given and others, not hidden, and
\* last with the cache the depth of the clause
CallOK(w) ==
  /\ w.which = Len(w.given) + 1
  /\ w.at = IF w.cached THEN w.before ELSE w.before + 1
  /\ w.phase = "initialiser" /\ ~w.cached =>
       w.which \in DOMAIN Declares[w.clause] /\ w.hidden \in Hidden
  /\ \A x \in DOMAIN w.change :
       \/ \E g \in DOMAIN w.given : w.change[x] = w.given[g]
       \/ w.change[x][1] \notin Hidden
  /\ w.phase \in {"dims", "initialiser"} =>
       \A g \in DOMAIN w.given : \E x \in DOMAIN w.change : w.change[x] = w.given[g]
  /\ \A x \in DOMAIN w.change :
       IF w.cached /\ w.phase = "body" /\ x = Len(w.change)
       THEN w.change[x][1] = PsiQ[w.clause]
       ELSE w.change[x][2] \in Ordinate /\ \A f \in Clause : w.change[x][1] # PsiQ[f]

\* The calls around the innermost are in an initialiser or a body, and their
\* scopes are below those of the calls in them; n scopes are alive
Calls(ws, n) ==
  /\ ws \in Seq(CallType)
  /\ \A i \in DOMAIN ws : CallOK(ws[i])
  /\ \A i, j \in DOMAIN ws : i < j =>
       /\ ws[i].phase = "initialiser" \/ Complete(ws[i])
       /\ Own(ws[i]) <= ws[j].before
  /\ ws # <<>> => LET w == ws[Len(ws)]
                  IN  IF w.phase = "thrown" THEN w.before <= n ELSE Own(w) <= n

Bodies(ws) == {w \in Range(ws) : w.phase = "body"}

\* Those around the innermost call
Around(ws) == {ws[i] : i \in {j \in DOMAIN ws : j # Len(ws) /\ ws[j].phase = "body"}}

(***************************************************************************)
(* What a body sees                                                        *)
(***************************************************************************)
Holds(stacks, w) ==
  \A g \in DOMAIN w.given : TopOf(stacks[w.given[g][1]]) = w.given[g][2]

\* A dimension given to a body is set, or still to be set
Landed(stacks, w) ==
  \A g \in DOMAIN w.given :
    \/ \E x \in DOMAIN w.change : w.change[x] = w.given[g]
    \/ TopOf(stacks[w.given[g][1]]) = w.given[g][2]

\* ... and what a scope inside the body will bring back has it set too
Held(sc, stacks, bodies) ==
  \A w \in bodies :
    /\ Landed(stacks, w)
    /\ Complete(w) => \A j \in DOMAIN sc : j > Own(w) => Holds(sc[j].had, w)

\* The ChiMap is injective, and counts down
ChiOK(c, next) ==
  /\ next \in Int /\ next <= FirstHidden
  /\ \A x \in DOMAIN c : c[x] \in Hidden /\ c[x] > next
  /\ \A x, y \in DOMAIN c : x # y => c[x] # c[y]

HInv ==
  /\ CInv
  /\ ChiOK(chi, nextIndex)
  /\ Calls(wheres, Len(scopes))
  /\ Held(scopes, StacksNow, Bodies(wheres))

\* No two dimensions given are one: by the call the program is in, or by it and
\* a body around it
Distinct(w) == \A g, h \in DOMAIN w.given : g # h => w.given[g][1] # w.given[h][1]
Apart(v, w) ==
  \A g \in DOMAIN v.given : \A h \in DOMAIN w.given : v.given[g][1] # w.given[h][1]

(***************************************************************************)
(* Lemmas on calls                                                         *)
(***************************************************************************)
LEMMA CallsAre ==
  ASSUME NEW ws, NEW n, Calls(ws, n)
  PROVE  /\ ws \in Seq(CallType) /\ Len(ws) \in Nat /\ DOMAIN ws = 1..Len(ws)
         /\ \A i \in DOMAIN ws : /\ ws[i] \in CallType /\ CallOK(ws[i])
                                 /\ ws[i].before \in Nat /\ ws[i].at \in Nat
                                 /\ ws[i].before <= ws[i].at /\ ws[i].at <= Own(ws[i])
                                 /\ Own(ws[i]) \in Nat
<1>1. ws \in Seq(CallType) /\ Len(ws) \in Nat /\ DOMAIN ws = 1..Len(ws)
  BY DEF Calls
<1>2. ASSUME NEW i \in DOMAIN ws
      PROVE  /\ ws[i] \in CallType /\ CallOK(ws[i])
             /\ ws[i].before \in Nat /\ ws[i].at \in Nat
             /\ ws[i].before <= ws[i].at /\ ws[i].at <= Own(ws[i])
             /\ Own(ws[i]) \in Nat
  <2>1. ws[i] \in CallType /\ CallOK(ws[i])
    BY <1>1 DEF Calls
  <2>2. ws[i].before \in Nat /\ ws[i].at \in Nat
    BY <2>1 DEF CallType
  <2> QED
    BY <2>1, <2>2 DEF CallOK, Own
<1> QED
  BY <1>1, <1>2

LEMMA PushCall ==
  ASSUME NEW ws, NEW n \in Nat, Calls(ws, n), NEW w \in CallType, CallOK(w),
         ws = <<>> \/ ws[Len(ws)].phase = "initialiser" \/ Complete(ws[Len(ws)]),
         w.before = n, w.phase \in {"dims", "initialiser"},
         NEW m \in Nat, w.at <= m
  PROVE  Calls(Append(ws, w), m) /\ Bodies(Append(ws, w)) = Bodies(ws)
<1> DEFINE l == Len(ws)
           ws2 == Append(ws, w)
<1>1. /\ ws \in Seq(CallType) /\ l \in Nat /\ DOMAIN ws = 1..l
      /\ ws2 \in Seq(CallType) /\ Len(ws2) = l + 1 /\ DOMAIN ws2 = 1..(l + 1)
      /\ \A i \in 1..l : ws2[i] = ws[i]
      /\ ws2[l + 1] = w
  BY CallsAre
<1> HIDE DEF ws2
<1>2. \A i \in DOMAIN ws2 : CallOK(ws2[i])
  BY <1>1 DEF Calls
<1>3. ASSUME NEW i \in 1..l
      PROVE  (ws[i].phase = "initialiser" \/ Complete(ws[i])) /\ Own(ws[i]) <= n
  <2>1. l \in DOMAIN ws /\ ws # <<>>
    BY <1>1
  <2>2. ws[l].phase = "initialiser" \/ Complete(ws[l])
    BY <2>1
  <2>3. Own(ws[l]) <= n
    BY <2>1, <2>2 DEF Calls, Complete
  <2>4. CASE i = l
    BY <2>2, <2>3, <2>4
  <2>5. CASE i # l
    <3> HIDE DEF l
    <3>0. i \in DOMAIN ws /\ l \in DOMAIN ws /\ i < l
      BY <1>1, <2>1, <2>5
    <3>1. Own(ws[i]) <= ws[l].before /\ (ws[i].phase = "initialiser" \/ Complete(ws[i]))
      BY <3>0 DEF Calls
    <3>2. ws[l].before <= Own(ws[l]) /\ ws[l].before \in Nat /\ Own(ws[l]) \in Nat
          /\ Own(ws[i]) \in Nat
      BY <1>1, <2>1, CallsAre
    <3> QED
      BY <2>3, <3>1, <3>2
  <2> QED
    BY <2>4, <2>5
<1>4. ASSUME NEW i \in DOMAIN ws2, NEW j \in DOMAIN ws2, i < j
      PROVE  /\ ws2[i].phase = "initialiser" \/ Complete(ws2[i])
             /\ Own(ws2[i]) <= ws2[j].before
  <2>1. i \in 1..l /\ ws2[i] = ws[i]
    BY <1>1, <1>4
  <2>2. CASE j = l + 1
    BY <1>1, <1>3, <2>1, <2>2
  <2>3. CASE j # l + 1
    <3>1. j \in 1..l /\ ws2[j] = ws[j]
      BY <1>1, <2>3
    <3> QED
      BY <1>1, <1>4, <2>1, <3>1 DEF Calls
  <2> QED
    BY <2>2, <2>3
<1>5. Calls(ws2, m)
  <2>1. w.phase # "thrown" /\ Own(w) <= m
    <3>1. w.at \in Nat
      BY DEF CallType
    <3> QED
      BY <3>1 DEF Own
  <2> QED
    BY <1>1, <1>2, <1>4, <2>1 DEF Calls
<1>6. Bodies(ws2) = Bodies(ws)
  <2>1. Range(ws2) = Range(ws) \cup {w}
    <3>1. DOMAIN ws2 = DOMAIN ws \cup {l + 1}
      BY <1>1
    <3> QED
      BY <1>1, <3>1 DEF Range
  <2> QED
    BY <2>1 DEF Bodies
<1> QED
  BY <1>5, <1>6 DEF ws2

LEMMA UpdateCall ==
  ASSUME NEW ws, NEW n \in Nat, Calls(ws, n), ws # <<>>, NEW w \in CallType, CallOK(w),
         w.before = ws[Len(ws)].before,
         NEW m \in Nat, IF w.phase = "thrown" THEN w.before <= m ELSE Own(w) <= m
  PROVE  LET ws2 == [ws EXCEPT ![Len(ws)] = w]
         IN  /\ Calls(ws2, m)
             /\ Bodies(ws2) \subseteq Around(ws) \cup {w}
             /\ w.phase # "body" => Bodies(ws2) \subseteq Around(ws)
             /\ Len(ws2) = Len(ws) /\ ws2[Len(ws)] = w
             /\ \A i \in DOMAIN ws : i # Len(ws) => ws2[i] = ws[i]
<1> DEFINE l == Len(ws)
           ws2 == [ws EXCEPT ![Len(ws)] = w]
<1>1. ws \in Seq(CallType) /\ l \in Nat /\ DOMAIN ws = 1..l /\ l \in 1..l
  BY CallsAre
<1>2. ws2 = [ws EXCEPT ![l] = w]
  OBVIOUS
<1> HIDE DEF l
<1>3. ws2 \in [1..l -> CallType]
  <2>1. ws \in [1..l -> CallType]
    BY <1>1
  <2> QED
    BY <1>2, <2>1
<1>4. /\ ws2 \in Seq(CallType) /\ Len(ws2) = l /\ DOMAIN ws2 = 1..l
      /\ ws2[l] = w /\ \A i \in 1..l : i # l => ws2[i] = ws[i]
  BY <1>1, <1>2, <1>3
<1> HIDE DEF ws2
<1>5. \A i \in DOMAIN ws2 : CallOK(ws2[i])
  BY <1>1, <1>4 DEF Calls
<1>6. ASSUME NEW i \in DOMAIN ws2, NEW j \in DOMAIN ws2, i < j
      PROVE  /\ ws2[i].phase = "initialiser" \/ Complete(ws2[i])
             /\ Own(ws2[i]) <= ws2[j].before
  <2>1. i \in 1..l /\ j \in 1..l /\ i # l /\ ws2[i] = ws[i]
    BY <1>1, <1>4, <1>6
  <2>2. ws2[j].before = ws[j].before
    <3>1. CASE j = l
      BY <1>4, <3>1 DEF l
    <3>2. CASE j # l
      BY <1>4, <2>1, <3>2
    <3> QED
      BY <3>1, <3>2
  <2> QED
    BY <1>1, <1>6, <2>1, <2>2 DEF Calls
<1>7. Calls(ws2, m)
  BY <1>4, <1>5, <1>6 DEF Calls
<1>8. ASSUME NEW v \in Bodies(ws2), v # w
      PROVE  v \in Around(ws)
  <2>1. PICK i \in 1..l : v = ws2[i] /\ v.phase = "body"
    BY <1>4 DEF Bodies, Range
  <2>2. i # l /\ v = ws[i]
    BY <1>4, <1>8, <2>1
  <2> QED
    BY <1>1, <2>1, <2>2 DEF Around, l
<1>9. \A v \in Bodies(ws2) : v.phase = "body"
  BY DEF Bodies
<1> QED
  BY <1>1, <1>4, <1>7, <1>8, <1>9 DEF l, ws2

LEMMA ReturnCall ==
  ASSUME NEW ws, NEW n \in Nat, Calls(ws, n), ws # <<>>,
         NEW m \in Nat, ws[Len(ws)].before <= m
  PROVE  LET ws2 == SubSeq(ws, 1, Len(ws) - 1)
         IN  /\ Calls(ws2, m) /\ Bodies(ws2) \subseteq Around(ws)
             /\ Len(ws2) = Len(ws) - 1
             /\ \A i \in DOMAIN ws2 : i \in DOMAIN ws /\ i # Len(ws) /\ ws2[i] = ws[i]
             /\ ws2 # <<>> => ws2[Len(ws2)].phase = "initialiser" \/ Complete(ws2[Len(ws2)])
<1> DEFINE l == Len(ws)
           ws2 == SubSeq(ws, 1, Len(ws) - 1)
<1>1. ws \in Seq(CallType) /\ l \in Nat /\ DOMAIN ws = 1..l /\ l \in 1..l
  BY CallsAre
<1>2. /\ ws2 \in Seq(CallType) /\ Len(ws2) = l - 1 /\ DOMAIN ws2 = 1..(l - 1)
      /\ \A i \in 1..(l - 1) : ws2[i] = ws[i]
  BY <1>1
<1> HIDE DEF ws2
<1>3. ASSUME NEW i \in DOMAIN ws2
      PROVE  /\ i \in 1..l /\ i < l /\ i # l /\ ws2[i] = ws[i]
             /\ ws2[i].phase = "initialiser" \/ Complete(ws2[i])
             /\ Own(ws2[i]) <= ws[l].before
  <2>1. i \in 1..l /\ i < l /\ ws2[i] = ws[i]
    BY <1>1, <1>2
  <2> QED
    BY <1>1, <2>1 DEF Calls
<1>4. \A i \in DOMAIN ws2 : CallOK(ws2[i])
  BY <1>1, <1>3 DEF Calls
<1>5. ASSUME NEW i \in DOMAIN ws2, NEW j \in DOMAIN ws2, i < j
      PROVE  Own(ws2[i]) <= ws2[j].before
  BY <1>1, <1>3, <1>5 DEF Calls
<1>6. ASSUME ws2 # <<>>
      PROVE  /\ ws2[Len(ws2)].phase # "thrown" /\ Own(ws2[Len(ws2)]) <= m
             /\ ws2[Len(ws2)].phase = "initialiser" \/ Complete(ws2[Len(ws2)])
  <2>1. l - 1 \in DOMAIN ws2
    BY <1>1, <1>2, <1>6
  <2>2. Own(ws2[l - 1]) <= ws[l].before
    BY <1>3, <2>1
  <2>3. Own(ws2[l - 1]) \in Nat /\ ws[l].before \in Nat
    BY <1>1, <1>3, <2>1, CallsAre
  <2>4. Own(ws2[l - 1]) <= m
    BY <2>2, <2>3
  <2>5. ws2[l - 1].phase = "initialiser" \/ Complete(ws2[l - 1])
    BY <1>3, <2>1
  <2>6. Len(ws2) = l - 1
    BY <1>2
  <2> HIDE DEF l
  <2> QED
    BY <2>4, <2>5, <2>6 DEF Complete
<1>7. Calls(ws2, m)
  BY <1>2, <1>3, <1>4, <1>5, <1>6 DEF Calls
<1>8. Bodies(ws2) \subseteq Around(ws)
  <2>1. ASSUME NEW v \in Bodies(ws2)
        PROVE  v \in Around(ws)
    <3>1. PICK i \in DOMAIN ws2 : v = ws2[i] /\ v.phase = "body"
      BY DEF Bodies, Range
    <3> QED
      BY <1>1, <1>3, <3>1 DEF Around
  <2> QED
    BY <2>1
<1> QED
  BY <1>1, <1>2, <1>3, <1>6, <1>7, <1>8 DEF ws2

(***************************************************************************)
(* Lemmas on what bodies see                                               *)
(***************************************************************************)
LEMMA HeldFewer ==
  ASSUME NEW sc, NEW stacks, NEW bodies, Held(sc, stacks, bodies),
         NEW fewer \in SUBSET bodies
  PROVE  Held(sc, stacks, fewer)
BY DEF Held

LEMMA HeldSame ==
  ASSUME NEW sc, NEW stacks, NEW bodies, Held(sc, stacks, bodies), NEW sc2,
         DOMAIN sc2 = DOMAIN sc, \A j \in DOMAIN sc : sc2[j].had = sc[j].had
  PROVE  Held(sc2, stacks, bodies)
BY DEF Held

\* A scope that begins in a body takes what the body sees
LEMMA HeldOpened ==
  ASSUME NEW sc, NEW stacks, NEW bodies, Held(sc, stacks, bodies), NEW sc2, NEW new,
         DOMAIN sc2 = DOMAIN sc \cup {new},
         \A j \in DOMAIN sc : sc2[j].had = sc[j].had,
         sc2[new].had = stacks
  PROVE  Held(sc2, stacks, bodies)
<1> SUFFICES ASSUME NEW w \in bodies
             PROVE  /\ Landed(stacks, w)
                    /\ Complete(w) => \A j \in DOMAIN sc2 : j > Own(w) => Holds(sc2[j].had, w)
  BY DEF Held
<1>1. Landed(stacks, w)
  BY DEF Held
<1>2. ASSUME Complete(w), NEW j \in DOMAIN sc2, j > Own(w)
      PROVE  Holds(sc2[j].had, w)
  <2>1. CASE j \in DOMAIN sc
    BY <1>2, <2>1 DEF Held
  <2>2. CASE j = new
    <3>1. DOMAIN w.change = {}
      BY <1>2 DEF Complete
    <3>2. Holds(stacks, w)
      BY <1>1, <3>1 DEF Landed, Holds
    <3> QED
      BY <2>2, <3>2
  <2> QED
    BY <2>1, <2>2
<1> QED
  BY <1>1, <1>2

\* A scope that ends inside bodies brings back what they see
LEMMA HeldClosed ==
  ASSUME NEW sc, NEW n \in Nat, DOMAIN sc = 1..n, n > 0,
         NEW stacks, NEW bodies, Held(sc, stacks, bodies), NEW sc2,
         DOMAIN sc2 \subseteq DOMAIN sc, \A j \in DOMAIN sc2 : sc2[j] = sc[j],
         \A w \in bodies : Complete(w) /\ n > Own(w)
  PROVE  Held(sc2, sc[n].had, bodies)
<1> SUFFICES ASSUME NEW w \in bodies
             PROVE  /\ Landed(sc[n].had, w)
                    /\ \A j \in DOMAIN sc2 : j > Own(w) => Holds(sc2[j].had, w)
  BY DEF Held
<1>1. \A j \in DOMAIN sc : j > Own(w) => Holds(sc[j].had, w)
  BY DEF Held
<1>2. n \in DOMAIN sc
  OBVIOUS
<1>3. Landed(sc[n].had, w)
  BY <1>1, <1>2 DEF Landed, Holds
<1> QED
  BY <1>1, <1>3

LEMMA ScopesAre ==
  ASSUME CInv
  PROVE  /\ scopes \in Seq(ScopeType) /\ Len(scopes) \in Nat
         /\ DOMAIN scopes = 1..Len(scopes) /\ ContextOK(k)
         /\ StacksNow \in [Dim -> Seq(Ordinate)]
         /\ \A d \in Dim : Lookup(k, d) = TopOf(StacksNow[d])
<1>1. scopes \in Seq(ScopeType) /\ ContextOK(k)
  BY ContextTypeIs DEF CInv, ScopesInv, ScopesTyped
<1>2. \A d \in Dim : Lookup(k, d) = TopOf(StacksNow[d])
  BY <1>1, LookupIsTop, ContextAssumption DEF StacksNow
<1> QED
  BY <1>1, <1>2, SeenTyped

\* The bodies around the innermost call are complete, and begun before it
LEMMA AroundAre ==
  ASSUME NEW ws, NEW n \in Nat, Calls(ws, n), ws # <<>>
  PROVE  /\ Around(ws) \subseteq Bodies(ws)
         /\ Bodies(ws) \subseteq Around(ws) \cup {ws[Len(ws)]}
         /\ ws[Len(ws)].phase # "body" => Bodies(ws) = Around(ws)
         /\ \A w \in Around(ws) : /\ Complete(w) /\ Own(w) \in Nat
                                  /\ Own(w) <= ws[Len(ws)].before
<1> DEFINE l == Len(ws)
<1>1. /\ l \in Nat /\ DOMAIN ws = 1..l /\ l \in 1..l
      /\ \A i \in DOMAIN ws : Own(ws[i]) \in Nat
  BY CallsAre
<1>2. ASSUME NEW w \in Around(ws)
      PROVE  /\ w \in Bodies(ws) /\ Complete(w) /\ Own(w) \in Nat
             /\ Own(w) <= ws[Len(ws)].before
  <2>1. PICK i \in DOMAIN ws : w = ws[i] /\ ws[i].phase = "body" /\ i # l
    BY DEF Around
  <2> HIDE DEF l
  <2>2. i < l /\ i \in DOMAIN ws /\ l \in DOMAIN ws
    BY <1>1, <2>1
  <2>3. Complete(ws[i]) /\ Own(ws[i]) <= ws[l].before
    BY <2>1, <2>2 DEF Calls
  <2>4. w \in Bodies(ws)
    BY <2>1 DEF Bodies, Range
  <2> QED
    BY <1>1, <2>1, <2>3, <2>4 DEF l
<1>3. ASSUME NEW w \in Bodies(ws)
      PROVE  w \in Around(ws) \/ (w = ws[Len(ws)] /\ w.phase = "body")
  <2>1. PICK i \in DOMAIN ws : w = ws[i] /\ w.phase = "body"
    BY DEF Bodies, Range
  <2> QED
    BY <2>1 DEF Around
<1> QED
  BY <1>2, <1>3

(***************************************************************************)
(* The operations of a clause                                              *)
(***************************************************************************)
LEMMA HiddenAre ==
  /\ \A d \in Hidden : d \in Dim /\ d \in Ordinate /\ d \in Int
  /\ \A d \in Dim : d \in Int
  /\ \A o \in Plain : o \in Ordinate
  /\ \A e \in Clause : Declares[e] \in Seq(Dim)
  /\ \A e \in Clause : \A i \in DOMAIN Declares[e] :
       /\ Declares[e][i] \in Dim /\ Declares[e][i] \notin Hidden
       /\ \A f \in Clause : Declares[e][i] # PsiQ[f]
  /\ \A f \in Clause : PsiQ[f] \in Dim /\ PsiQ[f] \notin Hidden
BY WhereAssumption, ContextAssumption DEF Hidden

\* ChiMap::lookup gives a dimension to each ChiDim and no other
LEMMA LookedUp ==
  ASSUME ChiOK(chi, nextIndex), NEW key, NEW d \in Hidden, LookupChi(key, d)
  PROVE  /\ ChiOK(chi, nextIndex)'
         /\ key \in DOMAIN chi' /\ chi'[key] = d
         /\ \A x \in DOMAIN chi : x \in DOMAIN chi' /\ chi'[x] = chi[x]
<1>1. CASE key \in DOMAIN chi /\ d = chi[key] /\ UNCHANGED <<chi, nextIndex>>
  BY <1>1 DEF ChiOK
<1>2. CASE /\ key \notin DOMAIN chi
           /\ d = nextIndex
           /\ chi' = [x \in DOMAIN chi \cup {key} |-> IF x = key THEN d ELSE chi[x]]
           /\ nextIndex' = nextIndex - 1
  <2>1. /\ DOMAIN chi' = DOMAIN chi \cup {key} /\ chi'[key] = d
        /\ \A x \in DOMAIN chi : x # key /\ chi'[x] = chi[x]
    BY <1>2
  <2>2. nextIndex' \in Int /\ nextIndex' <= FirstHidden
    BY <1>2, WhereAssumption DEF ChiOK
  <2>3. ASSUME NEW x \in DOMAIN chi'
        PROVE  chi'[x] \in Hidden /\ chi'[x] > nextIndex'
    <3>1. CASE x = key
      BY <1>2, <2>1, <3>1, HiddenAre
    <3>2. CASE x # key
      <4>1. x \in DOMAIN chi /\ chi'[x] = chi[x]
        BY <2>1, <3>2
      <4>2. chi[x] \in Hidden /\ chi[x] > nextIndex /\ nextIndex \in Int
        BY <4>1 DEF ChiOK
      <4> QED
        BY <1>2, <4>1, <4>2, HiddenAre
    <3> QED
      BY <3>1, <3>2
  <2>4. ASSUME NEW x \in DOMAIN chi', NEW y \in DOMAIN chi', x # y
        PROVE  chi'[x] # chi'[y]
    <3>1. ASSUME NEW z \in DOMAIN chi
          PROVE  chi[z] # d
      <4>1. chi[z] > nextIndex /\ chi[z] \in Hidden /\ nextIndex \in Int
        BY DEF ChiOK
      <4> QED
        BY <1>2, <4>1, HiddenAre
    <3>2. CASE x \in DOMAIN chi /\ y \in DOMAIN chi
      BY <2>1, <2>4, <3>2 DEF ChiOK
    <3>3. CASE x = key
      BY <2>1, <2>4, <3>1, <3>3
    <3>4. CASE y = key
      BY <2>1, <2>4, <3>1, <3>4
    <3> QED
      BY <2>1, <3>2, <3>3, <3>4
  <2> QED
    BY <2>1, <2>2, <2>3, <2>4 DEF ChiOK
<1> QED
  BY <1>1, <1>2 DEF LookupChi

\* r is c with a and b behind it
TwoBehind(r, S, c, a, b) ==
  /\ r \in Seq(S) /\ Len(r) = Len(c) + 2
  /\ \A x \in DOMAIN c : x \in DOMAIN r /\ r[x] = c[x]
  /\ Len(c) + 1 \in DOMAIN r /\ r[Len(c) + 1] = a
  /\ Len(c) + 2 \in DOMAIN r /\ r[Len(c) + 2] = b
  /\ \A x \in DOMAIN r : x \in DOMAIN c \/ x = Len(c) + 1 \/ x = Len(c) + 2

LEMMA TwoMore ==
  ASSUME NEW S, NEW c \in Seq(S), NEW a \in S, NEW b \in S
  PROVE  TwoBehind(c \o <<a, b>>, S, c, a, b)
<1>1. <<a, b>> \in Seq(S) /\ Len(<<a, b>>) = 2
  OBVIOUS
<1> QED
  BY <1>1 DEF TwoBehind

LEMMA OneMore ==
  ASSUME NEW S, NEW c \in Seq(S), NEW a \in S
  PROVE  /\ Append(c, a) \in Seq(S) /\ Len(Append(c, a)) = Len(c) + 1
         /\ \A x \in DOMAIN c : x \in DOMAIN Append(c, a) /\ Append(c, a)[x] = c[x]
         /\ Len(c) + 1 \in DOMAIN Append(c, a) /\ Append(c, a)[Len(c) + 1] = a
         /\ \A x \in DOMAIN Append(c, a) : x \in DOMAIN c \/ x = Len(c) + 1
OBVIOUS

\* An initialiser that has a value: w becomes w2, given d and changing two more
GivenMore(w, w2, d, o) ==
  /\ w2 = [w EXCEPT !.which = w.which + 1, !.phase = w2.phase,
                    !.change = w.change \o <<<<d, o>>, <<Declares[w.clause][w.which], d>>>>,
                    !.given = Append(w.given, <<d, o>>)]
  /\ w2.phase \in {"dims", "initialiser"}
  /\ w2.phase = "initialiser" => w.cached

LEMMA GivesOne ==
  ASSUME NEW w \in CallType, CallOK(w), w.phase = "initialiser",
         w.which \in DOMAIN Declares[w.clause], NEW d \in Hidden, NEW o \in Ordinate,
         NEW w2, GivenMore(w, w2, d, o)
  PROVE  /\ w2 \in CallType /\ CallOK(w2)
         /\ w2.before = w.before /\ w2.at = w.at /\ w2.clause = w.clause
         /\ w2.cached = w.cached /\ Own(w2) = Own(w)
         /\ w2.given = Append(w.given, <<d, o>>)
<1> DEFINE b == Declares[w.clause][w.which]
           g2 == Append(w.given, <<d, o>>)
           c2 == w.change \o <<<<d, o>>, <<b, d>>>>
<1>1. /\ w.given \in Seq(Given) /\ w.change \in Seq(Change) /\ w.which \in Nat \ {0}
      /\ w.before \in Nat /\ w.at \in Nat /\ w.hidden \in Int /\ w.clause \in Clause
      /\ w.cached \in BOOLEAN
  BY DEF CallType
<1>2. <<d, o>> \in Given /\ <<d, o>> \in Change /\ <<b, d>> \in Change
      /\ b \notin Hidden
  BY <1>1, HiddenAre DEF Given, Change
<1>3. /\ g2 \in Seq(Given) /\ Len(g2) = Len(w.given) + 1
      /\ \A x \in DOMAIN w.given : x \in DOMAIN g2 /\ g2[x] = w.given[x]
      /\ Len(w.given) + 1 \in DOMAIN g2 /\ g2[Len(w.given) + 1] = <<d, o>>
      /\ \A x \in DOMAIN g2 : x \in DOMAIN w.given \/ x = Len(w.given) + 1
  BY <1>1, <1>2, OneMore
<1>4. /\ c2 \in Seq(Change)
      /\ \A x \in DOMAIN w.change : x \in DOMAIN c2 /\ c2[x] = w.change[x]
      /\ Len(w.change) + 1 \in DOMAIN c2 /\ c2[Len(w.change) + 1] = <<d, o>>
      /\ c2[Len(w.change) + 2] = <<b, d>>
      /\ \A x \in DOMAIN c2 : x \in DOMAIN w.change \/ x = Len(w.change) + 1
                              \/ x = Len(w.change) + 2
  <2> DEFINE p == <<d, o>>
             q == <<b, d>>
             c == w.change
  <2>1. p \in Change /\ q \in Change /\ c \in Seq(Change) /\ c2 = c \o <<p, q>>
    BY <1>1, <1>2
  <2> HIDE DEF p, q, c, c2
  <2>2. /\ c2 \in Seq(Change)
        /\ \A x \in DOMAIN c : x \in DOMAIN c2 /\ c2[x] = c[x]
        /\ Len(c) + 1 \in DOMAIN c2 /\ c2[Len(c) + 1] = p
        /\ c2[Len(c) + 2] = q
        /\ \A x \in DOMAIN c2 : x \in DOMAIN c \/ x = Len(c) + 1 \/ x = Len(c) + 2
    <3>1. TwoBehind(c \o <<p, q>>, Change, c, p, q)
      BY <2>1, TwoMore
    <3>2. TwoBehind(c2, Change, c, p, q)
      BY <2>1, <3>1
    <3> QED
      BY <3>2 DEF TwoBehind
  <2> QED
    BY <2>2 DEF p, q, c
<1>5. /\ w2 = [w EXCEPT !.which = w.which + 1, !.phase = w2.phase,
                        !.change = c2, !.given = g2]
      /\ w2.phase \in {"dims", "initialiser"} /\ (w2.phase = "initialiser" => w.cached)
  BY DEF GivenMore
<1> HIDE DEF b, g2, c2
<1>6. /\ w2.which = w.which + 1 /\ w2.change = c2 /\ w2.given = g2
      /\ w2.before = w.before /\ w2.at = w.at /\ w2.hidden = w.hidden
      /\ w2.clause = w.clause /\ w2.cached = w.cached
  BY <1>5 DEF CallType
<1>7. w2 \in CallType
  <2>1. w2.phase \in Phases
    BY <1>5 DEF Phases
  <2> DEFINE ph == w2.phase
  <2> HIDE DEF ph
  <2>2. w2 = [w EXCEPT !.which = w.which + 1, !.phase = ph, !.change = c2, !.given = g2]
    BY <1>5 DEF ph
  <2>3. ph \in Phases /\ w.which + 1 \in Nat \ {0}
    BY <1>1, <2>1 DEF ph
  <2> QED
    BY <1>3, <1>4, <2>2, <2>3 DEF CallType
<1>8. w2.which = Len(w2.given) + 1
  <2>1. w.which = Len(w.given) + 1
    BY DEF CallOK
  <2> QED
    BY <1>3, <1>6, <2>1
<1>9. ASSUME NEW x \in DOMAIN c2
      PROVE  (\E g \in DOMAIN g2 : c2[x] = g2[g]) \/ c2[x][1] \notin Hidden
  <2>1. CASE x \in DOMAIN w.change
    BY <1>3, <1>4, <2>1 DEF CallOK
  <2>2. CASE x = Len(w.change) + 1
    BY <1>3, <1>4, <2>2
  <2>3. CASE x = Len(w.change) + 2
    BY <1>2, <1>4, <2>3
  <2> QED
    BY <1>4, <2>1, <2>2, <2>3
<1>10. ASSUME NEW g \in DOMAIN g2
       PROVE  \E x \in DOMAIN c2 : c2[x] = g2[g]
  <2>1. CASE g \in DOMAIN w.given
    BY <1>3, <1>4, <2>1 DEF CallOK
  <2>2. CASE g = Len(w.given) + 1
    BY <1>3, <1>4, <2>2
  <2> QED
    BY <1>3, <2>1, <2>2
<1>13. ASSUME NEW x \in DOMAIN c2
       PROVE  c2[x][2] \in Ordinate /\ \A f \in Clause : c2[x][1] # PsiQ[f]
  <2>1. CASE x \in DOMAIN w.change
    BY <1>4, <2>1 DEF CallOK
  <2>2. CASE x = Len(w.change) + 1
    BY <1>4, <2>2, HiddenAre
  <2>3. CASE x = Len(w.change) + 2
    <3>1. d \in Ordinate /\ \A f \in Clause : b # PsiQ[f]
      BY <1>1, HiddenAre DEF b
    <3> QED
      BY <1>4, <2>3, <3>1
  <2> QED
    BY <1>4, <2>1, <2>2, <2>3
<1>11. w2.at = IF w2.cached THEN w2.before ELSE w2.before + 1
  BY <1>6 DEF CallOK
<1>12. CallOK(w2)
  BY <1>5, <1>6, <1>8, <1>9, <1>10, <1>11, <1>13 DEF CallOK
<1> QED
  BY <1>5, <1>6, <1>7, <1>12 DEF Own, g2

(***************************************************************************)
(* Every operation keeps the common part                                   *)
(***************************************************************************)
LEMMA InnermostIs ==
  ASSUME HInv, wheres # <<>>
  PROVE  /\ Current = wheres[Len(wheres)] /\ Current \in CallType /\ CallOK(Current)
         /\ Current.clause \in Clause /\ Current.cached \in BOOLEAN
         /\ Current.before \in Nat /\ Current.at \in Nat /\ Current.before <= Current.at
         /\ Current.given \in Seq(Given) /\ Current.change \in Seq(Change)
         /\ Current.which \in Nat \ {0} /\ Current.which = Len(Current.given) + 1
         /\ OwnScopes = Own(Current)
         /\ Len(scopes) \in Nat /\ Calls(wheres, Len(scopes))
         /\ Len(wheres) \in DOMAIN wheres
<1>1. Calls(wheres, Len(scopes)) /\ Len(scopes) \in Nat
  BY ScopesAre DEF HInv
<1>2. wheres \in Seq(CallType) /\ Len(wheres) \in DOMAIN wheres
  BY <1>1, CallsAre
<1>3. /\ Current = wheres[Len(wheres)] /\ Current \in CallType /\ CallOK(Current)
      /\ Current.before \in Nat /\ Current.at \in Nat /\ Current.before <= Current.at
  BY <1>1, <1>2, CallsAre DEF Current
<1> QED
  BY <1>1, <1>2, <1>3 DEF CallType, CallOK, OwnScopes, Own

LEMMA ContextStays == CInv /\ UNCHANGED contextVars => CInv' /\ StacksNow' = StacksNow
BY ContextStep DEF contextVars, StacksNow

\* A new call, in scopes that have only grown
LEMMA EntersKeeps ==
  ASSUME HInv, CInv', Free, NEW w \in CallType, CallOK(w), wheres' = Append(wheres, w),
         w.before = Len(scopes), w.phase \in {"dims", "initialiser"},
         w.at <= Len(scopes'), Len(scopes') \in Nat,
         Held(scopes', StacksNow', Bodies(wheres)), UNCHANGED <<chi, nextIndex>>
  PROVE  HInv'
<1>1. Calls(wheres, Len(scopes)) /\ Len(scopes) \in Nat
  BY ScopesAre DEF HInv
<1>2. wheres = <<>> \/ wheres[Len(wheres)].phase = "initialiser"
                    \/ Complete(wheres[Len(wheres)])
  BY DEF Free, Inside, In, Current, Complete
<1>3. /\ Calls(Append(wheres, w), Len(scopes'))
      /\ Bodies(Append(wheres, w)) = Bodies(wheres)
  BY <1>1, <1>2, PushCall
<1>4. ChiOK(chi, nextIndex)'
  BY DEF HInv
<1> QED
  BY <1>3, <1>4 DEF HInv

\* The innermost call goes on
LEMMA UpdatesKeeps ==
  ASSUME HInv, CInv', wheres # <<>>, NEW w \in CallType, CallOK(w), Update(w),
         w.before = Current.before, Len(scopes') \in Nat,
         IF w.phase = "thrown" THEN w.before <= Len(scopes') ELSE Own(w) <= Len(scopes'),
         Held(scopes', StacksNow', Around(wheres)), ChiOK(chi, nextIndex)',
         w.phase = "body" => /\ Landed(StacksNow', w)
                             /\ \A j \in DOMAIN scopes' : ~(j > Own(w))
  PROVE  HInv'
<1>1. Calls(wheres, Len(scopes)) /\ Len(scopes) \in Nat /\ Current = wheres[Len(wheres)]
  BY InnermostIs
<1>2. /\ Calls(wheres', Len(scopes'))
      /\ Bodies(wheres') \subseteq Around(wheres) \cup {w}
      /\ w.phase # "body" => Bodies(wheres') \subseteq Around(wheres)
  BY <1>1, UpdateCall DEF Update
<1>3. Held(scopes', StacksNow', Bodies(wheres'))
  <2>1. CASE w.phase # "body"
    BY <1>2, <2>1, HeldFewer
  <2>2. CASE w.phase = "body"
    <3>1. Held(scopes', StacksNow', Around(wheres) \cup {w})
      BY <2>2 DEF Held
    <3> QED
      BY <1>2, <3>1, HeldFewer
  <2> QED
    BY <2>1, <2>2
<1> QED
  BY <1>2, <1>3 DEF HInv

\* The innermost call is over
LEMMA ReturnsKeeps ==
  ASSUME HInv, CInv', wheres # <<>>, Return, Len(scopes') \in Nat,
         Current.before <= Len(scopes'), Held(scopes', StacksNow', Around(wheres)),
         UNCHANGED <<chi, nextIndex>>
  PROVE  HInv'
<1>1. Calls(wheres, Len(scopes)) /\ Len(scopes) \in Nat /\ Current = wheres[Len(wheres)]
  BY InnermostIs
<1>2. Calls(wheres', Len(scopes')) /\ Bodies(wheres') \subseteq Around(wheres)
  BY <1>1, ReturnCall DEF Return
<1>3. Held(scopes', StacksNow', Bodies(wheres'))
  BY <1>2, HeldFewer
<1>4. ChiOK(chi, nextIndex)'
  BY DEF HInv
<1> QED
  BY <1>2, <1>3, <1>4 DEF HInv

\* What the bodies around the innermost call see is there
LEMMA AroundHeld ==
  ASSUME HInv, wheres # <<>>, NEW sc, NEW stacks, Held(sc, stacks, Bodies(wheres))
  PROVE  Held(sc, stacks, Around(wheres))
BY InnermostIs, AroundAre, HeldFewer

\* What scopes do to what bodies see
LEMMA OpensHeld ==
  ASSUME HInv, NEW kind \in {"perturb", "rho"}, NEW index \in 0..MaxIndex,
         NEW others, OthersIndex(others, scopes),
         scopes' = Append(others, Scope(kind, index)), k' = k
  PROVE  /\ Held(scopes', StacksNow', Bodies(wheres))
         /\ Len(scopes') = Len(scopes) + 1 /\ StacksNow' = StacksNow
         /\ DOMAIN scopes' = 1..(Len(scopes) + 1)
         /\ scopes'[Len(scopes) + 1].kind = kind
         /\ \A j \in DOMAIN scopes : /\ scopes'[j].had = scopes[j].had
                                     /\ scopes'[j].kind = scopes[j].kind
         /\ scopes'[Len(scopes) + 1].had = StacksNow
<1> DEFINE n == Len(scopes)
           new == Scope(kind, index)
<1>1. n \in Nat /\ DOMAIN scopes = 1..n /\ Held(scopes, StacksNow, Bodies(wheres))
  BY ScopesAre DEF HInv
<1>2. StacksNow' = StacksNow
  BY DEF StacksNow
<1>3. new.had = StacksNow /\ new.kind = kind
  BY DEF Scope, StacksNow
<1>4. /\ others \in Seq(ScopeType) /\ Len(others) = n
      /\ \A j \in 1..n : others[j].had = scopes[j].had /\ others[j].kind = scopes[j].kind
  BY <1>1 DEF OthersIndex
<1> HIDE DEF new, n
<1>5. /\ scopes' = Append(others, new) /\ Len(scopes') = n + 1 /\ DOMAIN scopes' = 1..(n + 1)
      /\ \A j \in 1..n : scopes'[j] = others[j]
      /\ scopes'[n + 1] = new
  <2>1. scopes' = Append(others, new)
    BY DEF new
  <2> QED
    BY <1>1, <1>4, <2>1
<1>6. DOMAIN scopes' = DOMAIN scopes \cup {n + 1}
  BY <1>1, <1>5
<1>7. /\ \A j \in DOMAIN scopes : /\ scopes'[j].had = scopes[j].had
                                  /\ scopes'[j].kind = scopes[j].kind
      /\ scopes'[n + 1].had = StacksNow /\ scopes'[n + 1].kind = kind
  BY <1>1, <1>3, <1>4, <1>5
<1>8. Held(scopes', StacksNow, Bodies(wheres))
  BY <1>1, <1>6, <1>7, HeldOpened
<1> QED
  BY <1>2, <1>5, <1>7, <1>8 DEF n

LEMMA ClosesHeld ==
  ASSUME HInv, scopes # <<>>, End, StacksNow' = Top.had,
         NEW bodies \in SUBSET Bodies(wheres),
         \A w \in bodies : Complete(w) /\ Len(scopes) > Own(w)
  PROVE  /\ Held(scopes', StacksNow', bodies)
         /\ Len(scopes') = Len(scopes) - 1 /\ Len(scopes') \in Nat
         /\ DOMAIN scopes' = 1..(Len(scopes) - 1)
         /\ \A j \in DOMAIN scopes' : j \in DOMAIN scopes /\ scopes'[j] = scopes[j]
<1> DEFINE n == Len(scopes)
<1>1. /\ n \in Nat /\ DOMAIN scopes = 1..n /\ Held(scopes, StacksNow, bodies) /\ n > 0
      /\ scopes \in Seq(ScopeType)
  BY ScopesAre, HeldFewer DEF HInv
<1>2. /\ Len(scopes') = n - 1 /\ DOMAIN scopes' = 1..(n - 1)
      /\ \A j \in 1..(n - 1) : scopes'[j] = scopes[j]
  BY <1>1 DEF End
<1>3. DOMAIN scopes' \subseteq DOMAIN scopes /\ \A j \in DOMAIN scopes' : scopes'[j] = scopes[j]
  BY <1>1, <1>2
<1>4. Held(scopes', scopes[n].had, bodies)
  BY <1>1, <1>3, HeldClosed
<1> QED
  BY <1>1, <1>2, <1>3, <1>4 DEF Top

LEMMA IndexHeld ==
  ASSUME HInv, NEW index, ChangeTop(index)
  PROVE  /\ Held(scopes', StacksNow', Bodies(wheres)) /\ Len(scopes') = Len(scopes)
         /\ DOMAIN scopes' = DOMAIN scopes /\ StacksNow' = StacksNow
         /\ \A j \in DOMAIN scopes : /\ scopes'[j].had = scopes[j].had
                                     /\ scopes'[j].kind = scopes[j].kind
         /\ Len(rho') = Len(rho)
<1>1. Held(scopes, StacksNow, Bodies(wheres)) /\ scopes \in Seq(ScopeType)
  BY ScopesAre DEF HInv
<1>2. StacksNow' = StacksNow
  BY DEF ChangeTop, StacksNow
<1> DEFINE m == Innermost(Managers)
<1>3. scopes' = [scopes EXCEPT ![m].index = index]
  BY DEF ChangeTop
<1> HIDE DEF m
<1>4. ASSUME NEW j \in DOMAIN scopes
      PROVE  scopes'[j].had = scopes[j].had /\ scopes'[j].kind = scopes[j].kind
  <2>1. scopes[j] \in ScopeType
    BY <1>1
  <2>2. scopes'[j] = IF j = m THEN [scopes[j] EXCEPT !.index = index] ELSE scopes[j]
    BY <1>3
  <2> QED
    BY <2>1, <2>2 DEF ScopeType
<1>5. DOMAIN scopes' = DOMAIN scopes
  BY <1>3
<1>6. Len(scopes') = Len(scopes)
  <2>1. DOMAIN scopes = 1..Len(scopes) /\ Len(scopes) \in Nat
    BY <1>1
  <2>2. ASSUME NEW S, NEW n \in Nat, NEW f \in [1..n -> S]
        PROVE  Len(f) = n
    OBVIOUS
  <2> DEFINE n == Len(scopes)
             S == {scopes'[j] : j \in 1..n}
  <2>3. scopes' \in [1..n -> S] /\ n \in Nat
    BY <1>3, <1>5, <2>1
  <2> HIDE DEF n, S
  <2>4. Len(scopes') = n
    BY <2>2, <2>3
  <2> QED
    BY <2>4 DEF n
<1>7. Len(rho') = Len(rho)
  <2>1. rho \in Seq(0..MaxIndex)
    BY DEF HInv, CInv, ContextTypeOK
  <2> QED
    BY <2>1 DEF ChangeTop
<1> QED
  BY <1>1, <1>2, <1>4, <1>5, <1>6, <1>7, HeldSame

NewCall(w, e, cached, at) ==
  /\ w \in CallType /\ CallOK(w)
  /\ w.phase = "dims" /\ w.before = Len(scopes) /\ w.at = at
  /\ w.given = <<>> /\ w.clause = e /\ w.cached = cached

LEMMA CallIsNew ==
  ASSUME NEW e \in Clause, NEW cached \in BOOLEAN, Len(scopes) \in Nat,
         NEW at \in Nat, cached => at = Len(scopes), ~cached => at = Len(scopes) + 1
  PROVE  NewCall(Call(e, cached, at), e, cached, at)
<1> DEFINE w == Call(e, cached, at)
<1>1. /\ w.clause = e /\ w.cached = cached /\ w.before = Len(scopes) /\ w.at = at
      /\ w.phase = "dims" /\ w.which = 1 /\ w.hidden = 0 /\ w.change = <<>> /\ w.given = <<>>
  BY DEF Call
<1>2. w \in CallType
  <2>1. <<>> \in Seq(Change) /\ <<>> \in Seq(Given) /\ "dims" \in Phases
    BY DEF Phases
  <2>2. at \in Nat
    OBVIOUS
  <2> QED
    BY <2>1, <2>2 DEF Call, CallType
<1> HIDE DEF w
<1>3. DOMAIN w.change = {} /\ DOMAIN w.given = {} /\ Len(w.given) = 0
  BY <1>1
<1>4. CallOK(w)
  BY <1>1, <1>3 DEF CallOK
<1> QED
  BY <1>1, <1>2, <1>4 DEF w, NewCall

LEMMA EnterWhereKeeps ==
  ASSUME HInv, NEW e \in Clause, EnterWhere(e)
  PROVE  HInv'
<1>1. 0 \in 0..MaxIndex /\ Len(scopes) \in Nat /\ OthersIndex(scopes, scopes)
  BY ContextAssumption, ScopesAre, SameIndex DEF HInv
<1>2. CInv'
  BY <1>1, OpenRhoKeeps DEF EnterWhere, HInv
<1>3. scopes' = Append(scopes, Scope("rho", 0)) /\ k' = k
  BY DEF EnterWhere, OpenRho, Begin
<1>4. Held(scopes', StacksNow', Bodies(wheres)) /\ Len(scopes') = Len(scopes) + 1
  BY <1>1, <1>3, OpensHeld
<1> DEFINE w == Call(e, FALSE, Len(scopes) + 1)
<1>5. /\ w \in CallType /\ CallOK(w) /\ w.phase = "dims" /\ w.before = Len(scopes)
      /\ w.at = Len(scopes) + 1
  <2>1. FALSE \in BOOLEAN /\ Len(scopes) + 1 \in Nat
    BY <1>1
  <2>2. NewCall(w, e, FALSE, Len(scopes) + 1)
    BY <1>1, <2>1, CallIsNew
  <2> QED
    BY <2>2 DEF NewCall
<1>6. Free /\ wheres' = Append(wheres, w) /\ UNCHANGED <<chi, nextIndex>>
  BY DEF EnterWhere
<1> HIDE DEF w
<1> QED
  BY <1>1, <1>2, <1>4, <1>5, <1>6, EntersKeeps

LEMMA AllocateKeeps ==
  ASSUME HInv, Allocate
  PROVE  HInv'
<1>1. wheres # <<>> /\ Current.phase = "dims" /\ ~Current.cached /\ HasDims
  BY DEF Allocate, Here, In
<1>2. ChangeTop(Current.which)
  BY DEF Allocate
<1>3. Current.which \in DOMAIN Declares[Current.clause] /\ Current.which \in 0..MaxIndex
  <2>1. /\ Declares[Current.clause] \in Seq(Dim) /\ Current.clause \in Clause
        /\ Len(Declares[Current.clause]) <= MaxIndex /\ Current.which \in Nat \ {0}
        /\ MaxIndex \in Nat
    BY <1>1, InnermostIs, HiddenAre, WhereAssumption, ContextAssumption
  <2> QED
    BY <1>1, <2>1 DEF HasDims
<1>4. CInv'
  BY <1>2, <1>3, ChangeTopKeeps DEF HInv
<1>5. /\ Held(scopes', StacksNow', Bodies(wheres)) /\ Len(scopes') = Len(scopes)
  BY <1>2, IndexHeld
<1>6. PICK d \in Hidden : /\ LookupChi([which |-> Current.which, stack |-> rho], d)
                          /\ Update([Current EXCEPT !.phase = "initialiser", !.hidden = d])
  BY DEF Allocate, Hidden
<1> DEFINE c == Current
           w == [Current EXCEPT !.phase = "initialiser", !.hidden = d]
<1>7. ChiOK(chi, nextIndex)'
  BY <1>6, LookedUp DEF HInv
<1>8. /\ w.clause = c.clause /\ w.cached = c.cached /\ w.before = c.before /\ w.at = c.at
      /\ w.which = c.which /\ w.change = c.change /\ w.given = c.given
      /\ w.phase = "initialiser" /\ w.hidden = d /\ w \in CallType
      /\ Own(w) = Own(c) /\ Own(w) \in Nat
  <2>1. c \in CallType /\ d \in Int
    BY <1>1, <1>6, InnermostIs, HiddenAre
  <2>2. "initialiser" \in Phases
    BY DEF Phases
  <2> HIDE DEF c
  <2>3. /\ w.clause = c.clause /\ w.cached = c.cached /\ w.before = c.before /\ w.at = c.at
        /\ w.which = c.which /\ w.change = c.change /\ w.given = c.given
        /\ w.phase = "initialiser" /\ w.hidden = d /\ w \in CallType
    BY <2>1, <2>2 DEF CallType, c
  <2>4. Own(w) = Own(c) /\ Own(w) \in Nat
    <3>1. c.phase = "dims" /\ c.at \in Nat
      BY <1>1, <2>1 DEF c, CallType
    <3> HIDE DEF w
    <3> QED
      BY <2>3, <3>1 DEF Own
  <2> QED
    BY <2>3, <2>4
<1>9. CallOK(c) /\ c.phase = "dims" /\ ~c.cached /\ c.which \in DOMAIN Declares[c.clause]
      /\ Own(c) <= Len(scopes)
  <2>1. Len(scopes) = Own(c)
    BY <1>1, InnermostIs DEF Allocate, Here
  <2> QED
    BY <1>1, <1>3, <2>1, InnermostIs
<1> HIDE DEF w, c
<1>10. CallOK(w)
  BY <1>6, <1>8, <1>9 DEF CallOK
<1>11. Update(w) /\ w.before = Current.before /\ w.phase # "body" /\ w.phase # "thrown"
       /\ Own(w) <= Len(scopes') /\ Len(scopes') \in Nat
  <2>1. Len(scopes) \in Nat
    BY ScopesAre DEF HInv
  <2> QED
    BY <1>5, <1>6, <1>8, <1>9, <2>1 DEF w, c
<1> QED
  BY <1>1, <1>4, <1>5, <1>7, <1>8, <1>10, <1>11, UpdatesKeeps, AroundHeld

LEMMA InitialisedKeeps ==
  ASSUME HInv, NEW o \in Plain, Initialised(o)
  PROVE  HInv'
<1> DEFINE c == Current
           d == Current.hidden
           w == [Current EXCEPT !.phase = "dims", !.which = @ + 1,
                                !.change = @ \o Changes(Current.hidden, o),
                                !.given = Append(@, <<Current.hidden, o>>)]
<1>1. /\ wheres # <<>> /\ c.phase = "initialiser" /\ ~c.cached /\ Len(scopes) = OwnScopes
      /\ Update(w) /\ UNCHANGED <<contextVars, chi, nextIndex, chivalue>>
  BY DEF Initialised, Here, In
<1>2. /\ c \in CallType /\ CallOK(c) /\ OwnScopes = Own(c) /\ Len(scopes) \in Nat
      /\ d \in Hidden /\ c.which \in DOMAIN Declares[c.clause] /\ o \in Ordinate
  BY <1>1, InnermostIs, HiddenAre DEF CallOK
<1>3. GivenMore(c, w, d, o)
  <2>1. w.phase = "dims"
    BY <1>2 DEF CallType
  <2> QED
    BY <2>1 DEF GivenMore, Changes
<1>4. w \in CallType /\ CallOK(w) /\ w.before = c.before /\ Own(w) = Own(c)
  BY <1>1, <1>2, <1>3, GivesOne
<1>5. w.phase = "dims"
  BY <1>2 DEF CallType
<1>6. CInv' /\ StacksNow' = StacksNow /\ scopes' = scopes
  BY <1>1, ContextStays DEF HInv, contextVars
<1>7. Held(scopes', StacksNow', Bodies(wheres)) /\ ChiOK(chi, nextIndex)'
  BY <1>1, <1>6 DEF HInv
<1> HIDE DEF w
<1>8. Own(w) <= Len(scopes') /\ Len(scopes') \in Nat
  BY <1>1, <1>2, <1>4, <1>6
<1> QED
  BY <1>1, <1>4, <1>5, <1>6, <1>7, <1>8, UpdatesKeeps, AroundHeld

\* The innermost scope ends, and the bodies around the call see what they saw
LEMMA ClosesAround ==
  ASSUME HInv, wheres # <<>>, ClosePerturber \/ CloseRho, Current.before < Len(scopes)
  PROVE  /\ CInv' /\ Held(scopes', StacksNow', Around(wheres))
         /\ Len(scopes') = Len(scopes) - 1 /\ Len(scopes') \in Nat
         /\ DOMAIN scopes' = 1..(Len(scopes) - 1)
         /\ \A j \in DOMAIN scopes' : j \in DOMAIN scopes /\ scopes'[j] = scopes[j]
<1>1. scopes # <<>> /\ End
  BY DEF ClosePerturber, CloseRho, TopIs
<1>2. CInv' /\ StacksNow' = Top.had
  BY ClosePerturberKeeps, CloseRhoKeeps DEF HInv
<1>3. Around(wheres) \in SUBSET Bodies(wheres)
      /\ \A w \in Around(wheres) : Complete(w) /\ Len(scopes) > Own(w)
  <2>1. /\ Calls(wheres, Len(scopes)) /\ Len(scopes) \in Nat
        /\ Current = wheres[Len(wheres)] /\ Current.before \in Nat
    BY InnermostIs
  <2>2. \A w \in Around(wheres) : /\ Complete(w) /\ Own(w) \in Nat
                                  /\ Own(w) <= Current.before
    BY <2>1, AroundAre
  <2>3. \A w \in Around(wheres) : Len(scopes) > Own(w)
    BY <2>1, <2>2
  <2> QED
    BY <2>1, <2>2, <2>3, AroundAre
<1> QED
  BY <1>1, <1>2, <1>3, ClosesHeld

LEMMA PhaseChanged ==
  ASSUME NEW c \in CallType, NEW phase \in Phases
  PROVE  LET w == [c EXCEPT !.phase = phase]
         IN  /\ w \in CallType /\ w.phase = phase
             /\ w.clause = c.clause /\ w.cached = c.cached /\ w.before = c.before
             /\ w.at = c.at /\ w.which = c.which /\ w.hidden = c.hidden
             /\ w.change = c.change /\ w.given = c.given
BY DEF CallType

LEMMA BeginBodyKeeps ==
  ASSUME HInv, BeginBody
  PROVE  HInv'
<1> DEFINE n == Len(scopes)
           others == [scopes EXCEPT ![n].index = 0]
           c == Current
           w == [c EXCEPT !.phase = "body"]
<1>1. /\ wheres # <<>> /\ c.phase = "dims" /\ ~c.cached /\ n = OwnScopes
      /\ scopes' = Append(others, Scope("perturb", 0)) /\ Update(w)
      /\ rho' = [rho EXCEPT ![Len(rho)] = 0]
      /\ k' = k /\ delta' = delta /\ instant' = instant
      /\ UNCHANGED <<chi, nextIndex>>
  BY DEF BeginBody, Here, In
<1>2. /\ c \in CallType /\ CallOK(c) /\ OwnScopes = Own(c) /\ n \in Nat /\ c.at \in Nat
      /\ c.before \in Nat
  BY <1>1, InnermostIs
<1>3. OthersIndex(others, scopes)
  <2>1. scopes \in Seq(ScopeType) /\ DOMAIN scopes = 1..n /\ 0 \in 0..MaxIndex
    BY ScopesAre, ContextAssumption DEF HInv
  <2> HIDE DEF n
  <2>2. ASSUME NEW j \in DOMAIN scopes
        PROVE  /\ others[j] \in ScopeType
               /\ others[j].kind = scopes[j].kind /\ others[j].dims = scopes[j].dims
               /\ others[j].inserted = scopes[j].inserted
               /\ others[j].had = scopes[j].had /\ others[j].saw = scopes[j].saw
    <3>1. scopes[j] \in ScopeType
      BY ScopesAre DEF HInv
    <3>2. others[j] = IF j = n THEN [scopes[j] EXCEPT !.index = 0] ELSE scopes[j]
      OBVIOUS
    <3> QED
      BY <2>1, <3>1, <3>2 DEF ScopeType
  <2>3. others \in [1..n -> ScopeType] /\ n \in Nat
    BY <1>2, <2>1, <2>2
  <2> HIDE DEF others
  <2>4. others \in Seq(ScopeType) /\ Len(others) = n
    <3>1. ASSUME NEW S, NEW f \in [1..n -> S]
          PROVE  f \in Seq(S) /\ Len(f) = n
      BY <2>3
    <3> QED
      BY <2>3, <3>1
  <2> QED
    BY <2>2, <2>4 DEF OthersIndex, n
<1> HIDE DEF others
<1>4. 0 \in 0..MaxIndex
  BY ContextAssumption
<1>5. ScopesInv'
  BY <1>1, <1>3, <1>4, BeginKeeps DEF HInv
<1>6. CInv'
  <2>1. rho \in Seq(0..MaxIndex)
    BY DEF HInv, CInv, ContextTypeOK
  <2> DEFINE S == 0..MaxIndex
  <2> HIDE DEF S
  <2>2. ASSUME NEW s \in Seq(S), NEW i \in S
        PROVE  [s EXCEPT ![Len(s)] = i] \in Seq(S)
    <3>1. /\ Len(s) \in Nat /\ s \in [1..Len(s) -> S]
      OBVIOUS
    <3>2. [s EXCEPT ![Len(s)] = i] \in [1..Len(s) -> S]
      BY <3>1
    <3> QED
      BY <3>1, <3>2
  <2>3. rho' \in Seq(S)
    BY <1>1, <1>4, <2>1, <2>2 DEF S
  <2>4. ContextTypeOK' /\ OnlyDims(k)'
    BY <1>1, <2>3 DEF HInv, CInv, ContextTypeOK, OnlyDims, S
  <2> QED
    BY <1>5, <2>4 DEF CInv
<1>7. /\ Held(scopes', StacksNow', Bodies(wheres)) /\ Len(scopes') = n + 1
      /\ StacksNow' = StacksNow /\ DOMAIN scopes' = 1..(n + 1)
  BY <1>1, <1>3, <1>4, OpensHeld
<1>8. /\ w \in CallType /\ w.phase = "body" /\ w.before = c.before /\ w.at = c.at
      /\ w.clause = c.clause /\ w.cached = c.cached /\ w.which = c.which
      /\ w.change = c.change /\ w.given = c.given
  BY <1>2, PhaseChanged DEF Phases
<1> HIDE DEF w, c
<1>9. CallOK(w)
  BY <1>1, <1>2, <1>8 DEF CallOK
<1>10. Own(w) = n + 1
  BY <1>1, <1>2, <1>8 DEF Own
<1>11. Landed(StacksNow', w)
  BY <1>1, <1>2, <1>8 DEF CallOK, Landed
<1>12. ChiOK(chi, nextIndex)' /\ Held(scopes', StacksNow', Around(wheres))
  BY <1>1, <1>7, AroundHeld DEF HInv
<1>13. /\ Len(scopes') \in Nat /\ Own(w) <= Len(scopes') /\ w.before = Current.before
       /\ \A j \in DOMAIN scopes' : ~(j > Own(w))
       /\ w.phase # "thrown"
  BY <1>2, <1>7, <1>8, <1>10 DEF c
<1> QED
  BY <1>1, <1>6, <1>8, <1>9, <1>11, <1>12, <1>13, UpdatesKeeps

LEMMA LeaveBodyKeeps ==
  ASSUME HInv, LeaveBody
  PROVE  HInv'
<1> DEFINE c == Current
           w == [c EXCEPT !.phase = "leaving"]
<1>1. /\ wheres # <<>> /\ c.phase = "body" /\ Len(scopes) = OwnScopes /\ c.change = <<>>
      /\ ClosePerturber /\ UNCHANGED <<chi, nextIndex>>
      /\ IF c.cached THEN Return ELSE Update(w)
  BY DEF LeaveBody, Here, In
<1>2. /\ c \in CallType /\ CallOK(c) /\ OwnScopes = Own(c) /\ c.at \in Nat
      /\ c.before \in Nat /\ c.before <= c.at /\ Len(scopes) = c.at + 1
  BY <1>1, InnermostIs DEF Own
<1>3. /\ CInv' /\ Held(scopes', StacksNow', Around(wheres)) /\ Len(scopes') = c.at
  BY <1>1, <1>2, ClosesAround
<1>4. CASE c.cached
  BY <1>1, <1>2, <1>3, <1>4, ReturnsKeeps
<1>5. CASE ~c.cached
  <2>1. /\ w \in CallType /\ w.phase = "leaving" /\ w.before = c.before /\ w.at = c.at
        /\ w.clause = c.clause /\ w.cached = c.cached /\ w.which = c.which
        /\ w.change = c.change /\ w.given = c.given
    BY <1>2, PhaseChanged DEF Phases
  <2> HIDE DEF w
  <2>2. CallOK(w)
    <3>1. DOMAIN w.change = {}
      BY <1>1, <2>1
    <3> QED
      BY <1>2, <2>1, <3>1 DEF CallOK
  <2>3. Own(w) = c.at
    BY <1>2, <2>1 DEF Own
  <2>4. ChiOK(chi, nextIndex)'
    BY <1>1 DEF HInv
  <2> QED
    BY <1>1, <1>2, <1>3, <1>5, <2>1, <2>2, <2>3, <2>4, UpdatesKeeps
<1> QED
  BY <1>4, <1>5

LEMMA LeaveWhereKeeps ==
  ASSUME HInv, LeaveWhere, ~Current.cached
  PROVE  HInv'
<1>1. /\ wheres # <<>> /\ Current.phase = "leaving" /\ Len(scopes) = OwnScopes
      /\ CloseRho /\ Return /\ UNCHANGED <<chi, nextIndex>>
  BY DEF LeaveWhere, Here, In
<1>2. Current.before \in Nat /\ Len(scopes) = Current.before + 1
  BY <1>1, InnermostIs DEF Own, CallOK
<1>3. /\ CInv' /\ Held(scopes', StacksNow', Around(wheres)) /\ Len(scopes') = Current.before
  BY <1>1, <1>2, ClosesAround
<1> QED
  BY <1>1, <1>2, <1>3, ReturnsKeeps

LEMMA ThrowKeeps ==
  ASSUME HInv, Throw
  PROVE  HInv'
<1> DEFINE c == Current
           w == [c EXCEPT !.phase = "thrown"]
<1>1. /\ Update(w) /\ UNCHANGED <<contextVars, chi, nextIndex, chivalue>>
      /\ wheres # <<>>
      /\ c.phase = "initialiser" \/ (c.phase = "body" /\ c.change = <<>>)
  BY DEF Throw, Inside, In
<1>2. /\ c \in CallType /\ CallOK(c) /\ Len(scopes) \in Nat /\ c.before \in Nat
      /\ Calls(wheres, Len(scopes)) /\ c = wheres[Len(wheres)]
  BY <1>1, InnermostIs
<1>3. /\ w \in CallType /\ w.phase = "thrown" /\ w.before = c.before /\ w.at = c.at
      /\ w.clause = c.clause /\ w.cached = c.cached /\ w.which = c.which
      /\ w.change = c.change /\ w.given = c.given
  BY <1>2, PhaseChanged DEF Phases
<1>4. c.before <= Len(scopes)
  <2>1. Own(c) <= Len(scopes)
    BY <1>1, <1>2 DEF Calls
  <2>2. c.before <= Own(c) /\ Own(c) \in Nat
    BY <1>1, <1>2, InnermostIs, CallsAre
  <2> QED
    BY <1>2, <2>1, <2>2
<1> HIDE DEF w
<1>5. CallOK(w)
  <2>1. c.phase = "body" => DOMAIN c.change = {}
    BY <1>1
  <2> HIDE DEF c
  <2> QED
    BY <1>1, <1>2, <1>3, <2>1 DEF CallOK
<1>6. CInv' /\ StacksNow' = StacksNow /\ scopes' = scopes
  BY <1>1, ContextStays DEF HInv, contextVars
<1>7. Held(scopes', StacksNow', Around(wheres)) /\ ChiOK(chi, nextIndex)'
  BY <1>1, <1>6, AroundHeld DEF HInv
<1> QED
  BY <1>1, <1>2, <1>3, <1>4, <1>5, <1>6, <1>7, UpdatesKeeps

LEMMA UnwindScopeKeeps ==
  ASSUME HInv, UnwindScope
  PROVE  HInv'
<1>1. /\ wheres # <<>> /\ Current.phase = "thrown" /\ Len(scopes) > Current.before
      /\ ClosePerturber \/ CloseRho
      /\ UNCHANGED <<chi, nextIndex, chivalue, wheres>>
  BY DEF UnwindScope, In
<1>2. /\ Calls(wheres, Len(scopes)) /\ Current = wheres[Len(wheres)] /\ Len(scopes) \in Nat
      /\ Current.before \in Nat
  BY <1>1, InnermostIs
<1>3. /\ CInv' /\ Held(scopes', StacksNow', Around(wheres)) /\ Len(scopes') = Len(scopes) - 1
  BY <1>1, <1>2, ClosesAround
<1>4. Bodies(wheres) = Around(wheres)
  BY <1>1, <1>2, AroundAre
<1>5. Calls(wheres, Len(scopes'))
  <2>1. Current.before <= Len(scopes')
    BY <1>1, <1>2, <1>3
  <2> QED
    BY <1>1, <1>2, <2>1 DEF Calls
<1>6. ChiOK(chi, nextIndex)'
  BY <1>1 DEF HInv
<1> QED
  BY <1>1, <1>3, <1>4, <1>5, <1>6 DEF HInv

LEMMA WorkshopKeeps ==
  ASSUME HInv, Workshop
  PROVE  HInv'
<1>1. /\ UNCHANGED <<chi, nextIndex, chivalue, wheres>>
      /\ Len(scopes) \in Nat /\ Calls(wheres, Len(scopes))
      /\ Held(scopes, StacksNow, Bodies(wheres))
  BY ScopesAre DEF HInv, Workshop
<1>2. CASE Free /\ OpenRho(1)
  <2>1. /\ 1 \in 0..MaxIndex /\ OthersIndex(scopes, scopes)
        /\ scopes' = Append(scopes, Scope("rho", 1)) /\ k' = k
    BY <1>2, SameIndex, WhereAssumption, ContextAssumption DEF HInv, OpenRho, Begin
  <2>2. CInv'
    BY <1>2, <2>1, OpenRhoKeeps DEF HInv
  <2>3. Held(scopes', StacksNow', Bodies(wheres)) /\ Len(scopes') = Len(scopes) + 1
    BY <2>1, OpensHeld
  <2>4. wheres # <<>> => wheres[Len(wheres)].phase # "thrown" /\ Own(wheres[Len(wheres)]) \in Nat
    <3>1. ASSUME wheres # <<>>
          PROVE  wheres[Len(wheres)].phase # "thrown" /\ Own(wheres[Len(wheres)]) \in Nat
      <4>1. wheres[Len(wheres)].phase # "thrown"
        BY <1>2, <3>1 DEF Free, Inside, In, Current
      <4> QED
        BY <1>1, <3>1, <4>1, InnermostIs, CallsAre
    <3> QED
      BY <3>1
  <2>5. Calls(wheres, Len(scopes'))
    BY <1>1, <2>3, <2>4 DEF Calls
  <2> QED
    BY <1>1, <2>2, <2>3, <2>5 DEF HInv
<1>3. ASSUME FreeScope, NEW i \in 1..MaxIndex, ChangeTop(i)
      PROVE  HInv'
  <2>1. i \in 0..MaxIndex
    BY ContextAssumption
  <2>2. CInv'
    BY <1>3, <2>1, ChangeTopKeeps DEF HInv
  <2>3. Held(scopes', StacksNow', Bodies(wheres)) /\ Len(scopes') = Len(scopes)
    BY <1>3, IndexHeld
  <2> QED
    BY <1>1, <2>2, <2>3 DEF HInv
<1>4. CASE FreeScope /\ CloseRho
  <2>1. scopes # <<>> /\ End
    BY <1>4 DEF CloseRho, TopIs
  <2>2. CInv' /\ StacksNow' = Top.had
    BY <1>4, CloseRhoKeeps DEF HInv
  <2>3. CASE wheres = <<>>
    <3>1. Bodies(wheres) = {}
      BY <2>3 DEF Bodies, Range
    <3>2. Held(scopes', StacksNow', Bodies(wheres)) /\ Calls(wheres, Len(scopes'))
      BY <1>1, <2>3, <3>1 DEF Held, Calls
    <3> QED
      BY <1>1, <2>2, <3>2 DEF HInv
  <2>4. CASE wheres # <<>>
    <3>1. /\ Current = wheres[Len(wheres)] /\ Current.phase # "thrown"
          /\ Current.phase = "body" => Complete(Current)
          /\ Len(scopes) > Own(Current) /\ Own(Current) \in Nat
          /\ Current.before \in Nat /\ Current.before <= Own(Current)
      <4>1. /\ Inside /\ Len(scopes) > OwnScopes /\ OwnScopes = Own(Current)
            /\ Current = wheres[Len(wheres)]
        BY <1>4, <2>4, InnermostIs DEF FreeScope
      <4>2. Current.phase = "initialiser" \/ Complete(Current)
        BY <4>1 DEF Inside, In, Complete
      <4>3. Own(Current) \in Nat /\ Current.before \in Nat /\ Current.before <= Own(Current)
        BY <1>1, <2>4, InnermostIs, CallsAre
      <4> QED
        BY <4>1, <4>2, <4>3 DEF Complete
    <3>2. ASSUME NEW w \in Bodies(wheres)
          PROVE  Complete(w) /\ Len(scopes) > Own(w)
      <4>1. CASE w \in Around(wheres)
        <5>1. Complete(w) /\ Own(w) \in Nat /\ Own(w) <= Current.before
          BY <1>1, <2>4, <3>1, <4>1, AroundAre
        <5> QED
          BY <1>1, <3>1, <5>1
      <4>2. CASE w \notin Around(wheres)
        <5>1. w = Current /\ w.phase = "body"
          BY <1>1, <2>4, <3>1, <4>2, AroundAre DEF Bodies
        <5> QED
          BY <3>1, <5>1
      <4> QED
        BY <4>1, <4>2
    <3>3. /\ Held(scopes', StacksNow', Bodies(wheres))
          /\ Len(scopes') = Len(scopes) - 1 /\ Len(scopes') \in Nat
      BY <2>1, <2>2, <3>2, ClosesHeld
    <3>4. Own(Current) <= Len(scopes')
      BY <1>1, <3>1, <3>3
    <3>5. Calls(wheres, Len(scopes'))
      BY <1>1, <3>1, <3>4 DEF Calls
    <3> QED
      BY <1>1, <2>2, <3>3, <3>5 DEF HInv
  <2> QED
    BY <2>3, <2>4
<1> QED
  BY <1>2, <1>3, <1>4 DEF Workshop

LEMMA UnwindCallKeeps ==
  ASSUME HInv, UnwindCall
  PROVE  /\ HInv'
         /\ wheres' # <<>> =>
              /\ Len(wheres') = Len(wheres) - 1 /\ wheres'[Len(wheres')].phase = "thrown"
              /\ \A i \in DOMAIN wheres' :
                   /\ i \in DOMAIN wheres /\ i # Len(wheres)
                   /\ wheres'[i] = IF i = Len(wheres')
                                   THEN [wheres[i] EXCEPT !.phase = "thrown"] ELSE wheres[i]
<1> DEFINE n == Len(scopes)
           around == SubSeq(wheres, 1, Len(wheres) - 1)
           l == Len(around)
           c == around[l]
           w == [c EXCEPT !.phase = "thrown"]
<1>1. /\ wheres # <<>> /\ Current.phase = "thrown" /\ n = Current.before
      /\ UNCHANGED <<contextVars, chi, nextIndex, chivalue>>
      /\ wheres' = IF around = <<>> THEN <<>> ELSE [around EXCEPT ![l].phase = "thrown"]
  BY DEF UnwindCall, In, Front
<1>2. Calls(wheres, n) /\ Current = wheres[Len(wheres)] /\ n \in Nat
  BY <1>1, InnermostIs
<1>3. /\ Calls(around, n) /\ Bodies(around) \subseteq Around(wheres)
      /\ l = Len(wheres) - 1
      /\ \A i \in DOMAIN around : i \in DOMAIN wheres /\ i # Len(wheres)
                                  /\ around[i] = wheres[i]
      /\ around # <<>> => c.phase = "initialiser" \/ Complete(c)
  <2>1. n \in Nat /\ Calls(wheres, n) /\ wheres # <<>> /\ wheres[Len(wheres)].before <= n
    BY <1>1, <1>2
  <2> HIDE DEF n, w
  <2> QED
    BY <2>1, ReturnCall
<1>4. CInv' /\ StacksNow' = StacksNow /\ scopes' = scopes /\ ChiOK(chi, nextIndex)'
  BY <1>1, ContextStays DEF HInv, contextVars
<1>5. Held(scopes', StacksNow', Bodies(around))
  <2>1. Held(scopes, StacksNow, Around(wheres))
    BY <1>1, AroundHeld DEF HInv
  <2> QED
    BY <1>3, <1>4, <2>1, HeldFewer
<1> HIDE DEF around, n
<1>6. CASE around = <<>>
  <2>1. wheres' = around
    BY <1>1, <1>6
  <2> QED
    BY <1>3, <1>4, <1>5, <1>6, <2>1 DEF HInv, n
<1>7. CASE around # <<>>
  <2>1. /\ l \in DOMAIN around /\ l \in Nat /\ c \in CallType /\ CallOK(c)
        /\ c.before \in Nat /\ Own(c) \in Nat /\ c.before <= Own(c)
        /\ around \in Seq(CallType) /\ DOMAIN around = 1..l
    <3>1. around \in Seq(CallType) /\ l \in Nat /\ DOMAIN around = 1..l
      BY <1>3, CallsAre
    <3>2. l \in DOMAIN around
      BY <1>7, <3>1
    <3> QED
      BY <1>3, <3>1, <3>2, CallsAre
  <2>2. Own(c) <= n
    BY <1>3, <1>7 DEF Calls, Complete
  <2>3. /\ w \in CallType /\ w.phase = "thrown" /\ w.before = c.before /\ w.at = c.at
        /\ w.clause = c.clause /\ w.cached = c.cached /\ w.which = c.which
        /\ w.change = c.change /\ w.given = c.given
    BY <2>1, PhaseChanged DEF Phases
  <2>4. wheres' = [around EXCEPT ![l] = w]
    BY <1>1, <1>7, <2>1
  <2> HIDE DEF l, w, c
  <2>5. CallOK(w)
    <3>1. c.phase = "body" => DOMAIN c.change = {}
      BY <1>3, <1>7 DEF Complete, c, l
    <3>2. c.phase = "initialiser" \/ c.phase = "body"
      BY <1>3, <1>7 DEF Complete, c, l
    <3> QED
      BY <2>1, <2>3, <3>1, <3>2 DEF CallOK
  <2>6. w.before <= n
    BY <1>2, <2>1, <2>2, <2>3 DEF n
  <2>7. LET ws2 == [around EXCEPT ![Len(around)] = w]
        IN  /\ Calls(ws2, n)
            /\ w.phase # "body" => Bodies(ws2) \subseteq Around(around)
            /\ Len(ws2) = Len(around) /\ ws2[Len(around)] = w
            /\ \A i \in DOMAIN around : i # Len(around) => ws2[i] = around[i]
    <3>1. Calls(around, n) /\ n \in Nat /\ w.before = around[Len(around)].before
      BY <1>2, <1>3, <2>3 DEF n, l, c
    <3> QED
      BY <1>7, <2>3, <2>5, <2>6, <3>1, UpdateCall
  <2>8. /\ Calls(wheres', n) /\ Bodies(wheres') \subseteq Around(around)
        /\ Len(wheres') = l /\ wheres'[l] = w
        /\ \A i \in DOMAIN around : i # l => wheres'[i] = around[i]
    BY <2>3, <2>4, <2>7 DEF l
  <2>9. Around(around) \subseteq Bodies(around)
    BY DEF Around, Bodies, Range
  <2>10. HInv'
    BY <1>4, <1>5, <2>8, <2>9, HeldFewer DEF HInv, n
  <2>11. DOMAIN wheres' = DOMAIN around
    BY <2>4
  <2>12. ASSUME NEW i \in DOMAIN wheres'
         PROVE  /\ i \in DOMAIN wheres /\ i # Len(wheres)
                /\ wheres'[i] = IF i = Len(wheres')
                                THEN [wheres[i] EXCEPT !.phase = "thrown"] ELSE wheres[i]
    <3>1. i \in DOMAIN wheres /\ i # Len(wheres) /\ around[i] = wheres[i]
      BY <1>3, <2>11
    <3>2. CASE i = l
      BY <2>8, <3>1, <3>2 DEF w, c
    <3>3. CASE i # l
      BY <2>8, <2>11, <3>1, <3>3
    <3> QED
      BY <3>2, <3>3
  <2>13. Len(wheres') = Len(wheres) - 1 /\ wheres'[Len(wheres')].phase = "thrown"
    BY <1>3, <2>3, <2>8 DEF l
  <2> QED
    BY <2>10, <2>12, <2>13
<1> QED
  BY <1>6, <1>7

LEMMA CachedWhereKeeps ==
  ASSUME HInv, NEW e \in Clause, CachedWhere(e)
  PROVE  HInv'
<1> DEFINE c == Call(e, TRUE, Len(scopes))
           w == [c EXCEPT !.phase = "initialiser"]
<1>1. /\ Free /\ wheres' = Append(wheres, w)
      /\ UNCHANGED <<contextVars, chi, nextIndex>>
  BY DEF CachedWhere
<1>2. Len(scopes) \in Nat
  BY ScopesAre DEF HInv
<1>3. NewCall(c, e, TRUE, Len(scopes))
  <2>1. TRUE \in BOOLEAN
    OBVIOUS
  <2> QED
    BY <1>2, <2>1, CallIsNew
<1>4. /\ w \in CallType /\ w.phase = "initialiser" /\ w.before = Len(scopes)
      /\ w.at = Len(scopes) /\ w.clause = c.clause /\ w.cached = c.cached
      /\ w.which = c.which /\ w.change = c.change /\ w.given = c.given
  BY <1>3, PhaseChanged DEF NewCall, Phases
<1>5. CInv' /\ StacksNow' = StacksNow /\ scopes' = scopes
  BY <1>1, ContextStays DEF HInv, contextVars
<1> HIDE DEF w, c
<1>6. CallOK(w)
  BY <1>3, <1>4 DEF CallOK, NewCall
<1>7. Held(scopes', StacksNow', Bodies(wheres))
  BY <1>5 DEF HInv
<1> QED
  BY <1>1, <1>2, <1>4, <1>5, <1>6, <1>7, EntersKeeps

LEMMA CachedInitialisedKeeps ==
  ASSUME HInv, NEW o \in Plain, CachedInitialised(o)
  PROVE  /\ HInv'
         /\ \E d \in Hidden, w \in CallType :
              LET key == [which |-> Current.which - 1, stack |-> chivalue[Current.clause]]
              IN  /\ key \in DOMAIN chi' /\ chi'[key] = d
                  /\ Update(w) /\ w.given = Append(Current.given, <<d, o>>)
                  /\ w.clause = Current.clause /\ w.cached = Current.cached
                  /\ w.at = Current.at /\ w.phase \in {"dims", "initialiser"}
         /\ \A x \in DOMAIN chi : x \in DOMAIN chi' /\ chi'[x] = chi[x]
<1> DEFINE c == Current
           phase == IF c.which = Len(Declares[c.clause]) THEN "dims" ELSE "initialiser"
           key == [which |-> c.which - 1, stack |-> chivalue[c.clause]]
<1>1. /\ wheres # <<>> /\ c.phase = "initialiser" /\ c.cached /\ HasDims
      /\ Len(scopes) = OwnScopes /\ UNCHANGED contextVars
  BY DEF CachedInitialised, Here, In
<1>2. PICK d \in Hidden :
         /\ LookupChi(key, d)
         /\ Update([c EXCEPT !.which = @ + 1, !.phase = phase,
                             !.change = @ \o Changes(d, o), !.given = Append(@, <<d, o>>)])
  BY DEF CachedInitialised, Hidden
<1> DEFINE w == [c EXCEPT !.which = @ + 1, !.phase = phase,
                          !.change = @ \o Changes(d, o), !.given = Append(@, <<d, o>>)]
<1>3. /\ c \in CallType /\ CallOK(c) /\ OwnScopes = Own(c) /\ Len(scopes) \in Nat
      /\ c.which \in DOMAIN Declares[c.clause] /\ o \in Ordinate
  <2>1. c \in CallType /\ CallOK(c) /\ OwnScopes = Own(c) /\ Len(scopes) \in Nat
        /\ c.clause \in Clause /\ c.which \in Nat \ {0}
    BY <1>1, InnermostIs
  <2>2. Declares[c.clause] \in Seq(Dim)
    BY <2>1, HiddenAre
  <2> QED
    BY <1>1, <2>1, <2>2, HiddenAre DEF HasDims
<1>4. phase \in {"dims", "initialiser"} /\ w.phase = phase
  BY <1>3 DEF CallType
<1>5. GivenMore(c, w, d, o)
  BY <1>1, <1>4 DEF GivenMore, Changes
<1>6. /\ w \in CallType /\ CallOK(w) /\ w.before = c.before /\ Own(w) = Own(c)
      /\ w.given = Append(c.given, <<d, o>>) /\ w.at = c.at /\ w.clause = c.clause
      /\ w.cached = c.cached
  <2>1. d \in Hidden /\ c \in CallType /\ CallOK(c) /\ c.phase = "initialiser"
        /\ c.which \in DOMAIN Declares[c.clause] /\ o \in Ordinate
    BY <1>1, <1>3
  <2> HIDE DEF w, c
  <2> QED
    BY <1>5, <2>1, GivesOne
<1>7. CInv' /\ StacksNow' = StacksNow /\ scopes' = scopes
  BY <1>1, ContextStays DEF HInv, contextVars
<1>8. /\ ChiOK(chi, nextIndex)' /\ key \in DOMAIN chi' /\ chi'[key] = d
      /\ \A x \in DOMAIN chi : x \in DOMAIN chi' /\ chi'[x] = chi[x]
  <2> HIDE DEF key
  <2> QED
    BY <1>2, LookedUp DEF HInv
<1>9. Held(scopes', StacksNow', Around(wheres))
  BY <1>1, <1>7, AroundHeld DEF HInv
<1>10. Update(w)
  BY <1>2
<1> HIDE DEF w, phase
<1>11. HInv'
  BY <1>1, <1>3, <1>4, <1>6, <1>7, <1>8, <1>9, <1>10, UpdatesKeeps
<1> QED
  BY <1>4, <1>6, <1>8, <1>10, <1>11

LEMMA CachedDemandsKeeps ==
  ASSUME HInv, CachedDemands
  PROVE  HInv'
<1>1. /\ wheres # <<>> /\ Current.phase = "dims" /\ Len(scopes) = OwnScopes
      /\ Return /\ UNCHANGED <<contextVars, chi, nextIndex>>
  BY DEF CachedDemands, Here, In
<1>2. /\ Current.before \in Nat /\ Current.before <= Len(scopes) /\ Len(scopes) \in Nat
  BY <1>1, InnermostIs DEF Own
<1>3. CInv' /\ StacksNow' = StacksNow /\ scopes' = scopes
  BY <1>1, ContextStays DEF HInv, contextVars
<1>4. Held(scopes', StacksNow', Around(wheres))
  BY <1>1, <1>3, AroundHeld DEF HInv
<1> QED
  BY <1>1, <1>2, <1>3, <1>4, ReturnsKeeps

LEMMA CachedBodyKeeps ==
  ASSUME HInv, CachedBody, Depth(Current.clause) \in Nat
  PROVE  /\ HInv' /\ StacksNow' = StacksNow /\ Len(scopes') = Len(scopes) + 1
         /\ \A j \in DOMAIN scopes : scopes'[j].had = scopes[j].had
         /\ DOMAIN scopes' = 1..(Len(scopes) + 1)
         /\ scopes'[Len(scopes) + 1].had = StacksNow
<1> DEFINE n == Len(scopes)
           c == Current
           last == <<PsiQ[c.clause], Depth(c.clause) + 1>>
           w == [c EXCEPT !.phase = "body", !.change = Append(@, last)]
<1>1. /\ wheres # <<>> /\ c.phase = "dims" /\ c.cached /\ n = OwnScopes
      /\ OpenPerturber /\ Update(w) /\ UNCHANGED <<chi, nextIndex>>
  BY DEF CachedBody, Here, In
<1>2. /\ c \in CallType /\ CallOK(c) /\ OwnScopes = Own(c) /\ n \in Nat /\ c.at \in Nat
      /\ c.before \in Nat /\ c.clause \in Clause /\ c.change \in Seq(Change)
  BY <1>1, InnermostIs
<1>3. CInv' /\ 0 \in 0..MaxIndex /\ OthersIndex(scopes, scopes)
  BY <1>1, OpenPerturberKeeps, SameIndex, ContextAssumption DEF HInv
<1>4. /\ Held(scopes', StacksNow', Bodies(wheres)) /\ Len(scopes') = n + 1
      /\ StacksNow' = StacksNow /\ DOMAIN scopes' = 1..(n + 1)
      /\ \A j \in DOMAIN scopes : scopes'[j].had = scopes[j].had
      /\ scopes'[n + 1].had = StacksNow
  <2>1. scopes' = Append(scopes, Scope("perturb", 0)) /\ k' = k
    BY <1>1 DEF OpenPerturber, Begin
  <2> QED
    BY <1>3, <2>1, OpensHeld
<1>5. last \in Change /\ last[1] = PsiQ[c.clause] /\ last[1] \notin Hidden
  <2>1. PsiQ[c.clause] \in Dim /\ PsiQ[c.clause] \notin Hidden /\ Depth(c.clause) + 1 \in Nat
    BY <1>2, HiddenAre
  <2> QED
    BY <2>1 DEF Change
<1> HIDE DEF last
<1> DEFINE ch == Append(c.change, last)
<1>6. /\ ch \in Seq(Change) /\ Len(ch) = Len(c.change) + 1
      /\ \A x \in DOMAIN c.change : /\ x \in DOMAIN ch /\ ch[x] = c.change[x]
                                    /\ x # Len(c.change) + 1
      /\ ch[Len(c.change) + 1] = last
      /\ \A x \in DOMAIN ch : x \in DOMAIN c.change \/ x = Len(c.change) + 1
  <2> HIDE DEF c
  <2> QED
    BY <1>2, <1>5, OneMore
<1>7. /\ w \in CallType /\ w.phase = "body" /\ w.before = c.before /\ w.at = c.at
      /\ w.clause = c.clause /\ w.cached = c.cached /\ w.which = c.which
      /\ w.change = ch /\ w.given = c.given
  <2>1. "body" \in Phases /\ w = [c EXCEPT !.phase = "body", !.change = ch]
    BY DEF Phases
  <2> HIDE DEF ch, w, c
  <2> QED
    BY <1>2, <1>6, <2>1 DEF CallType
<1> HIDE DEF w, c, ch
<1>8. CallOK(w)
  <2>1. ASSUME NEW x \in DOMAIN ch
        PROVE  /\ (\E g \in DOMAIN c.given : ch[x] = c.given[g]) \/ ch[x][1] \notin Hidden
               /\ IF x = Len(ch) THEN ch[x][1] = PsiQ[c.clause]
                  ELSE ch[x][2] \in Ordinate /\ \A f \in Clause : ch[x][1] # PsiQ[f]
    <3>1. CASE x \in DOMAIN c.change
      BY <1>1, <1>2, <1>6, <3>1 DEF CallOK
    <3>2. CASE x = Len(c.change) + 1
      BY <1>5, <1>6, <3>2
    <3> QED
      BY <1>6, <3>1, <3>2
  <2>2. w.which = Len(w.given) + 1 /\ w.at = IF w.cached THEN w.before ELSE w.before + 1
    BY <1>2, <1>7 DEF CallOK
  <2> QED
    BY <1>1, <1>7, <2>1, <2>2 DEF CallOK
<1>9. Own(w) = n + 1
  BY <1>1, <1>2, <1>7 DEF Own
<1>10. Landed(StacksNow', w)
  <2>1. \A g \in DOMAIN c.given : \E x \in DOMAIN ch : ch[x] = c.given[g]
    BY <1>1, <1>2, <1>6 DEF CallOK
  <2> QED
    BY <1>7, <2>1 DEF Landed
<1>11. ChiOK(chi, nextIndex)' /\ Held(scopes', StacksNow', Around(wheres))
  BY <1>1, <1>4, AroundHeld DEF HInv
<1>12. /\ Len(scopes') \in Nat /\ Own(w) <= Len(scopes') /\ w.before = Current.before
       /\ \A j \in DOMAIN scopes' : ~(j > Own(w))
       /\ w.phase # "thrown"
  BY <1>2, <1>4, <1>7, <1>9 DEF c
<1>13. HInv'
  BY <1>1, <1>3, <1>7, <1>8, <1>10, <1>11, <1>12, UpdatesKeeps
<1> QED
  BY <1>4, <1>13

LEMMA HeadAndTail ==
  ASSUME NEW S, NEW c \in Seq(S), c # <<>>
  PROVE  /\ Head(c) = c[1] /\ Head(c) \in S /\ 1 \in DOMAIN c
         /\ Tail(c) \in Seq(S) /\ Len(Tail(c)) = Len(c) - 1
         /\ \A x \in DOMAIN Tail(c) : x \in Nat /\ x + 1 \in DOMAIN c /\ Tail(c)[x] = c[x + 1]
         /\ \A x \in DOMAIN c : x # 1 => x \in Nat /\ x - 1 \in DOMAIN Tail(c)
                                         /\ Tail(c)[x - 1] = c[x]
OBVIOUS

\* What is perturbed for a body is no dimension of the bodies around it
LEMMA MakeChangeKeeps ==
  ASSUME HInv, MakeChange, Head(Current.change)[2] \in Ordinate, Distinct(Current),
         \A v \in Around(wheres) : Apart(v, Current)
  PROVE  /\ HInv'
         /\ StacksNow' = [StacksNow EXCEPT ![Head(Current.change)[1]] =
                            Append(@, Head(Current.change)[2])]
         /\ Len(scopes') = Len(scopes) /\ DOMAIN scopes' = DOMAIN scopes
         /\ \A j \in DOMAIN scopes : /\ scopes'[j].had = scopes[j].had
                                     /\ scopes'[j].kind = scopes[j].kind
<1> DEFINE n == Len(scopes)
           c == Current
           first == Head(c.change)
           d == first[1]
           o == first[2]
           w == [c EXCEPT !.change = Tail(@)]
<1>1. /\ wheres # <<>> /\ c.phase = "body" /\ n = OwnScopes /\ c.change # <<>>
      /\ Perturb(d, o, c.cached) /\ Update(w) /\ UNCHANGED <<chi, nextIndex, chivalue>>
  BY DEF MakeChange, Here, In
<1>2. /\ c \in CallType /\ CallOK(c) /\ OwnScopes = Own(c) /\ n \in Nat /\ c.at \in Nat
      /\ c.before \in Nat /\ c.change \in Seq(Change) /\ c.cached \in BOOLEAN
      /\ c.given \in Seq(Given) /\ c = wheres[Len(wheres)] /\ Len(wheres) \in DOMAIN wheres
      /\ Calls(wheres, n)
  BY <1>1, InnermostIs
<1>3. /\ first = c.change[1] /\ first \in Change /\ 1 \in DOMAIN c.change
      /\ d \in Dim /\ o \in Ordinate
  <2>1. first = c.change[1] /\ first \in Change /\ 1 \in DOMAIN c.change
    BY <1>1, <1>2, HeadAndTail
  <2> QED
    BY <2>1 DEF Change
<1>4. CInv'
  BY <1>1, <1>2, <1>3, PerturbKeeps DEF HInv
<1> HIDE DEF first
<1>5. StacksNow' = [StacksNow EXCEPT ![d] = Append(@, o)]
  <2>1. /\ ContextOK(k) /\ d \in Int /\ StacksNow \in [Dim -> Seq(Ordinate)]
    BY <1>3, ScopesAre, HiddenAre DEF HInv
  <2>2. /\ StackOf(k', d) = Append(StackOf(k, d), o)
        /\ \A e \in Int : e # d => StackOf(k', e) = StackOf(k, e)
    BY <1>1, <1>3, <2>1, PerturbedIs DEF Perturb
  <2>3. \A e \in Dim : StackOf(k', e) = IF e = d THEN Append(StackOf(k, d), o) ELSE StackOf(k, e)
    BY <2>2, HiddenAre
  <2> QED
    BY <1>3, <2>3 DEF StacksNow
<1>6. /\ DOMAIN scopes' = DOMAIN scopes /\ Len(scopes') = n
      /\ \A j \in DOMAIN scopes : /\ scopes'[j].had = scopes[j].had
                                  /\ scopes'[j].kind = scopes[j].kind
      /\ DOMAIN scopes = 1..n
  <2>1. scopes \in Seq(ScopeType) /\ scopes' \in Seq(ScopeType)
    BY <1>4, ScopesAre DEF HInv, CInv, ScopesInv, ScopesTyped
  <2> DEFINE more == IF c.cached /\ d \notin delta
                     THEN scopes[n].inserted \cup {d} ELSE scopes[n].inserted
             top == [scopes[n] EXCEPT !.dims = [scopes[n].dims EXCEPT ![d] = @ + 1],
                                      !.inserted = more]
  <2>2. scopes' = [scopes EXCEPT ![n] = top]
    <3>1. scopes # <<>>
      BY <1>1 DEF Perturb, TopIs
    <3>2. n \in DOMAIN scopes
      BY <2>1, <3>1
    <3> QED
      BY <1>1, <3>2 DEF Perturb
  <2>3. (top.had = scopes[n].had /\ top.kind = scopes[n].kind) \/ n \notin DOMAIN scopes
    <3>1. ASSUME n \in DOMAIN scopes
          PROVE  top.had = scopes[n].had /\ top.kind = scopes[n].kind
      <4>1. scopes[n] \in ScopeType
        BY <2>1, <3>1
      <4> HIDE DEF more
      <4> QED
        BY <4>1 DEF ScopeType
    <3> QED
      BY <3>1
  <2> HIDE DEF top
  <2>4. DOMAIN scopes' = DOMAIN scopes
    BY <2>2
  <2> QED
    BY <2>1, <2>2, <2>3, <2>4
<1>7. /\ w \in CallType /\ w.phase = "body" /\ w.before = c.before /\ w.at = c.at
      /\ w.clause = c.clause /\ w.cached = c.cached /\ w.which = c.which
      /\ w.change = Tail(c.change) /\ w.given = c.given
  <2>1. Tail(c.change) \in Seq(Change)
    BY <1>1, <1>2, HeadAndTail
  <2> DEFINE t == Tail(c.change)
  <2>2. w = [c EXCEPT !.change = t] /\ t \in Seq(Change)
    BY <2>1
  <2> HIDE DEF t, c, w
  <2>3. /\ w \in CallType /\ w.phase = "body" /\ w.before = c.before /\ w.at = c.at
        /\ w.clause = c.clause /\ w.cached = c.cached /\ w.which = c.which
        /\ w.change = t /\ w.given = c.given
    BY <1>1, <1>2, <2>2 DEF CallType
  <2> QED
    BY <2>3 DEF t
<1> HIDE DEF w, c, d, o, n
<1>8. /\ \A x \in DOMAIN w.change : /\ x \in Nat /\ x + 1 \in DOMAIN c.change
                                    /\ w.change[x] = c.change[x + 1]
      /\ \A x \in DOMAIN c.change : x # 1 => /\ x - 1 \in DOMAIN w.change
                                             /\ w.change[x - 1] = c.change[x]
      /\ Len(w.change) = Len(c.change) - 1 /\ Len(c.change) \in Nat
  BY <1>1, <1>2, <1>7, HeadAndTail
<1>9. CallOK(w)
  <2>1. ASSUME NEW x \in DOMAIN w.change
        PROVE  /\ \/ \E g \in DOMAIN w.given : w.change[x] = w.given[g]
                  \/ w.change[x][1] \notin Hidden
               /\ IF w.cached /\ w.phase = "body" /\ x = Len(w.change)
                  THEN w.change[x][1] = PsiQ[w.clause]
                  ELSE w.change[x][2] \in Ordinate
                       /\ \A f \in Clause : w.change[x][1] # PsiQ[f]
    <3>1. x \in Nat /\ x + 1 \in DOMAIN c.change /\ w.change[x] = c.change[x + 1]
          /\ (x = Len(w.change) <=> x + 1 = Len(c.change))
      BY <1>8
    <3> QED
      BY <1>1, <1>2, <1>7, <3>1 DEF CallOK
  <2>2. w.which = Len(w.given) + 1 /\ w.at = IF w.cached THEN w.before ELSE w.before + 1
    BY <1>2, <1>7 DEF CallOK
  <2> QED
    BY <1>7, <2>1, <2>2 DEF CallOK
<1>10. ASSUME NEW e \in Dim
       PROVE  TopOf(StacksNow'[e]) = IF e = d THEN o ELSE TopOf(StacksNow[e])
  <2>1. StacksNow \in [Dim -> Seq(Ordinate)]
    BY ScopesAre DEF HInv
  <2>2. CASE e = d
    <3>1. StacksNow'[e] = Append(StacksNow[e], o)
      BY <1>3, <1>5, <2>1, <2>2
    <3>2. ASSUME NEW S, NEW s \in Seq(S), NEW x \in S
          PROVE  TopOf(Append(s, x)) = x
      BY DEF TopOf
    <3> QED
      BY <1>3, <2>1, <2>2, <3>1, <3>2
  <2>3. CASE e # d
    BY <1>5, <2>1, <2>3
  <2> QED
    BY <2>2, <2>3
<1>11. ASSUME NEW v, v.given \in Seq(Given), NEW g \in DOMAIN v.given
       PROVE  v.given[g][1] \in Hidden /\ v.given[g][1] \in Dim
  BY <1>11, HiddenAre DEF Given
<1>12. d \in Hidden => \E g \in DOMAIN c.given : first = c.given[g]
  BY <1>2, <1>3 DEF CallOK, d
<1>13. Held(scopes', StacksNow', Around(wheres))
  <2>1. Held(scopes, StacksNow, Around(wheres))
    BY <1>1, AroundHeld DEF HInv
  <2>2. ASSUME NEW v \in Around(wheres)
        PROVE  /\ Landed(StacksNow', v)
               /\ Complete(v) => \A j \in DOMAIN scopes' : j > Own(v) => Holds(scopes'[j].had, v)
    <3>1. Landed(StacksNow, v) /\ Complete(v)
      BY <1>1, <1>2, <2>1, AroundAre DEF Held, n
    <3>2. v.given \in Seq(Given)
      <4>1. PICK i \in DOMAIN wheres : v = wheres[i]
        BY DEF Around
      <4>2. wheres[i] \in CallType
        BY <1>2, CallsAre
      <4> QED
        BY <4>1, <4>2 DEF CallType
    <3>3. ASSUME NEW g \in DOMAIN v.given
          PROVE  TopOf(StacksNow'[v.given[g][1]]) = v.given[g][2]
      <4>1. v.given[g][1] # d
        BY <1>11, <1>12, <3>2 DEF Apart, d, c
      <4>2. TopOf(StacksNow[v.given[g][1]]) = v.given[g][2]
        <5>1. DOMAIN v.change = {}
          BY <3>1 DEF Complete
        <5> QED
          BY <3>1, <5>1 DEF Landed
      <4> QED
        BY <1>10, <1>11, <3>2, <4>1, <4>2
    <3>4. ASSUME NEW j \in DOMAIN scopes', j > Own(v)
          PROVE  Holds(scopes'[j].had, v)
      BY <1>6, <2>1, <3>1, <3>4 DEF Held
    <3> QED
      BY <3>3, <3>4 DEF Landed
  <2> QED
    BY <2>2 DEF Held
<1>14. Landed(StacksNow', w)
  <2>1. Landed(StacksNow, c)
    <3>1. c \in Bodies(wheres)
      BY <1>1, <1>2 DEF Bodies, Range
    <3> QED
      BY <3>1 DEF HInv, Held
  <2>2. ASSUME NEW g \in DOMAIN c.given
        PROVE  \/ \E x \in DOMAIN w.change : w.change[x] = c.given[g]
               \/ TopOf(StacksNow'[c.given[g][1]]) = c.given[g][2]
    <3>1. c.given[g][1] \in Dim /\ c.given[g][1] \in Hidden
      BY <1>2, <1>11
    <3>2. ASSUME NEW x \in DOMAIN c.change, c.change[x] = c.given[g]
          PROVE  \/ \E y \in DOMAIN w.change : w.change[y] = c.given[g]
                 \/ TopOf(StacksNow'[c.given[g][1]]) = c.given[g][2]
      <4>1. CASE x = 1
        <5>1. c.given[g][1] = d /\ c.given[g][2] = o
          BY <1>3, <3>2, <4>1 DEF d, o
        <5> QED
          BY <1>10, <3>1, <5>1
      <4>2. CASE x # 1
        BY <1>8, <3>2, <4>2
      <4> QED
        BY <4>1, <4>2
    <3>3. ASSUME TopOf(StacksNow[c.given[g][1]]) = c.given[g][2]
          PROVE  TopOf(StacksNow'[c.given[g][1]]) = c.given[g][2]
      <4>1. CASE c.given[g][1] # d
        BY <1>10, <3>1, <3>3, <4>1
      <4>2. CASE c.given[g][1] = d
        <5>1. PICK h \in DOMAIN c.given : first = c.given[h]
          BY <1>12, <3>1, <4>2
        <5>2. h = g
          BY <4>2, <5>1 DEF Distinct, c, d
        <5> QED
          BY <1>10, <3>1, <4>2, <5>1, <5>2 DEF o
      <4> QED
        BY <4>1, <4>2
    <3> QED
      BY <2>1, <3>2, <3>3 DEF Landed
  <2> QED
    BY <1>7, <2>2 DEF Landed
<1>15. /\ Len(scopes') \in Nat /\ Own(w) = Len(scopes') /\ w.before = Current.before
       /\ \A j \in DOMAIN scopes' : ~(j > Own(w))
       /\ w.phase # "thrown" /\ ChiOK(chi, nextIndex)'
  <2>1. Own(w) = n
    BY <1>1, <1>2, <1>7 DEF Own
  <2> QED
    BY <1>1, <1>2, <1>6, <1>7, <2>1 DEF HInv, c
<1>16. HInv'
  BY <1>1, <1>4, <1>7, <1>9, <1>13, <1>14, <1>15, UpdatesKeeps
<1> QED
  BY <1>5, <1>6, <1>16 DEF c, first, d, o, n

\* A body that is evaluated sees what it was given
LEMMA HeldShows == HInv => HiddenDimsKeep
<1> SUFFICES ASSUME HInv, NEW w \in InTheirBody, NEW g \in DOMAIN w.given
             PROVE  Lookup(k, w.given[g][1]) = w.given[g][2]
  BY DEF HiddenDimsKeep
<1>1. w \in Bodies(wheres) /\ w.change = <<>>
  BY DEF InTheirBody, Bodies
<1>2. w.given \in Seq(Given)
  <2>1. PICK i \in DOMAIN wheres : w = wheres[i]
    BY <1>1 DEF Bodies, Range
  <2>2. wheres[i] \in CallType
    BY CallsAre DEF HInv
  <2> QED
    BY <2>1, <2>2 DEF CallType
<1>3. w.given[g][1] \in Dim
  BY <1>2, HiddenAre DEF Given
<1>4. TopOf(StacksNow[w.given[g][1]]) = w.given[g][2]
  <2>1. Landed(StacksNow, w) /\ DOMAIN w.change = {}
    BY <1>1 DEF HInv, Held
  <2> QED
    BY <2>1 DEF Landed
<1> QED
  BY <1>3, <1>4, ScopesAre DEF HInv

LEMMA HeldInit == InitWhere => HInv
<1> SUFFICES ASSUME InitWhere
             PROVE  HInv
  OBVIOUS
<1>1. CInv
  BY ContextInit DEF InitWhere
<1>2. ChiOK(chi, nextIndex)
  BY WhereAssumption DEF InitWhere, ChiOK
<1>3. Calls(wheres, Len(scopes)) /\ Bodies(wheres) = {}
  BY DEF InitWhere, Calls, Bodies, Range
<1> QED
  BY <1>1, <1>2, <1>3 DEF HInv, Held

LEMMA HeldStays == HInv /\ UNCHANGED whereVars => HInv'
<1> SUFFICES ASSUME HInv, UNCHANGED whereVars
             PROVE  HInv'
  OBVIOUS
<1>1. CInv' /\ StacksNow' = StacksNow /\ scopes' = scopes
  BY ContextStays DEF HInv, whereVars, contextVars
<1> QED
  BY <1>1 DEF HInv, whereVars

(***************************************************************************)
(* Without the cache                                                       *)
(***************************************************************************)
Rhos(sc, m) == {j \in 1..m : sc[j].kind = "rho"}
Count(sc, m) == Cardinality(Rhos(sc, m))

\* A dimension got from the ChiMap for a place in a clause, when rho was as long
\* as the number of managers up to the one of the call
Stamp(c, sc, at, which, d) ==
  \E key \in DOMAIN c : c[key] = d /\ key.which = which /\ Len(key.stack) = Count(sc, at)

Stamped(c, sc, w) ==
  /\ w.at \in DOMAIN sc /\ sc[w.at].kind = "rho"
  /\ \A g \in DOMAIN w.given : Stamp(c, sc, w.at, g, w.given[g][1])
  /\ w.phase = "initialiser" => Stamp(c, sc, w.at, w.which, w.hidden)

UncachedCalls(c, sc, ws) ==
  \A i \in DOMAIN ws :
    /\ ~ws[i].cached
    /\ i # Len(ws) \/ ws[i].phase # "thrown" => Stamped(c, sc, ws[i])

Counted(sc, r) == Len(r) = Count(sc, Len(sc))

UInv == HInv /\ UncachedCalls(chi, scopes, wheres) /\ Counted(scopes, rho)

SameKinds(sc, sc2, m) == \A j \in 1..m : j \in DOMAIN sc2 /\ sc2[j].kind = sc[j].kind
Extends(c, c2) == \A x \in DOMAIN c : x \in DOMAIN c2 /\ c2[x] = c[x]

LEMMA CountSame ==
  ASSUME NEW sc, NEW sc2, NEW m \in Nat, SameKinds(sc, sc2, m)
  PROVE  Count(sc2, m) = Count(sc, m)
BY DEF SameKinds, Count, Rhos

LEMMA RhosAre ==
  ASSUME NEW sc, NEW m \in Nat
  PROVE  IsFiniteSet(Rhos(sc, m)) /\ Count(sc, m) \in Nat
<1>1. IsFiniteSet(1..m)
  BY FS_Interval
<1>2. Rhos(sc, m) \subseteq 1..m
  BY DEF Rhos
<1>3. IsFiniteSet(Rhos(sc, m))
  BY <1>1, <1>2, FS_Subset
<1> QED
  BY <1>3, FS_CardinalityType DEF Count

\* A manager further out counts fewer
LEMMA CountLess ==
  ASSUME NEW sc, NEW l \in Nat, NEW m \in Nat, l < m, sc[m].kind = "rho"
  PROVE  Count(sc, l) # Count(sc, m)
<1>1. IsFiniteSet(Rhos(sc, m)) /\ Rhos(sc, l) \subseteq Rhos(sc, m)
  <2>1. IsFiniteSet(Rhos(sc, m))
    BY RhosAre
  <2> QED
    BY <2>1 DEF Rhos
<1>2. m \in Rhos(sc, m) /\ m \notin Rhos(sc, l)
  BY DEF Rhos
<1> QED
  BY <1>1, <1>2, FS_Subset DEF Count

LEMMA CountOpened ==
  ASSUME NEW sc, NEW m \in Nat, NEW sc2, SameKinds(sc, sc2, m)
  PROVE  Count(sc2, m + 1) = IF sc2[m + 1].kind = "rho" THEN Count(sc, m) + 1 ELSE Count(sc, m)
<1>1. Rhos(sc2, m + 1) = IF sc2[m + 1].kind = "rho" THEN Rhos(sc, m) \cup {m + 1} ELSE Rhos(sc, m)
  <2>1. 1..m + 1 = (1..m) \cup {m + 1}
    OBVIOUS
  <2> QED
    BY <2>1 DEF Rhos, SameKinds
<1>2. IsFiniteSet(Rhos(sc, m)) /\ m + 1 \notin Rhos(sc, m)
  <2>1. IsFiniteSet(Rhos(sc, m))
    BY RhosAre
  <2> QED
    BY <2>1 DEF Rhos
<1>3. Cardinality(Rhos(sc, m) \cup {m + 1}) = Cardinality(Rhos(sc, m)) + 1
  BY <1>2, FS_AddElement
<1> QED
  BY <1>1, <1>3 DEF Count

LEMMA CountClosed ==
  ASSUME NEW sc, NEW m \in Nat, NEW sc2, SameKinds(sc, sc2, m)
  PROVE  Count(sc, m + 1) = IF sc[m + 1].kind = "rho" THEN Count(sc2, m) + 1 ELSE Count(sc2, m)
<1>1. Rhos(sc, m + 1) = IF sc[m + 1].kind = "rho" THEN Rhos(sc, m) \cup {m + 1} ELSE Rhos(sc, m)
  <2>1. 1..m + 1 = (1..m) \cup {m + 1}
    OBVIOUS
  <2> QED
    BY <2>1 DEF Rhos
<1>2. IsFiniteSet(Rhos(sc, m)) /\ m + 1 \notin Rhos(sc, m)
  <2>1. IsFiniteSet(Rhos(sc, m))
    BY RhosAre
  <2> QED
    BY <2>1 DEF Rhos
<1>3. Cardinality(Rhos(sc, m) \cup {m + 1}) = Cardinality(Rhos(sc, m)) + 1
  BY <1>2, FS_AddElement
<1>4. Count(sc2, m) = Count(sc, m)
  BY CountSame
<1> QED
  BY <1>1, <1>3, <1>4 DEF Count

LEMMA StampedKept ==
  ASSUME NEW c, NEW sc, NEW w, Stamped(c, sc, w), w.at \in Nat,
         NEW c2, Extends(c, c2), NEW sc2, NEW m \in Nat, SameKinds(sc, sc2, m), w.at <= m,
         0 \notin DOMAIN sc
  PROVE  Stamped(c2, sc2, w)
<1>1. SameKinds(sc, sc2, w.at) /\ w.at \in 1..m
  BY DEF SameKinds, Stamped
<1>2. Count(sc2, w.at) = Count(sc, w.at)
  BY <1>1, CountSame
<1>3. w.at \in DOMAIN sc2 /\ sc2[w.at].kind = "rho"
  BY <1>1 DEF SameKinds, Stamped
<1>4. ASSUME NEW which, NEW d, Stamp(c, sc, w.at, which, d)
      PROVE  Stamp(c2, sc2, w.at, which, d)
  BY <1>2, <1>4 DEF Stamp, Extends
<1> QED
  BY <1>3, <1>4 DEF Stamped

\* The managers counted, when a scope begins, ends or stays
LEMMA CountedOpened ==
  ASSUME NEW n \in Nat, NEW sc, NEW sc2, Len(sc) = n, Len(sc2) = n + 1, SameKinds(sc, sc2, n),
         NEW r, NEW r2, Counted(sc, r),
         Len(r2) = IF sc2[n + 1].kind = "rho" THEN Len(r) + 1 ELSE Len(r)
  PROVE  Counted(sc2, r2)
BY CountOpened DEF Counted

LEMMA CountedClosed ==
  ASSUME NEW n \in Nat, NEW sc, NEW sc2, Len(sc) = n + 1, Len(sc2) = n, SameKinds(sc, sc2, n),
         NEW r, NEW r2, Counted(sc, r), Len(r2) \in Nat,
         Len(r) = IF sc[n + 1].kind = "rho" THEN Len(r2) + 1 ELSE Len(r2)
  PROVE  Counted(sc2, r2)
<1>1. Count(sc2, n) \in Nat
  BY RhosAre
<1> QED
  BY <1>1, CountClosed DEF Counted

LEMMA CountedSame ==
  ASSUME NEW n \in Nat, NEW sc, NEW sc2, Len(sc) = n, Len(sc2) = n, SameKinds(sc, sc2, n),
         NEW r, NEW r2, Counted(sc, r), Len(r2) = Len(r)
  PROVE  Counted(sc2, r2)
BY CountSame DEF Counted

\* What the calls around the innermost got stays as long as their scopes do
LEMMA AroundStamped ==
  ASSUME UInv, wheres # <<>>, NEW c2, Extends(chi, c2),
         NEW sc2, SameKinds(scopes, sc2, Current.before)
  PROVE  \A i \in DOMAIN wheres : i # Len(wheres) =>
           ~wheres[i].cached /\ Stamped(c2, sc2, wheres[i])
<1>1. Current = wheres[Len(wheres)] /\ Current.before \in Nat /\ Len(wheres) \in DOMAIN wheres
  BY InnermostIs DEF UInv
<1> SUFFICES ASSUME NEW i \in DOMAIN wheres, i # Len(wheres)
             PROVE  ~wheres[i].cached /\ Stamped(c2, sc2, wheres[i])
  OBVIOUS
<1>2. /\ Calls(wheres, Len(scopes)) /\ Len(wheres) \in Nat /\ DOMAIN wheres = 1..Len(wheres)
      /\ wheres[i].at \in Nat /\ wheres[i].at <= Own(wheres[i]) /\ Own(wheres[i]) \in Nat
  BY CallsAre DEF UInv, HInv
<1>3. Own(wheres[i]) <= Current.before
  BY <1>1, <1>2 DEF Calls
<1>4. ~wheres[i].cached /\ Stamped(chi, scopes, wheres[i])
  BY DEF UInv, UncachedCalls
<1>5. 0 \notin DOMAIN scopes
  BY ScopesAre DEF UInv, HInv
<1>6. wheres[i].at <= Current.before
  BY <1>1, <1>2, <1>3
<1>7. Stamped(c2, sc2, wheres[i])
  BY <1>1, <1>2, <1>4, <1>5, <1>6, StampedKept
<1> QED
  BY <1>4, <1>7

LEMMA UncachedUpdates ==
  ASSUME UInv, HInv', wheres # <<>>, NEW w, Update(w), ~w.cached,
         w.phase # "thrown" => Stamped(chi', scopes', w),
         Extends(chi, chi'), SameKinds(scopes, scopes', Current.before),
         Counted(scopes', rho')
  PROVE  UInv'
<1>1. \A i \in DOMAIN wheres : i # Len(wheres) =>
        ~wheres[i].cached /\ Stamped(chi', scopes', wheres[i])
  BY AroundStamped
<1>2. /\ DOMAIN wheres' = DOMAIN wheres /\ Len(wheres') = Len(wheres)
      /\ \A i \in DOMAIN wheres : wheres'[i] = IF i = Len(wheres) THEN w ELSE wheres[i]
  <2>1. wheres \in Seq(CallType) /\ wheres' \in Seq(CallType)
    BY CallsAre DEF UInv, HInv
  <2> QED
    BY <2>1 DEF Update
<1>3. UncachedCalls(chi', scopes', wheres')
  BY <1>1, <1>2 DEF UncachedCalls
<1> QED
  BY <1>3 DEF UInv

LEMMA UncachedReturns ==
  ASSUME UInv, HInv', wheres # <<>>, Return, UNCHANGED chi,
         SameKinds(scopes, scopes', Current.before), Counted(scopes', rho')
  PROVE  UInv'
<1>1. \A i \in DOMAIN wheres : i # Len(wheres) =>
        ~wheres[i].cached /\ Stamped(chi', scopes', wheres[i])
  BY AroundStamped DEF Extends
<1>2. \A i \in DOMAIN wheres' : i \in DOMAIN wheres /\ i # Len(wheres) /\ wheres'[i] = wheres[i]
  <2>1. wheres \in Seq(CallType) /\ wheres' = SubSeq(wheres, 1, Len(wheres) - 1)
    BY CallsAre DEF UInv, HInv, Return
  <2> QED
    BY <2>1
<1>3. UncachedCalls(chi', scopes', wheres')
  BY <1>1, <1>2 DEF UncachedCalls
<1> QED
  BY <1>3 DEF UInv

\* The innermost call has its own manager
LEMMA InnermostStamped ==
  ASSUME UInv, wheres # <<>>
  PROVE  /\ ~Current.cached
         /\ Current.phase # "thrown" => Stamped(chi, scopes, Current) /\ Current.at \in DOMAIN scopes
         /\ 0 \notin DOMAIN scopes /\ DOMAIN scopes = 1..Len(scopes)
<1>1. Current = wheres[Len(wheres)] /\ Len(wheres) \in DOMAIN wheres
  BY InnermostIs DEF UInv
<1>2. 0 \notin DOMAIN scopes /\ DOMAIN scopes = 1..Len(scopes)
  BY ScopesAre DEF UInv, HInv
<1> QED
  BY <1>1, <1>2 DEF UInv, UncachedCalls, Stamped

LEMMA RhoIs ==
  ASSUME CInv
  PROVE  rho \in Seq(0..MaxIndex) /\ Len(rho) \in Nat
BY DEF CInv, ContextTypeOK

LEMMA UncachedEnters ==
  ASSUME UInv, NEW e \in Clause, EnterWhere(e)
  PROVE  UInv'
<1> DEFINE n == Len(scopes)
           w == Call(e, FALSE, n + 1)
<1>1. HInv /\ HInv'
  BY EnterWhereKeeps DEF UInv
<1>2. /\ Free /\ OpenRho(0) /\ wheres' = Append(wheres, w) /\ UNCHANGED <<chi, nextIndex, chivalue>>
      /\ n \in Nat /\ NewCall(w, e, FALSE, n + 1)
  <2>1. n \in Nat /\ n + 1 \in Nat
    BY <1>1, ScopesAre DEF HInv
  <2>2. NewCall(w, e, FALSE, n + 1)
    BY <2>1, CallIsNew
  <2> QED
    BY <2>1, <2>2 DEF EnterWhere
<1>3. /\ scopes' = Append(scopes, Scope("rho", 0)) /\ k' = k /\ OthersIndex(scopes, scopes)
      /\ rho' = <<0>> \o rho /\ 0 \in 0..MaxIndex
  BY <1>1, <1>2, SameIndex, ContextAssumption DEF HInv, OpenRho, Begin
<1>4. /\ Len(scopes') = n + 1 /\ DOMAIN scopes' = 1..(n + 1) /\ scopes'[n + 1].kind = "rho"
      /\ \A j \in DOMAIN scopes : scopes'[j].kind = scopes[j].kind
  BY <1>1, <1>3, OpensHeld
<1>5. SameKinds(scopes, scopes', n)
  BY <1>1, <1>2, <1>4, ScopesAre DEF HInv, SameKinds
<1>6. Counted(scopes', rho')
  <2>1. Len(rho') = Len(rho) + 1
    BY <1>1, <1>3, RhoIs DEF HInv
  <2> QED
    BY <1>2, <1>4, <1>5, <2>1, CountedOpened DEF UInv
<1> HIDE DEF w
<1>7. UncachedCalls(chi', scopes', wheres')
  <2>1. Calls(wheres, n) /\ wheres \in Seq(CallType) /\ Len(wheres) \in Nat
        /\ DOMAIN wheres = 1..Len(wheres)
    BY <1>1, CallsAre DEF HInv
  <2>2. ASSUME NEW i \in DOMAIN wheres
        PROVE  ~wheres[i].cached /\ Stamped(chi', scopes', wheres[i])
    <3>1. /\ wheres[i].at \in Nat /\ 0 \notin DOMAIN scopes /\ DOMAIN scopes = 1..n
      BY <1>1, <2>1, CallsAre, ScopesAre DEF HInv
    <3>2. wheres[Len(wheres)].phase # "thrown"
      BY <1>2, <2>2 DEF Free, Inside, In, Current
    <3>3. ~wheres[i].cached /\ Stamped(chi, scopes, wheres[i])
      BY <3>2 DEF UInv, UncachedCalls
    <3>4. wheres[i].at <= n /\ Extends(chi, chi')
      BY <1>2, <3>1, <3>3 DEF Stamped, Extends
    <3> QED
      BY <1>2, <1>5, <3>1, <3>3, <3>4, StampedKept
  <2>3. ~w.cached /\ Stamped(chi', scopes', w)
    <3>1. ~w.cached /\ w.at = n + 1 /\ DOMAIN w.given = {} /\ w.phase = "dims"
      BY <1>2 DEF NewCall
    <3> QED
      BY <1>2, <1>4, <3>1 DEF Stamped
  <2>4. \A i \in DOMAIN wheres' : (i \in DOMAIN wheres /\ wheres'[i] = wheres[i]) \/ wheres'[i] = w
    BY <1>2, <2>1
  <2> QED
    BY <2>2, <2>3, <2>4 DEF UncachedCalls
<1> QED
  BY <1>1, <1>6, <1>7 DEF UInv

LEMMA UncachedAllocates ==
  ASSUME UInv, Allocate
  PROVE  UInv'
<1> DEFINE c == Current
<1>1. HInv /\ HInv' /\ wheres # <<>> /\ c.phase = "dims" /\ Len(scopes) = OwnScopes
      /\ ChangeTop(c.which)
  BY AllocateKeeps DEF UInv, Allocate, Here, In
<1>2. PICK d \in Hidden : /\ LookupChi([which |-> c.which, stack |-> rho], d)
                          /\ Update([c EXCEPT !.phase = "initialiser", !.hidden = d])
  BY DEF Allocate, Hidden
<1> DEFINE w == [c EXCEPT !.phase = "initialiser", !.hidden = d]
           key == [which |-> c.which, stack |-> rho]
<1>3. /\ c \in CallType /\ OwnScopes = Own(c) /\ c.before \in Nat /\ c.at \in Nat
      /\ c.before <= c.at /\ Len(scopes) \in Nat
  BY <1>1, InnermostIs
<1>4. ~c.cached /\ Stamped(chi, scopes, c) /\ 0 \notin DOMAIN scopes /\ DOMAIN scopes = 1..Len(scopes)
  BY <1>1, InnermostStamped
<1>5. w.cached = c.cached /\ w.at = c.at /\ w.which = c.which /\ w.given = c.given /\ w.hidden = d
  BY <1>3 DEF CallType
<1>6. /\ key \in DOMAIN chi' /\ chi'[key] = d /\ Extends(chi, chi')
  <2> HIDE DEF key
  <2> QED
    BY <1>1, <1>2, LookedUp DEF HInv, Extends, key
<1>7. /\ Len(scopes') = Len(scopes) /\ SameKinds(scopes, scopes', Len(scopes))
      /\ Len(rho') = Len(rho)
  BY <1>1, <1>4, IndexHeld DEF SameKinds
<1>8. Counted(scopes', rho')
  BY <1>3, <1>7, CountedSame DEF UInv
<1>9. c.at = Len(scopes)
  BY <1>1, <1>3 DEF Own
<1>10. Stamped(chi', scopes', c)
  BY <1>3, <1>4, <1>6, <1>7, <1>9, StampedKept
<1>11. Stamp(chi', scopes', c.at, c.which, d)
  <2>1. Len(rho) = Count(scopes', c.at)
    BY <1>7, <1>8, <1>9 DEF Counted
  <2>2. key.which = c.which /\ key.stack = rho
    OBVIOUS
  <2> HIDE DEF key
  <2> QED
    BY <1>6, <2>1, <2>2 DEF Stamp
<1>12. Stamped(chi', scopes', w)
  <2> HIDE DEF w
  <2> QED
    BY <1>5, <1>10, <1>11 DEF Stamped
<1>13. SameKinds(scopes, scopes', c.before)
  BY <1>3, <1>7, <1>9 DEF SameKinds
<1> QED
  <2> HIDE DEF w
  <2>1. Update(w) /\ ~w.cached
    BY <1>2, <1>4, <1>5 DEF w
  <2> QED
    BY <1>1, <1>6, <1>8, <1>12, <1>13, <2>1, UncachedUpdates

LEMMA UncachedInitialised ==
  ASSUME UInv, NEW o \in Plain, Initialised(o)
  PROVE  UInv'
<1> DEFINE c == Current
           w == [c EXCEPT !.phase = "dims", !.which = @ + 1,
                          !.change = @ \o Changes(c.hidden, o),
                          !.given = Append(@, <<c.hidden, o>>)]
<1>1. /\ HInv /\ HInv' /\ wheres # <<>> /\ c.phase = "initialiser" /\ Update(w)
      /\ UNCHANGED <<contextVars, chi>>
  BY InitialisedKeeps DEF UInv, Initialised, Here, In
<1>2. /\ c \in CallType /\ c.given \in Seq(Given) /\ c.which = Len(c.given) + 1
      /\ c.before \in Nat /\ c.at \in Nat /\ c.before <= c.at
  BY <1>1, InnermostIs
<1>3. ~c.cached /\ Stamped(chi, scopes, c) /\ c.at \in DOMAIN scopes /\ DOMAIN scopes = 1..Len(scopes)
  BY <1>1, InnermostStamped
<1>4. w.cached = c.cached /\ w.at = c.at /\ w.phase = "dims" /\ w.given = Append(c.given, <<c.hidden, o>>)
  BY <1>2 DEF CallType
<1> HIDE DEF w
<1>5. Stamped(chi, scopes, w)
  <2>1. ASSUME NEW g \in DOMAIN w.given
        PROVE  Stamp(chi, scopes, w.at, g, w.given[g][1])
    <3> DEFINE pair == <<c.hidden, o>>
    <3>1. \/ g \in DOMAIN c.given /\ w.given[g] = c.given[g]
          \/ g = c.which /\ w.given[g] = pair
      <4> HIDE DEF pair, c
      <4> QED
        BY <1>2, <1>4 DEF pair
    <3>2. pair[1] = c.hidden
      OBVIOUS
    <3> HIDE DEF pair
    <3> QED
      BY <1>1, <1>3, <1>4, <3>1, <3>2 DEF Stamped
  <2> QED
    BY <1>3, <1>4, <2>1 DEF Stamped
<1>6. /\ SameKinds(scopes, scopes', c.before) /\ Extends(chi, chi') /\ Counted(scopes', rho')
      /\ scopes' = scopes /\ chi' = chi
  <2>1. scopes' = scopes /\ chi' = chi /\ rho' = rho /\ Len(scopes) \in Nat
    BY <1>1, ScopesAre DEF contextVars, HInv
  <2>2. c.before <= Len(scopes)
    BY <1>2, <1>3, <2>1
  <2> QED
    BY <1>2, <1>3, <2>1, <2>2 DEF SameKinds, Extends, UInv
<1> QED
  BY <1>1, <1>3, <1>4, <1>5, <1>6, UncachedUpdates

LEMMA UncachedBegins ==
  ASSUME UInv, BeginBody
  PROVE  UInv'
<1> DEFINE c == Current
           n == Len(scopes)
           w == [c EXCEPT !.phase = "body"]
           shown == [scopes EXCEPT ![n].index = 0]
<1>1. /\ HInv /\ HInv' /\ wheres # <<>> /\ c.phase = "dims" /\ n = OwnScopes /\ Update(w)
      /\ scopes' = Append(shown, Scope("perturb", 0)) /\ rho' = [rho EXCEPT ![Len(rho)] = 0]
      /\ UNCHANGED <<k, delta, instant, chi, nextIndex, chivalue>>
  BY BeginBodyKeeps DEF UInv, BeginBody, Here, In
<1>2. /\ c \in CallType /\ OwnScopes = Own(c) /\ c.before \in Nat /\ c.at \in Nat
      /\ c.before <= c.at /\ n \in Nat
  BY <1>1, InnermostIs
<1>3. ~c.cached /\ Stamped(chi, scopes, c) /\ 0 \notin DOMAIN scopes /\ DOMAIN scopes = 1..n
      /\ c.at \in DOMAIN scopes
  BY <1>1, InnermostStamped
<1>4. w.cached = c.cached /\ w.at = c.at /\ w.phase = "body" /\ w.given = c.given
  BY <1>2, PhaseChanged DEF Phases
<1> HIDE DEF w
<1>5. c.at = n
  BY <1>1, <1>2 DEF Own
<1>6. /\ Len(scopes') = n + 1 /\ DOMAIN scopes' = 1..(n + 1) /\ scopes'[n + 1].kind = "perturb"
      /\ \A j \in DOMAIN scopes : scopes'[j].kind = scopes[j].kind
  <2>1. Len(shown) = n /\ DOMAIN shown = 1..n /\ shown \in Seq(ScopeType)
        /\ \A j \in DOMAIN scopes : shown[j].kind = scopes[j].kind
    <3>1. scopes \in Seq(ScopeType)
      BY <1>1, ScopesAre DEF HInv
    <3>2. ASSUME NEW j \in DOMAIN scopes
          PROVE  shown[j] \in ScopeType /\ shown[j].kind = scopes[j].kind
      <4>1. scopes[j] \in ScopeType /\ 0 \in 0..MaxIndex
        BY <3>1, ContextAssumption
      <4>2. shown[j] = IF j = n THEN [scopes[j] EXCEPT !.index = 0] ELSE scopes[j]
        BY <3>1
      <4>3. [scopes[j] EXCEPT !.index = 0] \in ScopeType
            /\ [scopes[j] EXCEPT !.index = 0].kind = scopes[j].kind
        BY <4>1 DEF ScopeType
      <4> HIDE DEF shown
      <4> QED
        BY <4>1, <4>2, <4>3
    <3>3. DOMAIN shown = 1..n /\ shown = [j \in 1..n |-> shown[j]]
      BY <1>3
    <3>4. ASSUME NEW S, NEW m \in Nat, NEW f, f = [j \in 1..m |-> f[j]], \A j \in 1..m : f[j] \in S
          PROVE  f \in Seq(S) /\ Len(f) = m
      <4>1. f \in [1..m -> S]
        BY <3>4
      <4> QED
        BY <4>1
    <3> HIDE DEF shown
    <3> QED
      BY <1>2, <1>3, <3>2, <3>3, <3>4
  <2>2. Scope("perturb", 0).kind = "perturb"
    BY DEF Scope
  <2> DEFINE new == Scope("perturb", 0)
  <2>3. scopes' = Append(shown, new) /\ new.kind = "perturb"
    BY <1>1, <2>2
  <2> HIDE DEF shown, new, n
  <2> QED
    BY <1>2, <1>3, <2>1, <2>3
<1>7. SameKinds(scopes, scopes', n) /\ SameKinds(scopes, scopes', c.before)
  BY <1>2, <1>3, <1>5, <1>6 DEF SameKinds
<1>8. Counted(scopes', rho')
  <2>1. Len(rho') = Len(rho)
    BY <1>1, RhoIs DEF HInv
  <2> QED
    BY <1>2, <1>6, <1>7, <2>1, CountedOpened DEF UInv
<1>9. Extends(chi, chi')
  BY <1>1 DEF Extends
<1>10. Stamped(chi', scopes', c)
  BY <1>2, <1>3, <1>5, <1>7, <1>9, StampedKept
<1>11. Stamped(chi', scopes', w)
  BY <1>4, <1>10 DEF Stamped
<1> QED
  BY <1>1, <1>3, <1>4, <1>7, <1>8, <1>9, <1>11, UncachedUpdates

LEMMA Shorter ==
  ASSUME NEW S, NEW s \in Seq(S), s # <<>>
  PROVE  LET t == SubSeq(s, 1, Len(s) - 1)
         IN  /\ Len(t) = Len(s) - 1 /\ Len(s) - 1 \in Nat /\ Len(s) \in Nat
             /\ \A j \in 1..(Len(s) - 1) : j \in DOMAIN t /\ t[j] = s[j]
<1> DEFINE n == Len(s) - 1
           t == SubSeq(s, 1, n)
<1>1. Len(s) \in Nat /\ Len(s) # 0
  OBVIOUS
<1>2. n \in Nat /\ n = Len(s) - 1
  BY <1>1
<1> HIDE DEF n
<1>3. Len(t) = n /\ \A j \in 1..n : j \in DOMAIN t /\ t[j] = s[j]
  BY <1>1, <1>2
<1> QED
  BY <1>1, <1>2, <1>3 DEF n

LEMMA UncachedCloses ==
  ASSUME UInv, CInv', ClosePerturber \/ CloseRho
  PROVE  /\ Counted(scopes', rho') /\ SameKinds(scopes, scopes', Len(scopes) - 1)
         /\ Len(scopes') = Len(scopes) - 1 /\ Len(scopes') \in Nat
<1> DEFINE n == Len(scopes)
<1>1. /\ scopes \in Seq(ScopeType) /\ n \in Nat /\ scopes # <<>> /\ End
      /\ rho \in Seq(0..MaxIndex) /\ Len(rho) \in Nat
  BY ScopesAre, RhoIs DEF UInv, HInv, ClosePerturber, CloseRho, TopIs
<1>2. /\ Len(scopes') = n - 1 /\ n - 1 \in Nat
      /\ \A j \in 1..(n - 1) : j \in DOMAIN scopes' /\ scopes'[j] = scopes[j]
  BY <1>1, Shorter DEF End
<1>3. SameKinds(scopes, scopes', n - 1)
  BY <1>2 DEF SameKinds
<1>4. Len(rho') \in Nat
  BY RhoIs, CInv' DEF CInv, ContextTypeOK
<1>5. Len(rho) = IF scopes[n].kind = "rho" THEN Len(rho') + 1 ELSE Len(rho')
  <2>1. CASE ClosePerturber
    BY <1>1, <2>1 DEF ClosePerturber, TopIs, Top
  <2>2. CASE CloseRho
    <3>1. scopes[n].kind = "rho" /\ rho' = SubSeq(rho, 1, Len(rho) - 1)
      BY <2>2 DEF CloseRho, TopIs, Top
    <3>2. Len(rho) > 0
      <4>1. n \in Rhos(scopes, n)
        BY <1>1, <3>1 DEF Rhos
      <4>2. IsFiniteSet(Rhos(scopes, n)) /\ Count(scopes, n) \in Nat
        BY <1>1, RhosAre
      <4>3. Count(scopes, n) # 0
        BY <4>1, <4>2, FS_EmptySet DEF Count
      <4> QED
        BY <1>1, <4>2, <4>3 DEF UInv, Counted
    <3>3. Len(rho') = Len(rho) - 1
      <4>1. rho # <<>>
        BY <3>2
      <4> QED
        BY <1>1, <3>1, <4>1, Shorter
    <3> QED
      BY <1>1, <3>1, <3>3
  <2> QED
    BY <2>1, <2>2
<1>6. Counted(scopes', rho')
  <2> DEFINE m == n - 1
  <2>1. m \in Nat /\ n = m + 1 /\ Len(scopes) = m + 1 /\ Len(scopes') = m
    BY <1>1, <1>2
  <2> HIDE DEF m, n
  <2>2. SameKinds(scopes, scopes', m)
    BY <1>3 DEF m
  <2> QED
    BY <1>4, <1>5, <2>1, <2>2, CountedClosed DEF UInv
<1> QED
  BY <1>2, <1>3, <1>6

LEMMA UncachedLeavesBody ==
  ASSUME UInv, LeaveBody
  PROVE  UInv'
<1> DEFINE c == Current
           w == [c EXCEPT !.phase = "leaving"]
<1>1. /\ HInv /\ HInv' /\ wheres # <<>> /\ c.phase = "body" /\ Len(scopes) = OwnScopes
      /\ ClosePerturber /\ UNCHANGED <<chi, nextIndex, chivalue>>
      /\ IF c.cached THEN Return ELSE Update(w)
  BY LeaveBodyKeeps DEF UInv, LeaveBody, Here, In
<1>2. /\ c \in CallType /\ OwnScopes = Own(c) /\ c.before \in Nat /\ c.at \in Nat
      /\ c.before <= c.at
  BY <1>1, InnermostIs
<1>3. ~c.cached /\ Stamped(chi, scopes, c) /\ 0 \notin DOMAIN scopes
  BY <1>1, InnermostStamped
<1>4. w.cached = c.cached /\ w.at = c.at /\ w.phase = "leaving" /\ w.given = c.given
  BY <1>2, PhaseChanged DEF Phases
<1> HIDE DEF w
<1>5. /\ Counted(scopes', rho') /\ SameKinds(scopes, scopes', Len(scopes) - 1)
      /\ Len(scopes) - 1 = c.at
  BY <1>1, <1>2, UncachedCloses DEF HInv, Own
<1>6. SameKinds(scopes, scopes', c.at) /\ SameKinds(scopes, scopes', c.before) /\ Extends(chi, chi')
  BY <1>1, <1>2, <1>5 DEF SameKinds, Extends
<1>7. Stamped(chi', scopes', c)
  BY <1>2, <1>3, <1>6, StampedKept
<1>8. Stamped(chi', scopes', w)
  BY <1>4, <1>7 DEF Stamped
<1> QED
  BY <1>1, <1>3, <1>4, <1>5, <1>6, <1>8, UncachedUpdates

LEMMA UncachedLeaves ==
  ASSUME UInv, LeaveWhere
  PROVE  UInv'
<1>1. HInv /\ wheres # <<>> /\ Current.phase = "leaving" /\ Len(scopes) = OwnScopes
      /\ CloseRho /\ Return /\ UNCHANGED chi
  BY DEF UInv, LeaveWhere, Here, In
<1>2. ~Current.cached
  BY <1>1, InnermostStamped
<1>3. HInv'
  BY <1>1, <1>2, LeaveWhereKeeps
<1>4. Current.before \in Nat /\ Len(scopes) - 1 = Current.before
  BY <1>1, <1>2, InnermostIs DEF Own, CallOK
<1>5. Counted(scopes', rho') /\ SameKinds(scopes, scopes', Len(scopes) - 1)
  BY <1>1, <1>3, UncachedCloses DEF HInv
<1>6. SameKinds(scopes, scopes', Current.before)
  BY <1>4, <1>5
<1> QED
  BY <1>1, <1>3, <1>5, <1>6, UncachedReturns

LEMMA UncachedThrows ==
  ASSUME UInv, Throw
  PROVE  UInv'
<1> DEFINE c == Current
           w == [c EXCEPT !.phase = "thrown"]
<1>1. /\ HInv /\ HInv' /\ Update(w) /\ UNCHANGED <<contextVars, chi>> /\ wheres # <<>>
      /\ c.phase # "thrown"
  BY ThrowKeeps DEF UInv, Throw, Inside, In
<1>2. /\ c \in CallType /\ c.before \in Nat /\ c.at \in Nat /\ c.before <= c.at
  BY <1>1, InnermostIs
<1>3. /\ ~c.cached /\ c.at \in DOMAIN scopes /\ DOMAIN scopes = 1..Len(scopes)
      /\ Len(scopes) \in Nat
  BY <1>1, InnermostStamped, ScopesAre DEF HInv
<1>4. w.cached = c.cached /\ w.phase = "thrown"
  BY <1>2, PhaseChanged DEF Phases
<1> HIDE DEF w
<1>5. scopes' = scopes /\ rho' = rho /\ chi' = chi
  BY <1>1 DEF contextVars
<1>6. c.before <= Len(scopes)
  BY <1>2, <1>3
<1>7. Counted(scopes', rho') /\ SameKinds(scopes, scopes', c.before) /\ Extends(chi, chi')
  BY <1>2, <1>3, <1>5, <1>6 DEF SameKinds, Extends, UInv
<1> QED
  BY <1>1, <1>3, <1>4, <1>7, UncachedUpdates

LEMMA UncachedUnwindsScope ==
  ASSUME UInv, UnwindScope
  PROVE  UInv'
<1>1. /\ HInv /\ HInv' /\ wheres # <<>> /\ Current.phase = "thrown" /\ Len(scopes) > Current.before
      /\ ClosePerturber \/ CloseRho
      /\ UNCHANGED <<chi, wheres>>
  BY UnwindScopeKeeps DEF UInv, UnwindScope, In
<1>2. /\ Current = wheres[Len(wheres)] /\ Current.before \in Nat /\ Len(scopes) \in Nat
  BY <1>1, InnermostIs
<1>3. /\ Counted(scopes', rho') /\ SameKinds(scopes, scopes', Len(scopes) - 1)
  BY <1>1, UncachedCloses DEF HInv
<1>4. SameKinds(scopes, scopes', Current.before) /\ Extends(chi, chi')
  BY <1>1, <1>2, <1>3 DEF SameKinds, Extends
<1>5. \A i \in DOMAIN wheres : i # Len(wheres) =>
        ~wheres[i].cached /\ Stamped(chi', scopes', wheres[i])
  BY <1>1, <1>4, AroundStamped
<1>6. ~Current.cached
  BY <1>1, InnermostStamped
<1>7. UncachedCalls(chi', scopes', wheres)
  BY <1>1, <1>2, <1>5, <1>6 DEF UncachedCalls
<1> QED
  BY <1>1, <1>3, <1>7 DEF UInv

LEMMA UncachedUnwindsCall ==
  ASSUME UInv, UnwindCall
  PROVE  UInv'
<1>1. /\ HInv /\ HInv' /\ UNCHANGED <<contextVars, chi>> /\ wheres # <<>>
      /\ wheres' # <<>> =>
           \A i \in DOMAIN wheres' :
             /\ i \in DOMAIN wheres /\ i # Len(wheres)
             /\ wheres'[i] = IF i = Len(wheres')
                             THEN [wheres[i] EXCEPT !.phase = "thrown"] ELSE wheres[i]
  BY UnwindCallKeeps DEF UInv, UnwindCall, In
<1>2. scopes' = scopes /\ rho' = rho /\ chi' = chi
  BY <1>1 DEF contextVars
<1>3. ASSUME NEW i \in DOMAIN wheres'
      PROVE  /\ ~wheres'[i].cached
             /\ i # Len(wheres') \/ wheres'[i].phase # "thrown" => Stamped(chi, scopes, wheres'[i])
  <2>1. wheres' # <<>>
    BY <1>3
  <2>2. /\ i \in DOMAIN wheres /\ i # Len(wheres)
        /\ wheres'[i] = IF i = Len(wheres')
                        THEN [wheres[i] EXCEPT !.phase = "thrown"] ELSE wheres[i]
    BY <1>1, <2>1
  <2>3. wheres[i] \in CallType /\ ~wheres[i].cached /\ Stamped(chi, scopes, wheres[i])
    BY <2>2, CallsAre DEF UInv, HInv, UncachedCalls
  <2>4. LET w == [wheres[i] EXCEPT !.phase = "thrown"]
        IN  w.cached = wheres[i].cached /\ w.phase = "thrown"
    BY <2>3 DEF CallType
  <2> QED
    BY <2>2, <2>3, <2>4
<1>4. UncachedCalls(chi', scopes', wheres')
  BY <1>2, <1>3 DEF UncachedCalls
<1>5. Counted(scopes', rho')
  BY <1>2 DEF UInv
<1> QED
  BY <1>1, <1>4, <1>5 DEF UInv

LEMMA UncachedWorks ==
  ASSUME UInv, Workshop
  PROVE  UInv'
<1> DEFINE n == Len(scopes)
<1>1. /\ HInv /\ HInv' /\ UNCHANGED <<chi, wheres>> /\ n \in Nat /\ DOMAIN scopes = 1..n
      /\ 0 \notin DOMAIN scopes
  BY WorkshopKeeps, ScopesAre DEF UInv, HInv, Workshop
<1>2. ASSUME NEW m \in Nat, SameKinds(scopes, scopes', m), Counted(scopes', rho'),
             \A i \in DOMAIN wheres : Stamped(chi, scopes, wheres[i]) => wheres[i].at <= m
      PROVE  UInv'
  <2>1. ASSUME NEW i \in DOMAIN wheres, Stamped(chi, scopes, wheres[i])
        PROVE  Stamped(chi', scopes', wheres[i])
    <3>1. wheres[i].at \in Nat /\ wheres[i].at <= m /\ Extends(chi, chi')
      BY <1>1, <1>2, <2>1, CallsAre DEF HInv, Extends
    <3> QED
      BY <1>1, <1>2, <2>1, <3>1, StampedKept
  <2>2. UncachedCalls(chi', scopes', wheres')
    BY <1>1, <2>1 DEF UInv, UncachedCalls
  <2> QED
    BY <1>1, <1>2, <2>2 DEF UInv
<1>3. \A i \in DOMAIN wheres : Stamped(chi, scopes, wheres[i]) => wheres[i].at <= n
  BY <1>1 DEF Stamped
<1>4. CASE Free /\ OpenRho(1)
  <2>1. /\ 1 \in 0..MaxIndex /\ OthersIndex(scopes, scopes)
        /\ scopes' = Append(scopes, Scope("rho", 1)) /\ k' = k /\ rho' = <<1>> \o rho
    BY <1>1, <1>4, SameIndex, WhereAssumption, ContextAssumption DEF HInv, OpenRho, Begin
  <2>2. /\ Len(scopes') = n + 1 /\ DOMAIN scopes' = 1..(n + 1) /\ scopes'[n + 1].kind = "rho"
        /\ \A j \in DOMAIN scopes : scopes'[j].kind = scopes[j].kind
    BY <1>1, <2>1, OpensHeld
  <2>3. SameKinds(scopes, scopes', n)
    BY <1>1, <2>2 DEF SameKinds
  <2>4. Len(rho') = Len(rho) + 1
    BY <1>1, <2>1, RhoIs DEF HInv
  <2>5. Counted(scopes', rho')
    BY <1>1, <2>2, <2>3, <2>4, CountedOpened DEF UInv
  <2> QED
    BY <1>1, <1>2, <1>3, <2>3, <2>5
<1>5. ASSUME NEW i \in 1..MaxIndex, ChangeTop(i)
      PROVE  UInv'
  <2>1. /\ Len(scopes') = n /\ SameKinds(scopes, scopes', n) /\ Len(rho') = Len(rho)
    BY <1>1, <1>5, IndexHeld DEF SameKinds
  <2>2. Counted(scopes', rho')
    BY <1>1, <2>1, CountedSame DEF UInv
  <2> QED
    BY <1>1, <1>2, <1>3, <2>1, <2>2
<1>6. CASE FreeScope /\ CloseRho
  <2>1. /\ Counted(scopes', rho') /\ SameKinds(scopes, scopes', n - 1) /\ n - 1 \in Nat
    BY <1>1, <1>6, UncachedCloses DEF HInv
  <2>2. ASSUME NEW i \in DOMAIN wheres
        PROVE  wheres[i].at <= n - 1
    <3>1. /\ wheres # <<>> /\ n > OwnScopes /\ OwnScopes = Own(Current)
          /\ Current = wheres[Len(wheres)] /\ Calls(wheres, n) /\ Current.at \in Nat
          /\ Current.before \in Nat /\ Current.before <= Current.at
      BY <1>1, <1>6, <2>2, InnermostIs DEF FreeScope
    <3>2. /\ wheres[i].at \in Nat /\ wheres[i].at <= Own(wheres[i]) /\ Own(wheres[i]) \in Nat
          /\ DOMAIN wheres = 1..Len(wheres) /\ Len(wheres) \in DOMAIN wheres
          /\ Own(Current) \in Nat /\ Current.at <= Own(Current)
      BY <2>2, <3>1, CallsAre
    <3>3. CASE i = Len(wheres)
      BY <1>1, <3>1, <3>2, <3>3
    <3>4. CASE i # Len(wheres)
      <4>1. Own(wheres[i]) <= Current.before
        BY <3>1, <3>2, <3>4 DEF Calls
      <4> QED
        BY <1>1, <3>1, <3>2, <4>1
    <3> QED
      BY <3>3, <3>4
  <2> QED
    BY <1>2, <2>1, <2>2
<1> QED
  BY <1>4, <1>5, <1>6 DEF Workshop

\* The dimensions of a call, and of the calls around it, have other ChiDims:
\* another place, or another length of rho
LEMMA UncachedApart ==
  ASSUME UInv, wheres # <<>>, Current.phase = "body"
  PROVE  Distinct(Current) /\ \A v \in Around(wheres) : Apart(v, Current)
<1>1. /\ Current = wheres[Len(wheres)] /\ Len(wheres) \in DOMAIN wheres
      /\ Current.before \in Nat /\ Current.at \in Nat /\ Calls(wheres, Len(scopes))
      /\ Current \in CallType /\ CallOK(Current)
  BY InnermostIs DEF UInv
<1>2. ~Current.cached /\ Stamped(chi, scopes, Current)
  BY InnermostStamped
<1>3. \A x, y \in DOMAIN chi : chi[x] = chi[y] => x = y
  BY DEF UInv, HInv, ChiOK
<1>4. Distinct(Current)
  <2>1. ASSUME NEW g \in DOMAIN Current.given, NEW h \in DOMAIN Current.given, g # h,
               Current.given[g][1] = Current.given[h][1]
        PROVE  FALSE
    <3>1. PICK x \in DOMAIN chi : chi[x] = Current.given[g][1] /\ x.which = g
      BY <1>2 DEF Stamped, Stamp
    <3>2. PICK y \in DOMAIN chi : chi[y] = Current.given[h][1] /\ y.which = h
      BY <1>2 DEF Stamped, Stamp
    <3> QED
      BY <1>3, <2>1, <3>1, <3>2
  <2> QED
    BY <2>1 DEF Distinct
<1>5. ASSUME NEW v \in Around(wheres)
      PROVE  Apart(v, Current)
  <2>1. PICK i \in DOMAIN wheres : i # Len(wheres) /\ v = wheres[i]
    BY DEF Around
  <2>2. v.at \in Nat /\ v.at <= Own(v) /\ Own(v) \in Nat /\ DOMAIN wheres = 1..Len(wheres)
    BY <1>1, <2>1, CallsAre
  <2>3. Own(v) <= Current.before
    BY <1>1, <2>1, <2>2 DEF Calls
  <2>4. v.at < Current.at
    BY <1>1, <1>2, <2>2, <2>3 DEF CallOK
  <2>5. Count(scopes, v.at) # Count(scopes, Current.at)
    BY <1>1, <1>2, <2>2, <2>4, CountLess DEF Stamped
  <2>6. Stamped(chi, scopes, v)
    BY <2>1 DEF UInv, UncachedCalls
  <2>7. ASSUME NEW g \in DOMAIN v.given, NEW h \in DOMAIN Current.given,
               v.given[g][1] = Current.given[h][1]
        PROVE  FALSE
    <3>1. PICK x \in DOMAIN chi : chi[x] = v.given[g][1] /\ Len(x.stack) = Count(scopes, v.at)
      BY <2>6 DEF Stamped, Stamp
    <3>2. PICK y \in DOMAIN chi : /\ chi[y] = Current.given[h][1]
                                  /\ Len(y.stack) = Count(scopes, Current.at)
      BY <1>2 DEF Stamped, Stamp
    <3> QED
      BY <1>3, <2>5, <2>7, <3>1, <3>2
  <2> QED
    BY <2>7 DEF Apart
<1> QED
  BY <1>4, <1>5

LEMMA UncachedChanges ==
  ASSUME UInv, MakeChange
  PROVE  UInv'
<1> DEFINE c == Current
           w == [c EXCEPT !.change = Tail(@)]
           n == Len(scopes)
<1>1. /\ HInv /\ wheres # <<>> /\ c.phase = "body" /\ c.change # <<>> /\ Update(w)
      /\ UNCHANGED <<chi, rho>>
  BY DEF UInv, MakeChange, Here, In, Perturb
<1>2. /\ c \in CallType /\ CallOK(c) /\ c.before \in Nat /\ c.at \in Nat /\ c.before <= c.at
      /\ c.change \in Seq(Change) /\ n \in Nat
  BY <1>1, InnermostIs
<1>3. ~c.cached /\ Stamped(chi, scopes, c) /\ DOMAIN scopes = 1..n /\ c.at \in DOMAIN scopes
      /\ 0 \notin DOMAIN scopes
  BY <1>1, InnermostStamped
<1>4. Head(c.change)[2] \in Ordinate
  <2>1. Head(c.change) = c.change[1] /\ 1 \in DOMAIN c.change
    BY <1>1, <1>2, HeadAndTail
  <2> QED
    BY <1>2, <1>3, <2>1 DEF CallOK
<1>5. Distinct(c) /\ \A v \in Around(wheres) : Apart(v, c)
  BY <1>1, UncachedApart
<1>6. /\ HInv' /\ Len(scopes') = n /\ DOMAIN scopes' = DOMAIN scopes
      /\ \A j \in DOMAIN scopes : scopes'[j].kind = scopes[j].kind
  BY <1>1, <1>4, <1>5, MakeChangeKeeps
<1>7. /\ SameKinds(scopes, scopes', n) /\ SameKinds(scopes, scopes', c.before)
      /\ Extends(chi, chi')
  <2>1. c.before <= n
    BY <1>2, <1>3
  <2> QED
    BY <1>1, <1>2, <1>3, <1>6, <2>1 DEF SameKinds, Extends
<1>8. Counted(scopes', rho')
  BY <1>1, <1>2, <1>6, <1>7, CountedSame DEF UInv
<1>9. w.cached = c.cached /\ w.at = c.at /\ w.phase = "body" /\ w.given = c.given
  <2>1. Tail(c.change) \in Seq(Change)
    BY <1>1, <1>2, HeadAndTail
  <2> HIDE DEF c
  <2> QED
    BY <1>1, <1>2, <2>1 DEF CallType
<1>10. Stamped(chi', scopes', c)
  BY <1>2, <1>3, <1>7, StampedKept
<1> HIDE DEF w
<1>11. Stamped(chi', scopes', w)
  BY <1>9, <1>10 DEF Stamped
<1> QED
  BY <1>1, <1>3, <1>6, <1>7, <1>8, <1>9, <1>11, UncachedUpdates

LEMMA UncachedInit == InitWhere => UInv
<1> SUFFICES ASSUME InitWhere
             PROVE  UInv
  OBVIOUS
<1>1. scopes = <<>> /\ rho = <<>> /\ wheres = <<>>
  BY DEF InitWhere, InitContext
<1>2. Rhos(scopes, 0) = {}
  BY DEF Rhos
<1>3. Counted(scopes, rho)
  BY <1>1, <1>2, FS_EmptySet DEF Counted, Count
<1> QED
  BY <1>1, <1>3, HeldInit DEF UInv, UncachedCalls

LEMMA UncachedStep == UInv /\ [NextUncached \/ NextCommon]_whereVars => UInv'
<1> SUFFICES ASSUME UInv, [NextUncached \/ NextCommon]_whereVars
             PROVE  UInv'
  OBVIOUS
<1>1. ASSUME NEW e \in Clause, EnterWhere(e)
      PROVE  UInv'
  BY <1>1, UncachedEnters
<1>2. CASE Allocate
  BY <1>2, UncachedAllocates
<1>3. ASSUME NEW o \in Plain, Initialised(o)
      PROVE  UInv'
  BY <1>3, UncachedInitialised
<1>4. CASE BeginBody
  BY <1>4, UncachedBegins
<1>5. CASE LeaveWhere
  BY <1>5, UncachedLeaves
<1>6. CASE Workshop
  BY <1>6, UncachedWorks
<1>7. CASE MakeChange
  BY <1>7, UncachedChanges
<1>8. CASE LeaveBody
  BY <1>8, UncachedLeavesBody
<1>9. CASE Throw
  BY <1>9, UncachedThrows
<1>10. CASE UnwindScope
  BY <1>10, UncachedUnwindsScope
<1>11. CASE UnwindCall
  BY <1>11, UncachedUnwindsCall
<1>12. CASE UNCHANGED whereVars
  <2>1. HInv'
    BY <1>12, HeldStays DEF UInv
  <2> QED
    BY <1>12, <2>1 DEF UInv, whereVars, contextVars
<1> QED
  BY <1>1, <1>2, <1>3, <1>4, <1>5, <1>6, <1>7, <1>8, <1>9, <1>10, <1>11, <1>12
     DEF NextUncached, NextCommon

\* Without the cache: as long as the body of a clause is evaluated, each hidden
\* dimension it was given (WhereWS::operator(), ChiMap::lookup) has the value of
\* its initialiser, in any nesting of clauses and after any exception.
THEOREM HiddenKeptUncached == SpecUncached => []HiddenDimsKeep
<1>1. UInv => HiddenDimsKeep
  BY HeldShows DEF UInv
<1> QED
  BY <1>1, UncachedInit, UncachedStep, PTL DEF SpecUncached

(***************************************************************************)
(* With the cache                                                          *)
(***************************************************************************)
\* The hidden dimension of a clause counts the bodies of the clause around
Counts(stack) == stack # <<>> => stack[Len(stack)] = Len(stack)
Counting(sc, stacks) ==
  \A e \in Clause : /\ Counts(stacks[PsiQ[e]])
                    /\ \A j \in DOMAIN sc : Counts(sc[j].had[PsiQ[e]])

\* Each stack of m_chivalue starts with the tag of its clause
Values == [Clause -> Seq(Int)]
Tagged(v) == v \in Values /\ \A e \in Clause : v[e] # <<>> /\ v[e][1] = TagQ[e]

\* The stacks inside a call that began with v and the depth d
Within(w, v, d) == IF w.phase = "body" THEN v ELSE [v EXCEPT ![w.clause] = Append(@, d)]

Key(c, which, stack, d) ==
  LET key == [which |-> which - 1, stack |-> stack] IN key \in DOMAIN c /\ c[key] = d

\* Such a call, inside which the stacks are "next": its dimensions
Link(v, next, d, c, w) ==
  /\ Tagged(v) /\ next = Within(w, v, d)
  /\ \A g \in DOMAIN w.given : Key(c, g, Append(v[w.clause], d), w.given[g][1])

\* The stacks and depths the calls in progress began with
Chain(V, D, c, cv, ws) ==
  /\ V \in [Nat -> Values] /\ D \in [Nat -> Nat]
  /\ \A i \in DOMAIN ws : Link(V[i], V[i + 1], D[i], c, ws[i])
  /\ V[Len(ws) + 1] = cv

\* No evaluation inside a body gets below the depth of the body
DeepIn(stacks, w, d) ==
  Len(stacks[PsiQ[w.clause]]) >= IF Complete(w) THEN d + 1 ELSE d
Deep(w, d, sc, stacks) ==
  DeepIn(stacks, w, d) /\ \A j \in DOMAIN sc : j > Own(w) => DeepIn(sc[j].had, w, d)

Rising(D, ws) ==
  \A i, j \in DOMAIN ws :
    i < j /\ Complete(ws[i]) /\ ws[i].clause = ws[j].clause => D[i] < D[j]

Trace(V, D, c, cv, ws, sc, stacks) ==
  /\ Chain(V, D, c, cv, ws)
  /\ \A i \in DOMAIN ws : Deep(ws[i], D[i], sc, stacks)
  /\ Rising(D, ws)

Thrown(ws) == ws # <<>> /\ ws[Len(ws)].phase = "thrown"

\* The depth a body will set last
Pending(ws, stacks) ==
  ws # <<>> => LET w == ws[Len(ws)]
               IN  w.phase = "body" /\ w.change # <<>> =>
                     w.change[Len(w.change)][2] = Len(stacks[PsiQ[w.clause]]) + 1

KInv ==
  /\ HInv
  /\ \A i \in DOMAIN wheres : wheres[i].cached
  /\ Counting(scopes, StacksNow)
  /\ Tagged(chivalue)
  /\ Pending(wheres, StacksNow)
  /\ ~Thrown(wheres) =>
       \E V, D : Trace(V, D, chi, chivalue, wheres, scopes, StacksNow)

LEMMA Replaced ==
  ASSUME NEW S, NEW f \in [Nat -> S], NEW i \in Nat, NEW x \in S
  PROVE  LET g == [f EXCEPT ![i] = x]
         IN  g \in [Nat -> S] /\ g[i] = x /\ \A j \in Nat : j # i => g[j] = f[j]
OBVIOUS

LEMMA ChainIs ==
  ASSUME NEW V, NEW D, NEW c, NEW cv, NEW ws \in Seq(CallType), NEW sc, NEW stacks,
         Trace(V, D, c, cv, ws, sc, stacks)
  PROVE  /\ V \in [Nat -> Values] /\ D \in [Nat -> Nat] /\ V[Len(ws) + 1] = cv
         /\ \A i \in DOMAIN ws : Link(V[i], V[i + 1], D[i], c, ws[i])
         /\ \A i \in DOMAIN ws : Deep(ws[i], D[i], sc, stacks)
         /\ Rising(D, ws) /\ DOMAIN ws = 1..Len(ws)
<1>1. DOMAIN ws = 1..Len(ws)
  OBVIOUS
<1> QED
  BY <1>1 DEF Trace, Chain

LEMMA LinkKept ==
  ASSUME NEW v, NEW next, NEW d, NEW c, NEW w, Link(v, next, d, c, w), NEW c2, Extends(c, c2)
  PROVE  Link(v, next, d, c2, w)
<1>1. ASSUME NEW which, NEW stack, NEW x, Key(c, which, stack, x)
      PROVE  Key(c2, which, stack, x)
  BY <1>1 DEF Key, Extends
<1> QED
  BY <1>1 DEF Link

LEMMA TraceEntered ==
  ASSUME NEW ws \in Seq(CallType), NEW n \in Nat, n = Len(ws), NEW w \in CallType,
         NEW V, NEW D, NEW c, NEW cv, NEW sc, NEW stacks, Trace(V, D, c, cv, ws, sc, stacks),
         NEW cv2 \in Values, NEW d \in Nat, Link(cv, cv2, d, c, w), Deep(w, d, sc, stacks),
         \A i \in DOMAIN ws : Complete(ws[i]) /\ ws[i].clause = w.clause => D[i] < d
  PROVE  Trace([V EXCEPT ![n + 2] = cv2], [D EXCEPT ![n + 1] = d], c, cv2,
               Append(ws, w), sc, stacks)
<1> DEFINE V2 == [V EXCEPT ![n + 2] = cv2]
           D2 == [D EXCEPT ![n + 1] = d]
           ws2 == Append(ws, w)
<1>1. /\ V \in [Nat -> Values] /\ D \in [Nat -> Nat] /\ V[n + 1] = cv
      /\ \A i \in DOMAIN ws : Link(V[i], V[i + 1], D[i], c, ws[i])
      /\ \A i \in DOMAIN ws : Deep(ws[i], D[i], sc, stacks)
      /\ Rising(D, ws) /\ DOMAIN ws = 1..n
  <2>1. V[Len(ws) + 1] = cv /\ DOMAIN ws = 1..Len(ws)
    BY ChainIs
  <2> QED
    BY <2>1, ChainIs
<1>2. /\ V2 \in [Nat -> Values] /\ D2 \in [Nat -> Nat]
      /\ \A i \in Nat : i # n + 2 => V2[i] = V[i]
      /\ \A i \in Nat : i # n + 1 => D2[i] = D[i]
      /\ V2[n + 2] = cv2 /\ D2[n + 1] = d
  <2>1. n + 1 \in Nat /\ n + 2 \in Nat
    OBVIOUS
  <2>2. V2 \in [Nat -> Values] /\ V2[n + 2] = cv2 /\ \A i \in Nat : i # n + 2 => V2[i] = V[i]
    BY <1>1, <2>1, Replaced
  <2>3. D2 \in [Nat -> Nat] /\ D2[n + 1] = d /\ \A i \in Nat : i # n + 1 => D2[i] = D[i]
    BY <1>1, <2>1, Replaced
  <2> QED
    BY <2>2, <2>3
<1>3. /\ DOMAIN ws2 = 1..(n + 1) /\ Len(ws2) = n + 1 /\ ws2[n + 1] = w
      /\ \A i \in 1..n : ws2[i] = ws[i]
  OBVIOUS
<1> HIDE DEF V2, D2, ws2
<1>4. ASSUME NEW i \in 1..n
      PROVE  /\ V2[i] = V[i] /\ V2[i + 1] = V[i + 1] /\ D2[i] = D[i] /\ ws2[i] = ws[i]
             /\ i \in Nat
  <2>1. i \in Nat /\ i + 1 \in Nat /\ i # n + 2 /\ i + 1 # n + 2 /\ i # n + 1
    OBVIOUS
  <2> QED
    BY <1>2, <1>3, <2>1
<1>5. V2[n + 1] = cv /\ V2[n + 1 + 1] = cv2
  BY <1>1, <1>2
<1>6. \A i \in DOMAIN ws2 : i \in 1..n \/ i = n + 1
  BY <1>3
<1>7. ASSUME NEW i \in DOMAIN ws2
      PROVE  Link(V2[i], V2[i + 1], D2[i], c, ws2[i]) /\ Deep(ws2[i], D2[i], sc, stacks)
  <2>1. CASE i \in 1..n
    BY <1>1, <1>4, <2>1
  <2>2. CASE i = n + 1
    BY <1>2, <1>3, <1>5, <2>2
  <2> QED
    BY <1>6, <2>1, <2>2
<1>8. Rising(D2, ws2)
  <2>1. ASSUME NEW i \in DOMAIN ws2, NEW j \in DOMAIN ws2, i < j,
               Complete(ws2[i]), ws2[i].clause = ws2[j].clause
        PROVE  D2[i] < D2[j]
    <3>1. i \in 1..n
      BY <1>3, <2>1
    <3>2. CASE j \in 1..n
      BY <1>1, <1>4, <2>1, <3>1, <3>2 DEF Rising
    <3>3. CASE j = n + 1
      BY <1>1, <1>2, <1>3, <1>4, <2>1, <3>1, <3>3
    <3> QED
      BY <1>6, <3>2, <3>3
  <2> QED
    BY <2>1 DEF Rising
<1>9. V2[Len(ws2) + 1] = cv2
  BY <1>3, <1>5
<1> QED
  BY <1>2, <1>7, <1>8, <1>9 DEF Trace, Chain, V2, D2, ws2

LEMMA TraceUpdated ==
  ASSUME NEW ws \in Seq(CallType), NEW n \in Nat, n = Len(ws), n # 0, NEW w \in CallType,
         NEW V, NEW D, NEW c, NEW cv, NEW sc, NEW stacks, Trace(V, D, c, cv, ws, sc, stacks),
         NEW c2, Extends(c, c2), NEW cv2 \in Values, Link(V[n], cv2, D[n], c2, w),
         w.clause = ws[n].clause, NEW sc2, NEW stacks2, Deep(w, D[n], sc2, stacks2),
         \A i \in DOMAIN ws : i # n => Deep(ws[i], D[i], sc2, stacks2)
  PROVE  Trace([V EXCEPT ![n + 1] = cv2], D, c2, cv2, [ws EXCEPT ![n] = w], sc2, stacks2)
<1> DEFINE V2 == [V EXCEPT ![n + 1] = cv2]
           ws2 == [ws EXCEPT ![n] = w]
<1>1. /\ V \in [Nat -> Values] /\ D \in [Nat -> Nat]
      /\ \A i \in DOMAIN ws : Link(V[i], V[i + 1], D[i], c, ws[i])
      /\ Rising(D, ws) /\ DOMAIN ws = 1..n
  BY ChainIs
<1>2. /\ V2 \in [Nat -> Values] /\ V2[n + 1] = cv2
      /\ \A i \in Nat : i # n + 1 => V2[i] = V[i]
  <2>1. n + 1 \in Nat
    OBVIOUS
  <2> QED
    BY <1>1, <2>1, Replaced
<1>3. /\ DOMAIN ws2 = 1..n /\ Len(ws2) = n /\ ws2[n] = w
      /\ \A i \in 1..n : i # n => ws2[i] = ws[i]
  <2>1. ws2 \in Seq(CallType) /\ n \in DOMAIN ws
    BY <1>1
  <2> QED
    BY <1>1, <2>1
<1> HIDE DEF V2, ws2
<1>4. ASSUME NEW i \in DOMAIN ws2
      PROVE  Link(V2[i], V2[i + 1], D[i], c2, ws2[i]) /\ Deep(ws2[i], D[i], sc2, stacks2)
  <2>1. CASE i = n
    BY <1>2, <1>3, <2>1
  <2>2. CASE i # n
    <3>1. i \in Nat /\ i + 1 \in Nat /\ i # n + 1 /\ i + 1 # n + 1 /\ i \in DOMAIN ws
      <4>1. i \in 1..n /\ i # n /\ DOMAIN ws = 1..n
        BY <1>1, <1>3, <2>2
      <4> QED
        BY <4>1
    <3>2. V2[i] = V[i] /\ V2[i + 1] = V[i + 1] /\ ws2[i] = ws[i]
      BY <1>1, <1>2, <1>3, <2>2, <3>1
    <3>3. Link(V[i], V[i + 1], D[i], c2, ws[i])
      BY <1>1, <3>1, LinkKept
    <3> QED
      BY <2>2, <3>1, <3>2, <3>3
  <2> QED
    BY <2>1, <2>2
<1>5. Rising(D, ws2)
  <2>1. ASSUME NEW i \in DOMAIN ws2, NEW j \in DOMAIN ws2, i < j,
               Complete(ws2[i]), ws2[i].clause = ws2[j].clause
        PROVE  D[i] < D[j]
    <3>1. i # n /\ ws2[i] = ws[i] /\ ws2[j].clause = ws[j].clause
          /\ i \in DOMAIN ws /\ j \in DOMAIN ws
      <4>1. i \in 1..n /\ j \in 1..n /\ i # n
        BY <1>3, <2>1
      <4>2. ws2[i] = ws[i] /\ ws2[j].clause = ws[j].clause
        BY <1>3, <4>1
      <4> QED
        BY <1>1, <4>1, <4>2
    <3> QED
      BY <1>1, <2>1, <3>1 DEF Rising
  <2> QED
    BY <2>1 DEF Rising
<1>6. V2[Len(ws2) + 1] = cv2
  BY <1>2, <1>3
<1> QED
  BY <1>1, <1>2, <1>4, <1>5, <1>6 DEF Trace, Chain, V2, ws2

LEMMA TraceReturned ==
  ASSUME NEW ws \in Seq(CallType), NEW n \in Nat, n = Len(ws), n # 0,
         NEW V, NEW D, NEW c, NEW cv, NEW sc, NEW stacks, Trace(V, D, c, cv, ws, sc, stacks),
         NEW sc2, NEW stacks2,
         \A i \in DOMAIN ws : i # n => Deep(ws[i], D[i], sc2, stacks2)
  PROVE  Trace(V, D, c, V[n], SubSeq(ws, 1, n - 1), sc2, stacks2)
<1> DEFINE ws2 == SubSeq(ws, 1, n - 1)
<1>1. /\ V \in [Nat -> Values] /\ D \in [Nat -> Nat]
      /\ \A i \in DOMAIN ws : Link(V[i], V[i + 1], D[i], c, ws[i])
      /\ Rising(D, ws) /\ DOMAIN ws = 1..n
  BY ChainIs
<1>2. /\ Len(ws2) + 1 = n
      /\ \A i \in DOMAIN ws2 : i \in DOMAIN ws /\ i # n /\ ws2[i] = ws[i]
  OBVIOUS
<1> HIDE DEF ws2
<1>3. Rising(D, ws2)
  BY <1>1, <1>2 DEF Rising
<1> QED
  BY <1>1, <1>2, <1>3 DEF Trace, Chain, ws2

LEMMA LinkSame ==
  ASSUME NEW v, NEW next, NEW d, NEW c, NEW w, Link(v, next, d, c, w), NEW w2,
         w2.given = w.given, w2.clause = w.clause, w2.phase = "body" <=> w.phase = "body"
  PROVE  Link(v, next, d, c, w2)
BY DEF Link, Within

LEMMA DeepOpened ==
  ASSUME NEW w, NEW d, NEW sc, NEW stacks, Deep(w, d, sc, stacks), NEW sc2, NEW new,
         DOMAIN sc2 = DOMAIN sc \cup {new},
         \A j \in DOMAIN sc : sc2[j].had = sc[j].had, sc2[new].had = stacks
  PROVE  Deep(w, d, sc2, stacks)
BY DEF Deep

LEMMA DeepClosed ==
  ASSUME NEW w, NEW d, NEW sc, NEW stacks, Deep(w, d, sc, stacks),
         NEW n \in Nat, DOMAIN sc = 1..n, n > 0, n > Own(w), NEW sc2,
         DOMAIN sc2 \subseteq DOMAIN sc, \A j \in DOMAIN sc2 : sc2[j] = sc[j]
  PROVE  Deep(w, d, sc2, sc[n].had)
BY DEF Deep

LEMMA DeepGrown ==
  ASSUME NEW w, NEW d \in Nat, NEW sc, NEW stacks, Deep(w, d, sc, stacks), NEW sc2, NEW stacks2,
         DOMAIN sc2 = DOMAIN sc, \A j \in DOMAIN sc : sc2[j].had = sc[j].had,
         Len(stacks[PsiQ[w.clause]]) \in Nat, Len(stacks2[PsiQ[w.clause]]) \in Nat,
         Len(stacks2[PsiQ[w.clause]]) >= Len(stacks[PsiQ[w.clause]])
  PROVE  Deep(w, d, sc2, stacks2)
BY DEF Deep, DeepIn

LEMMA CountingOpened ==
  ASSUME NEW sc, NEW stacks, Counting(sc, stacks), NEW sc2, NEW new,
         DOMAIN sc2 = DOMAIN sc \cup {new},
         \A j \in DOMAIN sc : sc2[j].had = sc[j].had, sc2[new].had = stacks
  PROVE  Counting(sc2, stacks)
BY DEF Counting

LEMMA CountingClosed ==
  ASSUME NEW sc, NEW stacks, Counting(sc, stacks), NEW n \in DOMAIN sc, NEW sc2,
         DOMAIN sc2 \subseteq DOMAIN sc, \A j \in DOMAIN sc2 : sc2[j] = sc[j]
  PROVE  Counting(sc2, sc[n].had)
BY DEF Counting

\* The depth of a clause is the length of the stack of its hidden dimension
LEMMA DepthIs ==
  ASSUME HInv, Counting(scopes, StacksNow), NEW e \in Clause
  PROVE  /\ StacksNow[PsiQ[e]] \in Seq(Ordinate) /\ Len(StacksNow[PsiQ[e]]) \in Nat
         /\ Depth(e) = Len(StacksNow[PsiQ[e]]) /\ Depth(e) \in Nat /\ Depth(e) \in Int
<1>1. PsiQ[e] \in Dim
  BY HiddenAre
<1>2. /\ StacksNow[PsiQ[e]] \in Seq(Ordinate) /\ StacksNow[PsiQ[e]] = StackOf(k, PsiQ[e])
      /\ Lookup(k, PsiQ[e]) = TopOf(StacksNow[PsiQ[e]])
  <2>1. StacksNow[PsiQ[e]] = StackOf(k, PsiQ[e])
    BY <1>1 DEF StacksNow
  <2> QED
    BY <1>1, <2>1, ScopesAre DEF HInv
<1>3. Len(StacksNow[PsiQ[e]]) \in Nat
  BY <1>2
<1>4. Depth(e) = Len(StacksNow[PsiQ[e]])
  <2>1. CASE StacksNow[PsiQ[e]] = <<>>
    BY <1>2, <2>1 DEF Depth, HasEntry
  <2>2. CASE StacksNow[PsiQ[e]] # <<>>
    BY <1>2, <2>2 DEF Depth, HasEntry, Counting, Counts, TopOf
  <2> QED
    BY <2>1, <2>2
<1> QED
  BY <1>2, <1>3, <1>4

\* The innermost call, with the cache
LEMMA InnermostCached ==
  ASSUME KInv, wheres # <<>>
  PROVE  /\ Current.cached /\ Current = wheres[Len(wheres)] /\ Current \in CallType
         /\ CallOK(Current) /\ Current.clause \in Clause /\ OwnScopes = Own(Current)
         /\ Current.before \in Nat /\ Current.at = Current.before
         /\ wheres \in Seq(CallType) /\ Len(wheres) \in Nat /\ Len(wheres) # 0
         /\ Len(wheres) \in DOMAIN wheres /\ DOMAIN wheres = 1..Len(wheres)
         /\ Calls(wheres, Len(scopes)) /\ Len(scopes) \in Nat
<1>1. /\ Current = wheres[Len(wheres)] /\ Current \in CallType /\ CallOK(Current)
      /\ Current.clause \in Clause /\ Current.before \in Nat /\ OwnScopes = Own(Current)
      /\ Len(wheres) \in DOMAIN wheres /\ Calls(wheres, Len(scopes)) /\ Len(scopes) \in Nat
  BY InnermostIs DEF KInv
<1>2. wheres \in Seq(CallType) /\ Len(wheres) \in Nat /\ DOMAIN wheres = 1..Len(wheres)
  BY <1>1, CallsAre
<1>3. Current.cached
  BY <1>1 DEF KInv
<1>4. Current.at = Current.before
  BY <1>1, <1>3 DEF CallOK
<1> QED
  BY <1>1, <1>2, <1>3, <1>4

LEMMA CachedUpdates ==
  ASSUME KInv, HInv', wheres # <<>>, NEW w \in CallType, Update(w), w.cached,
         w.clause = Current.clause, w.phase # "thrown",
         Counting(scopes', StacksNow'), Tagged(chivalue'), Extends(chi, chi'),
         w.phase = "body" /\ w.change # <<>> =>
           w.change[Len(w.change)][2] = Len(StacksNow'[PsiQ[w.clause]]) + 1,
         NEW V, NEW D, Trace(V, D, chi, chivalue, wheres, scopes, StacksNow),
         Link(V[Len(wheres)], chivalue', D[Len(wheres)], chi', w),
         Deep(w, D[Len(wheres)], scopes', StacksNow'),
         \A i \in DOMAIN wheres : i # Len(wheres) => Deep(wheres[i], D[i], scopes', StacksNow')
  PROVE  KInv'
<1> DEFINE n == Len(wheres)
<1>1. /\ wheres \in Seq(CallType) /\ n \in Nat /\ n # 0 /\ n \in DOMAIN wheres
      /\ w.clause = wheres[n].clause /\ wheres' = [wheres EXCEPT ![n] = w]
  BY InnermostCached DEF Update
<1>2. /\ Len(wheres') = n /\ DOMAIN wheres' = DOMAIN wheres /\ wheres'[n] = w
      /\ \A i \in DOMAIN wheres : i # n => wheres'[i] = wheres[i]
      /\ wheres' # <<>>
  <2>1. wheres' \in Seq(CallType)
    BY CallsAre DEF HInv
  <2>2. Len(wheres') = n
    BY <1>1, <2>1
  <2> QED
    BY <1>1, <2>1, <2>2
<1>3. \A i \in DOMAIN wheres' : wheres'[i].cached
  BY <1>2 DEF KInv
<1>4. Pending(wheres', StacksNow')
  BY <1>2 DEF Pending
<1>5. chivalue' \in Values
  BY DEF Tagged
<1>6. \E V2, D2 : Trace(V2, D2, chi', chivalue', wheres', scopes', StacksNow')
  <2> HIDE DEF n
  <2>1. Trace([V EXCEPT ![n + 1] = chivalue'], D, chi', chivalue', wheres', scopes', StacksNow')
    <3>1. /\ Link(V[n], chivalue', D[n], chi', w) /\ Deep(w, D[n], scopes', StacksNow')
          /\ \A i \in DOMAIN wheres : i # n => Deep(wheres[i], D[i], scopes', StacksNow')
          /\ n = Len(wheres)
      BY DEF n
    <3>2. Trace([V EXCEPT ![n + 1] = chivalue'], D, chi', chivalue', [wheres EXCEPT ![n] = w],
                scopes', StacksNow')
      BY <1>1, <1>5, <3>1, TraceUpdated
    <3> QED
      BY <1>1, <3>2
  <2> QED
    BY <2>1
<1> QED
  BY <1>3, <1>4, <1>6 DEF KInv

LEMMA CachedReturns ==
  ASSUME KInv, HInv', wheres # <<>>, Return, Counting(scopes', StacksNow'), UNCHANGED chi,
         NEW V, NEW D, Trace(V, D, chi, chivalue, wheres, scopes, StacksNow),
         chivalue' = V[Len(wheres)],
         \A i \in DOMAIN wheres : i # Len(wheres) => Deep(wheres[i], D[i], scopes', StacksNow')
  PROVE  KInv'
<1> DEFINE n == Len(wheres)
<1>1. /\ wheres \in Seq(CallType) /\ n \in Nat /\ n # 0 /\ n \in DOMAIN wheres
      /\ wheres' = SubSeq(wheres, 1, n - 1) /\ Calls(wheres, Len(scopes))
  BY InnermostCached DEF Return
<1>2. \A i \in DOMAIN wheres' : i \in DOMAIN wheres /\ i # n /\ i < n /\ wheres'[i] = wheres[i]
  <2> HIDE DEF n
  <2> QED
    BY <1>1 DEF n
<1>3. \A i \in DOMAIN wheres' : wheres'[i].cached
  BY <1>2 DEF KInv
<1>4. Pending(wheres', StacksNow')
  <2>1. ASSUME wheres' # <<>>
        PROVE  wheres'[Len(wheres')].phase # "body" \/ wheres'[Len(wheres')].change = <<>>
    <3>1. Len(wheres') \in DOMAIN wheres'
      BY <2>1, CallsAre DEF HInv
    <3>2. LET w == wheres'[Len(wheres')] IN w.phase = "initialiser" \/ Complete(w)
      BY <1>1, <1>2, <3>1 DEF Calls
    <3> QED
      BY <3>2 DEF Complete
  <2> QED
    BY <2>1 DEF Pending
<1>5. Tagged(chivalue')
  <2>1. Link(V[n], V[n + 1], D[n], chi, wheres[n])
    BY <1>1, ChainIs
  <2> QED
    BY <2>1 DEF Link
<1>6. Trace(V, D, chi', chivalue', wheres', scopes', StacksNow')
  <2>1. Trace(V, D, chi, V[n], SubSeq(wheres, 1, n - 1), scopes', StacksNow')
    BY <1>1, TraceReturned
  <2> QED
    BY <1>1, <2>1
<1>7. \E V2, D2 : Trace(V2, D2, chi', chivalue', wheres', scopes', StacksNow')
  BY <1>6
<1> QED
  BY <1>3, <1>4, <1>5, <1>7 DEF KInv

LEMMA CachedThrown ==
  ASSUME KInv, HInv', Counting(scopes', StacksNow'), UNCHANGED chivalue, Thrown(wheres'),
         \A i \in DOMAIN wheres' : wheres'[i].cached
  PROVE  KInv'
BY DEF KInv, Pending, Thrown

LEMMA TagStays ==
  ASSUME NEW s \in Seq(Int), s # <<>>, NEW d \in Int
  PROVE  /\ Append(s, d) \in Seq(Int) /\ Append(s, d) # <<>> /\ Append(s, d)[1] = s[1]
         /\ Front(Append(s, d)) = s
<1>1. Append(s, d) \in Seq(Int) /\ Append(s, d) # <<>> /\ Append(s, d)[1] = s[1]
  OBVIOUS
<1>2. SubSeq(Append(s, d), 1, Len(Append(s, d)) - 1) = s
  <2> DEFINE t == SubSeq(Append(s, d), 1, Len(Append(s, d)) - 1)
  <2>1. Len(Append(s, d)) - 1 = Len(s) /\ Len(s) \in Nat
    OBVIOUS
  <2>2. t = SubSeq(Append(s, d), 1, Len(s))
    BY <2>1
  <2>3. t \in Seq(Int) /\ Len(t) = Len(s) /\ \A i \in 1..Len(s) : t[i] = s[i]
    BY <2>1, <2>2
  <2> HIDE DEF t
  <2>4. t = s
    BY <2>3, SameSequence
  <2> QED
    BY <2>4 DEF t
<1> QED
  BY <1>1, <1>2 DEF Front

LEMMA TaggedMore ==
  ASSUME NEW v, Tagged(v), NEW e \in Clause, NEW d \in Int
  PROVE  /\ Tagged([v EXCEPT ![e] = Append(@, d)])
         /\ [[v EXCEPT ![e] = Append(@, d)] EXCEPT ![e] = Front(@)] = v
<1>1. v \in [Clause -> Seq(Int)] /\ v[e] \in Seq(Int) /\ v[e] # <<>> /\ v[e][1] = TagQ[e]
  BY DEF Tagged, Values
<1> DEFINE s == Append(v[e], d)
<1>2. s \in Seq(Int) /\ s # <<>> /\ s[1] = TagQ[e] /\ Front(s) = v[e]
  BY <1>1, TagStays
<1> HIDE DEF s
<1>3. Tagged([v EXCEPT ![e] = s])
  BY <1>1, <1>2 DEF Tagged, Values
<1>4. [[v EXCEPT ![e] = s] EXCEPT ![e] = Front(@)] = v
  BY <1>1, <1>2
<1> QED
  BY <1>3, <1>4 DEF s

LEMMA CachedEnters ==
  ASSUME KInv, NEW e \in Clause, CachedWhere(e)
  PROVE  KInv'
<1> DEFINE n == Len(wheres)
           c == Call(e, TRUE, Len(scopes))
           w == [c EXCEPT !.phase = "initialiser"]
           d == Depth(e)
<1>1. /\ HInv /\ HInv' /\ Free /\ wheres' = Append(wheres, w)
      /\ chivalue' = [chivalue EXCEPT ![e] = Append(@, d)]
      /\ UNCHANGED <<contextVars, chi, nextIndex>>
  BY CachedWhereKeeps DEF KInv, CachedWhere
<1>2. /\ Len(scopes) \in Nat /\ DOMAIN scopes = 1..Len(scopes)
      /\ Calls(wheres, Len(scopes)) /\ wheres \in Seq(CallType) /\ n \in Nat
      /\ DOMAIN wheres = 1..n
  BY <1>1, ScopesAre, CallsAre DEF HInv
<1>3. NewCall(c, e, TRUE, Len(scopes))
  <2>1. TRUE \in BOOLEAN
    OBVIOUS
  <2> QED
    BY <1>2, <2>1, CallIsNew
<1>4. /\ w \in CallType /\ w.phase = "initialiser" /\ w.at = Len(scopes) /\ w.clause = e
      /\ w.cached = TRUE /\ w.given = <<>>
  BY <1>3, PhaseChanged DEF NewCall, Phases
<1> HIDE DEF w, c
<1>5. scopes' = scopes /\ StacksNow' = StacksNow /\ chi' = chi
  BY <1>1, ContextStays DEF HInv, contextVars
<1>6. d \in Nat /\ d \in Int /\ d = Len(StacksNow[PsiQ[e]])
  BY DepthIs DEF KInv
<1> HIDE DEF d
<1>7. ~Thrown(wheres)
  BY <1>1 DEF Free, Inside, In, Thrown, Current
<1>8. PICK V, D : Trace(V, D, chi, chivalue, wheres, scopes, StacksNow)
  BY <1>7 DEF KInv
<1>9. Tagged(chivalue) /\ Tagged(chivalue')
  BY <1>1, <1>6, TaggedMore DEF KInv
<1>10. Link(chivalue, chivalue', d, chi, w)
  <2>1. DOMAIN w.given = {}
    BY <1>4
  <2>2. chivalue' = Within(w, chivalue, d)
    BY <1>1, <1>4 DEF Within
  <2> QED
    BY <1>9, <2>1, <2>2 DEF Link
<1>11. Deep(w, d, scopes, StacksNow)
  <2>1. Own(w) = Len(scopes) /\ ~Complete(w)
    BY <1>2, <1>4 DEF Own, Complete
  <2>2. DeepIn(StacksNow, w, d)
    BY <1>4, <1>6, <2>1 DEF DeepIn
  <2> QED
    BY <1>2, <2>1, <2>2 DEF Deep
<1>12. ASSUME NEW i \in DOMAIN wheres, Complete(wheres[i]), wheres[i].clause = w.clause
       PROVE  D[i] < d
  <2>1. Deep(wheres[i], D[i], scopes, StacksNow) /\ D \in [Nat -> Nat] /\ i \in Nat
    <3>1. D \in [Nat -> Nat] /\ \A l \in DOMAIN wheres : Deep(wheres[l], D[l], scopes, StacksNow)
      BY <1>2, <1>8, ChainIs
    <3>2. i \in Nat
      BY <1>2, <1>12
    <3> QED
      BY <1>12, <3>1, <3>2
  <2>2. d >= D[i] + 1 /\ D[i] \in Nat
    BY <1>4, <1>6, <1>12, <2>1 DEF Deep, DeepIn
  <2> QED
    BY <1>6, <2>2
<1>13. \E V2, D2 : Trace(V2, D2, chi', chivalue', wheres', scopes', StacksNow')
  <2> HIDE DEF n
  <2>1. n = Len(wheres) /\ chivalue' \in Values
    BY <1>9 DEF n, Tagged
  <2>2. Trace([V EXCEPT ![n + 2] = chivalue'], [D EXCEPT ![n + 1] = d], chi, chivalue',
              Append(wheres, w), scopes, StacksNow)
    BY <1>2, <1>4, <1>6, <1>8, <1>10, <1>11, <1>12, <2>1, TraceEntered
  <2> QED
    BY <1>1, <1>5, <2>2
<1>14. /\ wheres' # <<>> /\ wheres'[Len(wheres')] = w
       /\ \A i \in DOMAIN wheres' : (i \in DOMAIN wheres /\ wheres'[i] = wheres[i]) \/ wheres'[i] = w
  BY <1>1, <1>2
<1>15. \A i \in DOMAIN wheres' : wheres'[i].cached
  BY <1>4, <1>14 DEF KInv
<1>16. Pending(wheres', StacksNow')
  BY <1>4, <1>14 DEF Pending
<1>17. Counting(scopes', StacksNow')
  BY <1>5 DEF KInv
<1> QED
  BY <1>1, <1>9, <1>13, <1>15, <1>16, <1>17 DEF KInv

\* The trace of a state in which the innermost call goes on
LEMMA TracedNow ==
  ASSUME KInv, wheres # <<>>, Current.phase # "thrown"
  PROVE  \E V, D : /\ Trace(V, D, chi, chivalue, wheres, scopes, StacksNow)
                   /\ V \in [Nat -> Values] /\ D \in [Nat -> Nat]
                   /\ D[Len(wheres)] \in Nat /\ Tagged(V[Len(wheres)])
                   /\ Link(V[Len(wheres)], chivalue, D[Len(wheres)], chi, Current)
                   /\ chivalue = Within(Current, V[Len(wheres)], D[Len(wheres)])
                   /\ \A i \in DOMAIN wheres : D[i] \in Nat /\ Deep(wheres[i], D[i], scopes, StacksNow)
                   /\ Deep(Current, D[Len(wheres)], scopes, StacksNow)
<1>1. /\ Current = wheres[Len(wheres)] /\ wheres \in Seq(CallType) /\ Len(wheres) \in Nat
      /\ Len(wheres) \in DOMAIN wheres /\ DOMAIN wheres = 1..Len(wheres)
  BY InnermostCached
<1>2. ~Thrown(wheres)
  BY <1>1 DEF Thrown
<1>3. PICK V, D : Trace(V, D, chi, chivalue, wheres, scopes, StacksNow)
  BY <1>2 DEF KInv
<1>4. /\ V \in [Nat -> Values] /\ D \in [Nat -> Nat] /\ V[Len(wheres) + 1] = chivalue
      /\ \A i \in DOMAIN wheres : Link(V[i], V[i + 1], D[i], chi, wheres[i])
      /\ \A i \in DOMAIN wheres : Deep(wheres[i], D[i], scopes, StacksNow)
  <2> DEFINE m == Len(wheres)
  <2>1. m \in Nat /\ wheres \in Seq(CallType)
    BY <1>1
  <2>2. V[m + 1] = chivalue
    BY <1>3 DEF Trace, Chain
  <2>3. /\ V \in [Nat -> Values] /\ D \in [Nat -> Nat]
        /\ \A i \in DOMAIN wheres : Link(V[i], V[i + 1], D[i], chi, wheres[i])
        /\ \A i \in DOMAIN wheres : Deep(wheres[i], D[i], scopes, StacksNow)
    BY <1>3, <2>1, ChainIs
  <2> QED
    BY <2>2, <2>3
<1>5. Link(V[Len(wheres)], chivalue, D[Len(wheres)], chi, Current)
  BY <1>1, <1>4
<1>6. Tagged(V[Len(wheres)]) /\ chivalue = Within(Current, V[Len(wheres)], D[Len(wheres)])
  BY <1>5 DEF Link
<1>7. \A i \in DOMAIN wheres : D[i] \in Nat
  BY <1>1, <1>4
<1> QED
  BY <1>1, <1>3, <1>4, <1>5, <1>6, <1>7

LEMMA CachedGives ==
  ASSUME KInv, NEW o \in Plain, CachedInitialised(o)
  PROVE  KInv'
<1> DEFINE n == Len(wheres)
           c == Current
           key == [which |-> c.which - 1, stack |-> chivalue[c.clause]]
<1>1. /\ HInv /\ wheres # <<>> /\ c.phase = "initialiser" /\ Len(scopes) = OwnScopes
      /\ UNCHANGED <<contextVars, chivalue>>
  BY DEF KInv, CachedInitialised, Here, In
<1>2. /\ c.cached /\ c.clause \in Clause /\ c = wheres[n] /\ c \in CallType
      /\ n \in DOMAIN wheres /\ OwnScopes = Own(c) /\ CallOK(c)
  BY <1>1, InnermostCached
<1>3. PICK d \in Hidden, w \in CallType :
         /\ key \in DOMAIN chi' /\ chi'[key] = d
         /\ Update(w) /\ w.given = Append(c.given, <<d, o>>)
         /\ w.clause = c.clause /\ w.cached = c.cached
         /\ w.at = c.at /\ w.phase \in {"dims", "initialiser"}
  BY <1>1, CachedInitialisedKeeps
<1>4. HInv' /\ Extends(chi, chi')
  BY <1>1, CachedInitialisedKeeps DEF Extends
<1>5. PICK V, D :
         /\ Trace(V, D, chi, chivalue, wheres, scopes, StacksNow)
         /\ D[n] \in Nat /\ Tagged(V[n]) /\ Link(V[n], chivalue, D[n], chi, c)
         /\ chivalue = Within(c, V[n], D[n])
         /\ \A i \in DOMAIN wheres : Deep(wheres[i], D[i], scopes, StacksNow)
         /\ Deep(c, D[n], scopes, StacksNow)
  BY <1>1, TracedNow
<1>6. scopes' = scopes /\ StacksNow' = StacksNow
  BY <1>1, ContextStays DEF HInv, contextVars
<1>7. Link(V[n], chivalue, D[n], chi', w)
  <2>1. chivalue = Within(w, V[n], D[n])
    BY <1>1, <1>3, <1>5 DEF Within
  <2>2. ASSUME NEW g \in DOMAIN w.given
        PROVE  Key(chi', g, Append(V[n][w.clause], D[n]), w.given[g][1])
    <3> DEFINE pair == <<d, o>>
    <3>1. c.given \in Seq(Given) /\ c.which = Len(c.given) + 1
      BY <1>2 DEF CallType, CallOK
    <3>2. \/ g \in DOMAIN c.given /\ w.given[g] = c.given[g]
          \/ g = c.which /\ w.given[g] = pair
      <4> HIDE DEF pair, c
      <4> QED
        BY <1>3, <3>1 DEF pair
    <3>3. CASE g \in DOMAIN c.given /\ w.given[g] = c.given[g]
      <4>1. Link(V[n], chivalue, D[n], chi', c)
        BY <1>4, <1>5, LinkKept
      <4> QED
        BY <1>3, <3>3, <4>1 DEF Link
    <3>4. CASE g = c.which /\ w.given[g] = pair
      <4>1. chivalue[c.clause] = Append(V[n][c.clause], D[n])
        BY <1>1, <1>2, <1>5 DEF Within, Tagged, Values
      <4>2. w.given[g][1] = d
        BY <3>4
      <4>3. key = [which |-> g - 1, stack |-> Append(V[n][w.clause], D[n])]
        BY <1>3, <3>4, <4>1
      <4> QED
        BY <1>3, <4>2, <4>3 DEF Key
    <3> QED
      BY <3>2, <3>3, <3>4
  <2> QED
    BY <1>5, <2>1, <2>2 DEF Link
<1>8. Deep(w, D[n], scopes, StacksNow)
  <2>1. Own(w) = Own(c) /\ ~Complete(w) /\ ~Complete(c)
    BY <1>1, <1>3 DEF Own, Complete
  <2> QED
    BY <1>3, <1>5, <2>1 DEF Deep, DeepIn
<1>9. Counting(scopes', StacksNow') /\ Tagged(chivalue')
  BY <1>1, <1>6 DEF KInv
<1>10. w.phase # "body" /\ w.phase # "thrown"
  BY <1>3
<1> QED
  BY <1>1, <1>2, <1>3, <1>4, <1>5, <1>6, <1>7, <1>8, <1>9, <1>10, CachedUpdates

\* Taking the depth off again brings back the stacks the call began with
LEMMA TakenOff ==
  ASSUME NEW w, w.clause \in Clause, w.phase # "body", NEW v, Tagged(v), NEW d \in Nat,
         NEW cv, cv = Within(w, v, d)
  PROVE  [cv EXCEPT ![w.clause] = Front(@)] = v
<1>1. d \in Int
  OBVIOUS
<1> QED
  BY <1>1, TaggedMore DEF Within

LEMMA CachedAnswersDemands ==
  ASSUME KInv, CachedDemands
  PROVE  KInv'
<1> DEFINE c == Current
<1>1. /\ HInv /\ HInv' /\ wheres # <<>> /\ c.phase = "dims" /\ Return
      /\ chivalue' = [chivalue EXCEPT ![c.clause] = Front(@)]
      /\ UNCHANGED <<contextVars, chi>>
  BY CachedDemandsKeeps DEF KInv, CachedDemands, Here, In
<1>2. c.clause \in Clause
  BY <1>1, InnermostCached
<1>3. PICK V, D :
         /\ Trace(V, D, chi, chivalue, wheres, scopes, StacksNow)
         /\ D[Len(wheres)] \in Nat /\ Tagged(V[Len(wheres)])
         /\ chivalue = Within(c, V[Len(wheres)], D[Len(wheres)])
         /\ \A i \in DOMAIN wheres : Deep(wheres[i], D[i], scopes, StacksNow)
  BY <1>1, TracedNow
<1>4. scopes' = scopes /\ StacksNow' = StacksNow
  BY <1>1, ContextStays DEF HInv, contextVars
<1>5. chivalue' = V[Len(wheres)]
  <2> HIDE DEF c
  <2> QED
    BY <1>1, <1>2, <1>3, TakenOff
<1>6. Counting(scopes', StacksNow')
  BY <1>4 DEF KInv
<1> QED
  BY <1>1, <1>3, <1>4, <1>5, <1>6, CachedReturns

LEMMA CachedBegins ==
  ASSUME KInv, CachedBody
  PROVE  KInv'
<1> DEFINE c == Current
           n == Len(wheres)
           last == <<PsiQ[c.clause], Depth(c.clause) + 1>>
           w == [c EXCEPT !.phase = "body", !.change = Append(@, last)]
<1>1. /\ HInv /\ wheres # <<>> /\ c.phase = "dims" /\ c.cached /\ Len(scopes) = OwnScopes
      /\ Update(w) /\ UNCHANGED <<chi, nextIndex>>
      /\ chivalue' = [chivalue EXCEPT ![c.clause] = Front(@)]
  BY DEF KInv, CachedBody, Here, In
<1>2. /\ c.clause \in Clause /\ c \in CallType /\ c = wheres[n] /\ n \in DOMAIN wheres
      /\ OwnScopes = Own(c) /\ Len(scopes) \in Nat /\ c.change \in Seq(Change)
  BY <1>1, InnermostCached DEF CallType
<1>3. /\ Depth(c.clause) \in Nat /\ Depth(c.clause) = Len(StacksNow[PsiQ[c.clause]])
  BY <1>2, DepthIs DEF KInv
<1>4. /\ HInv' /\ StacksNow' = StacksNow
      /\ \A j \in DOMAIN scopes : scopes'[j].had = scopes[j].had
      /\ DOMAIN scopes' = DOMAIN scopes \cup {Len(scopes) + 1}
      /\ scopes'[Len(scopes) + 1].had = StacksNow
  <2>1. DOMAIN scopes = 1..Len(scopes)
    BY <1>1, ScopesAre DEF HInv
  <2>2. 1..(Len(scopes) + 1) = (1..Len(scopes)) \cup {Len(scopes) + 1}
    BY <1>2
  <2> QED
    BY <1>1, <1>3, <2>1, <2>2, CachedBodyKeeps
<1>5. PICK V, D :
         /\ Trace(V, D, chi, chivalue, wheres, scopes, StacksNow)
         /\ D[n] \in Nat /\ Tagged(V[n]) /\ Link(V[n], chivalue, D[n], chi, c)
         /\ chivalue = Within(c, V[n], D[n])
         /\ \A i \in DOMAIN wheres : Deep(wheres[i], D[i], scopes, StacksNow)
         /\ Deep(c, D[n], scopes, StacksNow)
  BY <1>1, TracedNow
<1>6. chivalue' = V[n]
  <2> HIDE DEF c, n
  <2> QED
    BY <1>1, <1>2, <1>5, TakenOff
<1>7. last \in Change /\ last[2] = Len(StacksNow[PsiQ[c.clause]]) + 1
  <2>1. PsiQ[c.clause] \in Dim /\ Depth(c.clause) + 1 \in Nat
    BY <1>2, <1>3, HiddenAre
  <2> QED
    BY <1>3, <2>1 DEF Change
<1> HIDE DEF last
<1> DEFINE ch == Append(c.change, last)
<1>8. /\ ch \in Seq(Change) /\ ch # <<>> /\ ch[Len(ch)] = last
  <2> HIDE DEF c
  <2>1. /\ ch \in Seq(Change) /\ Len(ch) = Len(c.change) + 1 /\ Len(c.change) \in Nat
        /\ ch[Len(c.change) + 1] = last
    BY <1>2, <1>7, OneMore
  <2> QED
    BY <2>1
<1>9. /\ w \in CallType /\ w.phase = "body" /\ w.at = c.at
      /\ w.clause = c.clause /\ w.cached = c.cached
      /\ w.change = ch /\ w.given = c.given
  <2>1. "body" \in Phases /\ w = [c EXCEPT !.phase = "body", !.change = ch]
    BY DEF Phases
  <2> HIDE DEF ch, w, c
  <2> QED
    BY <1>2, <1>8, <2>1 DEF CallType
<1> HIDE DEF w, ch
<1>10. Link(V[n], chivalue', D[n], chi', w)
  <2>1. chivalue' = Within(w, V[n], D[n])
    BY <1>6, <1>9 DEF Within
  <2> QED
    BY <1>1, <1>5, <1>9, <2>1 DEF Link
<1>11. \A i \in DOMAIN wheres : Deep(wheres[i], D[i], scopes', StacksNow')
  BY <1>4, <1>5, DeepOpened
<1>12. Deep(w, D[n], scopes', StacksNow')
  <2>1. Deep(c, D[n], scopes', StacksNow')
    BY <1>2, <1>11
  <2>2. Own(w) = Len(scopes) + 1 /\ ~Complete(w) /\ ~Complete(c)
    <3>1. c.at \in Nat /\ c.at = c.before
      BY <1>1, InnermostCached
    <3>2. Len(scopes) = c.at
      BY <1>1, <1>2, <3>1 DEF Own
    <3>3. Own(w) = Len(scopes) + 1
      BY <1>9, <3>1, <3>2 DEF Own
    <3> QED
      BY <1>1, <1>8, <1>9, <3>3 DEF Complete
  <2>3. DeepIn(StacksNow', w, D[n])
    BY <1>9, <2>1, <2>2 DEF Deep, DeepIn
  <2>4. \A j \in DOMAIN scopes' : ~(j > Own(w))
    <3>1. DOMAIN scopes = 1..Len(scopes)
      BY <1>1, ScopesAre DEF HInv
    <3> QED
      BY <1>2, <1>4, <2>2, <3>1
  <2> QED
    BY <2>3, <2>4 DEF Deep
<1>13. Counting(scopes', StacksNow')
  BY <1>4, CountingOpened DEF KInv
<1>14. Tagged(chivalue') /\ Extends(chi, chi')
  BY <1>1, <1>5, <1>6 DEF Extends
<1>15. w.change[Len(w.change)][2] = Len(StacksNow'[PsiQ[w.clause]]) + 1
  BY <1>4, <1>7, <1>8, <1>9
<1> QED
  BY <1>1, <1>4, <1>5, <1>9, <1>10, <1>11, <1>12, <1>13, <1>14, <1>15, CachedUpdates

LEMMA CachedLeaves ==
  ASSUME KInv, LeaveBody
  PROVE  KInv'
<1> DEFINE c == Current
           n == Len(scopes)
<1>1. /\ HInv /\ HInv' /\ wheres # <<>> /\ c.phase = "body" /\ n = OwnScopes /\ c.cached
      /\ ClosePerturber /\ Return /\ UNCHANGED <<chi, chivalue>>
  <2>1. HInv' /\ wheres # <<>>
    BY LeaveBodyKeeps DEF KInv, LeaveBody, Here, In
  <2>2. c.cached
    BY <2>1, InnermostCached
  <2> QED
    BY <2>1, <2>2 DEF KInv, LeaveBody, Here, In
<1>2. /\ n \in Nat /\ OwnScopes = Own(c) /\ c.before \in Nat /\ c.at = c.before
      /\ Calls(wheres, n) /\ c = wheres[Len(wheres)] /\ Len(wheres) \in DOMAIN wheres
      /\ DOMAIN wheres = 1..Len(wheres)
  BY <1>1, InnermostCached
<1>3. c.before < n
  BY <1>1, <1>2 DEF Own
<1>4. /\ DOMAIN scopes = 1..n /\ n > 0 /\ StacksNow' = scopes[n].had
      /\ DOMAIN scopes' \subseteq DOMAIN scopes /\ \A j \in DOMAIN scopes' : scopes'[j] = scopes[j]
  <2>1. StacksNow' = scopes[n].had
    BY <1>1, ClosePerturberKeeps DEF HInv, Top
  <2>2. DOMAIN scopes = 1..n
    BY <1>1, ScopesAre DEF HInv
  <2>3. \A j \in DOMAIN scopes' : j \in DOMAIN scopes /\ scopes'[j] = scopes[j]
    BY <1>1, <1>3, ClosesAround
  <2> QED
    BY <1>2, <1>3, <2>1, <2>2, <2>3
<1>5. PICK V, D :
         /\ Trace(V, D, chi, chivalue, wheres, scopes, StacksNow)
         /\ chivalue = Within(c, V[Len(wheres)], D[Len(wheres)])
         /\ \A i \in DOMAIN wheres : Deep(wheres[i], D[i], scopes, StacksNow)
  BY <1>1, TracedNow
<1>6. chivalue' = V[Len(wheres)]
  BY <1>1, <1>5 DEF Within
<1>7. ASSUME NEW i \in DOMAIN wheres, i # Len(wheres)
      PROVE  Deep(wheres[i], D[i], scopes', StacksNow')
  <2>1. Own(wheres[i]) \in Nat /\ Own(wheres[i]) <= c.before
    <3>1. Own(wheres[i]) \in Nat
      BY <1>2, CallsAre
    <3>2. i < Len(wheres)
      BY <1>2, <1>7
    <3> QED
      BY <1>2, <1>7, <3>1, <3>2 DEF Calls
  <2>2. n > Own(wheres[i])
    BY <1>2, <1>3, <2>1
  <2>3. Deep(wheres[i], D[i], scopes', scopes[n].had)
    BY <1>2, <1>4, <1>5, <2>2, DeepClosed
  <2> QED
    BY <1>4, <2>3
<1>8. Counting(scopes', StacksNow')
  <2>1. n \in DOMAIN scopes
    BY <1>2, <1>4
  <2>2. Counting(scopes', scopes[n].had)
    BY <1>4, <2>1, CountingClosed DEF KInv
  <2> QED
    BY <1>4, <2>2
<1> QED
  BY <1>1, <1>5, <1>6, <1>7, <1>8, CachedReturns

LEMMA CachedThrows ==
  ASSUME KInv, Throw
  PROVE  KInv'
<1> DEFINE w == [Current EXCEPT !.phase = "thrown"]
<1>1. /\ HInv /\ HInv' /\ wheres # <<>> /\ Update(w)
      /\ UNCHANGED <<contextVars, chi, nextIndex, chivalue>>
  BY ThrowKeeps DEF KInv, Throw, Inside, In
<1>2. /\ Current.cached /\ Current \in CallType /\ wheres \in Seq(CallType)
      /\ Len(wheres) \in DOMAIN wheres
  BY <1>1, InnermostCached
<1>3. w.cached = Current.cached /\ w.phase = "thrown" /\ w \in CallType
  BY <1>2, PhaseChanged DEF Phases
<1> HIDE DEF w
<1>4. /\ wheres' = [wheres EXCEPT ![Len(wheres)] = w] /\ DOMAIN wheres' = DOMAIN wheres
      /\ Len(wheres') = Len(wheres) /\ wheres' # <<>> /\ wheres'[Len(wheres)] = w
      /\ \A i \in DOMAIN wheres : wheres'[i] = wheres[i] \/ wheres'[i] = w
  <2>1. wheres' \in Seq(CallType)
    BY <1>1, CallsAre DEF HInv
  <2> QED
    BY <1>1, <1>2, <2>1 DEF Update
<1>5. Thrown(wheres') /\ \A i \in DOMAIN wheres' : wheres'[i].cached
  BY <1>2, <1>3, <1>4 DEF Thrown, KInv
<1>6. Counting(scopes', StacksNow')
  BY <1>1, ContextStays DEF KInv, HInv, contextVars
<1> QED
  BY <1>1, <1>5, <1>6, CachedThrown

LEMMA CachedUnwindsScope ==
  ASSUME KInv, UnwindScope
  PROVE  KInv'
<1> DEFINE n == Len(scopes)
<1>1. /\ HInv /\ HInv' /\ wheres # <<>> /\ Current.phase = "thrown" /\ n > Current.before
      /\ ClosePerturber \/ CloseRho
      /\ UNCHANGED <<chi, nextIndex, chivalue, wheres>>
  BY UnwindScopeKeeps DEF KInv, UnwindScope, In
<1>2. /\ Current = wheres[Len(wheres)] /\ Current.before \in Nat /\ n \in Nat
  BY <1>1, InnermostCached
<1>3. \A j \in DOMAIN scopes' : j \in DOMAIN scopes /\ scopes'[j] = scopes[j]
  BY <1>1, <1>2, ClosesAround
<1>4. StacksNow' = scopes[n].had
  BY <1>1, ClosePerturberKeeps, CloseRhoKeeps DEF HInv, Top
<1>5. Counting(scopes', StacksNow')
  <2>1. n \in DOMAIN scopes
    BY <1>1, <1>2, ScopesAre DEF HInv
  <2>2. Counting(scopes', scopes[n].had)
    BY <1>3, <2>1, CountingClosed DEF KInv
  <2> QED
    BY <1>4, <2>2
<1>6. Thrown(wheres') /\ \A i \in DOMAIN wheres' : wheres'[i].cached
  BY <1>1, <1>2 DEF Thrown, KInv
<1> QED
  BY <1>1, <1>5, <1>6, CachedThrown

LEMMA EmptyTrace ==
  ASSUME NEW c, NEW cv, Tagged(cv), NEW sc, NEW stacks
  PROVE  \E V, D : Trace(V, D, c, cv, <<>>, sc, stacks)
<1> DEFINE V == [i \in Nat |-> cv]
           D == [i \in Nat |-> 0]
<1>1. V \in [Nat -> Values] /\ D \in [Nat -> Nat] /\ V[1] = cv
  BY DEF Tagged
<1>2. DOMAIN <<>> = {} /\ Len(<<>>) + 1 = 1
  OBVIOUS
<1> HIDE DEF V, D
<1>3. Trace(V, D, c, cv, <<>>, sc, stacks)
  BY <1>1, <1>2 DEF Trace, Chain, Rising
<1> QED
  BY <1>3

LEMMA CachedUnwindsCall ==
  ASSUME KInv, UnwindCall
  PROVE  KInv'
<1>1. /\ HInv /\ HInv' /\ UNCHANGED <<contextVars, chi, nextIndex, chivalue>>
      /\ wheres' # <<>> =>
           /\ wheres'[Len(wheres')].phase = "thrown"
           /\ \A i \in DOMAIN wheres' :
                /\ i \in DOMAIN wheres
                /\ wheres'[i] = IF i = Len(wheres')
                                THEN [wheres[i] EXCEPT !.phase = "thrown"] ELSE wheres[i]
  BY UnwindCallKeeps DEF KInv, UnwindCall
<1>2. Counting(scopes', StacksNow')
  BY <1>1, ContextStays DEF KInv, HInv, contextVars
<1>3. CASE wheres' = <<>>
  <2>1. \E V, D : Trace(V, D, chi', chivalue', wheres', scopes', StacksNow')
    BY <1>1, <1>3, EmptyTrace DEF KInv
  <2>2. Pending(wheres', StacksNow') /\ \A i \in DOMAIN wheres' : wheres'[i].cached
    BY <1>3 DEF Pending
  <2> QED
    BY <1>1, <1>2, <2>1, <2>2 DEF KInv
<1>4. CASE wheres' # <<>>
  <2>1. ASSUME NEW i \in DOMAIN wheres'
        PROVE  wheres'[i].cached
    <3>1. wheres[i] \in CallType /\ wheres[i].cached
      BY <1>1, <1>4, CallsAre DEF HInv, KInv
    <3>2. [wheres[i] EXCEPT !.phase = "thrown"].cached = wheres[i].cached
      BY <3>1 DEF CallType
    <3> QED
      BY <1>1, <1>4, <3>1, <3>2
  <2>2. Thrown(wheres')
    BY <1>1, <1>4 DEF Thrown
  <2> QED
    BY <1>1, <1>2, <2>1, <2>2, CachedThrown
<1> QED
  BY <1>3, <1>4

LEMMA AppendsDiffer ==
  ASSUME NEW a \in Seq(Int), NEW b \in Seq(Int), NEW x \in Int, NEW y \in Int,
         Append(a, x) = Append(b, y)
  PROVE  x = y /\ (a # <<>> /\ b # <<>> => a[1] = b[1])
<1>1. Len(Append(a, x)) = Len(a) + 1 /\ Append(a, x)[Len(a) + 1] = x /\ Len(a) \in Nat
  OBVIOUS
<1>2. Len(Append(b, y)) = Len(b) + 1 /\ Append(b, y)[Len(b) + 1] = y /\ Len(b) \in Nat
  OBVIOUS
<1>3. x = y
  BY <1>1, <1>2
<1>4. a # <<>> => Append(a, x)[1] = a[1]
  OBVIOUS
<1>5. b # <<>> => Append(b, y)[1] = b[1]
  OBVIOUS
<1> QED
  BY <1>3, <1>4, <1>5

\* The dimensions of a call, and of the calls around it, have other ChiDims:
\* another place, or the stack of another clause, or a deeper one
LEMMA CachedApart ==
  ASSUME KInv, wheres # <<>>, Current.phase = "body"
  PROVE  Distinct(Current) /\ \A v \in Around(wheres) : Apart(v, Current)
<1> DEFINE n == Len(wheres)
           c == Current
<1>1. /\ c = wheres[n] /\ n \in DOMAIN wheres /\ DOMAIN wheres = 1..n /\ n \in Nat
      /\ Calls(wheres, Len(scopes)) /\ c \in CallType /\ c.clause \in Clause
      /\ c.given \in Seq(Given) /\ wheres \in Seq(CallType)
  BY InnermostCached DEF CallType
<1>2. PICK V, D : Trace(V, D, chi, chivalue, wheres, scopes, StacksNow)
  BY TracedNow
<1>3. /\ V \in [Nat -> Values] /\ D \in [Nat -> Nat] /\ Rising(D, wheres)
      /\ \A i \in DOMAIN wheres : Link(V[i], V[i + 1], D[i], chi, wheres[i])
  BY <1>1, <1>2, ChainIs
<1>4. \A x, y \in DOMAIN chi : chi[x] = chi[y] => x = y
  BY DEF KInv, HInv, ChiOK
<1>5. ASSUME NEW i \in DOMAIN wheres, NEW g \in DOMAIN wheres[i].given
      PROVE  LET key == [which |-> g - 1, stack |-> Append(V[i][wheres[i].clause], D[i])]
             IN  key \in DOMAIN chi /\ chi[key] = wheres[i].given[g][1]
  BY <1>3, <1>5 DEF Link, Key
<1>6. Distinct(c)
  <2>1. ASSUME NEW g \in DOMAIN c.given, NEW h \in DOMAIN c.given, g # h,
               c.given[g][1] = c.given[h][1]
        PROVE  FALSE
    <3> DEFINE s == Append(V[n][c.clause], D[n])
               x == [which |-> g - 1, stack |-> s]
               y == [which |-> h - 1, stack |-> s]
    <3>1. x \in DOMAIN chi /\ chi[x] = c.given[g][1]
      BY <1>1, <1>5
    <3>2. y \in DOMAIN chi /\ chi[y] = c.given[h][1]
      BY <1>1, <1>5
    <3>3. x.which = g - 1 /\ y.which = h - 1 /\ g \in Nat /\ h \in Nat
      BY <1>1
    <3> HIDE DEF x, y
    <3>4. x = y
      BY <1>4, <2>1, <3>1, <3>2
    <3> QED
      BY <2>1, <3>3, <3>4
  <2> QED
    BY <2>1 DEF Distinct
<1>7. ASSUME NEW v \in Around(wheres)
      PROVE  Apart(v, c)
  <2>1. PICK i \in DOMAIN wheres : i # n /\ v = wheres[i] /\ v.phase = "body"
    BY DEF Around
  <2>2. i < n /\ i \in Nat
    BY <1>1, <2>1
  <2>3. Complete(v)
    BY <1>1, <2>1, <2>2 DEF Calls
  <2>4. v.clause \in Clause
    BY <1>1, <2>1, CallsAre DEF CallType
  <2> DEFINE a == V[i][v.clause]
             b == V[n][c.clause]
  <2>5. /\ a \in Seq(Int) /\ a # <<>> /\ a[1] = TagQ[v.clause]
        /\ b \in Seq(Int) /\ b # <<>> /\ b[1] = TagQ[c.clause]
    <3>1. Tagged(V[i]) /\ Tagged(V[n])
      BY <1>1, <1>3, <2>1 DEF Link
    <3> QED
      BY <1>1, <2>4, <3>1 DEF Tagged, Values
  <2>6. D[i] \in Int /\ D[n] \in Int /\ D[i] \in Nat /\ D[n] \in Nat
    BY <1>1, <1>3, <2>2
  <2>7. Append(a, D[i]) # Append(b, D[n])
    <3>1. CASE v.clause = c.clause
      <4>1. D[i] < D[n]
        BY <1>1, <1>3, <2>1, <2>2, <2>3, <3>1 DEF Rising
      <4> HIDE DEF a, b
      <4> QED
        BY <2>5, <2>6, <4>1, AppendsDiffer
    <3>2. CASE v.clause # c.clause
      <4>1. TagQ[v.clause] # TagQ[c.clause]
        BY <1>1, <2>4, <3>2, WhereAssumption
      <4> HIDE DEF a, b
      <4> QED
        BY <2>5, <2>6, <4>1, AppendsDiffer
    <3> QED
      BY <3>1, <3>2
  <2>8. ASSUME NEW g \in DOMAIN v.given, NEW h \in DOMAIN c.given,
               v.given[g][1] = c.given[h][1]
        PROVE  FALSE
    <3> DEFINE x == [which |-> g - 1, stack |-> Append(a, D[i])]
               y == [which |-> h - 1, stack |-> Append(b, D[n])]
    <3>1. x \in DOMAIN chi /\ chi[x] = v.given[g][1]
      BY <1>5, <2>1
    <3>2. y \in DOMAIN chi /\ chi[y] = c.given[h][1]
      BY <1>1, <1>5
    <3>3. x.stack = Append(a, D[i]) /\ y.stack = Append(b, D[n])
      OBVIOUS
    <3> HIDE DEF x, y
    <3>4. x = y
      BY <1>4, <2>8, <3>1, <3>2
    <3> QED
      BY <2>7, <3>3, <3>4
  <2> QED
    BY <2>8 DEF Apart
<1> QED
  BY <1>6, <1>7

LEMMA CachedChanges ==
  ASSUME KInv, MakeChange
  PROVE  KInv'
<1> DEFINE c == Current
           n == Len(wheres)
           m == Len(scopes)
           first == Head(c.change)
           d == first[1]
           o == first[2]
           w == [c EXCEPT !.change = Tail(@)]
           psi == PsiQ[c.clause]
           now(e) == StacksNow[PsiQ[e]]
           next(e) == StacksNow'[PsiQ[e]]
<1>1. /\ HInv /\ wheres # <<>> /\ c.phase = "body" /\ c.change # <<>> /\ Update(w)
      /\ Len(StackOf(k, d)) < MaxPerturb /\ UNCHANGED <<chi, nextIndex, chivalue>>
      /\ m = OwnScopes
  BY DEF KInv, MakeChange, Here, In, Perturb
<1>2. /\ c \in CallType /\ CallOK(c) /\ c.clause \in Clause /\ c.cached /\ c.change \in Seq(Change)
      /\ c = wheres[n] /\ n \in DOMAIN wheres /\ OwnScopes = Own(c) /\ m \in Nat
      /\ c.at \in Nat /\ wheres \in Seq(CallType)
  BY <1>1, InnermostCached DEF CallType
<1>3. /\ first = c.change[1] /\ first \in Change /\ 1 \in DOMAIN c.change
      /\ Tail(c.change) \in Seq(Change) /\ Len(Tail(c.change)) = Len(c.change) - 1
      /\ \A x \in DOMAIN c.change : x # 1 => x - 1 \in DOMAIN Tail(c.change)
                                             /\ Tail(c.change)[x - 1] = c.change[x]
  BY <1>1, <1>2, HeadAndTail
<1>4. d \in Dim
  BY <1>3 DEF Change
<1>5. ASSUME NEW e \in Clause
      PROVE  /\ now(e) \in Seq(Ordinate) /\ Len(now(e)) \in Nat /\ PsiQ[e] \in Dim
             /\ now(e) = StackOf(k, PsiQ[e])
  BY DepthIs, HiddenAre DEF KInv, StacksNow
<1>6. /\ o \in Ordinate
      /\ IF Len(c.change) = 1 THEN d = psi /\ o = Len(now(c.clause)) + 1
         ELSE \A f \in Clause : d # PsiQ[f]
  <2>1. CASE Len(c.change) = 1
    <3>1. c.change[1][1] = psi
      BY <1>1, <1>2, <1>3, <2>1 DEF CallOK
    <3>2. c.change[1][2] = Len(now(c.clause)) + 1
      BY <1>1, <1>2, <2>1 DEF KInv, Pending
    <3>3. d = psi /\ o = Len(now(c.clause)) + 1
      BY <1>3, <3>1, <3>2
    <3>4. Len(now(c.clause)) \in Nat /\ Len(now(c.clause)) < MaxPerturb
      BY <1>1, <1>2, <1>5, <3>3
    <3>5. o \in 1..MaxPerturb
      <4> HIDE DEF o, now
      <4> QED
        BY <3>3, <3>4, ContextAssumption
    <3> QED
      BY <2>1, <3>3, <3>5, WhereAssumption
  <2>2. CASE Len(c.change) # 1
    <3>1. c.change[1][2] \in Ordinate /\ \A f \in Clause : c.change[1][1] # PsiQ[f]
      <4>1. 1 # Len(c.change)
        BY <2>2
      <4> HIDE DEF c
      <4> QED
        BY <1>2, <1>3, <4>1 DEF CallOK
    <3> QED
      BY <1>3, <2>2, <3>1
  <2> QED
    BY <2>1, <2>2
<1>7. Distinct(c) /\ \A v \in Around(wheres) : Apart(v, c)
  BY <1>1, CachedApart
<1>8. /\ HInv' /\ StacksNow' = [StacksNow EXCEPT ![d] = Append(@, o)]
      /\ Len(scopes') = m /\ DOMAIN scopes' = DOMAIN scopes
      /\ \A j \in DOMAIN scopes : scopes'[j].had = scopes[j].had
  BY <1>1, <1>6, <1>7, MakeChangeKeeps
<1> HIDE DEF o, d, first
<1>9. ASSUME NEW e \in Clause
      PROVE  next(e) = IF PsiQ[e] = d THEN Append(now(e), o) ELSE now(e)
  <2>1. StacksNow \in [Dim -> Seq(Ordinate)] /\ PsiQ[e] \in Dim
    BY <1>1, <1>5, ScopesAre DEF HInv
  <2> QED
    BY <1>4, <1>8, <2>1
<1> HIDE DEF now, next
<1>10. ASSUME NEW e \in Clause
       PROVE  Len(next(e)) \in Nat /\ Len(next(e)) >= Len(now(e)) /\ (Counts(now(e)) => Counts(next(e)))
  <2>1. now(e) \in Seq(Ordinate) /\ Len(now(e)) \in Nat
    BY <1>5
  <2>2. CASE PsiQ[e] # d
    BY <1>9, <2>1, <2>2
  <2>3. CASE PsiQ[e] = d
    <3>1. o = Len(now(e)) + 1
      <4>1. e = c.clause
        BY <1>2, <1>6, <2>3, WhereAssumption
      <4> QED
        BY <1>6, <2>3, <4>1
    <3>2. next(e) = Append(now(e), o)
      BY <1>9, <2>3
    <3>3. Len(next(e)) = Len(now(e)) + 1 /\ next(e)[Len(now(e)) + 1] = o
      BY <1>6, <2>1, <3>2
    <3> QED
      BY <2>1, <3>1, <3>3 DEF Counts
  <2> QED
    BY <2>2, <2>3
<1>11. Counting(scopes', StacksNow')
  <2>1. \A e \in Clause : Counts(next(e))
    BY <1>10 DEF KInv, Counting, now
  <2> QED
    BY <1>8, <2>1 DEF KInv, Counting, next
<1>12. /\ w \in CallType /\ w.phase = "body" /\ w.at = c.at /\ w.given = c.given
       /\ w.clause = c.clause /\ w.cached = c.cached /\ w.change = Tail(c.change)
  <2> DEFINE t == Tail(c.change)
  <2>1. w = [c EXCEPT !.change = t] /\ t \in Seq(Change)
    BY <1>3
  <2> HIDE DEF t, c, w
  <2>2. /\ w \in CallType /\ w.phase = "body" /\ w.at = c.at /\ w.given = c.given
        /\ w.clause = c.clause /\ w.cached = c.cached /\ w.change = t
    BY <1>1, <1>2, <2>1 DEF CallType
  <2> QED
    BY <2>2 DEF t
<1> HIDE DEF w
<1>13. PICK V, D :
         /\ Trace(V, D, chi, chivalue, wheres, scopes, StacksNow)
         /\ D[n] \in Nat /\ Link(V[n], chivalue, D[n], chi, c)
         /\ \A i \in DOMAIN wheres : D[i] \in Nat /\ Deep(wheres[i], D[i], scopes, StacksNow)
         /\ Deep(c, D[n], scopes, StacksNow)
  BY <1>1, TracedNow
<1>14. Link(V[n], chivalue', D[n], chi', w)
  BY <1>1, <1>12, <1>13, LinkSame
<1>15. ASSUME NEW i \in DOMAIN wheres
       PROVE  Deep(wheres[i], D[i], scopes', StacksNow')
  <2>1. wheres[i].clause \in Clause
    <3>1. wheres[i] \in CallType
      BY <1>2
    <3> QED
      BY <3>1 DEF CallType
  <2>2. /\ Len(StacksNow[PsiQ[wheres[i].clause]]) \in Nat
        /\ Len(StacksNow'[PsiQ[wheres[i].clause]]) \in Nat
        /\ Len(StacksNow'[PsiQ[wheres[i].clause]]) >= Len(StacksNow[PsiQ[wheres[i].clause]])
    BY <1>5, <1>10, <2>1 DEF now, next
  <2> QED
    BY <1>8, <1>13, <2>2, DeepGrown
<1>16. Deep(w, D[n], scopes', StacksNow')
  <2>1. \A j \in DOMAIN scopes' : ~(j > Own(w))
    <3>1. Own(w) = m
      BY <1>1, <1>2, <1>12 DEF Own
    <3> QED
      BY <1>1, <1>2, <1>8, <3>1, ScopesAre DEF HInv
  <2>2. DeepIn(StacksNow', w, D[n])
    <3>1. Len(now(c.clause)) >= D[n] /\ Len(now(c.clause)) \in Nat /\ now(c.clause) \in Seq(Ordinate)
      <4>1. DeepIn(StacksNow, c, D[n]) /\ ~Complete(c)
        BY <1>1, <1>13 DEF Deep, Complete
      <4> QED
        BY <1>2, <1>5, <4>1 DEF DeepIn, now
    <3>2. Len(next(c.clause)) >= Len(now(c.clause)) /\ Len(next(c.clause)) \in Nat
      BY <1>2, <1>10
    <3>3. Complete(w) => Len(next(c.clause)) = Len(now(c.clause)) + 1
      <4>1. ASSUME Complete(w)
            PROVE  Len(next(c.clause)) = Len(now(c.clause)) + 1
        <5>1. Len(c.change) = 1
          <6>1. Len(c.change) \in Nat /\ w.change = <<>>
            BY <1>2, <4>1 DEF Complete
          <6>2. Len(c.change) - 1 = 0
            <7>1. Tail(c.change) = <<>>
              BY <1>12, <6>1
            <7>2. ASSUME NEW t, t = <<>>
                  PROVE  Len(t) = 0
              BY <7>2
            <7>3. Len(Tail(c.change)) = 0
              BY <7>1, <7>2, Zenon
            <7> QED
              BY <1>3, <7>3
          <6> QED
            BY <6>1, <6>2
        <5>2. next(c.clause) = Append(now(c.clause), o)
          BY <1>2, <1>6, <1>9, <5>1
        <5> QED
          BY <1>6, <3>1, <5>2
      <4> QED
        BY <4>1
    <3>4. Len(next(c.clause)) >= IF Complete(w) THEN D[n] + 1 ELSE D[n]
      BY <1>13, <3>1, <3>2, <3>3
    <3> QED
      BY <1>12, <3>4 DEF DeepIn, next
  <2> QED
    BY <2>1, <2>2 DEF Deep
<1>17. w.change # <<>> => w.change[Len(w.change)][2] = Len(StacksNow'[PsiQ[w.clause]]) + 1
  <2>1. ASSUME w.change # <<>>
        PROVE  w.change[Len(w.change)][2] = Len(next(w.clause)) + 1
    <3>1. Len(c.change) # 1 /\ Len(c.change) \in Nat /\ Len(c.change) \in DOMAIN c.change
      BY <1>1, <1>2, <1>3, <1>12, <2>1
    <3>2. w.change[Len(w.change)] = c.change[Len(c.change)]
      BY <1>3, <1>12, <3>1
    <3>3. c.change[Len(c.change)][2] = Len(now(c.clause)) + 1
      BY <1>1, <1>2 DEF KInv, Pending, now
    <3>4. next(c.clause) = now(c.clause)
      BY <1>2, <1>6, <1>9, <3>1
    <3> QED
      BY <1>12, <3>2, <3>3, <3>4
  <2> QED
    BY <2>1 DEF next
<1>18. Tagged(chivalue') /\ Extends(chi, chi') /\ w.cached /\ w.phase # "thrown"
       /\ w.clause = Current.clause
  BY <1>1, <1>2, <1>12 DEF KInv, Extends
<1> QED
  BY <1>1, <1>8, <1>11, <1>12, <1>13, <1>14, <1>15, <1>16, <1>17, <1>18, CachedUpdates

LEMMA CachedInit == InitWhere => KInv
<1> SUFFICES ASSUME InitWhere
             PROVE  KInv
  OBVIOUS
<1>1. wheres = <<>> /\ scopes = <<>> /\ chivalue = [e \in Clause |-> <<TagQ[e]>>]
      /\ k = EmptyContext
  BY DEF InitWhere, InitContext
<1>2. Tagged(chivalue)
  <2>1. ASSUME NEW e \in Clause
        PROVE  <<TagQ[e]>> \in Seq(Int) /\ <<TagQ[e]>> # <<>> /\ <<TagQ[e]>>[1] = TagQ[e]
    <3>1. TagQ[e] \in Int
      BY WhereAssumption
    <3> QED
      BY <3>1
  <2> QED
    BY <1>1, <2>1 DEF Tagged, Values
<1>3. Counting(scopes, StacksNow)
  <2>1. ASSUME NEW e \in Clause
        PROVE  StacksNow[PsiQ[e]] = <<>>
    <3>1. PsiQ[e] \in Dim /\ PsiQ[e] \in Int
      BY HiddenAre
    <3> QED
      BY <1>1, <3>1 DEF StacksNow, StackOf, InWindow, EmptyContext
  <2> QED
    BY <1>1, <2>1 DEF Counting, Counts
<1>4. \E V, D : Trace(V, D, chi, chivalue, wheres, scopes, StacksNow)
  BY <1>1, <1>2, EmptyTrace
<1> QED
  <2>1. HInv
    BY HeldInit
  <2>2. Pending(wheres, StacksNow) /\ \A i \in DOMAIN wheres : wheres[i].cached
    BY <1>1 DEF Pending
  <2> QED
    BY <1>2, <1>3, <1>4, <2>1, <2>2 DEF KInv

LEMMA CachedStep == KInv /\ [NextCached \/ NextCommon]_whereVars => KInv'
<1> SUFFICES ASSUME KInv, [NextCached \/ NextCommon]_whereVars
             PROVE  KInv'
  OBVIOUS
<1>1. ASSUME NEW e \in Clause, CachedWhere(e)
      PROVE  KInv'
  BY <1>1, CachedEnters
<1>2. ASSUME NEW o \in Plain, CachedInitialised(o)
      PROVE  KInv'
  BY <1>2, CachedGives
<1>3. CASE CachedDemands
  BY <1>3, CachedAnswersDemands
<1>4. CASE CachedBody
  BY <1>4, CachedBegins
<1>5. CASE MakeChange
  BY <1>5, CachedChanges
<1>6. CASE LeaveBody
  BY <1>6, CachedLeaves
<1>7. CASE Throw
  BY <1>7, CachedThrows
<1>8. CASE UnwindScope
  BY <1>8, CachedUnwindsScope
<1>9. CASE UnwindCall
  BY <1>9, CachedUnwindsCall
<1>10. CASE UNCHANGED whereVars
  <2>1. HInv' /\ scopes' = scopes /\ StacksNow' = StacksNow
    BY <1>10, HeldStays, ContextStays DEF KInv, HInv, whereVars, contextVars
  <2>2. wheres' = wheres /\ chi' = chi /\ chivalue' = chivalue
    BY <1>10 DEF whereVars
  <2> QED
    BY <2>1, <2>2 DEF KInv
<1> QED
  BY <1>1, <1>2, <1>3, <1>4, <1>5, <1>6, <1>7, <1>8, <1>9, <1>10 DEF NextCached, NextCommon

\* With the cache: the same, although the ChiDims of a clause are told apart by
\* the depths pushed on its m_chivalue, which no exception takes off again.
THEOREM HiddenKeptCached == SpecCached => []HiddenDimsKeep
<1>1. KInv => HiddenDimsKeep
  BY HeldShows DEF KInv
<1> QED
  BY <1>1, CachedInit, CachedStep, PTL DEF SpecCached
=============================================================================
