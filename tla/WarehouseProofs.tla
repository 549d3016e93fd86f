-------------------------- MODULE WarehouseProofs --------------------------
(***************************************************************************)
(* What the warehouse keeps, whatever the equations, the base functions    *)
(* and the demands are.                                                    *)
(*                                                                         *)
(* The cache of a variable is a tree of paths.  A context leads down one   *)
(* branch of it; the first part says so, and what Get, Set and             *)
(* GarbageCollect do to the tree.  The second part follows the calls, and  *)
(* ends in CalcToOverwrite, AgesOrdered, ValuesStay and UsedIsKept.  Then  *)
(* types, up to TypeOK; the number of calcs, CalcIsComputing; which        *)
(* dimensions may be demanded, LevelsAreNew; and that what is answered and *)
(* kept is what the rules of WarehouseDerivations give, AnswersAreRight    *)
(* and EntriesAreRight.                                                    *)
(***************************************************************************)
EXTENDS WarehouseDerivations, TLAPS, FiniteSetTheorems, WellFoundedInduction

LEMMA LeastOfNat ==
  ASSUME NEW S \in SUBSET Nat, S # {}
  PROVE  \E n \in S : \A m \in S : n <= m
<1>1. PICK n \in S : \A m \in S : ~(<<m, n>> \in OpToRel(<, Nat))
  BY NatLessThanWellFounded, WFMin, Zenon
<1>2. \A m \in S : ~(m < n)
  BY <1>1 DEF OpToRel
<1> QED
  BY <1>2

(***************************************************************************)
(* Paths                                                                   *)
(***************************************************************************)
IsStep(s) == s = [d \in DOMAIN s |-> s[d]]

IsPath(p) ==
  /\ Len(p) \in Nat /\ p = [i \in 1..Len(p) |-> p[i]]
  /\ \A i \in 1..Len(p) : IsStep(p[i])

Prefix(p, n) == SubSeq(p, 1, n)

LEMMA PathIsSequence ==
  ASSUME NEW p, IsPath(p)
  PROVE  \E S : p \in Seq(S)
<1> DEFINE S == {p[i] : i \in 1..Len(p)}
           n == Len(p)
<1>1. n \in Nat /\ p = [i \in 1..n |-> p[i]]
  BY DEF IsPath
<1>2. \A i \in 1..n : p[i] \in S
  OBVIOUS
<1> HIDE DEF S, n
<1>3. p \in [1..n -> S]
  BY <1>1, <1>2
<1>4. p \in Seq(S)
  BY <1>1, <1>3
<1> QED
  BY <1>4

LEMMA PathsEqual ==
  ASSUME NEW p, IsPath(p), NEW q, IsPath(q), Len(p) = Len(q),
         \A i \in 1..Len(p) : p[i] = q[i]
  PROVE  p = q
BY DEF IsPath

LEMMA PrefixIs ==
  ASSUME NEW p, IsPath(p), NEW n \in 0..Len(p)
  PROVE  /\ IsPath(Prefix(p, n)) /\ Len(Prefix(p, n)) = n
         /\ \A i \in 1..n : Prefix(p, n)[i] = p[i]
         /\ n = Len(p) => Prefix(p, n) = p
<1> DEFINE q == Prefix(p, n)
<1>1. PICK S : p \in Seq(S)
  BY PathIsSequence
<1>2. /\ q \in Seq(S) /\ Len(q) = n
      /\ \A i \in 1..n : q[i] = p[i]
  BY <1>1 DEF Prefix
<1>3. q = [i \in 1..n |-> q[i]] /\ n \in Nat /\ Len(p) \in Nat
  BY <1>1, <1>2
<1>4. \A i \in 1..n : i \in 1..Len(p)
  BY <1>3
<1> HIDE DEF q
<1>5. IsPath(q)
  BY <1>2, <1>3, <1>4 DEF IsPath
<1>6. n = Len(p) => q = p
  BY <1>2, <1>5, PathsEqual
<1> QED
  BY <1>2, <1>5, <1>6 DEF q

LEMMA AppendIs ==
  ASSUME NEW p, IsPath(p), NEW s, IsStep(s)
  PROVE  /\ IsPath(Append(p, s)) /\ Len(Append(p, s)) = Len(p) + 1
         /\ \A i \in 1..Len(p) : Append(p, s)[i] = p[i]
         /\ Append(p, s)[Len(p) + 1] = s
         /\ \A n \in 0..Len(p) : Prefix(Append(p, s), n) = Prefix(p, n)
<1> DEFINE q == Append(p, s)
<1>1. PICK S : p \in Seq(S)
  BY PathIsSequence
<1>2. p \in Seq(S \cup {s}) /\ s \in S \cup {s} /\ Len(p) \in Nat
  BY <1>1
<1>3. /\ q \in Seq(S \cup {s}) /\ Len(q) = Len(p) + 1
      /\ \A i \in 1..Len(p) : q[i] = p[i]
      /\ q[Len(p) + 1] = s
  BY <1>2
<1> HIDE DEF q
<1>4. q = [i \in 1..Len(q) |-> q[i]] /\ Len(q) \in Nat
  <2>1. \A t : \A u \in Seq(t) : u = [i \in 1..Len(u) |-> u[i]] /\ Len(u) \in Nat
    OBVIOUS
  <2>2. q \in Seq(S \cup {s})
    BY <1>3
  <2> QED
    BY <2>1, <2>2
<1>5. ASSUME NEW i \in 1..Len(q)
      PROVE  IsStep(q[i])
  <2>1. i \in 1..Len(p) \/ i = Len(p) + 1
    BY <1>2, <1>3
  <2> QED
    BY <1>3, <2>1 DEF IsPath
<1>6. IsPath(q)
  BY <1>2, <1>3, <1>4, <1>5 DEF IsPath
<1>7. ASSUME NEW n \in 0..Len(p)
      PROVE  Prefix(q, n) = Prefix(p, n)
  <2>1. n \in 0..Len(q) /\ \A i \in 1..n : i \in 1..Len(p)
    BY <1>2, <1>3
  <2>2. /\ IsPath(Prefix(p, n)) /\ Len(Prefix(p, n)) = n
        /\ \A i \in 1..n : Prefix(p, n)[i] = p[i]
    BY PrefixIs
  <2>3. /\ IsPath(Prefix(q, n)) /\ Len(Prefix(q, n)) = n
        /\ \A i \in 1..n : Prefix(q, n)[i] = q[i]
    BY <1>6, <2>1, PrefixIs
  <2> QED
    BY <1>3, <2>1, <2>2, <2>3, PathsEqual
<1> QED
  BY <1>3, <1>6, <1>7 DEF q

LEMMA PrefixOfPrefix ==
  ASSUME NEW p, IsPath(p), NEW n \in 0..Len(p), NEW m \in 0..n
  PROVE  Prefix(Prefix(p, n), m) = Prefix(p, m)
<1>1. Len(p) \in Nat /\ m \in 0..Len(p) /\ \A i \in 1..m : i \in 1..n
  BY DEF IsPath
<1>2. /\ IsPath(Prefix(p, n)) /\ Len(Prefix(p, n)) = n
      /\ \A i \in 1..n : Prefix(p, n)[i] = p[i]
  BY PrefixIs
<1>3. /\ IsPath(Prefix(p, m)) /\ Len(Prefix(p, m)) = m
      /\ \A i \in 1..m : Prefix(p, m)[i] = p[i]
  BY <1>1, PrefixIs
<1>4. /\ IsPath(Prefix(Prefix(p, n), m)) /\ Len(Prefix(Prefix(p, n), m)) = m
      /\ \A i \in 1..m : Prefix(Prefix(p, n), m)[i] = Prefix(p, n)[i]
  BY <1>2, PrefixIs
<1> QED
  BY <1>1, <1>2, <1>3, <1>4, PathsEqual

(***************************************************************************)
(* Caches                                                                  *)
(***************************************************************************)
\* An entry hangs in levels, each with the dimensions of the next step
Hangs(c, p) ==
  \A n \in 0..(Len(p) - 1) :
    /\ Prefix(p, n) \in DOMAIN c
    /\ c[Prefix(p, n)].content.kind = "level"
    /\ c[Prefix(p, n)].content.dims = DOMAIN p[n + 1]

IsEntry(e) == e = [content |-> e.content, age |-> e.age] /\ e.age \in Nat

Shallow(c) == \E n \in Nat : \A p \in DOMAIN c : Len(p) <= n

IsCache(c) ==
  /\ c = [p \in DOMAIN c |-> c[p]]
  /\ IsFiniteSet(DOMAIN c) /\ Shallow(c)
  /\ \A p \in DOMAIN c : IsPath(p) /\ Hangs(c, p) /\ IsEntry(c[p])
  /\ \A p \in DOMAIN c : c[p].content.kind # "demand"

LEMMA RootIsPath == IsPath(Root) /\ Len(Root) = 0
BY DEF IsPath, Root

LEMMA RootInCache ==
  ASSUME NEW c, IsCache(c), c # <<>>
  PROVE  Root \in DOMAIN c
<1>1. PICK p \in DOMAIN c : TRUE
  BY DEF IsCache
<1>2. IsPath(p) /\ Hangs(c, p)
  BY DEF IsCache
<1>3. CASE Len(p) = 0
  BY <1>2, <1>3, RootIsPath, PathsEqual
<1>4. CASE Len(p) # 0
  <2>1. Len(p) \in Nat /\ 0 \in 0..(Len(p) - 1)
    BY <1>2, <1>4 DEF IsPath
  <2>2. Prefix(p, 0) \in DOMAIN c
    BY <1>2, <2>1 DEF Hangs
  <2>3. IsPath(Prefix(p, 0)) /\ Len(Prefix(p, 0)) = 0
    BY <1>2, <2>1, PrefixIs
  <2>4. Prefix(p, 0) = Root
    BY <2>3, RootIsPath, PathsEqual
  <2> QED
    BY <2>2, <2>4
<1> QED
  BY <1>3, <1>4

(***************************************************************************)
(* A context leads down one branch                                         *)
(***************************************************************************)
LEMMA AgreeingPrefix ==
  ASSUME NEW p, IsPath(p), NEW n \in 0..Len(p), NEW k
  PROVE  /\ Agrees(p, k) => Agrees(Prefix(p, n), k)
         /\ DimsOf(Prefix(p, n)) \subseteq DimsOf(p)
<1>1. /\ IsPath(Prefix(p, n)) /\ Len(Prefix(p, n)) = n
      /\ \A i \in 1..n : Prefix(p, n)[i] = p[i]
  BY PrefixIs
<1>2. DOMAIN Prefix(p, n) = 1..n /\ DOMAIN p = 1..Len(p) /\ Len(p) \in Nat
  BY <1>1 DEF IsPath
<1>3. 1..n \subseteq 1..Len(p)
  BY <1>2
<1> QED
  BY <1>1, <1>2, <1>3 DEF Agrees, DimsOf

LEMMA WalkClosed ==
  ASSUME NEW c, IsCache(c), NEW k, NEW ds, NEW p \in Walk(c, k, ds), NEW n \in 0..Len(p)
  PROVE  Prefix(p, n) \in Walk(c, k, ds)
<1>1. p \in DOMAIN c /\ IsPath(p) /\ Hangs(c, p) /\ Agrees(p, k) /\ Contains(ds, DimsOf(p))
  BY DEF Walk, IsCache
<1>2. Prefix(p, n) \in DOMAIN c
  <2>1. CASE n = Len(p)
    BY <1>1, <2>1, PrefixIs
  <2>2. CASE n # Len(p)
    <3>1. Len(p) \in Nat
      BY <1>1 DEF IsPath
    <3>2. n \in 0..(Len(p) - 1)
      BY <2>2, <3>1
    <3> QED
      BY <1>1, <3>2 DEF Hangs
  <2> QED
    BY <2>1, <2>2
<1>3. Agrees(Prefix(p, n), k) /\ DimsOf(Prefix(p, n)) \subseteq DimsOf(p)
  BY <1>1, AgreeingPrefix
<1> QED
  BY <1>1, <1>2, <1>3 DEF Walk, Contains

\* Two paths of one context are equal as far as both go
LEMMA OneBranch ==
  ASSUME NEW c, IsCache(c), NEW k, NEW p \in DOMAIN c, NEW q \in DOMAIN c,
         Agrees(p, k), Agrees(q, k), Len(p) <= Len(q)
  PROVE  Prefix(q, Len(p)) = p
<1>1. /\ IsPath(p) /\ IsPath(q) /\ Hangs(c, p) /\ Hangs(c, q)
      /\ Len(p) \in Nat /\ Len(q) \in Nat
  BY DEF IsCache, IsPath
<1> DEFINE Differ == {i \in 1..Len(p) : p[i] # q[i]}
<1>2. Differ = {}
  <2> SUFFICES ASSUME Differ # {}
               PROVE  FALSE
    OBVIOUS
  <2>1. PICK i \in Differ : \A j \in Differ : i <= j
    <3>1. Differ \subseteq Nat
      OBVIOUS
    <3> HIDE DEF Differ
    <3> QED
      BY <3>1, LeastOfNat
  <2> DEFINE n == i - 1
  <2>2. /\ i \in 1..Len(p) /\ i \in 1..Len(q) /\ p[i] # q[i]
        /\ n \in 0..(Len(p) - 1) /\ n \in 0..(Len(q) - 1)
        /\ n \in 0..Len(p) /\ n \in 0..Len(q) /\ n + 1 = i
    BY <1>1
  <2>3. \A j \in 1..n : p[j] = q[j]
    <3>1. ASSUME NEW j \in 1..n
          PROVE  j \in 1..Len(p) /\ ~(i <= j)
      BY <1>1, <2>2
    <3> QED
      BY <2>1, <3>1
  <2>4. Prefix(p, n) = Prefix(q, n)
    <3>1. /\ IsPath(Prefix(p, n)) /\ Len(Prefix(p, n)) = n
          /\ \A j \in 1..n : Prefix(p, n)[j] = p[j]
      BY <1>1, <2>2, PrefixIs
    <3>2. /\ IsPath(Prefix(q, n)) /\ Len(Prefix(q, n)) = n
          /\ \A j \in 1..n : Prefix(q, n)[j] = q[j]
      BY <1>1, <2>2, PrefixIs
    <3> QED
      BY <2>3, <3>1, <3>2, PathsEqual
  <2> HIDE DEF n
  <2>5. DOMAIN p[i] = DOMAIN q[i]
    BY <1>1, <2>2, <2>4 DEF Hangs
  <2>6. \A d \in DOMAIN p[i] : p[i][d] = q[i][d]
    <3>1. i \in DOMAIN p /\ i \in DOMAIN q
      BY <1>1, <2>2 DEF IsPath
    <3> QED
      BY <2>5, <3>1 DEF Agrees
  <2>7. IsStep(p[i]) /\ IsStep(q[i])
    BY <1>1, <2>2 DEF IsPath
  <2> QED
    BY <2>2, <2>5, <2>6, <2>7 DEF IsStep
<1>3. Len(p) \in 0..Len(q)
  BY <1>1
<1>4. /\ IsPath(Prefix(q, Len(p))) /\ Len(Prefix(q, Len(p))) = Len(p)
      /\ \A i \in 1..Len(p) : Prefix(q, Len(p))[i] = q[i]
  BY <1>1, <1>3, PrefixIs
<1> QED
  BY <1>1, <1>2, <1>4, PathsEqual

\* A walk that meets the root ends somewhere
LEMMA DeepestIs ==
  ASSUME NEW c, IsCache(c), NEW paths \in SUBSET DOMAIN c, paths # {}
  PROVE  /\ Deepest(paths) \in paths
         /\ \A q \in paths : Len(q) <= Len(Deepest(paths))
<1>1. \A p \in paths : Len(p) \in Nat
  BY DEF IsCache, IsPath
<1>2. PICK n \in Nat : \A p \in DOMAIN c : Len(p) <= n
  BY DEF IsCache, Shallow
<1> DEFINE short == {m \in Nat : \E p \in paths : Len(p) = n - m}
<1>3. short # {} /\ short \subseteq Nat
  <2>1. PICK p \in paths : TRUE
    OBVIOUS
  <2>2. n - Len(p) \in Nat /\ Len(p) = n - (n - Len(p))
    BY <1>1, <1>2
  <2> QED
    BY <2>2
<1>4. PICK m \in short : \A l \in short : m <= l
  <2> HIDE DEF short
  <2> QED
    BY <1>3, LeastOfNat
<1>5. PICK p \in paths : Len(p) = n - m
  OBVIOUS
<1>6. ASSUME NEW q \in paths
      PROVE  Len(q) <= Len(p)
  <2>1. n - Len(q) \in Nat /\ Len(q) = n - (n - Len(q))
    BY <1>1, <1>2
  <2>2. m <= n - Len(q)
    BY <1>4, <2>1
  <2> QED
    BY <1>1, <1>2, <1>5, <2>1, <2>2
<1> QED
  BY <1>6 DEF Deepest

LEMMA RootWalks ==
  ASSUME NEW c, IsCache(c), c # <<>>, NEW k, NEW ds
  PROVE  Root \in Walk(c, k, ds)
<1>1. Root \in DOMAIN c
  BY RootInCache
<1>2. DOMAIN Root = {}
  BY DEF Root
<1> QED
  BY <1>1, <1>2 DEF Walk, Agrees, Contains, DimsOf

\* The deepest of the entries met is the only one of its length
LEMMA DeepestOf ==
  ASSUME NEW c, IsCache(c), NEW k, NEW ds, NEW p \in Walk(c, k, ds),
         \A q \in Walk(c, k, ds) : Len(q) <= Len(p)
  PROVE  Deepest(Walk(c, k, ds)) = p
<1> DEFINE paths == Walk(c, k, ds)
           q == Deepest(paths)
<1>1. paths \in SUBSET DOMAIN c /\ paths # {} /\ \A u \in paths : Agrees(u, k)
  BY DEF Walk
<1> HIDE DEF paths
<1>2. q \in paths /\ \A u \in paths : Len(u) <= Len(q)
  BY <1>1, DeepestIs
<1> HIDE DEF q
<1>3. p \in paths /\ Len(q) <= Len(p)
  BY <1>2 DEF paths
<1>4. IsPath(p) /\ IsPath(q) /\ p \in DOMAIN c /\ q \in DOMAIN c
  BY <1>1, <1>2, <1>3 DEF IsCache
<1>5. Len(p) = Len(q) /\ Len(p) \in 0..Len(p)
  <2>1. Len(p) \in Nat /\ Len(q) \in Nat
    BY <1>4 DEF IsPath
  <2>2. Len(p) <= Len(q)
    BY <1>2, <1>3
  <2> QED
    BY <1>3, <2>1, <2>2
<1>6. Prefix(p, Len(q)) = q
  BY <1>1, <1>2, <1>3, <1>4, OneBranch
<1> QED
  BY <1>4, <1>5, <1>6, PrefixIs DEF q, paths

\* The entry where a walk ends
LEMMA WalkEnds ==
  ASSUME NEW c, IsCache(c), c # <<>>, NEW k, NEW ds
  PROVE  /\ Deepest(Walk(c, k, ds)) \in Walk(c, k, ds)
         /\ \A q \in Walk(c, k, ds) : Len(q) <= Len(Deepest(Walk(c, k, ds)))
<1>1. Walk(c, k, ds) \in SUBSET DOMAIN c /\ Walk(c, k, ds) # {}
  BY RootWalks DEF Walk
<1> QED
  BY <1>1, DeepestIs

LEMMA BelowIs ==
  ASSUME NEW p, IsPath(p), NEW dims, NEW k, Agrees(p, k)
  PROVE  /\ IsPath(Below(p, dims, k)) /\ Len(Below(p, dims, k)) = Len(p) + 1
         /\ Agrees(Below(p, dims, k), k)
         /\ DimsOf(Below(p, dims, k)) = DimsOf(p) \cup dims
         /\ Below(p, dims, k)[Len(p) + 1] = [d \in dims |-> Key(k[d])]
         /\ \A i \in 1..Len(p) : Below(p, dims, k)[i] = p[i]
         /\ \A n \in 0..Len(p) : Prefix(Below(p, dims, k), n) = Prefix(p, n)
<1> DEFINE s == [d \in dims |-> Key(k[d])]
           q == Append(p, s)
<1>1. IsStep(s) /\ DOMAIN s = dims /\ \A d \in dims : s[d] = Key(k[d])
  BY DEF IsStep
<1>2. q = Below(p, dims, k)
  BY DEF Below
<1> HIDE DEF s
<1>3. /\ IsPath(q) /\ Len(q) = Len(p) + 1
      /\ \A i \in 1..Len(p) : q[i] = p[i]
      /\ q[Len(p) + 1] = s
      /\ \A n \in 0..Len(p) : Prefix(q, n) = Prefix(p, n)
  BY <1>1, AppendIs
<1> HIDE DEF q
<1>4. Len(p) \in Nat /\ DOMAIN p = 1..Len(p) /\ DOMAIN q = 1..(Len(p) + 1)
  BY <1>3 DEF IsPath
<1>5. DOMAIN q = DOMAIN p \cup {Len(p) + 1}
  BY <1>4
<1>6. Agrees(q, k)
  BY <1>1, <1>3, <1>4, <1>5 DEF Agrees
<1>7. DimsOf(q) = DimsOf(p) \cup dims
  BY <1>1, <1>3, <1>4, <1>5 DEF DimsOf
<1> QED
  BY <1>2, <1>3, <1>6, <1>7 DEF s

\* Where a new entry goes
IsNew(c, p, k, ds) ==
  /\ p \notin DOMAIN c /\ IsPath(p) /\ Hangs(c, p) /\ Len(p) # 0
  /\ Agrees(p, k) /\ Contains(ds, DimsOf(p))
  /\ \A n \in 0..(Len(p) - 1) : Prefix(p, n) \in Walk(c, k, ds)

LEMMA NewEntry ==
  ASSUME NEW c, IsCache(c), c # <<>>, NEW k, NEW ds, NEW last,
         last = Deepest(Walk(c, k, ds)),
         c[last].content.kind = "level", Contains(ds, c[last].content.dims)
  PROVE  IsNew(c, Below(last, c[last].content.dims, k), k, ds)
<1> DEFINE dims == c[last].content.dims
           p == Below(last, dims, k)
<1>1. last \in Walk(c, k, ds) /\ \A q \in Walk(c, k, ds) : Len(q) <= Len(last)
  BY WalkEnds
<1>2. /\ last \in DOMAIN c /\ IsPath(last) /\ Hangs(c, last) /\ Len(last) \in Nat
      /\ Agrees(last, k) /\ Contains(ds, DimsOf(last))
  BY <1>1 DEF Walk, IsCache, IsPath
<1>3. /\ IsPath(p) /\ Len(p) = Len(last) + 1 /\ Agrees(p, k)
      /\ DimsOf(p) = DimsOf(last) \cup dims
      /\ p[Len(last) + 1] = [d \in dims |-> Key(k[d])]
      /\ \A i \in 1..Len(last) : p[i] = last[i]
      /\ \A n \in 0..Len(last) : Prefix(p, n) = Prefix(last, n)
  BY <1>2, BelowIs
<1>4. Contains(ds, DimsOf(p))
  BY <1>2, <1>3 DEF Contains
<1> HIDE DEF p
<1>5. p \notin DOMAIN c
  <2>1. ~(Len(p) <= Len(last))
    BY <1>2, <1>3
  <2> QED
    BY <1>1, <1>3, <1>4, <2>1 DEF Walk
<1>6. \A n \in 0..(Len(p) - 1) : Prefix(p, n) \in Walk(c, k, ds)
  <2>1. \A n \in 0..Len(last) : Prefix(last, n) \in Walk(c, k, ds)
    BY <1>1, WalkClosed
  <2> QED
    BY <1>2, <1>3, <2>1
<1>7. Hangs(c, p)
  <2> SUFFICES ASSUME NEW n \in 0..(Len(p) - 1)
               PROVE  /\ Prefix(p, n) \in DOMAIN c
                      /\ c[Prefix(p, n)].content.kind = "level"
                      /\ c[Prefix(p, n)].content.dims = DOMAIN p[n + 1]
    BY DEF Hangs
  <2>1. CASE n = Len(last)
    <3>1. n \in 0..Len(last) /\ Prefix(p, n) = Prefix(last, n) /\ Prefix(last, n) = last
      BY <1>2, <1>3, <2>1, PrefixIs
    <3>2. DOMAIN p[n + 1] = dims
      BY <1>3, <2>1
    <3> QED
      BY <1>2, <3>1, <3>2
  <2>2. CASE n # Len(last)
    <3>1. n \in 0..(Len(last) - 1) /\ n \in 0..Len(last) /\ n + 1 \in 1..Len(last)
      BY <1>2, <1>3, <2>2
    <3>2. Prefix(p, n) = Prefix(last, n) /\ p[n + 1] = last[n + 1]
      BY <1>3, <3>1
    <3> QED
      BY <1>2, <3>1, <3>2 DEF Hangs
  <2> QED
    BY <2>1, <2>2
<1>8. Len(p) # 0
  BY <1>2, <1>3
<1> QED
  BY <1>3, <1>4, <1>5, <1>6, <1>7, <1>8 DEF IsNew, p

(***************************************************************************)
(* What the operations do to a cache                                       *)
(***************************************************************************)
Kept(c, d) ==
  /\ DOMAIN c \subseteq DOMAIN d
  /\ \A p \in DOMAIN c : d[p].content = c[p].content

Ordered(c) == \A p, q \in DOMAIN c : IsPrefix(p, q) => c[p].age <= c[q].age

LEMMA EntryAged ==
  ASSUME NEW e, IsEntry(e), NEW a \in Nat
  PROVE  /\ IsEntry([e EXCEPT !.age = a])
         /\ [e EXCEPT !.age = a].content = e.content /\ [e EXCEPT !.age = a].age = a
<1>1. e = [content |-> e.content, age |-> e.age]
  BY DEF IsEntry
<1>2. [e EXCEPT !.age = a] = [content |-> e.content, age |-> a]
  BY <1>1
<1> QED
  BY <1>2 DEF IsEntry

\* Entries with the contents they had, and all above them, are a cache again
LEMMA SameShape ==
  ASSUME NEW c, IsCache(c), NEW d, d = [p \in DOMAIN d |-> d[p]],
         DOMAIN d \subseteq DOMAIN c,
         \A p \in DOMAIN d : IsEntry(d[p]) /\ d[p].content = c[p].content,
         \A p \in DOMAIN d : \A n \in 0..(Len(p) - 1) : Prefix(p, n) \in DOMAIN d
  PROVE  IsCache(d)
<1>1. IsFiniteSet(DOMAIN d)
  BY FS_Subset DEF IsCache
<1>2. Shallow(d)
  BY DEF IsCache, Shallow
<1>3. \A p \in DOMAIN d : IsPath(p) /\ Hangs(d, p) /\ d[p].content.kind # "demand"
  BY DEF IsCache, Hangs
<1> QED
  BY <1>1, <1>2, <1>3 DEF IsCache

LEMMA TouchIs ==
  ASSUME NEW c, IsCache(c), NEW met
  PROVE  /\ IsCache(Touch(c, met)) /\ Kept(c, Touch(c, met))
         /\ DOMAIN Touch(c, met) = DOMAIN c
         /\ \A p \in DOMAIN c :
              Touch(c, met)[p].age = IF p \in met THEN 0 ELSE c[p].age
<1> DEFINE d == Touch(c, met)
<1>1. /\ DOMAIN d = DOMAIN c /\ d = [p \in DOMAIN d |-> d[p]]
      /\ \A p \in DOMAIN c : d[p] = IF p \in met THEN [c[p] EXCEPT !.age = 0] ELSE c[p]
  BY DEF Touch
<1> HIDE DEF d
<1>2. ASSUME NEW p \in DOMAIN c
      PROVE  /\ IsEntry(d[p]) /\ d[p].content = c[p].content
             /\ d[p].age = IF p \in met THEN 0 ELSE c[p].age
  <2>1. IsEntry(c[p])
    BY DEF IsCache
  <2>2. /\ IsEntry([c[p] EXCEPT !.age = 0])
        /\ [c[p] EXCEPT !.age = 0].content = c[p].content
        /\ [c[p] EXCEPT !.age = 0].age = 0
    BY <2>1, EntryAged
  <2> QED
    BY <1>1, <2>1, <2>2
<1>3. \A p \in DOMAIN d : \A n \in 0..(Len(p) - 1) : Prefix(p, n) \in DOMAIN d
  BY <1>1 DEF IsCache, Hangs
<1>4. IsCache(d)
  BY <1>1, <1>2, <1>3, SameShape
<1> QED
  BY <1>1, <1>2, <1>4 DEF d, Kept

\* Touching a walk keeps the order of ages: what is above an entry of the walk
\* is of the walk too
LEMMA TouchOrdered ==
  ASSUME NEW c, IsCache(c), NEW k, NEW ds, Ordered(c)
  PROVE  Ordered(Touch(c, Walk(c, k, ds)))
<1> DEFINE met == Walk(c, k, ds)
           d == Touch(c, met)
<1>1. /\ DOMAIN d = DOMAIN c
      /\ \A p \in DOMAIN c : d[p].age = IF p \in met THEN 0 ELSE c[p].age
  BY TouchIs
<1> HIDE DEF d
<1>2. ASSUME NEW p \in DOMAIN c, NEW q \in DOMAIN c, IsPrefix(p, q)
      PROVE  d[p].age <= d[q].age
  <2>1. /\ IsPath(p) /\ IsPath(q) /\ Len(p) \in Nat /\ Len(q) \in Nat
        /\ c[p].age \in Nat /\ c[q].age \in Nat
    BY DEF IsCache, IsPath, IsEntry
  <2>2. Len(p) \in 0..Len(q) /\ Prefix(q, Len(p)) = p
    BY <1>2, <2>1 DEF IsPrefix, Prefix
  <2>3. q \in met => p \in met
    BY <2>2, WalkClosed
  <2>4. c[p].age <= c[q].age
    BY <1>2 DEF Ordered
  <2> QED
    BY <1>1, <2>1, <2>3, <2>4
<1> QED
  BY <1>1, <1>2 DEF Ordered, d

LEMMA WithIs ==
  ASSUME NEW c, IsCache(c), NEW p, p \notin DOMAIN c, IsPath(p), Hangs(c, p)
  PROVE  /\ IsCache(With(c, p, Entry(Calc))) /\ Kept(c, With(c, p, Entry(Calc)))
         /\ DOMAIN With(c, p, Entry(Calc)) = DOMAIN c \cup {p}
         /\ \A q \in DOMAIN c : With(c, p, Entry(Calc))[q] = c[q]
         /\ With(c, p, Entry(Calc))[p] = Entry(Calc)
<1> DEFINE d == With(c, p, Entry(Calc))
<1>1. /\ DOMAIN d = DOMAIN c \cup {p} /\ d = [q \in DOMAIN d |-> d[q]]
      /\ \A q \in DOMAIN c : d[q] = c[q]
      /\ d[p] = Entry(Calc)
  BY DEF With
<1> HIDE DEF d
<1>2. IsEntry(Entry(Calc)) /\ Entry(Calc).content.kind = "calc"
  BY DEF IsEntry, Entry, Calc
<1>3. IsFiniteSet(DOMAIN d)
  BY <1>1, FS_AddElement DEF IsCache
<1>4. Shallow(d)
  <2>1. PICK n \in Nat : \A q \in DOMAIN c : Len(q) <= n
    BY DEF IsCache, Shallow
  <2>2. Len(p) \in Nat /\ \A q \in DOMAIN c : Len(q) \in Nat
    BY DEF IsCache, IsPath
  <2>3. n + Len(p) \in Nat /\ Len(p) <= n + Len(p)
        /\ \A q \in DOMAIN c : Len(q) <= n + Len(p)
    BY <2>1, <2>2
  <2> QED
    BY <1>1, <2>3 DEF Shallow
<1>5. ASSUME NEW q \in DOMAIN d
      PROVE  IsPath(q) /\ Hangs(d, q) /\ IsEntry(d[q]) /\ d[q].content.kind # "demand"
  <2>1. IsPath(q) /\ Hangs(c, q)
    BY <1>1 DEF IsCache
  <2>2. Hangs(d, q)
    BY <1>1, <2>1 DEF Hangs
  <2> QED
    BY <1>1, <1>2, <2>1, <2>2 DEF IsCache
<1>6. IsCache(d)
  BY <1>1, <1>3, <1>4, <1>5 DEF IsCache
<1> QED
  BY <1>1, <1>6 DEF d, Kept

LEMMA WithOrdered ==
  ASSUME NEW c, IsCache(c), Ordered(c), NEW p, p \notin DOMAIN c, IsPath(p), Hangs(c, p),
         \A n \in 0..(Len(p) - 1) : c[Prefix(p, n)].age = 0
  PROVE  Ordered(With(c, p, Entry(Calc)))
<1>0. /\ IsCache(With(c, p, Entry(Calc))) /\ Kept(c, With(c, p, Entry(Calc)))
      /\ DOMAIN With(c, p, Entry(Calc)) = DOMAIN c \cup {p}
      /\ \A q \in DOMAIN c : With(c, p, Entry(Calc))[q] = c[q]
      /\ With(c, p, Entry(Calc))[p] = Entry(Calc)
  BY WithIs
<1> DEFINE d == With(c, p, Entry(Calc))
<1>1. /\ DOMAIN d = DOMAIN c \cup {p} /\ d[p] = Entry(Calc)
      /\ \A q \in DOMAIN c : d[q] = c[q]
  BY <1>0
<1> HIDE DEF d
<1>2. d[p].age = 0
  BY <1>1 DEF Entry
<1>3. ASSUME NEW u \in DOMAIN d, NEW q \in DOMAIN d, IsPrefix(u, q)
      PROVE  d[u].age <= d[q].age
  <2>1. /\ IsPath(u) /\ IsPath(q) /\ Len(u) \in Nat /\ Len(q) \in Nat /\ Hangs(c, q)
    BY <1>1 DEF IsCache, IsPath
  <2>2. Len(u) \in 0..Len(q) /\ Prefix(q, Len(u)) = u
    BY <1>3, <2>1 DEF IsPrefix, Prefix
  <2>3. Len(u) # Len(q) => Len(u) \in 0..(Len(q) - 1)
    BY <2>1, <2>2
  <2>4. Len(u) = Len(q) => u = q
    BY <2>1, <2>2, PrefixIs
  <2>5. CASE u \in DOMAIN c /\ q \in DOMAIN c
    BY <1>1, <1>3, <2>5 DEF Ordered
  <2>6. CASE q = p
    <3>1. d[u].age = 0
      BY <1>1, <1>2, <2>2, <2>3, <2>4, <2>6
    <3> QED
      BY <1>2, <2>6, <3>1
  <2>7. CASE u = p /\ q \in DOMAIN c
    BY <2>1, <2>2, <2>3, <2>4, <2>7 DEF Hangs
  <2> QED
    BY <1>1, <2>5, <2>6, <2>7
<1> QED
  BY <1>1, <1>3 DEF Ordered, d

LEMMA LargestOf ==
  ASSUME NEW S, IsFiniteSet(S), S \subseteq Int, S # {}
  PROVE  Largest(S) \in S /\ \A n \in S : n <= Largest(S)
<1> DEFINE HasLargest(T) == \E m \in T : \A n \in T : n <= m
           sizes == {Cardinality(T) : T \in {U \in SUBSET S : U # {} /\ ~HasLargest(U)}}
<1>1. sizes \subseteq Nat
  <2>1. \A T \in SUBSET S : Cardinality(T) \in Nat
    BY FS_Subset, FS_CardinalityType
  <2> QED
    BY <2>1
<1>2. sizes = {}
  <2> SUFFICES ASSUME sizes # {}
               PROVE  FALSE
    OBVIOUS
  <2>1. PICK least \in sizes : \A s \in sizes : least <= s
    <3> HIDE DEF sizes
    <3> QED
      BY <1>1, LeastOfNat
  <2>2. PICK T \in SUBSET S : T # {} /\ ~HasLargest(T) /\ least = Cardinality(T)
    BY <2>1
  <2>3. PICK a \in T : TRUE
    BY <2>2
  <2> DEFINE U == T \ {a}
  <2>4. IsFiniteSet(T) /\ U \in SUBSET S /\ T \in SUBSET S
    BY <2>2, FS_Subset
  <2>5. Cardinality(T) \in Nat /\ Cardinality(U) = Cardinality(T) - 1
    BY <2>3, <2>4, FS_RemoveElement, FS_CardinalityType
  <2>6. CASE U = {}
    <3>1. HasLargest(T)
      BY <2>3, <2>4, <2>6
    <3> QED
      BY <2>2, <3>1
  <2>7. CASE U # {} /\ HasLargest(U)
    <3>1. PICK m \in U : \A n \in U : n <= m
      BY <2>7
    <3>2. a \in Int /\ m \in Int /\ U \subseteq Int /\ a \in T /\ m \in T
      BY <2>2, <2>3, <2>4, <3>1
    <3>3. \A n \in T : n = a \/ n \in U
      OBVIOUS
    <3>4. CASE a <= m
      BY <2>2, <3>1, <3>2, <3>3, <3>4
    <3>5. CASE m < a
      <4>1. \A n \in T : n <= a
        BY <3>1, <3>2, <3>3, <3>5
      <4> QED
        BY <2>2, <3>2, <4>1
    <3> QED
      BY <3>2, <3>4, <3>5
  <2>8. CASE U # {} /\ ~HasLargest(U)
    <3>1. Cardinality(U) \in sizes
      BY <2>4, <2>8
    <3>2. least <= Cardinality(U)
      BY <2>1, <3>1
    <3> QED
      BY <2>2, <2>5, <3>2
  <2> QED
    BY <2>6, <2>7, <2>8
<1>3. HasLargest(S)
  BY <1>2
<1> QED
  BY <1>3 DEF Largest

LEMMA OlderIs ==
  ASSUME NEW c, IsCache(c), c # <<>>, NEW k, NEW ds, NEW r \in Int
  PROVE  Older(c, Walk(c, k, ds), r) \in Nat
<1> DEFINE met == Walk(c, k, ds)
           ages == {c[p].age : p \in met}
           S == ages \cup {r}
<1>1. met \in SUBSET DOMAIN c /\ Root \in met
  BY RootWalks DEF Walk
<1> HIDE DEF met
<1>2. \A p \in DOMAIN c : c[p].age \in Nat
  BY DEF IsCache, IsEntry
<1>3. IsFiniteSet(met)
  BY <1>1, FS_Subset DEF IsCache
<1>4. IsFiniteSet(ages)
  <2> DEFINE ageOf == [p \in met |-> c[p].age]
  <2>1. ageOf \in Surjection(met, ages)
    BY DEF Surjection
  <2> HIDE DEF ageOf, ages
  <2> QED
    BY <1>3, <2>1, FS_Surjection
<1>5. IsFiniteSet(S)
  BY <1>4, FS_AddElement
<1>6. S \subseteq Int /\ S # {} /\ c[Root].age \in S /\ c[Root].age \in Nat
  BY <1>1, <1>2
<1> HIDE DEF S
<1>7. Largest(S) \in Int /\ c[Root].age <= Largest(S)
  BY <1>5, <1>6, LargestOf
<1>8. Largest(S) \in Nat
  BY <1>6, <1>7
<1> QED
  BY <1>8 DEF Older, S, met

\* An empty cache; what Get makes of it
LEMMA EmptyCache ==
  /\ IsCache(<<>>) /\ Ordered(<<>>) /\ DOMAIN <<>> = {}
  /\ IsPath(Root) /\ Hangs(<<>>, Root)
<1>1. DOMAIN <<>> = {} /\ <<>> = [p \in {} |-> <<>>[p]]
  OBVIOUS
<1>2. IsFiniteSet({}) /\ Shallow(<<>>)
  BY <1>1, FS_EmptySet DEF Shallow
<1>3. Hangs(<<>>, Root)
  BY RootIsPath DEF Hangs
<1> QED
  BY <1>1, <1>2, <1>3, RootIsPath DEF IsCache, Ordered

\* An entry has been made, and marked as being computed
Marks(c, d, p, k, ds) ==
  /\ p \notin DOMAIN c /\ DOMAIN d = DOMAIN c \cup {p}
  /\ Agrees(p, k) /\ Contains(ds, DimsOf(p))
  /\ d[p].content = Calc

\* Of entries used in this instant, those below the root have a retirement age
\* to keep them
Young(c, r) == r \in Int /\ (r >= 0 \/ \A p \in DOMAIN c \ {Root} : c[p].age # 0)

GetKeeps(c, r, k, ds, got) ==
  /\ IsCache(got.cache) /\ Kept(c, got.cache) /\ Ordered(got.cache)
  /\ Young(got.cache, got.retirement)
  /\ IF got.value = Calc THEN \E p : Marks(c, got.cache, p, k, ds)
     ELSE DOMAIN got.cache = DOMAIN c

LEMMA GetEmpty ==
  ASSUME NEW k, NEW ds, NEW r \in Int
  PROVE  GetKeeps(<<>>, r, k, ds, Get(<<>>, r, k, ds))
<1> DEFINE d == With(<<>>, Root, Entry(Calc))
           got == Get(<<>>, r, k, ds)
<1>1. /\ IsCache(<<>>) /\ Ordered(<<>>) /\ DOMAIN <<>> = {}
      /\ IsPath(Root) /\ Hangs(<<>>, Root) /\ Root \notin DOMAIN <<>>
  BY EmptyCache
<1>2. /\ IsCache(d) /\ Kept(<<>>, d)
      /\ DOMAIN d = DOMAIN <<>> \cup {Root}
      /\ d[Root] = Entry(Calc)
  BY <1>1, WithIs
<1>3. Ordered(d)
  <2>1. \A n \in 0..(Len(Root) - 1) : <<>>[Prefix(Root, n)].age = 0
    BY RootIsPath
  <2> QED
    BY <1>1, <2>1, WithOrdered
<1>4. got = [value |-> Calc, cache |-> d, retirement |-> r]
  BY DEF Get
<1> HIDE DEF d, got
<1>5. Young(got.cache, got.retirement)
  BY <1>1, <1>2, <1>4 DEF Young
<1>6. Agrees(Root, k) /\ Contains(ds, DimsOf(Root))
  BY <1>1 DEF Root, Agrees, Contains, DimsOf
<1>7. Marks(<<>>, d, Root, k, ds)
  BY <1>1, <1>2, <1>6 DEF Marks, Entry
<1> QED
  BY <1>2, <1>3, <1>4, <1>5, <1>7 DEF GetKeeps, got

LEMMA GetIs ==
  ASSUME NEW c, IsCache(c), Ordered(c), NEW k, NEW ds, NEW r \in Int
  PROVE  GetKeeps(c, r, k, ds, Get(c, r, k, ds))
<1>1. CASE c = <<>>
  BY <1>1, GetEmpty
<1>2. CASE c # <<>>
  <2> DEFINE met == Walk(c, k, ds)
             last == Deepest(met)
             found == c[last].content
             value == Answer(found, ds)
             touched == Touch(c, met)
             got == Get(c, r, k, ds)
  <2>1. got = [value |-> value,
               cache |-> IF value = Calc THEN MarkCalc(touched, k, last, found.dims)
                         ELSE touched,
               retirement |-> Older(c, met, r)]
    BY <1>2 DEF Get
  <2>2. got.retirement \in Nat
    BY <1>2, <2>1, OlderIs
  <2>3. Young(got.cache, got.retirement)
    BY <2>2 DEF Young
  <2>4. /\ IsCache(touched) /\ Kept(c, touched) /\ DOMAIN touched = DOMAIN c
        /\ \A p \in DOMAIN c : touched[p].age = IF p \in met THEN 0 ELSE c[p].age
    BY TouchIs
  <2>5. Ordered(touched)
    BY TouchOrdered
  <2>6. CASE value # Calc
    <3> HIDE DEF value, touched, got
    <3>1. got.value = value /\ got.cache = touched
      BY <2>1, <2>6
    <3> QED
      BY <2>3, <2>4, <2>5, <2>6, <3>1 DEF GetKeeps, got
  <2>7. CASE value = Calc
    <3> DEFINE p == Below(last, found.dims, k)
               d == With(touched, p, Entry(Calc))
    <3>1. found.kind = "level" /\ Contains(ds, found.dims)
      <4>1. last \in DOMAIN c
        BY <1>2, WalkEnds DEF Walk
      <4>2. Calc.kind = "calc" /\ Special("sploop").kind = "special"
            /\ Demand(found.dims \ ds).kind = "demand"
        BY DEF Calc, Special, Demand
      <4> HIDE DEF found
      <4> QED
        BY <2>7, <4>2 DEF Answer
    <3>2. IsNew(c, p, k, ds)
      BY <1>2, <3>1, NewEntry
    <3>3. /\ p \notin DOMAIN c /\ IsPath(p) /\ Hangs(c, p) /\ Agrees(p, k)
          /\ Contains(ds, DimsOf(p))
          /\ \A n \in 0..(Len(p) - 1) : Prefix(p, n) \in met
      BY <3>2 DEF IsNew
    <3>4. got.value = Calc /\ got.cache = d
      BY <2>1, <2>7 DEF MarkCalc
    <3> HIDE DEF met, value, touched, got, p
    <3>5. Hangs(touched, p) /\ p \notin DOMAIN touched
      BY <2>4, <3>3 DEF Hangs, Kept
    <3>6. /\ IsCache(d) /\ Kept(touched, d) /\ DOMAIN d = DOMAIN touched \cup {p}
          /\ d[p] = Entry(Calc)
      BY <2>4, <3>3, <3>5, WithIs
    <3>7. \A n \in 0..(Len(p) - 1) : touched[Prefix(p, n)].age = 0
      BY <2>4, <3>3 DEF Hangs
    <3>8. Ordered(d)
      BY <2>4, <2>5, <3>3, <3>5, <3>7, WithOrdered
    <3> HIDE DEF d
    <3>9. Kept(c, d)
      BY <2>4, <3>6 DEF Kept
    <3>10. Marks(c, d, p, k, ds)
      BY <2>4, <3>3, <3>6 DEF Marks, Entry
    <3> QED
      BY <2>3, <3>4, <3>6, <3>8, <3>9, <3>10 DEF GetKeeps, got
  <2> QED
    BY <2>6, <2>7
<1> QED
  BY <1>1, <1>2

LEMMA EntrySet ==
  ASSUME NEW e, IsEntry(e), NEW v
  PROVE  /\ IsEntry([e EXCEPT !.content = v])
         /\ [e EXCEPT !.content = v].content = v /\ [e EXCEPT !.content = v].age = e.age
<1>1. e = [content |-> e.content, age |-> e.age]
  BY DEF IsEntry
<1>2. [e EXCEPT !.content = v] = [content |-> v, age |-> e.age]
  BY <1>1
<1> QED
  BY <1>2 DEF IsEntry

LEMMA StoredIs ==
  ASSUME NEW value
  PROVE  Stored(value).kind # "demand"
BY DEF Stored, Level

\* Where the walk of a context ends, whatever the delta
Mark(c, k) == Deepest(Walk(c, k, {Everything}))

\* Only what is no level may be overwritten: then nothing hangs in it
SetKeeps(c, k, value, d) ==
  /\ IsCache(d) /\ Ordered(d) /\ DOMAIN d = DOMAIN c
  /\ \A p \in DOMAIN c : d[p].age = c[p].age
  /\ \A p \in DOMAIN c \ {Mark(c, k)} : d[p].content = c[p].content
  /\ d[Mark(c, k)].content = Stored(value)

LEMMA SetIs ==
  ASSUME NEW c, IsCache(c), Ordered(c), NEW k, NEW value,
         Mark(c, k) \in DOMAIN c, c[Mark(c, k)].content.kind # "level"
  PROVE  SetKeeps(c, k, value, Set(c, k, value))
<1> DEFINE m == Mark(c, k)
           v == Stored(value)
           d == Set(c, k, value)
<1>1. d = [c EXCEPT ![m] = [c[m] EXCEPT !.content = v]]
  <2>1. \A a, b, u : [a EXCEPT ![b].content = u] = [a EXCEPT ![b] = [a[b] EXCEPT !.content = u]]
    OBVIOUS
  <2> QED
    BY <2>1 DEF Set, Mark
<1>2. v.kind # "demand"
  BY StoredIs
<1>3. m \in DOMAIN c /\ c[m].content.kind # "level"
  OBVIOUS
<1> HIDE DEF m, v, d
<1>4. IsEntry(c[m]) /\ c = [p \in DOMAIN c |-> c[p]]
  BY <1>3 DEF IsCache
<1>5. /\ IsEntry([c[m] EXCEPT !.content = v])
      /\ [c[m] EXCEPT !.content = v].content = v
      /\ [c[m] EXCEPT !.content = v].age = c[m].age
  BY <1>4, EntrySet
<1> DEFINE e == [c[m] EXCEPT !.content = v]
<1> HIDE DEF e
<1>6. /\ DOMAIN d = DOMAIN c /\ d = [p \in DOMAIN d |-> d[p]]
      /\ \A p \in DOMAIN c : d[p] = IF p = m THEN e ELSE c[p]
  <2>1. d = [c EXCEPT ![m] = e]
    BY <1>1 DEF e
  <2>2. d = [p \in DOMAIN c |-> IF p = m THEN e ELSE c[p]]
    BY <1>4, <2>1
  <2> QED
    BY <2>2
<1>7. \A p \in DOMAIN c : d[p].age = c[p].age
  BY <1>5, <1>6 DEF e
<1>8. ASSUME NEW p \in DOMAIN d
      PROVE  IsPath(p) /\ Hangs(d, p) /\ IsEntry(d[p]) /\ d[p].content.kind # "demand"
  <2>1. IsPath(p) /\ Hangs(c, p)
    BY <1>6 DEF IsCache
  <2>2. \A n \in 0..(Len(p) - 1) : Prefix(p, n) \in DOMAIN c /\ Prefix(p, n) # m
    BY <1>3, <2>1 DEF Hangs
  <2>3. Hangs(d, p)
    BY <1>6, <2>1, <2>2 DEF Hangs
  <2>4. IsEntry(d[p]) /\ d[p].content.kind # "demand"
    BY <1>2, <1>5, <1>6 DEF IsCache, e
  <2> QED
    BY <2>1, <2>3, <2>4
<1>9. IsCache(d)
  BY <1>6, <1>8 DEF IsCache, Shallow
<1>10. Ordered(d)
  BY <1>6, <1>7 DEF Ordered
<1>11. d[m].content = v /\ \A p \in DOMAIN c \ {m} : d[p].content = c[p].content
  BY <1>3, <1>5, <1>6 DEF e
<1> QED
  BY <1>6, <1>7, <1>9, <1>10, <1>11 DEF SetKeeps, m, v, d

LEMMA PrefixesAreOrdered ==
  ASSUME NEW p, IsPath(p), NEW q, IsPath(q), IsPrefix(p, q), NEW n \in 0..Len(p)
  PROVE  IsPrefix(Prefix(p, n), q)
<1>1. Len(p) \in Nat /\ Len(q) \in Nat /\ Len(p) <= Len(q) /\ Prefix(q, Len(p)) = p
  BY DEF IsPath, IsPrefix, Prefix
<1>2. Len(p) \in 0..Len(q) /\ n <= Len(q)
  BY <1>1
<1>3. Prefix(p, n) = Prefix(q, n)
  BY <1>1, <1>2, PrefixOfPrefix
<1>4. Len(Prefix(p, n)) = n
  BY PrefixIs
<1> QED
  BY <1>2, <1>3, <1>4 DEF IsPrefix, Prefix

\* What the collector leaves is a cache, older by one where it was looked at
CollectKeeps(c, r, d) ==
  /\ IsCache(d) /\ Ordered(d) /\ Young(d, r - 1)
  /\ DOMAIN d \subseteq DOMAIN c
  /\ \A p \in DOMAIN d : d[p].content = c[p].content
  /\ \A p \in DOMAIN c : c[p].age = 0 => p \in DOMAIN d

LEMMA CollectIs ==
  ASSUME NEW c, IsCache(c), Ordered(c), NEW r, Young(c, r)
  PROVE  CollectKeeps(c, r, GarbageCollect(c, r))
<1> DEFINE d == GarbageCollect(c, r)
           Goes(p) == Collectable(c, r, p)
<1>1. /\ DOMAIN d \subseteq DOMAIN c /\ d = [p \in DOMAIN d |-> d[p]]
      /\ \A p \in DOMAIN c : p \in DOMAIN d <=> p = Root \/ ~Goes(p)
      /\ \A p \in DOMAIN d : d[p] = IF Goes(p) THEN c[p] ELSE [c[p] EXCEPT !.age = @ + 1]
  BY DEF GarbageCollect
<1>2. \A p \in DOMAIN c : IsPath(p) /\ Len(p) \in Nat /\ Hangs(c, p) /\ c[p].age \in Nat
  BY DEF IsCache, IsPath, IsEntry
<1> HIDE DEF d
<1>3. ASSUME NEW p \in DOMAIN d
      PROVE  /\ IsEntry(d[p]) /\ d[p].content = c[p].content
             /\ d[p].age = IF Goes(p) THEN c[p].age ELSE c[p].age + 1
  <2>1. IsEntry(c[p]) /\ c[p].age + 1 \in Nat
    BY <1>1 DEF IsCache, IsEntry
  <2>2. /\ IsEntry([c[p] EXCEPT !.age = @ + 1])
        /\ [c[p] EXCEPT !.age = @ + 1].content = c[p].content
        /\ [c[p] EXCEPT !.age = @ + 1].age = c[p].age + 1
    BY <2>1, EntryAged
  <2> HIDE DEF Goes
  <2> QED
    BY <1>1, <2>1, <2>2
<1>4. ASSUME NEW p \in DOMAIN d, NEW n \in 0..(Len(p) - 1)
      PROVE  Prefix(p, n) \in DOMAIN d
  <2>1. /\ p \in DOMAIN c /\ IsPath(p) /\ n \in 0..Len(p) /\ Len(p) # 0
        /\ Prefix(p, n) \in DOMAIN c
    BY <1>1, <1>2 DEF Hangs
  <2>2. ~Goes(p)
    BY <1>1, <2>1, RootIsPath
  <2>3. PICK q \in DOMAIN c : IsPrefix(p, q) /\ ~(c[q].age > r)
    BY <2>2 DEF Collectable
  <2>4. IsPrefix(Prefix(p, n), q)
    BY <1>2, <2>1, <2>3, PrefixesAreOrdered
  <2>5. ~Goes(Prefix(p, n))
    BY <2>3, <2>4 DEF Collectable
  <2> QED
    BY <1>1, <2>1, <2>5
<1>5. IsCache(d)
  BY <1>1, <1>3, <1>4, SameShape
<1>6. ASSUME NEW p \in DOMAIN d, NEW q \in DOMAIN d, IsPrefix(p, q)
      PROVE  d[p].age <= d[q].age
  <2>1. /\ p \in DOMAIN c /\ q \in DOMAIN c /\ IsPath(p) /\ IsPath(q)
        /\ Len(p) \in Nat /\ Len(q) \in Nat /\ c[p].age \in Nat /\ c[q].age \in Nat
    BY <1>1, <1>2
  <2>2. c[p].age <= c[q].age
    BY <1>6, <2>1 DEF Ordered
  <2>3. CASE ~Goes(q)
    BY <1>3, <2>1, <2>2, <2>3
  <2>4. CASE Goes(q)
    <3>1. q = Root
      BY <1>1, <2>1, <2>4
    <3>2. Len(p) = Len(q)
      BY <1>6, <2>1, <3>1, RootIsPath DEF IsPrefix
    <3>3. p = q
      BY <2>1, <3>1, <3>2, RootIsPath, PathsEqual
    <3> QED
      BY <1>3, <2>1, <2>4, <3>3
  <2> QED
    BY <2>3, <2>4
<1>7. Ordered(d)
  BY <1>6 DEF Ordered
<1>8. Young(d, r - 1)
  <2>1. ASSUME NEW p \in DOMAIN d \ {Root}
        PROVE  d[p].age # 0
    <3>1. p \in DOMAIN c /\ ~Goes(p) /\ c[p].age \in Nat
      BY <1>1, <1>2
    <3> QED
      BY <1>3, <3>1
  <2>2. r - 1 \in Int
    BY DEF Young
  <2> QED
    BY <2>1, <2>2 DEF Young
<1>9. ASSUME NEW p \in DOMAIN c, c[p].age = 0
      PROVE  p \in DOMAIN d
  <2>1. CASE p = Root
    BY <1>1, <2>1
  <2>2. CASE p # Root
    <3>1. r \in Int /\ r >= 0
      BY <1>9, <2>2 DEF Young
    <3>2. IsPrefix(p, p)
      BY <1>2, PrefixIs DEF IsPrefix, Prefix
    <3>3. ~(c[p].age > r)
      BY <1>9, <3>1
    <3> QED
      BY <1>1, <3>2, <3>3 DEF Collectable
  <2> QED
    BY <2>1, <2>2
<1> QED
  BY <1>1, <1>3, <1>5, <1>7, <1>8, <1>9 DEF CollectKeeps, d

(***************************************************************************)
(* The calls: frames keep the context and the delta they will return to    *)
(***************************************************************************)
IsSeq(s) == Len(s) \in Nat /\ s = [i \in 1..Len(s) |-> s[i]]

IsFrame(f) == f = [fn |-> f.fn, of |-> f.of, delta |-> f.delta, kappa |-> f.kappa]

\* In the calls s, with context k and delta ds in force: the context and the
\* delta that frame i finds when the calls above it return
KappaAfter(s, k, i) == IF i = Len(s) THEN k ELSE s[i + 1].kappa
DeltaAfter(s, ds, i) == IF i = Len(s) THEN ds ELSE s[i + 1].delta

Plain == {"if", "bang", "at", "apply"}

FrameOK(s, k, ds, names, i) ==
  /\ IsFrame(s[i])
  /\ s[i].fn \in Plain \cup {"link", "cache", "perturbed"}
  /\ s[i].fn = "link" <=> i = 1
  /\ s[i].fn \in {"link", "cache"} => s[i].of \in names
  /\ s[i].fn # "perturbed" => KappaAfter(s, k, i) = s[i].kappa
  /\ s[i].fn \in Plain => DeltaAfter(s, ds, i) = s[i].delta
  /\ s[i].fn = "cache" => DeltaAfter(s, ds, i) \subseteq s[i].delta

FramesOK(s, k, ds, names) ==
  IsSeq(s) /\ \A i \in 1..Len(s) : FrameOK(s, k, ds, names, i)

\* Frame i is the same in the calls t, with context l and delta es in force
SameFrame(s, k, ds, t, l, es, i) ==
  /\ IsFrame(t[i]) /\ t[i].fn = s[i].fn
  /\ t[i].kappa = s[i].kappa /\ t[i].delta = s[i].delta
  /\ s[i].fn \in {"link", "cache"} => t[i].of = s[i].of
  /\ KappaAfter(t, l, i) = KappaAfter(s, k, i)
  /\ DeltaAfter(t, es, i) = DeltaAfter(s, ds, i)

LEMMA SeqIsSequence ==
  ASSUME NEW s, IsSeq(s)
  PROVE  \E S : s \in Seq(S)
<1> DEFINE S == {s[i] : i \in 1..Len(s)}
           n == Len(s)
<1>1. n \in Nat /\ s = [i \in 1..n |-> s[i]] /\ \A i \in 1..n : s[i] \in S
  BY DEF IsSeq
<1> HIDE DEF S, n
<1>2. s \in [1..n -> S]
  BY <1>1
<1>3. s \in Seq(S)
  BY <1>1, <1>2
<1> QED
  BY <1>3

LEMMA SequenceIsSeq ==
  ASSUME NEW S, NEW s \in Seq(S)
  PROVE  IsSeq(s)
BY DEF IsSeq

LEMMA PushIs ==
  ASSUME NEW s, IsSeq(s), NEW f
  PROVE  /\ IsSeq(Append(s, f)) /\ Len(Append(s, f)) = Len(s) + 1
         /\ \A i \in 1..Len(s) : Append(s, f)[i] = s[i]
         /\ Append(s, f)[Len(s) + 1] = f
<1>1. PICK S : s \in Seq(S)
  BY SeqIsSequence
<1>2. s \in Seq(S \cup {f}) /\ f \in S \cup {f}
  BY <1>1
<1>3. Append(s, f) \in Seq(S \cup {f})
  BY <1>2
<1>4. IsSeq(Append(s, f))
  BY <1>3, SequenceIsSeq
<1> QED
  BY <1>2, <1>4

LEMMA PopIs ==
  ASSUME NEW s, IsSeq(s), Len(s) # 0
  PROVE  /\ IsSeq(SubSeq(s, 1, Len(s) - 1)) /\ Len(SubSeq(s, 1, Len(s) - 1)) = Len(s) - 1
         /\ \A i \in 1..(Len(s) - 1) : SubSeq(s, 1, Len(s) - 1)[i] = s[i]
<1>1. PICK S : s \in Seq(S)
  BY SeqIsSequence
<1>2. SubSeq(s, 1, Len(s) - 1) \in Seq(S)
  BY <1>1
<1>3. IsSeq(SubSeq(s, 1, Len(s) - 1))
  BY <1>2, SequenceIsSeq
<1> QED
  BY <1>1, <1>3

\* The frame on top of what stays may take its place
LEMMA ReplaceIs ==
  ASSUME NEW s, IsSeq(s), Len(s) # 0, NEW f
  PROVE  LET t == Append(SubSeq(s, 1, Len(s) - 1), f)
         IN  /\ IsSeq(t) /\ Len(t) = Len(s) /\ t[Len(s)] = f
             /\ \A i \in 1..(Len(s) - 1) : t[i] = s[i]
<1> DEFINE u == SubSeq(s, 1, Len(s) - 1)
<1>1. /\ IsSeq(u) /\ Len(u) = Len(s) - 1 /\ Len(s) \in Nat
      /\ \A i \in 1..(Len(s) - 1) : u[i] = s[i]
  BY PopIs DEF IsSeq
<1> HIDE DEF u
<1>2. /\ IsSeq(Append(u, f)) /\ Len(Append(u, f)) = Len(u) + 1
      /\ \A i \in 1..Len(u) : Append(u, f)[i] = u[i]
      /\ Append(u, f)[Len(u) + 1] = f
  BY <1>1, PushIs
<1>3. Len(u) + 1 = Len(s)
  BY <1>1
<1> QED
  BY <1>1, <1>2, <1>3 DEF u

LEMMA FrameStays ==
  ASSUME NEW s, NEW k, NEW ds, NEW t, NEW l, NEW es, NEW names, NEW i,
         FrameOK(s, k, ds, names, i), SameFrame(s, k, ds, t, l, es, i)
  PROVE  FrameOK(t, l, es, names, i)
BY DEF FrameOK, SameFrame

\* Steps leave the frames below the top one as they are
LEMMA BelowStays ==
  ASSUME NEW s, NEW k, NEW ds, NEW t, NEW l, NEW es, NEW names,
         FramesOK(s, k, ds, names), IsSeq(t), NEW n \in Nat, n < Len(s), n < Len(t),
         \A i \in 1..n : t[i] = s[i],
         t[n + 1].kappa = s[n + 1].kappa,
         t[n + 1].delta = s[n + 1].delta
  PROVE  \A i \in 1..n : SameFrame(s, k, ds, t, l, es, i)
<1> SUFFICES ASSUME NEW i \in 1..n
             PROVE  SameFrame(s, k, ds, t, l, es, i)
  OBVIOUS
<1>1. Len(s) \in Nat /\ Len(t) \in Nat
  BY DEF FramesOK, IsSeq
<1>2. i \in 1..Len(s) /\ i # Len(s) /\ i # Len(t)
  BY <1>1
<1>3. t[i + 1].kappa = s[i + 1].kappa /\ t[i + 1].delta = s[i + 1].delta
  <2>1. i + 1 \in 1..n \/ i + 1 = n + 1
    OBVIOUS
  <2> QED
    BY <2>1
<1>4. t[i] = s[i] /\ IsFrame(s[i])
  BY <1>2 DEF FramesOK, FrameOK
<1>5. KappaAfter(t, l, i) = KappaAfter(s, k, i) /\ DeltaAfter(t, es, i) = DeltaAfter(s, ds, i)
  BY <1>2, <1>3 DEF KappaAfter, DeltaAfter
<1> QED
  BY <1>4, <1>5 DEF SameFrame

LEMMA PushKeeps ==
  ASSUME NEW s, NEW k, NEW ds, NEW es, NEW names, FramesOK(s, k, ds, names), Len(s) # 0,
         NEW f, IsFrame(f), f.fn \in Plain \cup {"cache"}, f.fn = "cache" => f.of \in names,
         f.kappa = k, f.delta = ds, f.fn # "cache" => es = ds,
         f.fn = "cache" => es \subseteq ds
  PROVE  LET t == Append(s, f)
         IN  /\ FramesOK(t, k, es, names) /\ Len(t) = Len(s) + 1 /\ t[Len(t)] = f
             /\ \A i \in 1..Len(s) : SameFrame(s, k, ds, t, k, es, i)
<1> DEFINE n == Len(s)
           t == Append(s, f)
<1>1. /\ IsSeq(t) /\ Len(t) = n + 1 /\ t[n + 1] = f
      /\ \A i \in 1..n : t[i] = s[i]
  BY PushIs DEF FramesOK
<1>2. n \in Nat /\ n # 0 /\ n = Len(s)
  BY DEF FramesOK, IsSeq
<1> HIDE DEF n, t
<1>3. SameFrame(s, k, ds, t, k, es, n)
  <2>1. n # Len(t) /\ n \in 1..Len(s) /\ t[n] = s[n]
    BY <1>1, <1>2
  <2>2. KappaAfter(t, k, n) = KappaAfter(s, k, n) /\ DeltaAfter(t, es, n) = DeltaAfter(s, ds, n)
    BY <1>1, <1>2, <2>1 DEF KappaAfter, DeltaAfter
  <2>3. IsFrame(s[n])
    BY <2>1 DEF FramesOK, FrameOK
  <2> QED
    BY <2>1, <2>2, <2>3 DEF SameFrame
<1>4. \A i \in 1..(n - 1) : SameFrame(s, k, ds, t, k, es, i)
  <2>1. n - 1 \in Nat /\ n - 1 < Len(s) /\ n - 1 < Len(t) /\ (n - 1) + 1 \in 1..n
    BY <1>1, <1>2
  <2>2. \A i \in 1..(n - 1) : t[i] = s[i]
    BY <1>1, <1>2
  <2> QED
    BY <1>1, <2>1, <2>2, BelowStays
<1>5. \A i \in 1..n : SameFrame(s, k, ds, t, k, es, i)
  BY <1>2, <1>3, <1>4
<1>6. \A i \in 1..n : FrameOK(t, k, es, names, i)
  BY <1>2, <1>5, FrameStays DEF FramesOK
<1>7. FrameOK(t, k, es, names, n + 1)
  <2>1. n + 1 # 1 /\ f.fn # "link" /\ f.fn # "perturbed" /\ (f.fn \in Plain => f.fn # "cache")
    BY <1>2 DEF Plain
  <2>2. KappaAfter(t, k, n + 1) = k /\ DeltaAfter(t, es, n + 1) = es
    BY <1>1 DEF KappaAfter, DeltaAfter
  <2> QED
    BY <1>1, <2>1, <2>2 DEF FrameOK
<1>8. \A i \in 1..Len(t) : FrameOK(t, k, es, names, i)
  <2>1. \A i \in 1..Len(t) : i \in 1..n \/ i = n + 1
    BY <1>1, <1>2
  <2> QED
    BY <1>6, <1>7, <2>1
<1>9. FramesOK(t, k, es, names)
  BY <1>1, <1>8 DEF FramesOK
<1>10. /\ FramesOK(t, k, es, names) /\ Len(t) = Len(s) + 1 /\ t[Len(t)] = f
       /\ \A i \in 1..Len(s) : SameFrame(s, k, ds, t, k, es, i)
  BY <1>1, <1>2, <1>5, <1>9
<1> QED
  BY <1>10 DEF t

\* What the top frame keeps, whether it is in force or not
LEMMA TopIs ==
  ASSUME NEW s, NEW k, NEW ds, NEW names, FramesOK(s, k, ds, names), Len(s) # 0,
         NEW top, top = s[Len(s)]
  PROVE  /\ Len(s) \in 1..Len(s) /\ FrameOK(s, k, ds, names, Len(s))
         /\ top.fn # "perturbed" => top.kappa = k
         /\ top.fn \in Plain => top.delta = ds
         /\ top.fn = "cache" => ds \subseteq top.delta
         /\ top.fn \in {"link", "cache"} => top.of \in names
         /\ IsFrame(top)
<1>1. Len(s) \in 1..Len(s)
  BY DEF FramesOK, IsSeq
<1>2. FrameOK(s, k, ds, names, Len(s))
  BY <1>1 DEF FramesOK
<1> QED
  BY <1>1, <1>2 DEF FrameOK, KappaAfter, DeltaAfter

LEMMA PopKeeps ==
  ASSUME NEW s, NEW k, NEW ds, NEW l, NEW es, NEW names, FramesOK(s, k, ds, names),
         Len(s) # 0, s[Len(s)].fn # "link", l = s[Len(s)].kappa, es = s[Len(s)].delta
  PROVE  LET t == SubSeq(s, 1, Len(s) - 1)
         IN  /\ FramesOK(t, l, es, names) /\ Len(t) = Len(s) - 1 /\ Len(t) # 0
             /\ \A i \in 1..(Len(s) - 1) : SameFrame(s, k, ds, t, l, es, i)
<1> DEFINE n == Len(s)
           t == SubSeq(s, 1, Len(s) - 1)
           m == n - 1
<1>1. /\ IsSeq(t) /\ Len(t) = n - 1
      /\ \A i \in 1..(n - 1) : t[i] = s[i]
  BY PopIs DEF FramesOK
<1>2. n \in Nat /\ n # 0 /\ n # 1 /\ n = Len(s)
  BY TopIs DEF FramesOK, IsSeq, FrameOK
<1> HIDE DEF n, t
<1>3. m \in Nat /\ m # 0 /\ m \in 1..n /\ m + 1 = n /\ Len(t) = m
  BY <1>1, <1>2
<1>4. \A i \in 1..m : t[i] = s[i]
  BY <1>1
<1> HIDE DEF m
<1>5. SameFrame(s, k, ds, t, l, es, m)
  <2>1. m = Len(t) /\ m # Len(s) /\ t[m] = s[m] /\ m \in 1..Len(s)
    BY <1>2, <1>3, <1>4
  <2>2. KappaAfter(t, l, m) = KappaAfter(s, k, m) /\ DeltaAfter(t, es, m) = DeltaAfter(s, ds, m)
    BY <1>2, <1>3, <2>1 DEF KappaAfter, DeltaAfter
  <2>3. IsFrame(s[m])
    BY <2>1 DEF FramesOK, FrameOK
  <2> QED
    BY <2>1, <2>2, <2>3 DEF SameFrame
<1>6. \A i \in 1..(m - 1) : SameFrame(s, k, ds, t, l, es, i)
  <2>1. m - 1 \in Nat /\ m - 1 < Len(s) /\ m - 1 < Len(t) /\ (m - 1) + 1 \in 1..m
    BY <1>2, <1>3
  <2>2. \A i \in 1..(m - 1) : t[i] = s[i]
    BY <1>3, <1>4
  <2> QED
    BY <1>1, <1>4, <2>1, <2>2, BelowStays
<1>7. \A i \in 1..m : SameFrame(s, k, ds, t, l, es, i)
  BY <1>3, <1>5, <1>6
<1>8. \A i \in 1..m : FrameOK(t, l, es, names, i)
  <2>1. \A i \in 1..m : i \in 1..Len(s)
    BY <1>2, <1>3
  <2> QED
    BY <1>7, <2>1, FrameStays DEF FramesOK
<1>9. FramesOK(t, l, es, names)
  BY <1>1, <1>3, <1>8 DEF FramesOK
<1>10. /\ FramesOK(t, l, es, names) /\ Len(t) = Len(s) - 1 /\ Len(t) # 0
       /\ \A i \in 1..(Len(s) - 1) : SameFrame(s, k, ds, t, l, es, i)
  BY <1>1, <1>2, <1>3, <1>7, <1>9 DEF m
<1> QED
  BY <1>10 DEF t

LEMMA ReplaceKeeps ==
  ASSUME NEW s, NEW k, NEW ds, NEW t, NEW l, NEW es, NEW names, FramesOK(s, k, ds, names),
         Len(s) # 0, s[Len(s)].fn \in Plain,
         NEW f, IsFrame(f), f.fn \in Plain \cup {"perturbed"}, f.kappa = k, f.delta = ds,
         f.fn # "perturbed" => l = k /\ es = ds,
         IsSeq(t), Len(t) = Len(s), t[Len(s)] = f, \A i \in 1..(Len(s) - 1) : t[i] = s[i]
  PROVE  /\ FramesOK(t, l, es, names)
         /\ \A i \in 1..(Len(s) - 1) : SameFrame(s, k, ds, t, l, es, i)
<1> DEFINE n == Len(s)
           m == n - 1
<1>1. n \in Nat /\ n # 0 /\ n # 1 /\ n = Len(s) /\ n = Len(t)
  BY TopIs DEF FramesOK, IsSeq, FrameOK, Plain
<1>2. s[n].kappa = k /\ s[n].delta = ds
  <2>1. s[n].fn # "perturbed"
    BY DEF Plain
  <2> QED
    BY <2>1, TopIs
<1>3. (\A i \in 1..(n - 1) : t[i] = s[i]) /\ t[n] = f
  OBVIOUS
<1> HIDE DEF n
<1>4. m \in Nat /\ m + 1 = n /\ m < n
  BY <1>1
<1>5. \A i \in 1..m : t[i] = s[i]
  BY <1>3
<1> HIDE DEF m
<1>6. \A i \in 1..m : SameFrame(s, k, ds, t, l, es, i)
  BY <1>1, <1>2, <1>3, <1>4, <1>5, BelowStays
<1>7. \A i \in 1..m : FrameOK(t, l, es, names, i)
  <2>1. \A i \in 1..m : i \in 1..Len(s)
    BY <1>1, <1>4
  <2> QED
    BY <1>6, <2>1, FrameStays DEF FramesOK
<1>8. FrameOK(t, l, es, names, n)
  <2>1. f.fn # "link" /\ f.fn # "cache" /\ (f.fn \in Plain => f.fn # "perturbed")
    BY DEF Plain
  <2>2. KappaAfter(t, l, n) = l /\ DeltaAfter(t, es, n) = es
    BY <1>1 DEF KappaAfter, DeltaAfter
  <2> QED
    BY <1>1, <1>3, <2>1, <2>2 DEF FrameOK
<1>9. \A i \in 1..Len(t) : FrameOK(t, l, es, names, i)
  <2>1. \A i \in 1..Len(t) : i \in 1..m \/ i = n
    BY <1>1, <1>4
  <2> QED
    BY <1>7, <1>8, <2>1
<1>10. FramesOK(t, l, es, names)
  BY <1>9 DEF FramesOK
<1> QED
  BY <1>6, <1>10 DEF m, n

(***************************************************************************)
(* The marks: every call that computes has an entry of its own, where the  *)
(* walk of its context ends                                                *)
(***************************************************************************)
CalcsOf(c) == {p \in DOMAIN c : c[p].content = Calc}

Computes(c, m, k, ds) == m \in CalcsOf(c) /\ Agrees(m, k) /\ Contains(ds, DimsOf(m))

LEMMA OneLeaf ==
  ASSUME NEW c, IsCache(c), NEW k, NEW p \in DOMAIN c, NEW q \in DOMAIN c,
         Agrees(p, k), Agrees(q, k), c[p].content.kind # "level", Len(p) <= Len(q)
  PROVE  p = q
<1>1. IsPath(p) /\ IsPath(q) /\ Hangs(c, q) /\ Len(p) \in Nat /\ Len(q) \in Nat
  BY DEF IsCache, IsPath
<1>2. Prefix(q, Len(p)) = p
  BY OneBranch
<1>3. CASE Len(p) = Len(q)
  <2>1. Len(q) \in 0..Len(q)
    BY <1>1
  <2> QED
    BY <1>1, <1>2, <1>3, <2>1, PrefixIs
<1>4. CASE Len(p) # Len(q)
  <2>1. Len(p) \in 0..(Len(q) - 1)
    BY <1>1, <1>4
  <2> QED
    BY <1>1, <1>2, <2>1 DEF Hangs
<1> QED
  BY <1>3, <1>4

LEMMA MarkIs ==
  ASSUME NEW c, IsCache(c), NEW m, NEW k, NEW ds, Computes(c, m, k, ds)
  PROVE  /\ m \in DOMAIN c /\ c # <<>> /\ c[m].content = Calc
         /\ Mark(c, k) = m /\ Deepest(Walk(c, k, ds)) = m
         /\ c[m].content.kind # "level"
<1>1. /\ m \in DOMAIN c /\ c[m].content = Calc /\ Agrees(m, k) /\ Contains(ds, DimsOf(m))
      /\ c[m].content.kind # "level" /\ c # <<>>
  BY DEF Computes, CalcsOf, Calc
<1>2. ASSUME NEW es, Contains(es, DimsOf(m))
      PROVE  Deepest(Walk(c, k, es)) = m
  <2>1. m \in Walk(c, k, es)
    BY <1>1, <1>2 DEF Walk
  <2>2. ASSUME NEW q \in Walk(c, k, es)
        PROVE  Len(q) <= Len(m)
    <3>1. q \in DOMAIN c /\ Agrees(q, k) /\ Len(q) \in Nat /\ Len(m) \in Nat
      BY <1>1 DEF Walk, IsCache, IsPath
    <3>2. Len(m) <= Len(q) => q = m
      BY <1>1, <3>1, OneLeaf
    <3> QED
      BY <3>1, <3>2
  <2> QED
    BY <2>1, <2>2, DeepestOf
<1>3. Contains({Everything}, DimsOf(m))
  BY DEF Contains
<1> QED
  BY <1>1, <1>2, <1>3 DEF Mark

LEMMA OneMark ==
  ASSUME NEW c, IsCache(c), NEW k, NEW m, NEW n, NEW ds, NEW es,
         Computes(c, m, k, ds), Computes(c, n, k, es)
  PROVE  m = n
<1>1. Mark(c, k) = m
  BY MarkIs
<1>2. Mark(c, k) = n
  BY MarkIs
<1> QED
  BY <1>1, <1>2

Inside(ctl) == ctl.do \in {"get", "finish"}

\* Frame i is a call of CacheWS that computes
Busy(s, ctl, i) == i \in 1..Len(s) /\ s[i].fn = "cache" /\ (i = Len(s) => ~Inside(ctl))

MarkedBy(s, k, ds, cs, i, m) ==
  Computes(cs[s[i].of], m, KappaAfter(s, k, i), DeltaAfter(s, ds, i))

MarksOK(s, k, ds, ctl, cs) ==
  /\ \A i : Busy(s, ctl, i) => \E m : MarkedBy(s, k, ds, cs, i, m)
  /\ \A i, j, m : Busy(s, ctl, i) /\ Busy(s, ctl, j) /\ i # j /\ s[i].of = s[j].of
       => ~(MarkedBy(s, k, ds, cs, i, m) /\ MarkedBy(s, k, ds, cs, j, m))

LEMMA MarksStay ==
  ASSUME NEW s, NEW k, NEW ds, NEW ctl, NEW cs, NEW t, NEW l, NEW es, NEW then, NEW news,
         MarksOK(s, k, ds, ctl, cs),
         \A i : Busy(t, then, i) => Busy(s, ctl, i) /\ SameFrame(s, k, ds, t, l, es, i),
         \A i : Busy(s, ctl, i) => CalcsOf(news[s[i].of]) = CalcsOf(cs[s[i].of])
  PROVE  MarksOK(t, l, es, then, news)
<1>1. ASSUME NEW i, Busy(t, then, i)
      PROVE  /\ Busy(s, ctl, i) /\ t[i].of = s[i].of
             /\ \A m : MarkedBy(t, l, es, news, i, m) <=> MarkedBy(s, k, ds, cs, i, m)
  <2>1. Busy(s, ctl, i) /\ SameFrame(s, k, ds, t, l, es, i)
    BY <1>1
  <2>2. /\ t[i].of = s[i].of /\ KappaAfter(t, l, i) = KappaAfter(s, k, i)
        /\ DeltaAfter(t, es, i) = DeltaAfter(s, ds, i)
    BY <2>1 DEF SameFrame, Busy
  <2>3. CalcsOf(news[s[i].of]) = CalcsOf(cs[s[i].of])
    BY <2>1
  <2> QED
    BY <2>1, <2>2, <2>3 DEF MarkedBy, Computes
<1>2. ASSUME NEW i, Busy(t, then, i)
      PROVE  \E m : MarkedBy(t, l, es, news, i, m)
  BY <1>1, <1>2 DEF MarksOK
<1>3. ASSUME NEW i, NEW j, NEW m, Busy(t, then, i), Busy(t, then, j), i # j, t[i].of = t[j].of
      PROVE  ~(MarkedBy(t, l, es, news, i, m) /\ MarkedBy(t, l, es, news, j, m))
  <2>1. Busy(s, ctl, i) /\ Busy(s, ctl, j) /\ s[i].of = s[j].of
    BY <1>1, <1>3
  <2>2. ~(MarkedBy(s, k, ds, cs, i, m) /\ MarkedBy(s, k, ds, cs, j, m))
    BY <1>3, <2>1 DEF MarksOK
  <2> QED
    BY <1>1, <1>3, <2>2
<1> QED
  BY <1>2, <1>3 DEF MarksOK

\* The innermost call ends its computation: it overwrites its own mark and no other
LEMMA MarkEnds ==
  ASSUME NEW s, NEW k, NEW ds, NEW ctl, NEW cs, NEW t, NEW l, NEW es, NEW then, NEW news,
         MarksOK(s, k, ds, ctl, cs), NEW n, Busy(s, ctl, n),
         NEW own, MarkedBy(s, k, ds, cs, n, own),
         \A i : Busy(t, then, i) =>
           Busy(s, ctl, i) /\ i # n /\ SameFrame(s, k, ds, t, l, es, i),
         \A i : Busy(s, ctl, i) =>
           IF s[i].of = s[n].of THEN CalcsOf(news[s[i].of]) \ {own} = CalcsOf(cs[s[i].of]) \ {own}
           ELSE CalcsOf(news[s[i].of]) = CalcsOf(cs[s[i].of])
  PROVE  MarksOK(t, l, es, then, news)
<1>1. ASSUME NEW i, Busy(t, then, i)
      PROVE  /\ Busy(s, ctl, i) /\ i # n /\ t[i].of = s[i].of
             /\ \A m : s[i].of # s[n].of \/ m # own =>
                  (MarkedBy(t, l, es, news, i, m) <=> MarkedBy(s, k, ds, cs, i, m))
             /\ s[i].of = s[n].of => ~MarkedBy(s, k, ds, cs, i, own)
  <2>1. Busy(s, ctl, i) /\ i # n /\ SameFrame(s, k, ds, t, l, es, i)
    BY <1>1
  <2>2. /\ t[i].of = s[i].of /\ KappaAfter(t, l, i) = KappaAfter(s, k, i)
        /\ DeltaAfter(t, es, i) = DeltaAfter(s, ds, i)
    BY <2>1 DEF SameFrame, Busy
  <2>3. IF s[i].of = s[n].of THEN CalcsOf(news[s[i].of]) \ {own} = CalcsOf(cs[s[i].of]) \ {own}
        ELSE CalcsOf(news[s[i].of]) = CalcsOf(cs[s[i].of])
    BY <2>1
  <2>4. s[i].of = s[n].of => ~MarkedBy(s, k, ds, cs, i, own)
    BY <2>1 DEF MarksOK
  <2>5. ASSUME NEW m, s[i].of # s[n].of \/ m # own
        PROVE  m \in CalcsOf(news[s[i].of]) <=> m \in CalcsOf(cs[s[i].of])
    BY <2>3, <2>5
  <2> QED
    BY <2>1, <2>2, <2>4, <2>5 DEF MarkedBy, Computes
<1>2. ASSUME NEW i, Busy(t, then, i)
      PROVE  \E m : MarkedBy(t, l, es, news, i, m)
  <2>1. PICK m : MarkedBy(s, k, ds, cs, i, m)
    BY <1>1, <1>2 DEF MarksOK
  <2>2. s[i].of # s[n].of \/ m # own
    BY <1>1, <1>2, <2>1
  <2> QED
    BY <1>1, <1>2, <2>1, <2>2
<1>3. ASSUME NEW i, NEW j, NEW m, Busy(t, then, i), Busy(t, then, j), i # j, t[i].of = t[j].of,
             MarkedBy(t, l, es, news, i, m), MarkedBy(t, l, es, news, j, m)
      PROVE  FALSE
  <2>1. Busy(s, ctl, i) /\ Busy(s, ctl, j) /\ s[i].of = s[j].of /\ j # n /\ i # n
    BY <1>1, <1>3
  <2>2. CASE s[i].of # s[n].of \/ m # own
    <3>1. MarkedBy(s, k, ds, cs, i, m) /\ MarkedBy(s, k, ds, cs, j, m)
      BY <1>1, <1>3, <2>1, <2>2
    <3> QED
      BY <1>3, <2>1, <3>1 DEF MarksOK
  <2>3. CASE s[i].of = s[n].of /\ m = own
    <3>1. SameFrame(s, k, ds, t, l, es, i)
      BY <1>3
    <3>2. own \in CalcsOf(cs[s[i].of])
      BY <2>3 DEF MarkedBy, Computes
    <3>3. MarkedBy(s, k, ds, cs, i, own)
      BY <1>3, <2>1, <2>3, <3>1, <3>2 DEF MarkedBy, Computes, SameFrame
    <3> QED
      BY <1>1, <1>3, <2>3, <3>3
  <2> QED
    BY <2>2, <2>3
<1> QED
  BY <1>2, <1>3 DEF MarksOK

\* The innermost call begins to compute: the entry made for it is nobody else's
LEMMA MarkBegins ==
  ASSUME NEW s, NEW k, NEW ds, NEW ctl, NEW cs, NEW then, NEW news, NEW n \in Nat, n = Len(s),
         MarksOK(s, k, ds, ctl, cs), ~Busy(s, ctl, n),
         \A i : Busy(s, then, i) => Busy(s, ctl, i) \/ i = n,
         NEW c, NEW d, c = cs[s[n].of], d = news[s[n].of],
         \A i : Busy(s, ctl, i) /\ s[i].of # s[n].of => news[s[i].of] = cs[s[i].of],
         IsCache(c), IsCache(d), Kept(c, d), NEW p, Marks(c, d, p, k, ds)
  PROVE  MarksOK(s, k, ds, then, news)
<1>1. CalcsOf(d) = CalcsOf(c) \cup {p} /\ p \notin DOMAIN c
  BY DEF CalcsOf, Kept, Marks
<1>2. MarkedBy(s, k, ds, news, n, p)
  BY <1>1 DEF MarkedBy, Computes, Marks, KappaAfter, DeltaAfter
<1>3. ASSUME NEW i, NEW m, Busy(s, ctl, i), MarkedBy(s, k, ds, cs, i, m)
      PROVE  MarkedBy(s, k, ds, news, i, m)
  <2>1. CalcsOf(cs[s[i].of]) \subseteq CalcsOf(news[s[i].of])
    BY <1>1, <1>3
  <2> QED
    BY <1>3, <2>1 DEF MarkedBy, Computes
<1>4. ASSUME NEW i, NEW m, Busy(s, ctl, i), MarkedBy(s, k, ds, news, i, m)
      PROVE  MarkedBy(s, k, ds, cs, i, m)
  <2>1. PICK q : MarkedBy(s, k, ds, cs, i, q)
    BY <1>4 DEF MarksOK
  <2>2. MarkedBy(s, k, ds, news, i, q)
    BY <1>3, <1>4, <2>1
  <2>3. CASE s[i].of = s[n].of
    <3>1. IsCache(news[s[i].of])
      BY <2>3
    <3>2. m = q
      BY <1>4, <2>2, <3>1, OneMark DEF MarkedBy
    <3> QED
      BY <2>1, <3>2
  <2>4. CASE s[i].of # s[n].of
    <3>1. news[s[i].of] = cs[s[i].of]
      BY <1>4, <2>4
    <3> QED
      BY <1>4, <3>1 DEF MarkedBy
  <2> QED
    BY <2>3, <2>4
<1>5. ASSUME NEW i, Busy(s, then, i)
      PROVE  \E m : MarkedBy(s, k, ds, news, i, m)
  BY <1>2, <1>3, <1>5 DEF MarksOK
<1>6. ASSUME NEW j, NEW m, Busy(s, ctl, j), s[j].of = s[n].of,
             MarkedBy(s, k, ds, news, n, m), MarkedBy(s, k, ds, news, j, m)
      PROVE  FALSE
  <2>1. MarkedBy(s, k, ds, cs, j, m)
    BY <1>4, <1>6
  <2>2. m \in DOMAIN c
    BY <1>6, <2>1 DEF MarkedBy, Computes, CalcsOf
  <2>3. m = p
    BY <1>2, <1>6, OneMark DEF MarkedBy
  <2> QED
    BY <1>1, <2>2, <2>3
<1>7. ASSUME NEW i, NEW j, NEW m, Busy(s, then, i), Busy(s, then, j), i # j, s[i].of = s[j].of,
             MarkedBy(s, k, ds, news, i, m), MarkedBy(s, k, ds, news, j, m)
      PROVE  FALSE
  <2>1. CASE i = n
    <3>1. Busy(s, ctl, j)
      BY <1>7, <2>1
    <3> QED
      BY <1>6, <1>7, <2>1, <3>1
  <2>2. CASE j = n
    <3>1. Busy(s, ctl, i)
      BY <1>7, <2>2
    <3> QED
      BY <1>6, <1>7, <2>2, <3>1
  <2>3. CASE i # n /\ j # n
    <3>1. Busy(s, ctl, i) /\ Busy(s, ctl, j)
      BY <1>7, <2>3
    <3>2. MarkedBy(s, k, ds, cs, i, m) /\ MarkedBy(s, k, ds, cs, j, m)
      BY <1>4, <1>7, <3>1
    <3> QED
      BY <1>7, <3>1, <3>2 DEF MarksOK
  <2> QED
    BY <2>1, <2>2, <2>3
<1> QED
  BY <1>5, <1>7 DEF MarksOK

(***************************************************************************)
(* The calls, step by step                                                 *)
(***************************************************************************)
ControlOK(ctl, s, names) ==
  /\ ctl.do \in {"idle", "eval", "call", "return", "get", "finish"}
  /\ ctl.do = "idle" <=> Len(s) = 0
  /\ Inside(ctl) => s[Len(s)].fn = "cache"
  /\ ctl.do = "call" => ctl.name \in names

CallsOK(s, k, ds, ctl, cs, names) ==
  /\ FramesOK(s, k, ds, names)
  /\ ControlOK(ctl, s, names)
  /\ MarksOK(s, k, ds, ctl, cs)

Goes(ctl, names) ==
  \/ ctl.do \in {"eval", "return"}
  \/ ctl.do = "call" /\ ctl.name \in names

LEMMA StayIs ==
  ASSUME NEW s, NEW k, NEW ds, NEW ctl, NEW cs, NEW names, CallsOK(s, k, ds, ctl, cs, names),
         Len(s) # 0, ~Inside(ctl), NEW then, Goes(then, names)
  PROVE  CallsOK(s, k, ds, then, cs, names)
<1>1. FramesOK(s, k, ds, names) /\ MarksOK(s, k, ds, ctl, cs)
  BY DEF CallsOK
<1>2. ControlOK(then, s, names)
  BY DEF ControlOK, Goes, Inside
<1>3. \A i : Busy(s, then, i) => Busy(s, ctl, i) /\ SameFrame(s, k, ds, s, k, ds, i)
  BY <1>1 DEF Busy, SameFrame, FramesOK, FrameOK
<1>4. MarksOK(s, k, ds, then, cs)
  BY <1>1, <1>3, MarksStay
<1> QED
  BY <1>1, <1>2, <1>4 DEF CallsOK

LEMMA CallIs ==
  ASSUME NEW s, NEW k, NEW ds, NEW ctl, NEW cs, NEW names, CallsOK(s, k, ds, ctl, cs, names),
         Len(s) # 0, ~Inside(ctl), NEW then, NEW es,
         NEW f, IsFrame(f), f.fn \in Plain \cup {"cache"}, f.fn = "cache" => f.of \in names,
         f.kappa = k, f.delta = ds,
         IF f.fn = "cache" THEN es \subseteq ds /\ Inside(then) ELSE es = ds /\ Goes(then, names)
  PROVE  CallsOK(Append(s, f), k, es, then, cs, names)
<1> DEFINE t == Append(s, f)
<1>1. FramesOK(s, k, ds, names) /\ MarksOK(s, k, ds, ctl, cs)
  BY DEF CallsOK
<1>2. /\ FramesOK(t, k, es, names) /\ Len(t) = Len(s) + 1 /\ t[Len(t)] = f
      /\ \A i \in 1..Len(s) : SameFrame(s, k, ds, t, k, es, i)
  <2>1. (f.fn # "cache" => es = ds) /\ (f.fn = "cache" => es \subseteq ds)
    OBVIOUS
  <2>2. IsFrame(f) /\ f.fn \in Plain \cup {"cache"} /\ (f.fn = "cache" => f.of \in names)
    OBVIOUS
  <2>3. f.kappa = k /\ f.delta = ds /\ Len(s) # 0
    OBVIOUS
  <2> HIDE DEF t
  <2>4. LET u == Append(s, f)
        IN  /\ FramesOK(u, k, es, names) /\ Len(u) = Len(s) + 1 /\ u[Len(u)] = f
            /\ \A i \in 1..Len(s) : SameFrame(s, k, ds, u, k, es, i)
    BY <1>1, <2>1, <2>2, <2>3, PushKeeps, Zenon
  <2> QED
    BY <2>4 DEF t
<1>3. Len(s) \in Nat
  BY <1>1 DEF FramesOK, IsSeq
<1> HIDE DEF t
<1>4. ControlOK(then, t, names)
  BY <1>2, <1>3 DEF ControlOK, Goes, Inside
<1>5. ASSUME NEW i, Busy(t, then, i)
      PROVE  Busy(s, ctl, i) /\ SameFrame(s, k, ds, t, k, es, i)
  <2>1. i # Len(t)
    BY <1>2, <1>5 DEF Busy, Plain
  <2>2. i \in 1..Len(s)
    BY <1>2, <1>3, <1>5, <2>1 DEF Busy
  <2> QED
    BY <1>2, <1>5, <2>2 DEF Busy, SameFrame
<1>6. MarksOK(t, k, es, then, cs)
  BY <1>1, <1>5, MarksStay
<1>7. CallsOK(t, k, es, then, cs, names)
  BY <1>2, <1>4, <1>6 DEF CallsOK
<1> QED
  BY <1>7 DEF t

LEMMA ReturnIs ==
  ASSUME NEW s, NEW k, NEW ds, NEW ctl, NEW cs, NEW names, CallsOK(s, k, ds, ctl, cs, names),
         Len(s) # 0, NEW then, then.do \in {"eval", "return"}, NEW l, NEW es,
         s[Len(s)].fn # "link", l = s[Len(s)].kappa, es = s[Len(s)].delta
  PROVE  CallsOK(SubSeq(s, 1, Len(s) - 1), l, es, then, cs, names)
<1> DEFINE t == SubSeq(s, 1, Len(s) - 1)
<1>1. FramesOK(s, k, ds, names) /\ MarksOK(s, k, ds, ctl, cs)
  BY DEF CallsOK
<1>2. /\ FramesOK(t, l, es, names) /\ Len(t) = Len(s) - 1 /\ Len(t) # 0
      /\ \A i \in 1..(Len(s) - 1) : SameFrame(s, k, ds, t, l, es, i)
  BY <1>1, PopKeeps
<1>3. Len(s) \in Nat
  BY <1>1 DEF FramesOK, IsSeq
<1> HIDE DEF t
<1>4. ControlOK(then, t, names)
  BY <1>2 DEF ControlOK, Inside
<1>5. ASSUME NEW i, Busy(t, then, i)
      PROVE  Busy(s, ctl, i) /\ SameFrame(s, k, ds, t, l, es, i)
  <2>1. i \in 1..(Len(s) - 1) /\ i \in 1..Len(s) /\ i # Len(s)
    BY <1>2, <1>3, <1>5 DEF Busy
  <2> QED
    BY <1>2, <1>5, <2>1 DEF Busy, SameFrame
<1>6. MarksOK(t, l, es, then, cs)
  BY <1>1, <1>5, MarksStay
<1>7. CallsOK(t, l, es, then, cs, names)
  BY <1>2, <1>4, <1>6 DEF CallsOK
<1> QED
  BY <1>7 DEF t

LEMMA TurnIs ==
  ASSUME NEW s, NEW k, NEW ds, NEW ctl, NEW cs, NEW names, CallsOK(s, k, ds, ctl, cs, names),
         Len(s) # 0, s[Len(s)].fn \in Plain, NEW t, NEW l, NEW es, NEW then, then.do = "eval",
         NEW f, IsFrame(f), f.fn \in Plain \cup {"perturbed"}, f.kappa = k, f.delta = ds,
         f.fn # "perturbed" => l = k /\ es = ds,
         IsSeq(t), Len(t) = Len(s), t[Len(s)] = f, \A i \in 1..(Len(s) - 1) : t[i] = s[i]
  PROVE  CallsOK(t, l, es, then, cs, names)
<1>1. FramesOK(s, k, ds, names) /\ MarksOK(s, k, ds, ctl, cs)
  BY DEF CallsOK
<1>2. /\ FramesOK(t, l, es, names)
      /\ \A i \in 1..(Len(s) - 1) : SameFrame(s, k, ds, t, l, es, i)
  BY <1>1, ReplaceKeeps
<1>3. Len(s) \in Nat
  BY <1>1 DEF FramesOK, IsSeq
<1>4. ControlOK(then, t, names)
  BY DEF ControlOK, Inside
<1>5. ASSUME NEW i, Busy(t, then, i)
      PROVE  Busy(s, ctl, i) /\ SameFrame(s, k, ds, t, l, es, i)
  <2>1. i # Len(s) /\ i \in 1..Len(s)
    BY <1>5 DEF Busy, Plain
  <2>2. i \in 1..(Len(s) - 1)
    BY <1>3, <2>1
  <2> QED
    BY <1>2, <1>5, <2>1, <2>2 DEF Busy, SameFrame
<1>6. MarksOK(t, l, es, then, cs)
  BY <1>1, <1>5, MarksStay
<1> QED
  BY <1>2, <1>4, <1>6 DEF CallsOK

LEMMA ContinueIs ==
  ASSUME NEW s, NEW k, NEW ds, NEW ctl, NEW cs, NEW names, CallsOK(s, k, ds, ctl, cs, names),
         Len(s) # 0, s[Len(s)].fn \in Plain, NEW t, NEW then, then.do = "eval",
         NEW f, IsFrame(f), f.fn \in Plain, f.kappa = k, f.delta = ds,
         IsSeq(t), Len(t) = Len(s), t[Len(s)] = f, \A i \in 1..(Len(s) - 1) : t[i] = s[i]
  PROVE  CallsOK(t, k, ds, then, cs, names)
BY TurnIs

\* The caches change, but no mark comes or goes
LEMMA SameCalcs ==
  ASSUME NEW s, NEW k, NEW ds, NEW ctl, NEW cs, NEW names, CallsOK(s, k, ds, ctl, cs, names),
         NEW news, \A x \in names : CalcsOf(news[x]) = CalcsOf(cs[x])
  PROVE  CallsOK(s, k, ds, ctl, news, names)
<1>1. FramesOK(s, k, ds, names) /\ MarksOK(s, k, ds, ctl, cs)
  BY DEF CallsOK
<1>2. \A i : Busy(s, ctl, i) => /\ SameFrame(s, k, ds, s, k, ds, i)
                                /\ s[i].of \in names
  BY <1>1 DEF Busy, SameFrame, FramesOK, FrameOK
<1>3. MarksOK(s, k, ds, ctl, news)
  BY <1>1, <1>2, MarksStay
<1> QED
  BY <1>1, <1>3 DEF CallsOK

\* CacheWS, inside its loop or behind it, may see any delta
LEMMA LookIs ==
  ASSUME NEW s, NEW k, NEW ds, NEW ctl, NEW cs, NEW names, CallsOK(s, k, ds, ctl, cs, names),
         Len(s) # 0, s[Len(s)].fn = "cache", NEW es, es \subseteq s[Len(s)].delta,
         NEW then, Inside(then)
  PROVE  CallsOK(s, k, es, then, cs, names)
<1>1. FramesOK(s, k, ds, names) /\ MarksOK(s, k, ds, ctl, cs) /\ Len(s) \in Nat
  BY DEF CallsOK, FramesOK, IsSeq
<1>2. \A i \in 1..Len(s) : i # Len(s) =>
        /\ KappaAfter(s, k, i) = KappaAfter(s, k, i)
        /\ DeltaAfter(s, es, i) = DeltaAfter(s, ds, i)
  BY DEF KappaAfter, DeltaAfter
<1>3. \A i \in 1..Len(s) : FrameOK(s, k, es, names, i)
  <2>1. "cache" \notin Plain
    BY DEF Plain
  <2>2. \A i \in 1..Len(s) : FrameOK(s, k, ds, names, i)
    BY <1>1 DEF FramesOK
  <2>3. FrameOK(s, k, es, names, Len(s))
    <3>1. Len(s) \in 1..Len(s) /\ DeltaAfter(s, es, Len(s)) = es
      BY <1>1 DEF DeltaAfter
    <3> QED
      BY <2>1, <2>2, <3>1 DEF FrameOK
  <2>4. \A i \in 1..Len(s) : i # Len(s) => FrameOK(s, k, es, names, i)
    BY <1>2, <2>2 DEF FrameOK
  <2> QED
    BY <2>3, <2>4
<1>4. FramesOK(s, k, es, names)
  BY <1>1, <1>3 DEF FramesOK
<1>5. \A i : Busy(s, then, i) => Busy(s, ctl, i) /\ SameFrame(s, k, ds, s, k, es, i)
  BY <1>1, <1>2 DEF Busy, SameFrame, FramesOK, FrameOK
<1>6. MarksOK(s, k, es, then, cs)
  BY <1>1, <1>5, MarksStay
<1>7. ControlOK(then, s, names)
  BY DEF ControlOK, Inside
<1> QED
  BY <1>4, <1>6, <1>7 DEF CallsOK

\* No call computes
LEMMA NoMarks ==
  ASSUME NEW s, NEW k, NEW ds, NEW ctl, NEW cs, \A i : ~Busy(s, ctl, i)
  PROVE  MarksOK(s, k, ds, ctl, cs)
BY DEF MarksOK

LEMMA NoCalls ==
  ASSUME NEW s, IsSeq(s), Len(s) = 0, NEW k, NEW ds, NEW ctl, ctl.do = "idle",
         NEW cs, NEW names
  PROVE  CallsOK(s, k, ds, ctl, cs, names)
<1>1. \A i : ~Busy(s, ctl, i)
  BY DEF Busy
<1>2. MarksOK(s, k, ds, ctl, cs)
  BY <1>1, NoMarks
<1>3. FramesOK(s, k, ds, names) /\ ControlOK(ctl, s, names)
  BY DEF FramesOK, ControlOK, Inside
<1> QED
  BY <1>2, <1>3 DEF CallsOK

\* The outermost frame, alone
LEMMA OnlyLink ==
  ASSUME NEW s, IsSeq(s), Len(s) = 1, IsFrame(s[1]), s[1].fn = "link",
         NEW k, s[1].kappa = k, NEW ds, NEW cs, NEW names, s[1].of \in names,
         NEW ctl, ctl.do = "call", ctl.name \in names
  PROVE  CallsOK(s, k, ds, ctl, cs, names)
<1>1. \A i : ~Busy(s, ctl, i)
  BY DEF Busy
<1>2. MarksOK(s, k, ds, ctl, cs)
  BY <1>1, NoMarks
<1>3. FramesOK(s, k, ds, names)
  BY DEF FramesOK, FrameOK, KappaAfter, Plain
<1>4. ControlOK(ctl, s, names)
  BY DEF ControlOK, Inside
<1> QED
  BY <1>2, <1>3, <1>4 DEF CallsOK

(***************************************************************************)
(* The state                                                               *)
(***************************************************************************)
CachesOK(cs, names) ==
  /\ cs = [x \in names |-> cs[x]]
  /\ \A x \in names : IsCache(cs[x]) /\ Ordered(cs[x])

RetirementsOK(cs, rs, names) ==
  /\ rs = [x \in names |-> rs[x]]
  /\ \A x \in names : Young(cs[x], rs[x])

Calls == CallsOK(stack, kappa, delta, control, caches, Name)

WarehouseInv ==
  /\ Calls
  /\ CachesOK(caches, Name)
  /\ RetirementsOK(caches, retirement, Name)
  /\ now \in Nat

LEMMA TopOf ==
  ASSUME Calls, Len(stack) # 0
  PROVE  /\ Top = stack[Len(stack)] /\ IsFrame(Top)
         /\ Top.fn # "perturbed" => Top.kappa = kappa
         /\ Top.fn \in Plain => Top.delta = delta
         /\ Top.fn = "cache" => delta \subseteq Top.delta
         /\ Top.fn \in {"link", "cache"} => Top.of \in Name
         /\ Top.fn = "link" => Len(stack) = 1
         /\ IsSeq(stack) /\ Len(stack) \in Nat
<1>1. FramesOK(stack, kappa, delta, Name)
  BY DEF Calls, CallsOK
<1>2. Top = stack[Len(stack)]
  BY DEF Top
<1>3. IsSeq(stack) /\ Len(stack) \in Nat
  BY <1>1 DEF FramesOK, IsSeq
<1>4. FrameOK(stack, kappa, delta, Name, Len(stack))
  BY <1>1, <1>2, TopIs
<1> QED
  BY <1>1, <1>2, <1>3, <1>4, TopIs DEF FrameOK

LEMMA Active ==
  ASSUME Calls
  PROVE  /\ control.do \in {"eval", "call", "return", "get", "finish"} => Len(stack) # 0
         /\ control.do \in {"eval", "call", "return"} => ~Inside(control)
         /\ control.do = "call" => control.name \in Name
         /\ Inside(control) => Top.fn = "cache"
BY DEF Calls, CallsOK, ControlOK, Inside, Top

LEMMA NamesStay ==
  ASSUME equations' = equations
  PROVE  Name' = Name
BY DEF Name

LEMMA Staying ==
  ASSUME Calls, control.do \in {"eval", "call", "return"}, UNCHANGED <<kappa, delta, stack>>,
         Local, Goes(control', Name)
  PROVE  Calls'
<1>1. Len(stack) # 0 /\ ~Inside(control)
  BY Active
<1>2. CallsOK(stack, kappa, delta, control', caches, Name)
  BY <1>1, StayIs DEF Calls
<1>3. Name' = Name
  BY NamesStay DEF Local
<1> QED
  BY <1>2, <1>3 DEF Calls, Local

LEMMA Calling ==
  ASSUME Calls, control.do \in {"eval", "call"}, NEW fn \in Plain \cup {"cache"}, NEW of,
         fn = "cache" => of \in Name,
         stack' = Push(Frame(fn, of)), kappa' = kappa, Local,
         IF fn = "cache" THEN delta' \subseteq delta /\ Inside(control')
         ELSE delta' = delta /\ Goes(control', Name)
  PROVE  Calls'
<1> DEFINE f == Frame(fn, of)
<1>1. Len(stack) # 0 /\ ~Inside(control)
  BY Active
<1>2. IsFrame(f) /\ f.fn = fn /\ f.of = of /\ f.kappa = kappa /\ f.delta = delta
  BY DEF IsFrame, Frame
<1>3. stack' = Append(stack, f)
  BY DEF Push
<1> HIDE DEF f
<1>4. CallsOK(Append(stack, f), kappa, delta', control', caches, Name)
  BY <1>1, <1>2, CallIs DEF Calls
<1>5. Name' = Name
  BY NamesStay DEF Local
<1> QED
  BY <1>3, <1>4, <1>5 DEF Calls, Local

LEMMA Returning ==
  ASSUME Calls, Len(stack) # 0, Top.fn # "link", stack' = Popped,
         kappa' = Top.kappa, delta' = Top.delta, control'.do \in {"eval", "return"},
         caches' = caches, equations' = equations
  PROVE  Calls'
<1>1. Top = stack[Len(stack)]
  BY TopOf
<1>2. CallsOK(SubSeq(stack, 1, Len(stack) - 1), kappa', delta', control', caches, Name)
  BY <1>1, ReturnIs DEF Calls
<1>3. Name' = Name
  BY NamesStay
<1> QED
  BY <1>2, <1>3 DEF Calls, Popped

LEMMA ReturningPlain ==
  ASSUME Calls, Len(stack) # 0, Top.fn \in Plain, stack' = Popped,
         UNCHANGED <<kappa, delta>>, control'.do \in {"eval", "return"}, Local
  PROVE  Calls'
<1>1. Top.fn # "link" /\ Top.fn # "perturbed"
  BY DEF Plain
<1>2. kappa' = Top.kappa /\ delta' = Top.delta
  BY <1>1, TopOf
<1> QED
  BY <1>1, <1>2, Returning DEF Local

LEMMA FrameOf ==
  ASSUME NEW top, IsFrame(top), NEW o
  PROVE  [top EXCEPT !.of = o]
           = [fn |-> top.fn, of |-> o, delta |-> top.delta, kappa |-> top.kappa]
<1>1. \A a, b, c, d, e :
        [[fn |-> a, of |-> b, delta |-> c, kappa |-> d] EXCEPT !.of = e]
          = [fn |-> a, of |-> e, delta |-> c, kappa |-> d]
  OBVIOUS
<1> DEFINE a == top.fn
           b == top.of
           c == top.delta
           d == top.kappa
<1>2. top = [fn |-> a, of |-> b, delta |-> c, kappa |-> d]
  BY DEF IsFrame
<1> HIDE DEF a, b, c, d
<1>3. [top EXCEPT !.of = o] = [fn |-> a, of |-> o, delta |-> c, kappa |-> d]
  BY <1>1, <1>2
<1> QED
  BY <1>3 DEF a, b, c, d

\* The next argument, or the next operand
LEMMA Continuing ==
  ASSUME Calls, Len(stack) # 0, Top.fn \in Plain, NEW done,
         stack' = [stack EXCEPT ![Len(stack)].of.done = done],
         UNCHANGED <<kappa, delta>>, control'.do = "eval", Local
  PROVE  Calls'
<1> DEFINE n == Len(stack)
           f == [Top EXCEPT !.of = [Top.of EXCEPT !.done = done]]
<1>1. /\ Top = stack[n] /\ IsFrame(Top) /\ Top.kappa = kappa /\ Top.delta = delta
      /\ IsSeq(stack) /\ n \in Nat /\ n # 0
  <2>1. Top.fn # "perturbed"
    BY DEF Plain
  <2> QED
    BY <2>1, TopOf
<1>2. f = [fn |-> Top.fn, of |-> [Top.of EXCEPT !.done = done],
           delta |-> Top.delta, kappa |-> Top.kappa]
  BY <1>1, FrameOf
<1>3. IsFrame(f) /\ f.fn = Top.fn /\ f.kappa = kappa /\ f.delta = delta
  BY <1>1, <1>2 DEF IsFrame
<1>4. stack' = [stack EXCEPT ![n] = f]
  <2>1. \A s, i, d : [s EXCEPT ![i].of.done = d]
                       = [s EXCEPT ![i] = [s[i] EXCEPT !.of = [s[i].of EXCEPT !.done = d]]]
    OBVIOUS
  <2> QED
    BY <1>1, <2>1
<1> HIDE DEF f
<1>5. /\ IsSeq(stack') /\ Len(stack') = n /\ stack'[n] = f
      /\ \A i \in 1..(n - 1) : stack'[i] = stack[i]
  <2>1. PICK S : stack \in Seq(S)
    BY <1>1, SeqIsSequence
  <2> DEFINE T == S \cup {f}
  <2>2. stack \in Seq(T) /\ f \in T
    BY <2>1
  <2> HIDE DEF T, n
  <2>3. \A s \in Seq(T) : \A i \in 1..Len(s) :
          /\ [s EXCEPT ![i] = f] \in Seq(T) /\ Len([s EXCEPT ![i] = f]) = Len(s)
          /\ [s EXCEPT ![i] = f][i] = f
          /\ \A j \in 1..(i - 1) : [s EXCEPT ![i] = f][j] = s[j]
    BY <2>2
  <2>4. n \in 1..Len(stack) /\ n = Len(stack)
    BY <1>1 DEF n
  <2>5. stack' \in Seq(T)
    BY <1>4, <2>2, <2>3, <2>4
  <2>6. IsSeq(stack')
    BY <2>5, SequenceIsSeq
  <2> QED
    BY <1>4, <2>2, <2>3, <2>4, <2>6
<1>6. CallsOK(stack', kappa, delta, control', caches, Name)
  <2>1. /\ CallsOK(stack, kappa, delta, control, caches, Name)
        /\ Len(stack) # 0 /\ stack[Len(stack)].fn \in Plain /\ f.fn \in Plain
        /\ Len(stack') = Len(stack) /\ stack'[Len(stack)] = f
        /\ \A i \in 1..(Len(stack) - 1) : stack'[i] = stack[i]
    BY <1>1, <1>3, <1>5 DEF Calls
  <2> QED
    BY <1>3, <1>5, <2>1, ContinueIs
<1>7. Name' = Name
  BY NamesStay DEF Local
<1> QED
  BY <1>6, <1>7 DEF Calls, Local

\* The body of a perturbation, or of a closure
LEMMA Entering ==
  ASSUME Calls, Len(stack) # 0, Top.fn \in Plain, NEW of,
         stack' = Append(Popped, Frame("perturbed", of)), control'.do = "eval", Local
  PROVE  Calls'
<1> DEFINE f == Frame("perturbed", of)
           n == Len(stack)
<1>1. /\ IsFrame(f) /\ f.fn = "perturbed" /\ f.kappa = kappa /\ f.delta = delta
  BY DEF IsFrame, Frame
<1>2. Top = stack[n] /\ IsSeq(stack) /\ n # 0
  BY TopOf
<1> HIDE DEF f
<1>3. /\ IsSeq(stack') /\ Len(stack') = n /\ stack'[n] = f
      /\ \A i \in 1..(n - 1) : stack'[i] = stack[i]
  <2> DEFINE t == Append(SubSeq(stack, 1, Len(stack) - 1), f)
  <2>1. stack' = t
    BY DEF Popped, f
  <2>2. /\ IsSeq(t) /\ Len(t) = Len(stack) /\ t[Len(stack)] = f
        /\ \A i \in 1..(Len(stack) - 1) : t[i] = stack[i]
    BY <1>2, ReplaceIs
  <2> HIDE DEF t
  <2> QED
    BY <2>1, <2>2
<1>4. CallsOK(stack', kappa', delta', control', caches, Name)
  BY <1>1, <1>2, <1>3, TurnIs DEF Calls
<1>5. Name' = Name
  BY NamesStay DEF Local
<1> QED
  BY <1>4, <1>5 DEF Calls, Local

LEMMA ControlIs ==
  /\ \A e : Eval(e).do = "eval"
  /\ \A x : Call(x).do = "call" /\ Call(x).name = x
  /\ \A c : Return(c).do = "return"
  /\ Looking.do = "get" /\ Finishing.do = "finish" /\ Idle.do = "idle"
  /\ Inside(Looking) /\ Inside(Finishing)
BY DEF Eval, Call, Return, Looking, Finishing, Idle, Inside

LEMMA EvalSteps ==
  ASSUME Calls,
         \/ EvalConst \/ EvalHash \/ EvalIdent \/ EvalIf \/ EvalBang \/ EvalAt
         \/ EvalAbstraction \/ EvalApply
  PROVE  Calls'
<1>1. CASE EvalConst
  <2>1. control.do = "eval" /\ UNCHANGED <<kappa, delta, stack>> /\ Local
    BY <1>1 DEF EvalConst, Evaluating, Yield
  <2>2. Goes(control', Name)
    BY <1>1, ControlIs DEF EvalConst, Yield, Goes
  <2> QED
    BY <2>1, <2>2, Staying
<1>2. CASE EvalHash
  <2>1. control.do = "eval" /\ UNCHANGED <<kappa, delta, stack>> /\ Local
    BY <1>2 DEF EvalHash, Evaluating, Yield
  <2>2. Goes(control', Name)
    BY <1>2, ControlIs DEF EvalHash, Yield, Goes
  <2> QED
    BY <2>1, <2>2, Staying
<1>3. CASE EvalIdent
  <2>1. control.do = "eval" /\ UNCHANGED <<kappa, delta, stack>> /\ Local
    BY <1>3 DEF EvalIdent, Evaluating
  <2>2. Goes(control', Name)
    BY <1>3, ControlIs DEF EvalIdent, Goes
  <2> QED
    BY <2>1, <2>2, Staying
<1>4. CASE EvalAbstraction
  <2>1. control.do = "eval" /\ UNCHANGED <<kappa, delta, stack>> /\ Local
    BY <1>4 DEF EvalAbstraction, Evaluating, Yield
  <2>2. Goes(control', Name)
    BY <1>4, ControlIs DEF EvalAbstraction, Yield, Goes
  <2> QED
    BY <2>1, <2>2, Staying
<1>5. CASE EvalIf
  <2>1. "if" \in Plain /\ "if" # "cache"
    BY DEF Plain
  <2>2. control.do = "eval" /\ UNCHANGED <<kappa, delta>> /\ Local
    BY <1>5 DEF EvalIf, Evaluating
  <2>3. \E of : stack' = Push(Frame("if", of))
    BY <1>5 DEF EvalIf
  <2>4. Goes(control', Name)
    BY <1>5, ControlIs DEF EvalIf, Goes
  <2> QED
    BY <2>1, <2>2, <2>3, <2>4, Calling
<1>6. CASE EvalBang
  <2>1. "bang" \in Plain /\ "bang" # "cache"
    BY DEF Plain
  <2>2. control.do = "eval" /\ UNCHANGED <<kappa, delta>> /\ Local
    BY <1>6 DEF EvalBang, Evaluating
  <2>3. \E of : stack' = Push(Frame("bang", of))
    BY <1>6 DEF EvalBang
  <2>4. Goes(control', Name)
    BY <1>6, ControlIs DEF EvalBang, Goes
  <2> QED
    BY <2>1, <2>2, <2>3, <2>4, Calling
<1>7. CASE EvalAt
  <2>1. "at" \in Plain /\ "at" # "cache"
    BY DEF Plain
  <2>2. control.do = "eval" /\ UNCHANGED <<kappa, delta>> /\ Local
    BY <1>7 DEF EvalAt, Evaluating
  <2>3. \E of : stack' = Push(Frame("at", of))
    BY <1>7 DEF EvalAt
  <2>4. Goes(control', Name)
    BY <1>7, ControlIs DEF EvalAt, Goes
  <2> QED
    BY <2>1, <2>2, <2>3, <2>4, Calling
<1>8. CASE EvalApply
  <2>1. "apply" \in Plain /\ "apply" # "cache"
    BY DEF Plain
  <2>2. control.do = "eval" /\ UNCHANGED <<kappa, delta>> /\ Local
    BY <1>8 DEF EvalApply, Evaluating
  <2>3. \E of : stack' = Push(Frame("apply", of))
    BY <1>8 DEF EvalApply
  <2>4. Goes(control', Name)
    BY <1>8, ControlIs DEF EvalApply, Goes
  <2> QED
    BY <2>1, <2>2, <2>3, <2>4, Calling
<1> QED
  BY <1>1, <1>2, <1>3, <1>4, <1>5, <1>6, <1>7, <1>8

LEMMA ReturnSteps ==
  ASSUME Calls,
         ReturnApply \/ ReturnIf \/ ReturnBang \/ ReturnAt \/ ReturnPerturbed
  PROVE  Calls'
<1>1. ASSUME NEW fn, ReturningTo(fn)
      PROVE  Len(stack) # 0 /\ Top.fn = fn
  BY <1>1, Active DEF ReturningTo
<1>2. "apply" \in Plain /\ "if" \in Plain /\ "bang" \in Plain /\ "at" \in Plain
  BY DEF Plain
<1>3. CASE ReturnIf
  <2>1. Len(stack) # 0 /\ Top.fn = "if" /\ Local
    BY <1>1, <1>3 DEF ReturnIf
  <2>2. stack' = Popped /\ UNCHANGED <<kappa, delta>>
    BY <1>3 DEF ReturnIf
  <2>3. control'.do \in {"eval", "return"}
    BY <1>3, ControlIs DEF ReturnIf
  <2> QED
    BY <1>2, <2>1, <2>2, <2>3, ReturningPlain
<1>4. CASE ReturnBang
  <2>1. Len(stack) # 0 /\ Top.fn = "bang" /\ Local /\ UNCHANGED <<kappa, delta>>
    BY <1>1, <1>4 DEF ReturnBang
  <2> DEFINE e == Top.of.expr
             done == Append(Top.of.done, control.value)
  <2>2. CASE Len(done) < Len(e.args)
    <3>1. /\ stack' = [stack EXCEPT ![Len(stack)].of.done = done]
          /\ control'.do = "eval"
      BY <1>4, <2>2, ControlIs DEF ReturnBang
    <3> HIDE DEF done
    <3> QED
      BY <1>2, <2>1, <3>1, Continuing
  <2>3. CASE ~(Len(done) < Len(e.args))
    <3>1. stack' = Popped /\ control'.do = "return"
      BY <1>4, <2>3, ControlIs DEF ReturnBang
    <3> QED
      BY <1>2, <2>1, <3>1, ReturningPlain
  <2> QED
    BY <2>2, <2>3
<1>5. CASE ReturnAt
  <2>1. Len(stack) # 0 /\ Top.fn = "at" /\ Local
    BY <1>1, <1>5 DEF ReturnAt
  <2>2. CASE \E c : Yield(c) /\ stack' = Popped
    <3>1. UNCHANGED <<kappa, delta>> /\ stack' = Popped /\ control'.do = "return"
      BY <2>2, ControlIs DEF Yield
    <3> QED
      BY <1>2, <2>1, <3>1, ReturningPlain
  <2>3. CASE stack' = Append(Popped, Frame("perturbed", Top.of)) /\ control' = Eval(Top.of.body)
    BY <1>2, <2>1, <2>3, Entering, ControlIs
  <2> QED
    BY <1>5, <2>2, <2>3 DEF ReturnAt
<1>6. CASE ReturnPerturbed
  <2>1. Len(stack) # 0 /\ Top.fn = "perturbed" /\ Local /\ control.do = "return"
    BY <1>1, <1>6 DEF ReturnPerturbed, ReturningTo
  <2>2. stack' = Popped /\ kappa' = Top.kappa /\ delta' = Top.delta /\ control' = control
    BY <1>6 DEF ReturnPerturbed
  <2> QED
    BY <2>1, <2>2, Returning DEF Local
<1>7. CASE ReturnApply
  <2>1. Len(stack) # 0 /\ Top.fn = "apply" /\ Local
    BY <1>1, <1>7 DEF ReturnApply
  <2> DEFINE e == Top.of.expr
             done == Append(Top.of.done, control.value)
  <2>2. CASE Len(done) < Len(e.of)
    <3>1. /\ stack' = [stack EXCEPT ![Len(stack)].of.done = done]
          /\ control'.do = "eval" /\ UNCHANGED <<kappa, delta>>
      BY <1>7, <2>2, ControlIs DEF ReturnApply
    <3> HIDE DEF done
    <3> QED
      BY <1>2, <2>1, <3>1, Continuing
  <2>3. CASE ~(Len(done) < Len(e.of))
    <3>1. ApplyNow(e.by, done)
      BY <1>7, <2>3 DEF ReturnApply
    <3> HIDE DEF done
    <3>2. CASE \E c : Answered(c)
      <4>1. UNCHANGED <<kappa, delta>> /\ stack' = Popped /\ control'.do = "return"
        BY <3>2, ControlIs DEF Yield, Answered
      <4> QED
        BY <1>2, <2>1, <4>1, ReturningPlain
    <3>3. CASE \E f, args : Enter(f, args)
      <4>1. stack' = Append(Popped, Frame("perturbed", Top.of.expr)) /\ control'.do = "eval"
        BY <3>3, ControlIs DEF Enter
      <4> QED
        BY <1>2, <2>1, <4>1, Entering
    <3> QED
      BY <3>1, <3>2, <3>3, Zenon DEF ApplyNow
  <2> QED
    BY <2>2, <2>3
<1> QED
  BY <1>3, <1>4, <1>5, <1>6, <1>7

LEMMA CallStep ==
  ASSUME Calls, CallCache
  PROVE  Calls'
<1>1. control.do = "call" /\ control.name \in Name
  BY Active DEF CallCache
<1>2. stack' = Push(Frame("cache", control.name)) /\ kappa' = kappa /\ Local
  BY DEF CallCache
<1>3. Inside(control') /\ delta' \subseteq delta
  BY ControlIs DEF CallCache
<1> QED
  BY <1>1, <1>2, <1>3, Calling

\* What is known stays, and no entry goes
Grown(cs, news, names) ==
  \A x \in names : \A p \in DOMAIN cs[x] :
    /\ p \in DOMAIN news[x]
    /\ cs[x][p].content # Calc => news[x][p].content = cs[x][p].content

Put(f, x, v) == [f EXCEPT ![x] = v]

LEMMA CachesChange ==
  ASSUME NEW cs, NEW rs, NEW names, CachesOK(cs, names), RetirementsOK(cs, rs, names),
         NEW x \in names, NEW d, IsCache(d), Ordered(d), NEW r, Young(d, r)
  PROVE  /\ CachesOK(Put(cs, x, d), names)
         /\ RetirementsOK(Put(cs, x, d), Put(rs, x, r), names)
         /\ Put(cs, x, d)[x] = d /\ \A y \in names \ {x} : Put(cs, x, d)[y] = cs[y]
<1> DEFINE news == Put(cs, x, d)
           older == Put(rs, x, r)
<1>1. /\ news = [y \in names |-> news[y]]
      /\ news[x] = d /\ \A y \in names \ {x} : news[y] = cs[y]
  BY DEF CachesOK, Put
<1>2. /\ older = [y \in names |-> older[y]]
      /\ older[x] = r /\ \A y \in names \ {x} : older[y] = rs[y]
  BY DEF RetirementsOK, Put
<1> HIDE DEF news, older
<1>3. CachesOK(news, names)
  BY <1>1 DEF CachesOK
<1>4. RetirementsOK(news, older, names)
  BY <1>1, <1>2 DEF RetirementsOK
<1>5. /\ CachesOK(news, names) /\ RetirementsOK(news, older, names)
      /\ news[x] = d /\ \A y \in names \ {x} : news[y] = cs[y]
  BY <1>1, <1>3, <1>4
<1> QED
  BY <1>5 DEF news, older

\* Cache::get of the innermost call, with the context and any delta
LEMMA GetChanges ==
  ASSUME WarehouseInv, NEW x \in Name, NEW ds, NEW got,
         got = Get(caches[x], retirement[x], kappa, ds), Keep(x, got), equations' = equations
  PROVE  /\ CachesOK(caches, Name)' /\ RetirementsOK(caches, retirement, Name)'
         /\ GetKeeps(caches[x], retirement[x], kappa, ds, got) /\ caches'[x] = got.cache
         /\ \A y \in Name \ {x} : caches'[y] = caches[y]
         /\ Grown(caches, caches', Name)
<1>1. CachesOK(caches, Name) /\ RetirementsOK(caches, retirement, Name)
  BY DEF WarehouseInv
<1>2. GetKeeps(caches[x], retirement[x], kappa, ds, got)
  BY <1>1, GetIs DEF CachesOK, RetirementsOK, Young
<1>3. /\ IsCache(got.cache) /\ Ordered(got.cache) /\ Kept(caches[x], got.cache)
      /\ Young(got.cache, got.retirement)
  BY <1>2 DEF GetKeeps
<1>4. caches' = Put(caches, x, got.cache) /\ retirement' = Put(retirement, x, got.retirement)
  BY DEF Keep, Put
<1>5. /\ CachesOK(caches', Name) /\ RetirementsOK(caches', retirement', Name)
      /\ caches'[x] = got.cache /\ \A y \in Name \ {x} : caches'[y] = caches[y]
  BY <1>1, <1>3, <1>4, CachesChange
<1>6. Grown(caches, caches', Name)
  BY <1>3, <1>5 DEF Grown, Kept
<1>7. Name' = Name
  BY NamesStay
<1> QED
  BY <1>2, <1>5, <1>6, <1>7

\* A get that starts no computation moves no mark
LEMMA GetFinds ==
  ASSUME WarehouseInv, NEW x \in Name, NEW ds, NEW got,
         got = Get(caches[x], retirement[x], kappa, ds), Keep(x, got), equations' = equations,
         got.value # Calc
  PROVE  CallsOK(stack, kappa, delta, control, caches', Name)
<1>1. /\ GetKeeps(caches[x], retirement[x], kappa, ds, got) /\ caches'[x] = got.cache
      /\ \A y \in Name \ {x} : caches'[y] = caches[y]
  BY GetChanges
<1>2. CalcsOf(caches'[x]) = CalcsOf(caches[x])
  BY <1>1 DEF GetKeeps, Kept, CalcsOf
<1>3. \A y \in Name : CalcsOf(caches'[y]) = CalcsOf(caches[y])
  BY <1>1, <1>2
<1> QED
  BY <1>3, SameCalcs DEF WarehouseInv, Calls

\* A demand within the loop, of calls that hold with the caches as they are now
LEMMA DemandIs ==
  ASSUME Calls, Len(stack) # 0, Top.fn = "cache", NEW ds, Demanded(ds),
         CallsOK(stack, kappa, delta, Looking, caches', Name),
         equations' = equations, kappa' = kappa
  PROVE  Calls'
<1>1. Top = stack[Len(stack)] /\ Top.kappa = kappa /\ delta \subseteq Top.delta
  BY TopOf
<1>2. Name' = Name
  BY NamesStay
<1>3. CASE delta' = Top.delta /\ stack' = Popped /\ control'.do = "return"
  <2>1. CallsOK(SubSeq(stack, 1, Len(stack) - 1), kappa, delta', control', caches', Name)
    BY <1>1, <1>3, ReturnIs
  <2> QED
    BY <1>2, <1>3, <2>1 DEF Calls, Popped
<1>4. CASE control' = Looking /\ stack' = stack /\ delta' = delta \cup ds /\ ds \ Top.delta = {}
  <2>1. CallsOK(stack, kappa, delta', control', caches', Name)
    BY <1>1, <1>4, LookIs, ControlIs
  <2> QED
    BY <1>2, <1>4, <2>1 DEF Calls
<1>5. \A c : Return(c).do = "return"
  BY ControlIs
<1> QED
  BY <1>3, <1>4, <1>5 DEF Demanded

LEMMA GetStep ==
  ASSUME WarehouseInv, CacheGet
  PROVE  WarehouseInv' /\ Grown(caches, caches', Name)
<1> DEFINE x == Top.of
           got == Get(caches[x], retirement[x], kappa, delta)
           n == Len(stack)
<1>1. /\ Calls /\ control = Looking /\ Inside(control) /\ Keep(x, got)
      /\ equations' = equations /\ kappa' = kappa /\ now' = now
  BY ControlIs DEF WarehouseInv, CacheGet, Outside
<1>2. n # 0 /\ Top.fn = "cache"
  BY <1>1, Active DEF Inside
<1>3. /\ Top = stack[n] /\ Top.kappa = kappa /\ x \in Name /\ IsSeq(stack) /\ n \in Nat
      /\ delta \subseteq Top.delta
  BY <1>1, <1>2, TopOf
<1> HIDE DEF got
<1>4. /\ CachesOK(caches, Name)' /\ RetirementsOK(caches, retirement, Name)'
      /\ GetKeeps(caches[x], retirement[x], kappa, delta, got) /\ caches'[x] = got.cache
      /\ \A y \in Name \ {x} : caches'[y] = caches[y]
      /\ Grown(caches, caches', Name)
  BY <1>1, <1>3, GetChanges DEF got
<1>5. Name' = Name
  BY <1>1, NamesStay
<1>6. CASE got.value = Calc /\ control' = Eval(equations[x]) /\ UNCHANGED <<delta, stack>>
  <2>1. PICK p : Marks(caches[x], got.cache, p, kappa, delta)
    BY <1>4, <1>6 DEF GetKeeps
  <2>2. /\ IsCache(caches[x]) /\ IsCache(got.cache) /\ Kept(caches[x], got.cache)
    BY <1>3, <1>4 DEF GetKeeps, WarehouseInv, CachesOK
  <2>3. FramesOK(stack, kappa, delta, Name) /\ MarksOK(stack, kappa, delta, control, caches)
    BY <1>1 DEF Calls, CallsOK
  <2>4. ~Busy(stack, control, n)
    BY <1>1 DEF Busy
  <2>5. ~Inside(control') /\ control'.do = "eval"
    BY <1>6, ControlIs DEF Inside
  <2>6. \A i : Busy(stack, control', i) => Busy(stack, control, i) \/ i = n
    BY DEF Busy
  <2>7. \A i : Busy(stack, control, i) /\ stack[i].of # stack[n].of
                 => caches'[stack[i].of] = caches[stack[i].of]
    BY <1>3, <1>4, <2>3 DEF Busy, FramesOK, FrameOK
  <2>8. MarksOK(stack, kappa, delta, control', caches')
    BY <1>3, <1>4, <2>1, <2>2, <2>3, <2>4, <2>6, <2>7, MarkBegins
  <2>9. ControlOK(control', stack, Name)
    BY <1>2, <2>5 DEF ControlOK
  <2>10. CallsOK(stack, kappa, delta, control', caches', Name)
    BY <2>3, <2>8, <2>9 DEF CallsOK
  <2>11. Calls'
    BY <1>1, <1>5, <1>6, <2>10 DEF Calls
  <2> QED
    BY <1>1, <1>4, <2>11 DEF WarehouseInv
<1>7. CASE got.value # Calc
  <2>1. CallsOK(stack, kappa, delta, control, caches', Name)
    BY <1>1, <1>3, <1>7, GetFinds DEF got
  <2>2. CASE Demanded(got.value.dims)
    <3>1. Calls'
      BY <1>1, <1>2, <2>1, <2>2, DemandIs
    <3> QED
      BY <1>1, <1>4, <3>1 DEF WarehouseInv
  <2>3. CASE control' = Finishing /\ UNCHANGED <<delta, stack>>
    <3>1. CallsOK(stack, kappa, delta, control', caches', Name)
      BY <1>2, <1>3, <2>1, <2>3, LookIs, ControlIs
    <3>2. Calls'
      BY <1>1, <1>5, <2>3, <3>1 DEF Calls
    <3> QED
      BY <1>1, <1>4, <3>2 DEF WarehouseInv
  <2> QED
    BY <1>7, <2>2, <2>3 DEF CacheGet, got
<1> QED
  BY <1>6, <1>7 DEF CacheGet, got, Calc

\* Entries that come without a call that computes take no mark away
LEMMA MarksGrow ==
  ASSUME NEW s, NEW k, NEW ds, NEW ctl, NEW cs, NEW news, MarksOK(s, k, ds, ctl, cs),
         \A i : Busy(s, ctl, i) => IsCache(news[s[i].of]) /\ Kept(cs[s[i].of], news[s[i].of])
  PROVE  MarksOK(s, k, ds, ctl, news)
<1>1. ASSUME NEW i, Busy(s, ctl, i), NEW m, MarkedBy(s, k, ds, cs, i, m)
      PROVE  MarkedBy(s, k, ds, news, i, m)
  <2>1. CalcsOf(cs[s[i].of]) \subseteq CalcsOf(news[s[i].of])
    BY <1>1 DEF CalcsOf, Kept
  <2> QED
    BY <1>1, <2>1 DEF MarkedBy, Computes
<1>2. ASSUME NEW i, Busy(s, ctl, i), NEW m, MarkedBy(s, k, ds, news, i, m)
      PROVE  MarkedBy(s, k, ds, cs, i, m)
  <2>1. PICK q : MarkedBy(s, k, ds, cs, i, q)
    BY <1>2 DEF MarksOK
  <2>2. MarkedBy(s, k, ds, news, i, q)
    BY <1>1, <1>2, <2>1
  <2>3. m = q
    BY <1>2, <2>2, OneMark DEF MarkedBy
  <2> QED
    BY <2>1, <2>3
<1>3. \A i : Busy(s, ctl, i) => \E m : MarkedBy(s, k, ds, news, i, m)
  BY <1>1 DEF MarksOK
<1>4. ASSUME NEW i, NEW j, NEW m, Busy(s, ctl, i), Busy(s, ctl, j), i # j, s[i].of = s[j].of
      PROVE  ~(MarkedBy(s, k, ds, news, i, m) /\ MarkedBy(s, k, ds, news, j, m))
  BY <1>2, <1>4 DEF MarksOK
<1> QED
  BY <1>3, <1>4 DEF MarksOK

LEMMA FinishStep ==
  ASSUME WarehouseInv, CacheFinish
  PROVE  WarehouseInv' /\ Grown(caches, caches', Name)
<1> DEFINE x == Top.of
           got == Get(caches[x], retirement[x], kappa, Top.delta)
<1>1. /\ Calls /\ control = Finishing /\ Inside(control) /\ Keep(x, got)
      /\ equations' = equations /\ kappa' = kappa /\ now' = now
      /\ stack' = Popped /\ delta' = Top.delta /\ control'.do = "return"
  BY ControlIs DEF WarehouseInv, CacheFinish, Outside
<1>2. Len(stack) # 0 /\ Top.fn = "cache"
  BY <1>1, Active DEF Inside
<1>3. Top = stack[Len(stack)] /\ Top.kappa = kappa /\ x \in Name
  BY <1>1, <1>2, TopOf
<1> HIDE DEF got
<1>4. /\ CachesOK(caches, Name)' /\ RetirementsOK(caches, retirement, Name)'
      /\ GetKeeps(caches[x], retirement[x], kappa, Top.delta, got) /\ caches'[x] = got.cache
      /\ \A y \in Name \ {x} : caches'[y] = caches[y]
      /\ Grown(caches, caches', Name)
  BY <1>1, <1>3, GetChanges DEF got
<1>5. Name' = Name
  BY <1>1, NamesStay
<1>6. \A y \in Name : IsCache(caches'[y]) /\ Kept(caches[y], caches'[y])
  BY <1>4 DEF GetKeeps, WarehouseInv, CachesOK, Kept
<1>7. FramesOK(stack, kappa, delta, Name) /\ MarksOK(stack, kappa, delta, control, caches)
  BY <1>1 DEF Calls, CallsOK
<1>8. \A i : Busy(stack, control, i) => stack[i].of \in Name
  BY <1>7 DEF Busy, FramesOK, FrameOK
<1>9. MarksOK(stack, kappa, delta, control, caches')
  BY <1>6, <1>7, <1>8, MarksGrow
<1>10. CallsOK(stack, kappa, delta, control, caches', Name)
  BY <1>1, <1>9 DEF Calls, CallsOK
<1>11. CallsOK(SubSeq(stack, 1, Len(stack) - 1), kappa, delta', control', caches', Name)
  BY <1>1, <1>2, <1>3, <1>10, ReturnIs
<1>12. Calls'
  BY <1>1, <1>5, <1>11 DEF Calls, Popped
<1> QED
  BY <1>1, <1>4, <1>12 DEF WarehouseInv

LEMMA SetStep ==
  ASSUME WarehouseInv, CacheSet
  PROVE  WarehouseInv' /\ Grown(caches, caches', Name)
<1> DEFINE x == Top.of
           value == control.value
           d == Set(caches[x], kappa, value)
           n == Len(stack)
<1>1. /\ Calls /\ control.do = "return" /\ Top.fn = "cache"
      /\ caches' = Put(caches, x, d) /\ retirement' = retirement
      /\ equations' = equations /\ kappa' = kappa /\ now' = now
  BY DEF WarehouseInv, CacheSet, Outside, ReturningTo, Put
<1>2. n # 0 /\ ~Inside(control)
  BY <1>1, Active
<1>3. /\ Top = stack[n] /\ Top.kappa = kappa /\ x \in Name /\ IsSeq(stack) /\ n \in Nat
      /\ delta \subseteq Top.delta
  BY <1>1, <1>2, TopOf
<1>4. /\ CachesOK(caches, Name) /\ RetirementsOK(caches, retirement, Name)
      /\ IsCache(caches[x]) /\ Ordered(caches[x]) /\ Young(caches[x], retirement[x])
  BY <1>3 DEF WarehouseInv, CachesOK, RetirementsOK
<1>5. FramesOK(stack, kappa, delta, Name) /\ MarksOK(stack, kappa, delta, control, caches)
  BY <1>1 DEF Calls, CallsOK
<1>6. Busy(stack, control, n)
  BY <1>1, <1>2, <1>3 DEF Busy
<1>7. PICK own : MarkedBy(stack, kappa, delta, caches, n, own)
  BY <1>5, <1>6 DEF MarksOK
<1>8. Computes(caches[x], own, kappa, delta)
  BY <1>3, <1>7 DEF MarkedBy, KappaAfter, DeltaAfter
<1>9. /\ own \in DOMAIN caches[x] /\ Mark(caches[x], kappa) = own
      /\ caches[x][own].content = Calc /\ caches[x][own].content.kind # "level"
  BY <1>4, <1>8, MarkIs
<1>10. SetKeeps(caches[x], kappa, value, d)
  BY <1>4, <1>9, SetIs
<1> HIDE DEF d, value
<1>11. /\ IsCache(d) /\ Ordered(d) /\ DOMAIN d = DOMAIN caches[x]
       /\ \A p \in DOMAIN d : d[p].age = caches[x][p].age
       /\ \A p \in DOMAIN d \ {own} : d[p].content = caches[x][p].content
  BY <1>9, <1>10 DEF SetKeeps
<1>12. Young(d, retirement[x])
  BY <1>4, <1>11 DEF Young
<1>13. /\ CachesOK(caches', Name) /\ caches'[x] = d
       /\ \A y \in Name \ {x} : caches'[y] = caches[y]
  BY <1>1, <1>3, <1>4, <1>11, <1>12, CachesChange
<1>14. RetirementsOK(caches', retirement', Name)
  BY <1>1, <1>3, <1>4, <1>12, <1>13 DEF RetirementsOK
<1>15. Grown(caches, caches', Name)
  BY <1>3, <1>9, <1>11, <1>13 DEF Grown
<1>16. Name' = Name
  BY <1>1, NamesStay
<1>17. CallsOK(stack, kappa, delta, Looking, caches', Name)
  <2>1. \A i : Busy(stack, Looking, i) =>
          /\ Busy(stack, control, i) /\ i # n
          /\ SameFrame(stack, kappa, delta, stack, kappa, delta, i)
    BY <1>2, <1>5, ControlIs DEF Busy, SameFrame, FramesOK, FrameOK
  <2>2. CalcsOf(caches'[x]) \ {own} = CalcsOf(caches[x]) \ {own}
    BY <1>11, <1>13 DEF CalcsOf
  <2>3. \A i : Busy(stack, control, i) => stack[i].of \in Name
    BY <1>5 DEF Busy, FramesOK, FrameOK
  <2>4. \A i : Busy(stack, control, i) =>
          IF stack[i].of = stack[n].of
          THEN CalcsOf(caches'[stack[i].of]) \ {own} = CalcsOf(caches[stack[i].of]) \ {own}
          ELSE CalcsOf(caches'[stack[i].of]) = CalcsOf(caches[stack[i].of])
    BY <1>3, <1>13, <2>2, <2>3
  <2>5. MarksOK(stack, kappa, delta, Looking, caches')
    BY <1>5, <1>6, <1>7, <2>1, <2>4, MarkEnds
  <2>6. ControlOK(Looking, stack, Name)
    BY <1>1, <1>2, <1>3, ControlIs DEF ControlOK
  <2> QED
    BY <1>5, <2>5, <2>6 DEF CallsOK
<1>18. CASE Demanded(value.dims)
  <2>1. Calls'
    BY <1>1, <1>2, <1>17, <1>18, DemandIs
  <2> QED
    BY <1>1, <1>13, <1>14, <1>15, <1>16, <2>1 DEF WarehouseInv
<1>19. CASE control' = Finishing /\ UNCHANGED <<delta, stack>>
  <2>1. CallsOK(stack, kappa, delta, control', caches', Name)
    BY <1>1, <1>2, <1>3, <1>17, <1>19, LookIs, ControlIs
  <2>2. Calls'
    BY <1>1, <1>16, <1>19, <2>1 DEF Calls
  <2> QED
    BY <1>1, <1>13, <1>14, <1>15, <1>16, <2>2 DEF WarehouseInv
<1> QED
  BY <1>18, <1>19 DEF CacheSet, value

LEMMA OneFrame ==
  ASSUME NEW f
  PROVE  IsSeq(<<f>>) /\ Len(<<f>>) = 1 /\ <<f>>[1] = f
BY DEF IsSeq

LEMMA NoFrame ==
  IsSeq(<<>>) /\ Len(<<>>) = 0
BY DEF IsSeq

LEMMA EmptyIs ==
  ASSUME NEW s, IsSeq(s), Len(s) = 0
  PROVE  s = <<>>
BY DEF IsSeq

\* Steps that leave the caches alone
LEMMA CachesStay ==
  ASSUME WarehouseInv, UNCHANGED <<equations, caches, retirement>>, Calls', now' \in Nat
  PROVE  WarehouseInv' /\ Grown(caches, caches', Name)
<1>1. Name' = Name
  BY NamesStay
<1>2. CachesOK(caches, Name)' /\ RetirementsOK(caches, retirement, Name)'
  BY <1>1 DEF WarehouseInv
<1> QED
  BY <1>2 DEF WarehouseInv, Grown

LEMMA ThrowStep ==
  ASSUME WarehouseInv, EvalThrows
  PROVE  WarehouseInv' /\ Grown(caches, caches', Name)
<1>1. /\ stack' = <<>> /\ control' = Idle /\ now' = now
      /\ UNCHANGED <<equations, caches, retirement>>
  BY DEF EvalThrows
<1>2. control'.do = "idle"
  BY <1>1, ControlIs
<1>3. CallsOK(<<>>, kappa', delta', control', caches', Name')
  BY <1>2, NoFrame, NoCalls
<1>4. Calls'
  BY <1>1, <1>3 DEF Calls
<1> QED
  BY <1>1, <1>4, CachesStay DEF WarehouseInv

LEMMA LinkStep ==
  ASSUME WarehouseInv, ReturnLink
  PROVE  WarehouseInv' /\ Grown(caches, caches', Name)
<1>1. /\ Calls /\ control.do = "return" /\ Top.fn = "link"
      /\ UNCHANGED <<equations, now, kappa, caches, retirement>>
  BY DEF WarehouseInv, ReturnLink, ReturningTo
<1>2. Len(stack) # 0
  BY <1>1, Active
<1>3. /\ Top = stack[1] /\ Top.kappa = kappa /\ Top.of \in Name /\ IsFrame(Top)
      /\ IsSeq(stack) /\ Len(stack) = 1
  BY <1>1, <1>2, TopOf
<1>4. Name' = Name
  BY <1>1, NamesStay
<1>5. CASE control' = Call(Top.of) /\ stack' = stack
  <2>1. control'.do = "call" /\ control'.name = Top.of
    BY <1>5, ControlIs
  <2>2. CallsOK(stack, kappa, delta', control', caches, Name)
    BY <1>1, <1>3, <2>1, OnlyLink
  <2>3. Calls'
    BY <1>1, <1>4, <1>5, <2>2 DEF Calls
  <2> QED
    BY <1>1, <2>3, CachesStay DEF WarehouseInv
<1>6. CASE control' = Idle /\ stack' = Popped
  <2>1. IsSeq(Popped) /\ Len(Popped) = 0
    <3>1. IsSeq(Popped) /\ Len(Popped) = Len(stack) - 1
      BY <1>2, <1>3, PopIs DEF Popped
    <3> QED
      BY <1>3, <3>1
  <2>2. control'.do = "idle"
    BY <1>6, ControlIs
  <2>3. CallsOK(Popped, kappa', delta', control', caches', Name')
    BY <2>1, <2>2, NoCalls
  <2>4. Calls'
    BY <1>6, <2>3 DEF Calls
  <2> QED
    BY <1>1, <2>4, CachesStay DEF WarehouseInv
<1> QED
  BY <1>5, <1>6 DEF ReturnLink

LEMMA AskStep ==
  ASSUME WarehouseInv, NEW x \in Name, NEW k, Ask(x, k)
  PROVE  WarehouseInv' /\ Grown(caches, caches', Name)
<1> DEFINE f == [fn |-> "link", of |-> x, delta |-> {}, kappa |-> k]
<1>1. /\ stack' = <<f>> /\ kappa' = k /\ control' = Call(x)
      /\ UNCHANGED <<equations, now, caches, retirement>>
  BY DEF Ask
<1>2. IsFrame(f) /\ f.fn = "link" /\ f.kappa = k /\ f.of = x
  BY DEF IsFrame
<1> HIDE DEF f
<1>3. control'.do = "call" /\ control'.name = x
  BY <1>1, ControlIs
<1>4. CallsOK(<<f>>, k, delta', control', caches, Name)
  BY <1>2, <1>3, OneFrame, OnlyLink
<1>5. Name' = Name
  BY <1>1, NamesStay
<1>6. Calls'
  BY <1>1, <1>4, <1>5 DEF Calls
<1> QED
  BY <1>1, <1>6, CachesStay DEF WarehouseInv

\* What the end of an instant does to the cache of x
Collects(x) ==
  \/ caches'[x] = caches[x]
  \/ CollectKeeps(caches[x], retirement[x], caches'[x])

LEMMA CollectStep ==
  ASSUME WarehouseInv, EndInstant
  PROVE  WarehouseInv' /\ \A x \in Name : Collects(x)
<1>1. /\ stack = <<>> /\ now' = now + 1 /\ UNCHANGED <<equations, stack, control>>
      /\ caches' = [x \in Name |->
           IF x \in Collected /\ caches[x] # <<>>
           THEN GarbageCollect(caches[x], retirement[x]) ELSE caches[x]]
      /\ retirement' = [x \in Name |->
           IF x \in Collected /\ caches[x] # <<>>
           THEN retirement[x] - 1 ELSE retirement[x]]
  BY DEF EndInstant
<1>2. Name' = Name
  BY <1>1, NamesStay
<1>3. now' \in Nat
  BY <1>1 DEF WarehouseInv
<1>4. ASSUME NEW x \in Name
      PROVE  /\ Collects(x)
             /\ IsCache(caches'[x]) /\ Ordered(caches'[x]) /\ Young(caches'[x], retirement'[x])
  <2>1. IsCache(caches[x]) /\ Ordered(caches[x]) /\ Young(caches[x], retirement[x])
    BY DEF WarehouseInv, CachesOK, RetirementsOK
  <2>2. CollectKeeps(caches[x], retirement[x], GarbageCollect(caches[x], retirement[x]))
    BY <2>1, CollectIs
  <2>3. CASE x \in Collected /\ caches[x] # <<>>
    <3>1. caches'[x] = GarbageCollect(caches[x], retirement[x])
          /\ retirement'[x] = retirement[x] - 1
      BY <1>1, <2>3
    <3> QED
      BY <2>2, <3>1 DEF CollectKeeps, Collects
  <2>4. CASE ~(x \in Collected /\ caches[x] # <<>>)
    <3>1. caches'[x] = caches[x] /\ retirement'[x] = retirement[x]
      BY <1>1, <2>4
    <3> QED
      BY <2>1, <3>1 DEF Collects
  <2> QED
    BY <2>3, <2>4
<1>5. caches' = [x \in Name |-> caches'[x]] /\ retirement' = [x \in Name |-> retirement'[x]]
  BY <1>1
<1>6. CachesOK(caches', Name) /\ RetirementsOK(caches', retirement', Name)
  BY <1>4, <1>5 DEF CachesOK, RetirementsOK
<1>7. control'.do = "idle"
  BY <1>1, NoFrame DEF WarehouseInv, Calls, CallsOK, ControlOK
<1>8. CallsOK(<<>>, kappa', delta', control', caches', Name')
  BY <1>7, NoFrame, NoCalls
<1>9. Calls'
  BY <1>1, <1>8 DEF Calls
<1> QED
  BY <1>2, <1>3, <1>4, <1>6, <1>9 DEF WarehouseInv

LEMMA WarehouseStarts ==
  ASSUME Init
  PROVE  WarehouseInv
<1>1. /\ stack = <<>> /\ control = Idle /\ now = 0
      /\ caches = [x \in Name |-> <<>>] /\ retirement = [x \in Name |-> 2]
  BY DEF Init
<1>2. control.do = "idle"
  BY <1>1, ControlIs
<1>3. CallsOK(<<>>, kappa, delta, control, caches, Name)
  BY <1>2, NoFrame, NoCalls
<1>4. Calls
  BY <1>1, <1>3 DEF Calls
<1>5. /\ IsCache(<<>>) /\ Ordered(<<>>)
  BY EmptyCache
<1>6. Young(<<>>, 2)
  BY DEF Young
<1>7. CachesOK(caches, Name)
  BY <1>1, <1>5 DEF CachesOK
<1>8. RetirementsOK(caches, retirement, Name)
  BY <1>1, <1>6 DEF RetirementsOK
<1> QED
  BY <1>1, <1>4, <1>7, <1>8 DEF WarehouseInv

LEMMA WarehouseKeeps ==
  ASSUME WarehouseInv, [Next]_vars
  PROVE  /\ WarehouseInv'
         /\ Grown(caches, caches', Name) \/ EndInstant
         /\ now' # now => EndInstant
<1>0. Calls
  BY DEF WarehouseInv
<1>1. CASE \/ EvalConst \/ EvalHash \/ EvalIdent \/ EvalIf \/ EvalBang \/ EvalAt
           \/ EvalAbstraction \/ EvalApply
  <2>1. Local
    BY <1>1 DEF EvalConst, EvalHash, EvalIdent, EvalIf, EvalBang, EvalAt,
                EvalAbstraction, EvalApply
  <2>2. Calls'
    BY <1>0, <1>1, EvalSteps
  <2> QED
    BY <2>1, <2>2, CachesStay DEF Local, WarehouseInv
<1>2. CASE ReturnApply \/ ReturnIf \/ ReturnBang \/ ReturnAt \/ ReturnPerturbed
  <2>1. Local
    BY <1>2 DEF ReturnApply, ReturnIf, ReturnBang, ReturnAt, ReturnPerturbed
  <2>2. Calls'
    BY <1>0, <1>2, ReturnSteps
  <2> QED
    BY <2>1, <2>2, CachesStay DEF Local, WarehouseInv
<1>3. CASE CallCache
  <2>1. Local
    BY <1>3 DEF CallCache
  <2>2. Calls'
    BY <1>0, <1>3, CallStep
  <2> QED
    BY <2>1, <2>2, CachesStay DEF Local, WarehouseInv
<1>4. CASE CacheGet
  BY <1>4, GetStep DEF CacheGet, Outside
<1>5. CASE CacheSet
  BY <1>5, SetStep DEF CacheSet, Outside
<1>6. CASE CacheFinish
  BY <1>6, FinishStep DEF CacheFinish, Outside
<1>7. CASE EvalThrows
  BY <1>7, ThrowStep DEF EvalThrows
<1>8. CASE ReturnLink
  BY <1>8, LinkStep DEF ReturnLink
<1>9. CASE \E x \in Name, k \in Context : Ask(x, k)
  BY <1>9, AskStep DEF Ask
<1>10. CASE EndInstant
  BY <1>10, CollectStep
<1>11. CASE UNCHANGED vars
  <2>1. UNCHANGED <<equations, now, kappa, delta, stack, control, caches, retirement>>
    BY <1>11 DEF vars
  <2>2. Name' = Name
    BY <2>1, NamesStay
  <2>3. Calls'
    BY <1>0, <2>1, <2>2 DEF Calls
  <2> QED
    BY <2>1, <2>3, CachesStay DEF WarehouseInv
<1> QED
  BY <1>1, <1>2, <1>3, <1>4, <1>5, <1>6, <1>7, <1>8, <1>9, <1>10, <1>11 DEF Next, Step

LEMMA WarehouseAlways == Spec => []WarehouseInv
<1>1. Init => WarehouseInv
  BY WarehouseStarts
<1>2. WarehouseInv /\ [Next]_vars => WarehouseInv'
  BY WarehouseKeeps
<1> QED
  BY <1>1, <1>2, PTL DEF Spec

(***************************************************************************)
(* The theorems                                                            *)
(***************************************************************************)
\* When an expression returns to CacheWS, the walk of Cache::set ends at the
\* calc its own get has made, whatever the evaluation below did to the cache:
\* no Cache error is thrown (cache.cpp), for any equations, base functions,
\* number of variables and depth of recursion.
THEOREM CalcIsThere == Spec => []CalcToOverwrite
<1>1. WarehouseInv => CalcToOverwrite
  <2> SUFFICES ASSUME WarehouseInv, control.do = "return", stack # <<>>, Top.fn = "cache"
               PROVE  /\ ~SetThrows(caches[Top.of], kappa)
                      /\ caches[Top.of][Mark(caches[Top.of], kappa)].content = Calc
                      /\ Mark(caches[Top.of], kappa)
                           = Deepest(Walk(caches[Top.of], kappa, delta))
    BY DEF CalcToOverwrite, Mark
  <2> DEFINE n == Len(stack)
  <2>1. Calls /\ CachesOK(caches, Name)
    BY DEF WarehouseInv
  <2>2. n # 0 /\ ~Inside(control)
    BY <2>1, Active
  <2>3. Top = stack[n] /\ Top.of \in Name /\ n \in Nat
    BY <2>1, <2>2, TopOf
  <2>4. Busy(stack, control, n)
    BY <2>2, <2>3 DEF Busy
  <2>5. PICK own : MarkedBy(stack, kappa, delta, caches, n, own)
    BY <2>1, <2>4 DEF Calls, CallsOK, MarksOK
  <2>6. Computes(caches[Top.of], own, kappa, delta)
    BY <2>3, <2>5 DEF MarkedBy, KappaAfter, DeltaAfter
  <2>7. IsCache(caches[Top.of])
    BY <2>1, <2>3 DEF CachesOK
  <2>8. /\ caches[Top.of] # <<>> /\ caches[Top.of][own].content = Calc
        /\ Mark(caches[Top.of], kappa) = own
        /\ Deepest(Walk(caches[Top.of], kappa, delta)) = own
        /\ caches[Top.of][own].content.kind # "level"
    BY <2>6, <2>7, MarkIs
  <2> QED
    BY <2>8 DEF SetThrows, Mark
<1> QED
  BY <1>1, WarehouseAlways, PTL

\* An entry is never older than one below it, through every get, set and
\* collection: a walk touches all it meets (get_cache_level_visitor).
THEOREM AgesAreOrdered == Spec => []AgesOrdered
<1>1. WarehouseInv => AgesOrdered
  BY DEF WarehouseInv, CachesOK, Ordered, AgesOrdered
<1> QED
  BY <1>1, WarehouseAlways, PTL

\* The value of an entry stays until Cache::garbageCollect takes the entry away
\* at the end of an instant, and a level keeps its dimensions: no set of one
\* call overwrites what another has stored.
THEOREM KnownStays == Spec => ValuesStay
<1>1. WarehouseInv /\ [Next]_vars =>
        [\A x \in Name : \A p \in DOMAIN caches[x] :
           LET content == caches[x][p].content
           IN  content # Calc =>
                 \/ p \in DOMAIN caches'[x] /\ caches'[x][p].content = content
                 \/ p \notin DOMAIN caches'[x] /\ now' # now]_vars
  <2> SUFFICES ASSUME WarehouseInv, [Next]_vars,
                      NEW x \in Name, NEW p \in DOMAIN caches[x],
                      caches[x][p].content # Calc
               PROVE  \/ p \in DOMAIN caches'[x] /\ caches'[x][p].content = caches[x][p].content
                      \/ p \notin DOMAIN caches'[x] /\ now' # now
    OBVIOUS
  <2>1. CASE Grown(caches, caches', Name)
    BY <2>1 DEF Grown
  <2>2. CASE EndInstant
    <3>1. now' # now
      BY <2>2 DEF EndInstant, WarehouseInv
    <3>2. Collects(x)
      BY <2>2, CollectStep
    <3> QED
      BY <3>1, <3>2 DEF Collects, CollectKeeps
  <2> QED
    BY <2>1, <2>2, WarehouseKeeps
<1> QED
  BY <1>1, WarehouseAlways, PTL DEF Spec, ValuesStay

\* Cache::garbageCollect at the end of an instant keeps every entry that was
\* used in it, whatever the retirement age has become.
THEOREM UsedStays == Spec => UsedIsKept
<1>1. WarehouseInv /\ [Next]_vars =>
        [now' # now =>
           \A x \in Name : \A p \in DOMAIN caches[x] :
             caches[x][p].age = 0 => p \in DOMAIN caches'[x]]_vars
  <2> SUFFICES ASSUME WarehouseInv, [Next]_vars, now' # now,
                      NEW x \in Name, NEW p \in DOMAIN caches[x], caches[x][p].age = 0
               PROVE  p \in DOMAIN caches'[x]
    OBVIOUS
  <2>1. EndInstant
    BY WarehouseKeeps
  <2>2. Collects(x)
    BY <2>1, CollectStep
  <2> QED
    BY <2>2 DEF Collects, CollectKeeps
<1> QED
  BY <1>1, WarehouseAlways, PTL DEF Spec, UsedIsKept

(***************************************************************************)
(* Types.  An answer is a value or a demand                                *)
(***************************************************************************)
IsAnswer(V, c) == IsValue(V, c) \/ (c.kind = "demand" /\ c.dims \subseteq Dims)

IsDelta(ds) == ds \subseteq Dims \cup {Everything}

\* What the operands of an application, so far evaluated, are
Operands(V, of, op) ==
  /\ of = [expr |-> of.expr, done |-> of.done]
  /\ of.expr \in Expression /\ of.expr.op = op
  /\ IsSeq(of.done) /\ \A i \in 1..Len(of.done) : IsAnswer(V, of.done[i])

FrameTyped(V, f) ==
  /\ IsContext(V, f.kappa) /\ IsDelta(f.delta)
  /\ f.fn \in {"if", "at"} => f.of \in Expression /\ f.of.op = f.fn
  /\ f.fn \in {"bang", "apply"} => Operands(V, f.of, f.fn)

ControlTyped(V, ctl) ==
  /\ ctl.do = "eval" => ctl.expr \in Expression
  /\ ctl.do = "return" => IsAnswer(V, ctl.value)

IsContent(V, content) ==
  \/ IsValue(V, content) \/ content = Calc
  \/ content = Level(content.dims) /\ content.dims \subseteq Dims

CacheTyped(V, c) == \A p \in DOMAIN c : IsContent(V, c[p].content)

Typed(V, k, ds, s, ctl, cs, names) ==
  /\ Closures(V) /\ IsContext(V, k) /\ IsDelta(ds)
  /\ \A i \in 1..Len(s) : FrameTyped(V, s[i])
  /\ ControlTyped(V, ctl)
  /\ \A x \in names : CacheTyped(V, cs[x])

TypedNow(V) == Typed(V, kappa, delta, stack, control, caches, Name)

TypedInv ==
  /\ equations \in Programs
  /\ now \in Instant /\ demands \in 0..MaxDemands
  /\ \E V : TypedNow(V)

\* What a base function of the host returns is a constant or an argument
HostFunctions ==
  \A e \in Expression : e.op = "bang" =>
    \A args : \/ Apply(e.fn, args).kind \in Constants
              \/ \E i \in DOMAIN args : Apply(e.fn, args) = args[i]

(***************************************************************************)
(* Lemmas on types                                                         *)
(***************************************************************************)
LEMMA MadeIs ==
  ASSUME NEW V, NEW c, NEW e, MadeBy(V, c, e)
  PROVE  /\ c.kind = "closure" /\ c.by = e.by /\ c.params = e.params /\ c.body = e.body
         /\ e \in Expression /\ e.op = "abstraction"
BY DEF MadeBy, Closure

LEMMA KindOf ==
  ASSUME NEW V, Closures(V), NEW c
  PROVE  /\ IsValue(V, c) => c.kind \in Constants \cup {"closure"}
         /\ IsAnswer(V, c) => c.kind \in Constants \cup {"closure", "demand"}
<1>1. \A d \in V : d.kind = "closure"
  BY MadeIs DEF Closures
<1> QED
  BY <1>1 DEF IsValue, IsAnswer

LEMMA KindsAre ==
  /\ \A s : Special(s).kind = "special"
  /\ \A ds : Demand(ds).kind = "demand" /\ Demand(ds).dims = ds
  /\ \A n : Intmp(n).kind = "intmp"
  /\ Calc.kind = "calc"
  /\ \A ds : Level(ds).kind = "level" /\ Level(ds).dims = ds
BY DEF Special, Demand, Intmp, Calc, Level

LEMMA SpecialIs ==
  ASSUME NEW V, NEW s
  PROVE  IsValue(V, Special(s)) /\ IsAnswer(V, Special(s))
BY KindsAre DEF IsValue, IsAnswer, Constants

\* More closures
LEMMA MoreValues ==
  ASSUME NEW V, NEW W, V \subseteq W
  PROVE  /\ \A c : IsValue(V, c) => IsValue(W, c)
         /\ \A c : IsAnswer(V, c) => IsAnswer(W, c)
         /\ \A k : IsContext(V, k) => IsContext(W, k)
         /\ \A f : FrameTyped(V, f) => FrameTyped(W, f)
         /\ \A c : CacheTyped(V, c) => CacheTyped(W, c)
<1>1. \A c : IsValue(V, c) => IsValue(W, c)
  BY DEF IsValue
<1>2. \A c : IsAnswer(V, c) => IsAnswer(W, c)
  BY <1>1 DEF IsAnswer
<1>3. \A k : IsContext(V, k) => IsContext(W, k)
  BY <1>1 DEF IsContext
<1>4. \A of, op : Operands(V, of, op) => Operands(W, of, op)
  BY <1>2 DEF Operands
<1>5. \A f : FrameTyped(V, f) => FrameTyped(W, f)
  BY <1>3, <1>4 DEF FrameTyped
<1>6. \A c : CacheTyped(V, c) => CacheTyped(W, c)
  BY <1>1 DEF CacheTyped, IsContent
<1> QED
  BY <1>1, <1>2, <1>3, <1>5, <1>6

LEMMA GetTyped ==
  ASSUME NEW V, Closures(V), NEW c, IsCache(c), Ordered(c), CacheTyped(V, c),
         NEW r \in Int, NEW k, NEW ds, NEW got, got = Get(c, r, k, ds)
  PROVE  /\ CacheTyped(V, got.cache)
         /\ got.value = Calc \/ IsAnswer(V, got.value)
<1>1. GetKeeps(c, r, k, ds, got)
  BY GetIs
<1>2. ASSUME NEW p \in DOMAIN got.cache
      PROVE  \/ got.cache[p].content = Calc
             \/ p \in DOMAIN c /\ got.cache[p].content = c[p].content
  <2>1. Kept(c, got.cache)
    BY <1>1 DEF GetKeeps
  <2>2. CASE p \in DOMAIN c
    BY <2>1, <2>2 DEF Kept
  <2>3. CASE p \notin DOMAIN c
    <3>1. got.value = Calc
      BY <1>1, <2>3 DEF GetKeeps
    <3>2. PICK q : Marks(c, got.cache, q, k, ds)
      BY <1>1, <3>1 DEF GetKeeps
    <3> QED
      BY <2>3, <3>2 DEF Marks
  <2> QED
    BY <2>2, <2>3
<1>3. CacheTyped(V, got.cache)
  BY <1>2 DEF CacheTyped, IsContent
<1>4. CASE c = <<>>
  BY <1>3, <1>4 DEF Get
<1>5. CASE c # <<>>
  <2> DEFINE last == Deepest(Walk(c, k, ds))
             found == c[last].content
  <2>1. got.value = Answer(found, ds)
    BY <1>5 DEF Get
  <2>2. last \in DOMAIN c
    BY <1>5, WalkEnds DEF Walk
  <2>3. IsContent(V, found)
    BY <2>2 DEF CacheTyped
  <2> HIDE DEF found
  <2>4. CASE IsValue(V, found)
    <3>1. found.kind # "calc" /\ found.kind # "level"
      BY <2>4, KindOf DEF Constants
    <3>2. got.value = found
      BY <2>1, <3>1 DEF Answer
    <3> QED
      BY <1>3, <2>4, <3>2 DEF IsAnswer
  <2>5. CASE found = Calc
    <3>1. found.kind = "calc"
      BY <2>5, KindsAre
    <3>2. got.value = Special("sploop")
      BY <2>1, <3>1 DEF Answer
    <3> QED
      BY <1>3, <3>2, SpecialIs
  <2>6. CASE found = Level(found.dims) /\ found.dims \subseteq Dims
    <3>1. found.kind = "level"
      BY <2>6, KindsAre
    <3>2. found.dims \ ds \subseteq Dims
      BY <2>6
    <3>3. IsAnswer(V, Demand(found.dims \ ds))
      BY <3>2, KindsAre DEF IsAnswer
    <3>4. found.kind # "calc"
      BY <3>1
    <3>5. got.value = Demand(found.dims \ ds) \/ got.value = Calc
      BY <2>1, <3>1, <3>4, Zenon DEF Answer
    <3> QED
      BY <1>3, <3>3, <3>5
  <2>7. got.value = Calc \/ IsAnswer(V, got.value)
    BY <2>3, <2>4, <2>5, <2>6 DEF IsContent
  <2> QED
    BY <1>3, <2>7
<1> QED
  BY <1>4, <1>5

LEMMA SetTyped ==
  ASSUME NEW V, Closures(V), NEW c, CacheTyped(V, c), NEW k, NEW value, IsAnswer(V, value),
         NEW d, SetKeeps(c, k, value, d)
  PROVE  CacheTyped(V, d)
<1>1. ASSUME NEW p \in DOMAIN d
      PROVE  \/ d[p].content = Stored(value)
             \/ p \in DOMAIN c /\ d[p].content = c[p].content
  <2>1. p \in DOMAIN c
    BY DEF SetKeeps
  <2>2. CASE p = Mark(c, k)
    <3>1. d[Mark(c, k)].content = Stored(value)
      BY DEF SetKeeps
    <3> QED
      BY <2>2, <3>1
  <2>3. CASE p # Mark(c, k)
    BY <2>1, <2>3 DEF SetKeeps
  <2> QED
    BY <2>2, <2>3
<1>2. IsContent(V, Stored(value))
  <2>1. CASE value.kind = "demand"
    <3>1. Stored(value) = Level(value.dims) /\ value.dims \subseteq Dims
      BY <2>1, KindOf DEF Stored, IsAnswer, Constants
    <3> QED
      BY <3>1, KindsAre DEF IsContent
  <2>2. CASE value.kind # "demand"
    BY <2>2 DEF Stored, IsAnswer, IsContent
  <2> QED
    BY <2>1, <2>2
<1> QED
  BY <1>1, <1>2 DEF CacheTyped

(***************************************************************************)
(* Expressions and their parts                                             *)
(***************************************************************************)
LEMMA PartsOf ==
  ASSUME NEW e \in Expression
  PROVE  /\ e.op = "const" => e.value.kind \in Constants
         /\ e.op \in {"hash", "at"} => e.dim \in Dims
         /\ e.op = "if" => e.cond \in Expression /\ e.then \in Expression /\ e.else \in Expression
         /\ e.op = "at" => e.to \in Expression /\ e.body \in Expression
         /\ e.op = "bang" => e.args \in Seq(Expression) /\ e.args # <<>>
         /\ e.op = "apply" => e.of \in Seq(Expression) /\ e.of # <<>>
         /\ e.op = "abstraction" =>
              /\ e.by \in {"value", "base", "intension"} /\ e.params \in Seq(Hidden)
              /\ e.binds \cup e.scope \subseteq Dims /\ e.body \in Expression
<1>1. IsExpression(e)
  BY WarehouseAssumption
<1>2. CASE e.op = "const"
  BY <1>1, <1>2 DEF IsExpression, Constants
<1>3. CASE e.op = "hash"
  BY <1>1, <1>3 DEF IsExpression, Dims
<1>4. CASE e.op = "if"
  BY <1>1, <1>4 DEF IsExpression
<1>5. CASE e.op = "at"
  BY <1>1, <1>5 DEF IsExpression, Dims
<1>6. CASE e.op = "bang"
  BY <1>1, <1>6 DEF IsExpression
<1>7. CASE e.op = "apply"
  BY <1>1, <1>7 DEF IsExpression
<1>8. CASE e.op = "abstraction"
  BY <1>1, <1>8 DEF IsExpression, Dims
<1> QED
  BY <1>2, <1>3, <1>4, <1>5, <1>6, <1>7, <1>8

LEMMA Nonempty ==
  ASSUME NEW S, NEW s \in Seq(S), s # <<>>
  PROVE  s[1] \in S /\ Len(s) \in Nat /\ \A i \in 1..Len(s) : s[i] \in S
OBVIOUS

LEMMA OpOf ==
  ASSUME NEW op, Evaluating(op), NEW V, TypedNow(V)
  PROVE  control.expr \in Expression /\ control.expr.op = op /\ control.do = "eval"
BY DEF Evaluating, TypedNow, Typed, ControlTyped

(***************************************************************************)
(* Frames that come and go                                                 *)
(***************************************************************************)
Frames(V, s) == \A i \in 1..Len(s) : FrameTyped(V, s[i])

LEMMA PushedTyped ==
  ASSUME NEW V, NEW s, IsSeq(s), Frames(V, s), NEW f, FrameTyped(V, f)
  PROVE  Frames(V, Append(s, f))
<1> DEFINE t == Append(s, f)
<1>1. /\ Len(t) = Len(s) + 1 /\ t[Len(s) + 1] = f /\ Len(s) \in Nat
      /\ \A i \in 1..Len(s) : t[i] = s[i]
  BY PushIs DEF IsSeq
<1> HIDE DEF t
<1>2. \A i \in 1..Len(t) : i \in 1..Len(s) \/ i = Len(s) + 1
  BY <1>1
<1>3. Frames(V, t)
  BY <1>1, <1>2 DEF Frames
<1> QED
  BY <1>3 DEF t

LEMMA PoppedTyped ==
  ASSUME NEW V, NEW s, IsSeq(s), Len(s) # 0, Frames(V, s)
  PROVE  Frames(V, SubSeq(s, 1, Len(s) - 1)) /\ FrameTyped(V, s[Len(s)])
<1> DEFINE t == SubSeq(s, 1, Len(s) - 1)
<1>1. /\ Len(t) = Len(s) - 1 /\ Len(s) \in Nat
      /\ \A i \in 1..(Len(s) - 1) : t[i] = s[i]
  BY PopIs DEF IsSeq
<1> HIDE DEF t
<1>2. (\A i \in 1..(Len(s) - 1) : i \in 1..Len(s)) /\ Len(s) \in 1..Len(s)
  BY <1>1
<1>3. Frames(V, t) /\ FrameTyped(V, s[Len(s)])
  BY <1>1, <1>2 DEF Frames
<1> QED
  BY <1>3 DEF t

LEMMA ReplacedTyped ==
  ASSUME NEW V, NEW s, IsSeq(s), Len(s) # 0, Frames(V, s), NEW f, FrameTyped(V, f)
  PROVE  Frames(V, Append(SubSeq(s, 1, Len(s) - 1), f))
<1>1. IsSeq(SubSeq(s, 1, Len(s) - 1)) /\ Frames(V, SubSeq(s, 1, Len(s) - 1))
  BY PopIs, PoppedTyped
<1> QED
  BY <1>1, PushedTyped

LEMMA FrameIs ==
  ASSUME NEW V, TypedNow(V), NEW fn, NEW of,
         fn \in {"if", "at"} => of \in Expression /\ of.op = fn,
         fn \in {"bang", "apply"} => Operands(V, of, fn)
  PROVE  FrameTyped(V, Frame(fn, of))
<1>1. IsContext(V, kappa) /\ IsDelta(delta)
  BY DEF TypedNow, Typed
<1> QED
  BY <1>1 DEF Frame, FrameTyped

(***************************************************************************)
(* Steps that leave the caches alone                                       *)
(***************************************************************************)
LEMMA LocalTyped ==
  ASSUME Local, NEW U, TypedNow(U), NEW V, U \subseteq V, Closures(V),
         IsContext(V, kappa'), IsDelta(delta'), Frames(V, stack'), ControlTyped(V, control')
  PROVE  TypedNow(V)'
<1>1. Name' = Name /\ caches' = caches
  BY NamesStay DEF Local
<1>2. \A x \in Name : CacheTyped(V, caches[x])
  BY MoreValues DEF TypedNow, Typed
<1>3. Typed(V, kappa', delta', stack', control', caches', Name')
  BY <1>1, <1>2 DEF Typed, Frames
<1> QED
  BY <1>3 DEF TypedNow

LEMMA YieldTyped ==
  ASSUME Local, NEW U, TypedNow(U), NEW V, U \subseteq V, Closures(V), NEW c, IsAnswer(V, c),
         Yield(c), Frames(U, stack')
  PROVE  TypedNow(V)'
<1>1. kappa' = kappa /\ delta' = delta /\ control' = Return(c)
  BY DEF Yield
<1>2. IsContext(V, kappa) /\ IsDelta(delta)
  BY MoreValues DEF TypedNow, Typed
<1>3. ControlTyped(V, control')
  BY <1>1 DEF ControlTyped, Return
<1>4. Frames(V, stack')
  BY MoreValues DEF Frames
<1> QED
  BY <1>1, <1>2, <1>3, <1>4, LocalTyped

LEMMA ClosuresGrow ==
  ASSUME NEW V, Closures(V), NEW k, IsContext(V, k), NEW e \in Expression, e.op = "abstraction"
  PROVE  Closures(V \cup {Bound(e, k)})
<1> DEFINE c == Bound(e, k)
           W == V \cup {c}
           binds == [d \in BoundBy(e) |-> k[d]]
<1>1. /\ c.kind = "closure" /\ c.by = e.by /\ c.params = e.params /\ c.body = e.body
      /\ c.binds = binds /\ c = Closure(e.by, e.params, e.body, [d \in DOMAIN c.binds |-> c.binds[d]])
  BY DEF Bound, Closure
<1>2. BoundBy(e) \subseteq Dims
  <2>1. e.binds \cup e.scope \subseteq Dims /\ TimeDim \in Dims
    BY PartsOf, WarehouseAssumption DEF Dims
  <2> QED
    BY <2>1 DEF BoundBy
<1>3. DOMAIN binds = BoundBy(e) /\ \A d \in BoundBy(e) : binds[d] = k[d]
  OBVIOUS
<1> HIDE DEF c, binds
<1>4. \A d : IsValue(V, d) => IsValue(W, d)
  BY DEF IsValue
<1>5. MadeBy(W, c, e)
  <2>1. \A d \in DOMAIN binds : IsValue(W, binds[d])
    BY <1>2, <1>3, <1>4 DEF IsContext
  <2> QED
    BY <1>1, <1>2, <1>3, <2>1 DEF MadeBy
<1>6. ASSUME NEW b \in V
      PROVE  \E f : MadeBy(W, b, f)
  <2>1. PICK f : MadeBy(V, b, f)
    BY DEF Closures
  <2>2. MadeBy(W, b, f)
    BY <1>4, <2>1 DEF MadeBy
  <2> QED
    BY <2>2
<1>7. Closures(W)
  BY <1>5, <1>6 DEF Closures
<1> QED
  BY <1>7 DEF c

LEMMA EvalTyped ==
  ASSUME Calls, NEW V, TypedNow(V),
         \/ EvalConst \/ EvalHash \/ EvalIdent \/ EvalIf \/ EvalBang \/ EvalAt
         \/ EvalAbstraction \/ EvalApply
  PROVE  \E W : TypedNow(W)'
<1> DEFINE e == control.expr
<1>1. /\ Closures(V) /\ IsContext(V, kappa) /\ IsDelta(delta) /\ Frames(V, stack)
      /\ V \subseteq V
  BY DEF TypedNow, Typed, Frames
<1>2. control.do = "eval" => IsSeq(stack)
  BY Active, TopOf
<1>3. CASE EvalConst
  <2>1. Evaluating("const") /\ Yield(e.value) /\ stack' = stack /\ Local
    BY <1>3 DEF EvalConst
  <2>2. IsAnswer(V, e.value)
    BY <2>1, OpOf, PartsOf DEF IsAnswer, IsValue
  <2> QED
    BY <1>1, <2>1, <2>2, YieldTyped
<1>4. CASE EvalHash
  <2> DEFINE d == e.dim
             c == IF Contains(delta, {d}) THEN kappa[d] ELSE Demand({d})
  <2>1. Evaluating("hash") /\ Yield(c) /\ stack' = stack /\ Local
    BY <1>4 DEF EvalHash
  <2>2. d \in Dims
    BY <2>1, OpOf, PartsOf
  <2>3. IsAnswer(V, c)
    BY <1>1, <2>2, KindsAre DEF IsAnswer, IsContext
  <2> HIDE DEF c
  <2> QED
    BY <1>1, <2>1, <2>3, YieldTyped
<1>5. CASE EvalIdent
  <2>1. UNCHANGED <<kappa, delta, stack>> /\ Local
    BY <1>5 DEF EvalIdent
  <2>2. ControlTyped(V, control')
    BY <1>5, SpecialIs DEF EvalIdent, ControlTyped, Call, Return
  <2> QED
    BY <1>1, <2>1, <2>2, LocalTyped
<1>6. CASE EvalIf
  <2>1. Evaluating("if") /\ UNCHANGED <<kappa, delta>> /\ Local
    BY <1>6 DEF EvalIf
  <2>2. e \in Expression /\ e.op = "if" /\ control.do = "eval" /\ e.cond \in Expression
    BY <2>1, OpOf, PartsOf
  <2>3. FrameTyped(V, Frame("if", e))
    BY <2>2, FrameIs
  <2>4. Frames(V, stack')
    BY <1>1, <1>2, <1>6, <2>2, <2>3, PushedTyped DEF EvalIf, Push
  <2>5. ControlTyped(V, control')
    BY <1>6, <2>2 DEF EvalIf, ControlTyped, Eval
  <2> QED
    BY <1>1, <2>1, <2>4, <2>5, LocalTyped
<1>7. CASE EvalAt
  <2>1. Evaluating("at") /\ UNCHANGED <<kappa, delta>> /\ Local
    BY <1>7 DEF EvalAt
  <2>2. e \in Expression /\ e.op = "at" /\ control.do = "eval" /\ e.to \in Expression
    BY <2>1, OpOf, PartsOf
  <2>3. FrameTyped(V, Frame("at", e))
    BY <2>2, FrameIs
  <2>4. Frames(V, stack')
    BY <1>1, <1>2, <1>7, <2>2, <2>3, PushedTyped DEF EvalAt, Push
  <2>5. ControlTyped(V, control')
    BY <1>7, <2>2 DEF EvalAt, ControlTyped, Eval
  <2> QED
    BY <1>1, <2>1, <2>4, <2>5, LocalTyped
<1>8. ASSUME NEW op \in {"bang", "apply"}, e \in Expression, e.op = op
      PROVE  FrameTyped(V, Frame(op, [expr |-> e, done |-> <<>>]))
  <2> DEFINE of == [expr |-> e, done |-> <<>>]
  <2>1. of = [expr |-> of.expr, done |-> of.done] /\ of.expr = e /\ of.done = <<>>
    OBVIOUS
  <2> HIDE DEF of
  <2>2. IsSeq(<<>>) /\ Len(<<>>) = 0
    BY NoFrame
  <2>3. Operands(V, of, op)
    BY <1>8, <2>1, <2>2 DEF Operands
  <2>4. op \notin {"if", "at"}
    OBVIOUS
  <2>5. FrameTyped(V, Frame(op, of))
    BY <2>3, <2>4, FrameIs
  <2> QED
    BY <2>5 DEF of
<1>9. CASE EvalBang
  <2>1. Evaluating("bang") /\ UNCHANGED <<kappa, delta>> /\ Local
    BY <1>9 DEF EvalBang
  <2>2. e \in Expression /\ e.op = "bang" /\ control.do = "eval" /\ e.args[1] \in Expression
    BY <2>1, OpOf, PartsOf, Nonempty
  <2>3. FrameTyped(V, Frame("bang", [expr |-> e, done |-> <<>>]))
    BY <1>8, <2>2
  <2>4. Frames(V, stack')
    BY <1>1, <1>2, <1>9, <2>2, <2>3, PushedTyped DEF EvalBang, Push
  <2>5. ControlTyped(V, control')
    BY <1>9, <2>2 DEF EvalBang, ControlTyped, Eval
  <2> QED
    BY <1>1, <2>1, <2>4, <2>5, LocalTyped
<1>10. CASE EvalApply
  <2>1. Evaluating("apply") /\ UNCHANGED <<kappa, delta>> /\ Local
    BY <1>10 DEF EvalApply
  <2>2. e \in Expression /\ e.op = "apply" /\ control.do = "eval" /\ e.of[1] \in Expression
    BY <2>1, OpOf, PartsOf, Nonempty
  <2>3. FrameTyped(V, Frame("apply", [expr |-> e, done |-> <<>>]))
    BY <1>8, <2>2
  <2>4. Frames(V, stack')
    BY <1>1, <1>2, <1>10, <2>2, <2>3, PushedTyped DEF EvalApply, Push
  <2>5. ControlTyped(V, control')
    BY <1>10, <2>2 DEF EvalApply, ControlTyped, Eval
  <2> QED
    BY <1>1, <2>1, <2>4, <2>5, LocalTyped
<1>11. CASE EvalAbstraction
  <2> DEFINE missing == Lacks(delta, e.binds \cup e.scope)
             b == Bound(e, kappa)
             c == IF missing # {} THEN Demand(missing) ELSE b
  <2>1. Evaluating("abstraction") /\ stack' = stack /\ Local /\ Yield(c)
    BY <1>11 DEF EvalAbstraction
  <2>2. e \in Expression /\ e.op = "abstraction" /\ missing \subseteq Dims
    BY <2>1, OpOf, PartsOf DEF Lacks
  <2>3. Closures(V \cup {b})
    BY <1>1, <2>2, ClosuresGrow
  <2>4. PICK W : W = V \cup {b}
    OBVIOUS
  <2>5. Closures(W) /\ V \subseteq W /\ b \in W
    BY <2>3, <2>4
  <2> HIDE DEF missing
  <2>6. IsAnswer(W, Demand(missing)) /\ IsAnswer(W, b)
    BY <2>2, <2>5, KindsAre DEF IsAnswer, IsValue
  <2>7. IsAnswer(W, c)
    BY <2>6
  <2> HIDE DEF b, c
  <2>8. Frames(V, stack')
    BY <1>1, <2>1
  <2>9. TypedNow(W)'
    BY <2>1, <2>7, <2>8, <2>5, YieldTyped
  <2> QED
    BY <2>9
<1> QED
  BY <1>3, <1>4, <1>5, <1>6, <1>7, <1>9, <1>10, <1>11

LEMMA TopTyped ==
  ASSUME Calls, Len(stack) # 0, NEW V, TypedNow(V)
  PROVE  /\ FrameTyped(V, Top) /\ Frames(V, stack) /\ Frames(V, Popped) /\ IsSeq(stack)
         /\ Closures(V) /\ IsContext(V, kappa) /\ IsDelta(delta) /\ ControlTyped(V, control)
<1>1. IsSeq(stack)
  BY TopOf
<1>2. Frames(V, stack)
  BY DEF TypedNow, Typed, Frames
<1>3. Frames(V, Popped) /\ FrameTyped(V, Top)
  BY <1>1, <1>2, PoppedTyped DEF Popped, Top
<1> QED
  BY <1>1, <1>2, <1>3 DEF TypedNow, Typed

\* What the demands, and what the specials among some answers come to
LEMMA AnswersAre ==
  ASSUME NEW V, Closures(V), NEW args, IsSeq(args),
         \A i \in 1..Len(args) : IsAnswer(V, args[i])
  PROVE  /\ IsAnswer(V, Demand(UNION {args[i].dims : i \in OfKind(args, "demand")}))
         /\ OfKind(args, "special") # {} => IsAnswer(V, FirstSpecial(args))
         /\ OfKind(args, "demand") = {} => \A i \in 1..Len(args) : IsValue(V, args[i])
<1>1. DOMAIN args = 1..Len(args) /\ Len(args) \in Nat
  BY DEF IsSeq
<1>2. \A i \in OfKind(args, "demand") : args[i].dims \subseteq Dims
  BY <1>1, KindOf DEF OfKind, IsAnswer, Constants
<1>3. UNION {args[i].dims : i \in OfKind(args, "demand")} \subseteq Dims
  BY <1>2
<1>4. IsAnswer(V, Demand(UNION {args[i].dims : i \in OfKind(args, "demand")}))
  BY <1>3, KindsAre DEF IsAnswer
<1>5. ASSUME OfKind(args, "special") # {}
      PROVE  IsAnswer(V, FirstSpecial(args))
  <2>1. OfKind(args, "special") \subseteq 1..Len(args)
    BY <1>1 DEF OfKind
  <2>2. OfKind(args, "special") \in SUBSET Nat
    BY <1>1, <2>1
  <2>3. \E i \in OfKind(args, "special") : \A j \in OfKind(args, "special") : i <= j
    BY <1>5, <2>2, LeastOfNat
  <2> QED
    BY <2>1, <2>3 DEF FirstSpecial
<1>6. ASSUME OfKind(args, "demand") = {}, NEW i \in 1..Len(args)
      PROVE  IsValue(V, args[i])
  BY <1>1, <1>6 DEF OfKind, IsAnswer
<1> QED
  BY <1>4, <1>5, <1>6

LEMMA Combined ==
  ASSUME HostFunctions, NEW V, Closures(V), NEW args, IsSeq(args),
         \A i \in 1..Len(args) : IsAnswer(V, args[i]),
         NEW e \in Expression, e.op = "bang"
  PROVE  IsAnswer(V, Combine(e.fn, args))
<1>1. CASE OfKind(args, "demand") # {}
  BY <1>1, AnswersAre DEF Combine
<1>2. CASE OfKind(args, "demand") = {} /\ OfKind(args, "special") # {}
  BY <1>2, AnswersAre DEF Combine
<1>3. CASE OfKind(args, "demand") = {} /\ OfKind(args, "special") = {}
  <2>1. Combine(e.fn, args) = Apply(e.fn, args)
    BY <1>3 DEF Combine
  <2>2. DOMAIN args = 1..Len(args)
    BY DEF IsSeq
  <2>3. \/ Apply(e.fn, args).kind \in Constants
        \/ \E i \in 1..Len(args) : Apply(e.fn, args) = args[i]
    BY <2>2 DEF HostFunctions
  <2> QED
    BY <2>1, <2>3 DEF IsAnswer, IsValue
<1> QED
  BY <1>1, <1>2, <1>3

\* One more operand evaluated
LEMMA OperandsGrow ==
  ASSUME NEW V, NEW of, NEW op, Operands(V, of, op), NEW c, IsAnswer(V, c)
  PROVE  /\ IsSeq(Append(of.done, c))
         /\ \A i \in 1..Len(Append(of.done, c)) : IsAnswer(V, Append(of.done, c)[i])
         /\ of.expr \in Expression /\ of.expr.op = op
<1> DEFINE t == Append(of.done, c)
           s == of.done
<1>1. IsSeq(s) /\ \A i \in 1..Len(s) : IsAnswer(V, s[i])
  BY DEF Operands
<1>2. /\ IsSeq(t) /\ Len(t) = Len(s) + 1 /\ t[Len(s) + 1] = c /\ Len(s) \in Nat
      /\ \A i \in 1..Len(s) : t[i] = s[i]
  BY <1>1, PushIs DEF IsSeq
<1> HIDE DEF t, s
<1>3. \A i \in 1..Len(t) : i \in 1..Len(s) \/ i = Len(s) + 1
  BY <1>2
<1>4. \A i \in 1..Len(t) : IsAnswer(V, t[i])
  BY <1>1, <1>2, <1>3
<1> QED
  BY <1>2, <1>4 DEF t, Operands

\* The call f on top of s goes on, with one more operand
WithDone(f, done) ==
  [fn |-> f.fn, of |-> [expr |-> f.of.expr, done |-> done], delta |-> f.delta, kappa |-> f.kappa]

GoesOn(s, f, done) ==
  LET t == [s EXCEPT ![Len(s)].of.done = done]
  IN  /\ Len(t) = Len(s) /\ t[Len(s)] = WithDone(f, done)
      /\ \A i \in 1..(Len(s) - 1) : t[i] = s[i]

LEMMA ContinuedIs ==
  ASSUME NEW s, IsSeq(s), Len(s) # 0, NEW f, f = s[Len(s)], IsFrame(f),
         f.of = [expr |-> f.of.expr, done |-> f.of.done], NEW done
  PROVE  GoesOn(s, f, done)
<1> DEFINE n == Len(s)
           of == [expr |-> f.of.expr, done |-> done]
           g == [fn |-> f.fn, of |-> of, delta |-> f.delta, kappa |-> f.kappa]
           t == [s EXCEPT ![n].of.done = done]
<1>1. n \in Nat /\ s = [i \in 1..n |-> s[i]] /\ n \in 1..n
  BY DEF IsSeq
<1>2. [f EXCEPT !.of = [f.of EXCEPT !.done = done]] = g
  <2>1. \A a, b, c, d, e :
          [[fn |-> a, of |-> b, delta |-> c, kappa |-> d] EXCEPT !.of = e]
            = [fn |-> a, of |-> e, delta |-> c, kappa |-> d]
    OBVIOUS
  <2>2. \A a, b, c : [[expr |-> a, done |-> b] EXCEPT !.done = c] = [expr |-> a, done |-> c]
    OBVIOUS
  <2>3. [f.of EXCEPT !.done = done] = of
    BY <2>2
  <2>4. f = [fn |-> f.fn, of |-> f.of, delta |-> f.delta, kappa |-> f.kappa]
    BY DEF IsFrame
  <2> QED
    BY <2>1, <2>3, <2>4
<1>3. t = [s EXCEPT ![n] = g]
  <2>1. \A u, i, d : [u EXCEPT ![i].of.done = d]
                       = [u EXCEPT ![i] = [u[i] EXCEPT !.of = [u[i].of EXCEPT !.done = d]]]
    OBVIOUS
  <2> QED
    BY <1>2, <2>1
<1> HIDE DEF g, n
<1>4. t = [i \in 1..n |-> IF i = n THEN g ELSE s[i]]
  BY <1>1, <1>3
<1> HIDE DEF t
<1>5. \A i \in 1..(n - 1) : i \in 1..n /\ i # n
  BY <1>1
<1>6. Len(t) = n /\ t[n] = g /\ \A i \in 1..(n - 1) : t[i] = s[i]
  BY <1>1, <1>4, <1>5
<1> QED
  BY <1>6 DEF t, g, n, GoesOn, WithDone

LEMMA ContinuedTyped ==
  ASSUME NEW V, NEW s, IsSeq(s), Len(s) # 0, Frames(V, s), NEW f, f = s[Len(s)], IsFrame(f),
         f.fn \in {"bang", "apply"}, NEW done, IsSeq(done),
         \A i \in 1..Len(done) : IsAnswer(V, done[i])
  PROVE  Frames(V, [s EXCEPT ![Len(s)].of.done = done])
<1> DEFINE n == Len(s)
           of == [expr |-> f.of.expr, done |-> done]
           g == WithDone(f, done)
           t == [s EXCEPT ![n].of.done = done]
<1>1. n \in Nat /\ n \in 1..n /\ \A i \in 1..n : i = n \/ i \in 1..(n - 1)
  BY DEF IsSeq
<1>2. FrameTyped(V, f)
  BY <1>1 DEF Frames
<1>3. Operands(V, f.of, f.fn)
  BY <1>2 DEF FrameTyped
<1>4. Len(t) = n /\ t[n] = g /\ \A i \in 1..(n - 1) : t[i] = s[i]
  <2>1. f.of = [expr |-> f.of.expr, done |-> f.of.done]
    BY <1>3 DEF Operands
  <2>2. GoesOn(s, f, done)
    BY <2>1, ContinuedIs
  <2> QED
    BY <2>2 DEF GoesOn
<1>5. Operands(V, of, f.fn)
  <2>1. of = [expr |-> of.expr, done |-> of.done] /\ of.expr = f.of.expr /\ of.done = done
    OBVIOUS
  <2> HIDE DEF of
  <2> QED
    BY <1>3, <2>1 DEF Operands
<1>6. g.fn = f.fn /\ g.of = of /\ g.delta = f.delta /\ g.kappa = f.kappa
  BY DEF WithDone
<1> HIDE DEF g, n, t, of
<1>7. FrameTyped(V, g)
  BY <1>2, <1>5, <1>6 DEF FrameTyped
<1>8. Frames(V, t)
  BY <1>1, <1>4, <1>7 DEF Frames, n
<1> QED
  BY <1>8 DEF t, n

LEMMA ReturnTyped ==
  ASSUME HostFunctions, Calls, NEW V, TypedNow(V),
         ReturnIf \/ ReturnBang \/ ReturnAt \/ ReturnPerturbed
  PROVE  TypedNow(V)'
<1> DEFINE c == control.value
           n == Len(stack)
<1>1. ASSUME NEW fn, ReturningTo(fn)
      PROVE  /\ n # 0 /\ Top.fn = fn /\ IsAnswer(V, c) /\ Top = stack[n] /\ IsFrame(Top)
             /\ FrameTyped(V, Top) /\ Frames(V, stack) /\ Frames(V, Popped) /\ IsSeq(stack)
             /\ Closures(V) /\ IsContext(V, kappa) /\ IsDelta(delta) /\ V \subseteq V
  <2>1. control.do = "return" /\ Top.fn = fn /\ n # 0
    BY <1>1, Active DEF ReturningTo
  <2> QED
    BY <2>1, TopOf, TopTyped DEF ControlTyped
<1>2. CASE ReturnIf
  <2> DEFINE e == Top.of
  <2>1. ReturningTo("if") /\ stack' = Popped /\ UNCHANGED <<kappa, delta>> /\ Local
    BY <1>2 DEF ReturnIf
  <2>2. e \in Expression /\ e.op = "if"
    BY <1>1, <2>1 DEF FrameTyped
  <2>3. e.then \in Expression /\ e.else \in Expression
    BY <2>2, PartsOf
  <2>4. \/ control' = Return(c) \/ control' = Return(Special("sptype"))
        \/ control' = Eval(e.then) \/ control' = Eval(e.else)
    BY <1>2 DEF ReturnIf
  <2>5. ControlTyped(V, control')
    BY <1>1, <2>1, <2>3, <2>4, SpecialIs DEF ControlTyped, Return, Eval
  <2> QED
    BY <1>1, <2>1, <2>5, LocalTyped
<1>3. CASE ReturnBang
  <2> DEFINE e == Top.of.expr
             done == Append(Top.of.done, c)
  <2>1. ReturningTo("bang") /\ UNCHANGED <<kappa, delta>> /\ Local
    BY <1>3 DEF ReturnBang
  <2>2. Operands(V, Top.of, "bang") /\ IsAnswer(V, c)
    BY <1>1, <2>1 DEF FrameTyped
  <2>3. /\ IsSeq(done) /\ \A i \in 1..Len(done) : IsAnswer(V, done[i])
        /\ e \in Expression /\ e.op = "bang"
    BY <2>2, OperandsGrow
  <2>4. e.args \in Seq(Expression)
    BY <2>3, PartsOf
  <2>5. CASE Len(done) < Len(e.args)
    <3>1. /\ stack' = [stack EXCEPT ![n].of.done = done]
          /\ control' = Eval(e.args[Len(done) + 1])
      BY <1>3, <2>5 DEF ReturnBang
    <3> HIDE DEF done
    <3>2. Frames(V, stack')
      BY <1>1, <2>1, <2>3, <3>1, ContinuedTyped
    <3>3. e.args[Len(done) + 1] \in Expression
      <4>1. Len(done) + 1 \in 1..Len(e.args)
        BY <2>3, <2>4, <2>5 DEF IsSeq
      <4> QED
        BY <2>4, <4>1
    <3>4. ControlTyped(V, control')
      BY <3>1, <3>3 DEF ControlTyped, Eval
    <3> QED
      BY <1>1, <2>1, <3>2, <3>4, LocalTyped
  <2>6. CASE ~(Len(done) < Len(e.args))
    <3>1. stack' = Popped /\ control' = Return(Combine(e.fn, done))
      BY <1>3, <2>6 DEF ReturnBang
    <3> HIDE DEF done
    <3>2. IsAnswer(V, Combine(e.fn, done))
      BY <1>1, <2>1, <2>3, Combined
    <3>3. ControlTyped(V, control')
      BY <3>1, <3>2 DEF ControlTyped, Return
    <3> QED
      BY <1>1, <2>1, <3>1, <3>3, LocalTyped
  <2> QED
    BY <2>5, <2>6
<1>4. CASE ReturnAt
  <2> DEFINE e == Top.of
  <2>1. ReturningTo("at") /\ Local
    BY <1>4 DEF ReturnAt
  <2>2. e \in Expression /\ e.op = "at"
    BY <1>1, <2>1 DEF FrameTyped
  <2>3. e.dim \in Dims /\ e.body \in Expression
    BY <2>2, PartsOf
  <2>4. CASE \E d : IsAnswer(V, d) /\ Yield(d) /\ stack' = Popped
    BY <1>1, <2>1, <2>4, YieldTyped
  <2>5. CASE /\ c.kind # "demand"
             /\ stack' = Append(Popped, Frame("perturbed", e))
             /\ kappa' = [kappa EXCEPT ![e.dim] = c] /\ delta' = delta \cup {e.dim}
             /\ control' = Eval(e.body)
    <3>1. FrameTyped(V, Frame("perturbed", e))
      BY FrameIs
    <3>2. Frames(V, stack')
      BY <1>1, <2>1, <2>5, <3>1, ReplacedTyped DEF Popped
    <3>3. IsValue(V, c)
      BY <1>1, <2>1, <2>5 DEF IsAnswer
    <3>4. IsContext(V, kappa')
      BY <1>1, <2>1, <2>3, <2>5, <3>3 DEF IsContext
    <3>5. IsDelta(delta')
      BY <1>1, <2>1, <2>3, <2>5 DEF IsDelta
    <3>6. ControlTyped(V, control')
      BY <2>3, <2>5 DEF ControlTyped, Eval
    <3> QED
      BY <1>1, <2>1, <3>2, <3>4, <3>5, <3>6, LocalTyped
  <2> QED
    BY <1>1, <1>4, <2>1, <2>4, <2>5, SpecialIs DEF ReturnAt
<1>5. CASE ReturnPerturbed
  <2>1. /\ ReturningTo("perturbed") /\ stack' = Popped /\ kappa' = Top.kappa
        /\ delta' = Top.delta /\ control' = control /\ Local
    BY <1>5 DEF ReturnPerturbed
  <2>2. IsContext(V, kappa') /\ IsDelta(delta')
    BY <1>1, <2>1 DEF FrameTyped
  <2>3. ControlTyped(V, control')
    BY <2>1 DEF TypedNow, Typed
  <2> QED
    BY <1>1, <2>1, <2>2, <2>3, LocalTyped
<1> QED
  BY <1>2, <1>3, <1>4, <1>5

(***************************************************************************)
(* The body of a closure                                                   *)
(***************************************************************************)
LEMMA PerturbedTyped ==
  ASSUME NEW V, NEW k, IsContext(V, k), NEW f, DOMAIN f \subseteq Dims,
         \A d \in DOMAIN f : IsValue(V, f[d])
  PROVE  IsContext(V, Perturbed(k, f))
BY DEF IsContext, Perturbed

LEMMA EnteredTyped ==
  ASSUME NEW V, Closures(V), NEW k, IsContext(V, k), NEW c \in V,
         NEW args, IsSeq(args), \A i \in 1..Len(args) : IsValue(V, args[i]),
         Len(args) = Len(c.params)
  PROVE  /\ IsContext(V, Perturbing(c, args, k))
         /\ {c.params[i] : i \in DOMAIN c.params} \cup DOMAIN c.binds \subseteq Dims
         /\ c.body \in Expression
<1> DEFINE given == [i \in DOMAIN c.params |-> args[i]]
           ds == {c.params[i] : i \in DOMAIN c.params}
           params == [d \in ds |-> given[CHOOSE i \in DOMAIN c.params : c.params[i] = d]]
           unset == [d \in DOMAIN k |-> Unset]
<1>1. PICK e : MadeBy(V, c, e)
  BY DEF Closures
<1>2. /\ c.params \in Seq(Hidden) /\ DOMAIN c.binds \subseteq Dims /\ c.body \in Expression
      /\ \A d \in DOMAIN c.binds : IsValue(V, c.binds[d])
  <2>1. /\ c.params = e.params /\ c.body = e.body /\ e \in Expression /\ e.op = "abstraction"
    BY <1>1, MadeIs
  <2>2. e.params \in Seq(Hidden) /\ e.body \in Expression
    BY <2>1, PartsOf
  <2> QED
    BY <1>1, <2>1, <2>2 DEF MadeBy
<1>3. DOMAIN c.params = 1..Len(args) /\ \A i \in DOMAIN c.params : c.params[i] \in Hidden
  BY <1>2
<1>4. ds \subseteq Dims
  BY <1>3 DEF Dims
<1>5. DOMAIN params = ds /\ \A d \in ds : IsValue(V, params[d])
  <2>1. ASSUME NEW d \in ds
        PROVE  IsValue(V, params[d])
    <3> DEFINE i == CHOOSE i \in DOMAIN c.params : c.params[i] = d
    <3>1. i \in DOMAIN c.params
      OBVIOUS
    <3>2. params[d] = given[i] /\ given[i] = args[i]
      BY <3>1
    <3> HIDE DEF i, given, params
    <3> QED
      BY <1>3, <3>1, <3>2
  <2> QED
    BY <2>1
<1>6. DOMAIN unset = Dims /\ \A d \in Dims : IsValue(V, unset[d])
  BY SpecialIs DEF IsContext, Unset
<1>7. \/ Perturbing(c, args, k) = Perturbed(Perturbed(unset, c.binds), params)
      \/ Perturbing(c, args, k) = Perturbed(Perturbed(k, params), c.binds)
  BY DEF Perturbing
<1> HIDE DEF params, unset, ds
<1>8. IsContext(V, unset)
  BY <1>6 DEF IsContext
<1>9. /\ IsContext(V, Perturbed(Perturbed(unset, c.binds), params))
      /\ IsContext(V, Perturbed(Perturbed(k, params), c.binds))
  BY <1>2, <1>4, <1>5, <1>8, PerturbedTyped
<1> QED
  BY <1>2, <1>4, <1>7, <1>9 DEF ds

LEMMA TailIs ==
  ASSUME NEW s, IsSeq(s), Len(s) # 0
  PROVE  /\ IsSeq(Tail(s)) /\ Len(Tail(s)) = Len(s) - 1
         /\ \A i \in 1..Len(Tail(s)) : Tail(s)[i] = s[i + 1] /\ i + 1 \in 1..Len(s)
<1>1. PICK S : s \in Seq(S)
  BY SeqIsSequence
<1>2. s # <<>>
  OBVIOUS
<1>3. Tail(s) \in Seq(S) /\ Len(Tail(s)) = Len(s) - 1 /\ Len(s) \in Nat
  BY <1>1, <1>2
<1>4. IsSeq(Tail(s))
  BY <1>3, SequenceIsSeq
<1>5. \A i \in 1..Len(Tail(s)) : Tail(s)[i] = s[i + 1]
  BY <1>1, <1>2, <1>3
<1> QED
  BY <1>3, <1>4, <1>5

LEMMA ApplyTyped ==
  ASSUME Calls, NEW V, TypedNow(V), ReturnApply
  PROVE  TypedNow(V)'
<1> DEFINE c == control.value
           n == Len(stack)
           e == Top.of.expr
           done == Append(Top.of.done, c)
<1>1. /\ control.do = "return" /\ Top.fn = "apply" /\ n # 0 /\ Local
  BY Active DEF ReturnApply, ReturningTo
<1>2. /\ IsAnswer(V, c) /\ Top = stack[n] /\ IsFrame(Top)
      /\ FrameTyped(V, Top) /\ Frames(V, stack) /\ Frames(V, Popped) /\ IsSeq(stack)
      /\ Closures(V) /\ IsContext(V, kappa) /\ IsDelta(delta) /\ V \subseteq V
  BY <1>1, TopOf, TopTyped DEF ControlTyped
<1>3. Operands(V, Top.of, "apply")
  BY <1>1, <1>2 DEF FrameTyped
<1>4. /\ IsSeq(done) /\ \A i \in 1..Len(done) : IsAnswer(V, done[i])
      /\ e \in Expression /\ e.op = "apply"
  BY <1>2, <1>3, OperandsGrow
<1>5. e.of \in Seq(Expression) /\ e.of # <<>>
  BY <1>4, PartsOf
<1>6. CASE Len(done) < Len(e.of)
  <2>1. /\ stack' = [stack EXCEPT ![n].of.done = done]
        /\ control' = Eval(e.of[Len(done) + 1]) /\ UNCHANGED <<kappa, delta>>
    BY <1>6 DEF ReturnApply
  <2> HIDE DEF done
  <2>2. Frames(V, stack')
    BY <1>1, <1>2, <1>4, <2>1, ContinuedTyped
  <2>3. e.of[Len(done) + 1] \in Expression
    <3>1. Len(done) + 1 \in 1..Len(e.of)
      BY <1>4, <1>5, <1>6 DEF IsSeq
    <3> QED
      BY <1>5, <3>1
  <2>4. ControlTyped(V, control')
    BY <2>1, <2>3 DEF ControlTyped, Eval
  <2> QED
    BY <1>1, <1>2, <2>1, <2>2, <2>4, LocalTyped
<1>7. CASE ~(Len(done) < Len(e.of))
  <2> DEFINE f == done[1]
             args == Tail(done)
  <2>1. ApplyNow(e.by, done)
    BY <1>7 DEF ReturnApply
  <2>2. Len(done) # 0 /\ 1 \in 1..Len(done)
    BY <1>4, <1>5, <1>7 DEF IsSeq
  <2> HIDE DEF done
  <2>3. /\ IsSeq(args) /\ \A i \in 1..Len(args) : args[i] = done[i + 1] /\ i + 1 \in 1..Len(done)
    BY <1>4, <2>2, TailIs
  <2>4. \A i \in 1..Len(args) : IsAnswer(V, args[i])
    BY <1>4, <2>3
  <2>5. /\ IsAnswer(V, Demand(UNION {done[i].dims : i \in OfKind(done, "demand")}))
        /\ IsAnswer(V, NoFunction(e.by)) /\ IsAnswer(V, Special("sptype"))
        /\ OfKind(args, "special") # {} => IsAnswer(V, FirstSpecial(args))
    <3> HIDE DEF args
    <3>1. IsAnswer(V, Demand(UNION {done[i].dims : i \in OfKind(done, "demand")}))
      BY <1>2, <1>4, AnswersAre
    <3>2. IsAnswer(V, NoFunction(e.by)) /\ IsAnswer(V, Special("sptype"))
      BY SpecialIs DEF NoFunction
    <3>3. OfKind(args, "special") # {} => IsAnswer(V, FirstSpecial(args))
      BY <1>2, <2>3, <2>4, AnswersAre
    <3> QED
      BY <3>1, <3>2, <3>3
  <2>6. CASE \E d : IsAnswer(V, d) /\ Answered(d)
    BY <1>1, <1>2, <2>6, YieldTyped DEF Answered
  <2>7. CASE /\ OfKind(done, "demand") = {} /\ IsClosure(f, e.by)
             /\ Len(args) = Len(f.params) /\ Enter(f, args)
    <3>1. \A i \in 1..Len(done) : IsValue(V, done[i])
      BY <1>2, <1>4, <2>7, AnswersAre
    <3>2. f \in V
      BY <2>2, <2>7, <3>1 DEF IsValue, IsClosure, Constants
    <3>3. \A i \in 1..Len(args) : IsValue(V, args[i])
      BY <2>3, <3>1
    <3> HIDE DEF f, args
    <3>4. /\ IsContext(V, Perturbing(f, args, kappa)) /\ f.body \in Expression
          /\ {f.params[i] : i \in DOMAIN f.params} \cup DOMAIN f.binds \subseteq Dims
      BY <1>2, <2>3, <2>7, <3>2, <3>3, EnteredTyped
    <3>5. /\ stack' = Append(Popped, Frame("perturbed", Top.of.expr))
          /\ kappa' = Perturbing(f, args, kappa) /\ control' = Eval(f.body)
          /\ delta' = (IF f.by = "base" THEN {Everything} ELSE delta)
                        \cup {f.params[i] : i \in DOMAIN f.params} \cup DOMAIN f.binds
      BY <2>7 DEF Enter
    <3>6. FrameTyped(V, Frame("perturbed", Top.of.expr))
      BY FrameIs
    <3>7. Frames(V, stack')
      BY <1>1, <1>2, <3>5, <3>6, ReplacedTyped DEF Popped
    <3>8. IsDelta(delta')
      BY <1>2, <3>4, <3>5 DEF IsDelta
    <3>9. ControlTyped(V, control')
      BY <3>4, <3>5 DEF ControlTyped, Eval
    <3> QED
      BY <1>1, <1>2, <3>4, <3>5, <3>7, <3>8, <3>9, LocalTyped
  <2> HIDE DEF f, args
  <2>8. \/ \E d : IsAnswer(V, d) /\ Answered(d)
        \/ /\ OfKind(done, "demand") = {} /\ IsClosure(f, e.by)
           /\ Len(args) = Len(f.params) /\ Enter(f, args)
    BY <2>1, <2>5, Zenon DEF ApplyNow, f, args
  <2> QED
    BY <2>6, <2>7, <2>8
<1> QED
  BY <1>6, <1>7

LEMMA CallTyped ==
  ASSUME Calls, NEW V, TypedNow(V), CallCache
  PROVE  TypedNow(V)'
<1>1. /\ control.do = "call" /\ stack' = Push(Frame("cache", control.name)) /\ delta' = {}
      /\ control' = Looking /\ kappa' = kappa /\ Local
  BY DEF CallCache
<1>2. Len(stack) # 0
  BY <1>1, Active
<1>3. /\ Frames(V, stack) /\ IsSeq(stack) /\ Closures(V) /\ IsContext(V, kappa)
      /\ V \subseteq V
  BY <1>2, TopTyped
<1>4. FrameTyped(V, Frame("cache", control.name))
  BY FrameIs
<1>5. Frames(V, stack')
  BY <1>1, <1>3, <1>4, PushedTyped DEF Push
<1>6. ControlTyped(V, control') /\ IsDelta(delta')
  BY <1>1 DEF ControlTyped, IsDelta, Looking
<1> QED
  BY <1>1, <1>3, <1>5, <1>6, LocalTyped

(***************************************************************************)
(* Steps of CacheWS                                                        *)
(***************************************************************************)
LEMMA KeptTyped ==
  ASSUME NEW V, TypedNow(V), NEW x \in Name, CacheTyped(V, caches'[x]),
         \A y \in Name \ {x} : caches'[y] = caches[y], equations' = equations,
         kappa' = kappa, IsDelta(delta'), Frames(V, stack'), ControlTyped(V, control')
  PROVE  TypedNow(V)'
<1>1. Name' = Name
  BY NamesStay
<1>2. \A y \in Name : CacheTyped(V, caches'[y])
  BY DEF TypedNow, Typed
<1>3. Typed(V, kappa', delta', stack', control', caches', Name')
  BY <1>1, <1>2 DEF TypedNow, Typed, Frames
<1> QED
  BY <1>3 DEF TypedNow

LEMMA DemandedTyped ==
  ASSUME Calls, Len(stack) # 0, NEW V, TypedNow(V), NEW ds, ds \subseteq Dims, Demanded(ds)
  PROVE  IsDelta(delta') /\ Frames(V, stack') /\ ControlTyped(V, control')
<1> DEFINE missing == ds \ Top.delta
<1>1. /\ FrameTyped(V, Top) /\ Frames(V, stack) /\ Frames(V, Popped) /\ IsDelta(delta)
  BY TopTyped
<1>2. CASE missing # {}
  <2>1. control' = Return(Demand(missing)) /\ delta' = Top.delta /\ stack' = Popped
    BY <1>2 DEF Demanded
  <2>2. IsAnswer(V, Demand(missing))
    BY KindsAre DEF IsAnswer
  <2>3. ControlTyped(V, control')
    BY <2>1, <2>2 DEF ControlTyped, Return
  <2> QED
    BY <1>1, <2>1, <2>3 DEF FrameTyped
<1>3. CASE missing = {}
  <2>1. delta' = delta \cup ds /\ control' = Looking /\ stack' = stack
    BY <1>3 DEF Demanded
  <2>2. IsDelta(delta') /\ ControlTyped(V, control')
    BY <1>1, <2>1 DEF IsDelta, ControlTyped, Looking
  <2> QED
    BY <1>1, <2>1, <2>2
<1> QED
  BY <1>2, <1>3

LEMMA EquationIs ==
  ASSUME equations \in Programs, NEW x \in Name
  PROVE  equations[x] \in Expression
BY WarehouseAssumption DEF Name

LEMMA InsideTyped ==
  ASSUME WarehouseInv, NEW V, TypedNow(V), Inside(control), NEW ds, NEW got,
         got = Get(caches[Top.of], retirement[Top.of], kappa, ds), Keep(Top.of, got)
  PROVE  /\ Top.of \in Name /\ Len(stack) # 0
         /\ CacheTyped(V, caches'[Top.of])
         /\ \A y \in Name \ {Top.of} : caches'[y] = caches[y]
         /\ got.value = Calc \/ IsAnswer(V, got.value)
<1>1. Calls /\ Len(stack) # 0 /\ Top.fn = "cache"
  BY Active DEF WarehouseInv, Inside
<1>2. Top.of \in Name
  BY <1>1, TopOf
<1>3. /\ IsCache(caches[Top.of]) /\ Ordered(caches[Top.of]) /\ retirement[Top.of] \in Int
      /\ caches = [y \in Name |-> caches[y]]
  BY <1>2 DEF WarehouseInv, CachesOK, RetirementsOK, Young
<1>4. Closures(V) /\ CacheTyped(V, caches[Top.of])
  BY <1>2 DEF TypedNow, Typed
<1>5. CacheTyped(V, got.cache) /\ (got.value = Calc \/ IsAnswer(V, got.value))
  BY <1>3, <1>4, GetTyped
<1>6. caches'[Top.of] = got.cache /\ \A y \in Name \ {Top.of} : caches'[y] = caches[y]
  BY <1>2, <1>3 DEF Keep
<1> QED
  BY <1>1, <1>2, <1>5, <1>6

LEMMA GetStepTyped ==
  ASSUME WarehouseInv, equations \in Programs, NEW V, TypedNow(V), CacheGet
  PROVE  TypedNow(V)'
<1> DEFINE x == Top.of
           got == Get(caches[x], retirement[x], kappa, delta)
<1>1. Inside(control) /\ Keep(x, got) /\ equations' = equations /\ kappa' = kappa
  BY ControlIs DEF CacheGet, Outside
<1> HIDE DEF got
<1>2. /\ x \in Name /\ Len(stack) # 0 /\ CacheTyped(V, caches'[x])
      /\ \A y \in Name \ {x} : caches'[y] = caches[y]
      /\ got.value = Calc \/ IsAnswer(V, got.value)
  BY <1>1, InsideTyped DEF got
<1>3. Calls /\ Closures(V) /\ Frames(V, stack) /\ IsDelta(delta)
  BY DEF WarehouseInv, TypedNow, Typed, Frames
<1>4. CASE control' = Eval(equations[x]) /\ UNCHANGED <<delta, stack>>
  <2>1. ControlTyped(V, control')
    BY <1>2, <1>4, EquationIs DEF ControlTyped, Eval
  <2> QED
    BY <1>1, <1>2, <1>3, <1>4, <2>1, KeptTyped
<1>5. CASE got.value.kind = "demand" /\ Demanded(got.value.dims)
  <2>1. got.value.dims \subseteq Dims
    BY <1>2, <1>3, <1>5, KindOf, KindsAre DEF IsAnswer, Constants
  <2>2. IsDelta(delta') /\ Frames(V, stack') /\ ControlTyped(V, control')
    BY <1>2, <1>3, <1>5, <2>1, DemandedTyped
  <2> QED
    BY <1>1, <1>2, <2>2, KeptTyped
<1>6. CASE control' = Finishing /\ UNCHANGED <<delta, stack>>
  <2>1. ControlTyped(V, control')
    BY <1>6 DEF ControlTyped, Finishing
  <2> QED
    BY <1>1, <1>2, <1>3, <1>6, <2>1, KeptTyped
<1> QED
  BY <1>4, <1>5, <1>6 DEF CacheGet, got

\* At the end of its loop CacheWS answers with what it has computed
LEMMA FinishStepTyped ==
  ASSUME WarehouseInv, NEW V, TypedNow(V), CacheFinish,
         Get(caches[Top.of], retirement[Top.of], kappa, Top.delta).value # Calc
  PROVE  TypedNow(V)'
<1> DEFINE x == Top.of
           got == Get(caches[x], retirement[x], kappa, Top.delta)
<1>1. /\ Inside(control) /\ Keep(x, got) /\ equations' = equations /\ kappa' = kappa
      /\ control' = Return(got.value) /\ delta' = Top.delta /\ stack' = Popped
      /\ got.value # Calc
  BY ControlIs DEF CacheFinish, Outside
<1> HIDE DEF got
<1>2. /\ x \in Name /\ Len(stack) # 0 /\ CacheTyped(V, caches'[x])
      /\ \A y \in Name \ {x} : caches'[y] = caches[y]
      /\ IsAnswer(V, got.value)
  BY <1>1, InsideTyped DEF got
<1>3. Frames(V, Popped) /\ FrameTyped(V, Top)
  BY <1>2, TopTyped DEF WarehouseInv
<1>4. ControlTyped(V, control') /\ IsDelta(delta')
  BY <1>1, <1>2, <1>3 DEF ControlTyped, Return, FrameTyped
<1> QED
  BY <1>1, <1>2, <1>3, <1>4, KeptTyped

\* Cache::set of the innermost call goes to the calc its own get has made
LEMMA SetMade ==
  ASSUME WarehouseInv, CacheSet
  PROVE  \E own :
           LET x == Top.of
           IN  /\ x \in Name /\ Len(stack) # 0 /\ equations' = equations /\ kappa' = kappa
               /\ Computes(caches[x], own, kappa, delta) /\ Mark(caches[x], kappa) = own
               /\ SetKeeps(caches[x], kappa, control.value, caches'[x])
               /\ \A y \in Name \ {x} : caches'[y] = caches[y]
<1> DEFINE x == Top.of
           n == Len(stack)
<1>1. /\ Calls /\ control.do = "return" /\ Top.fn = "cache"
      /\ caches' = [caches EXCEPT ![x] = Set(@, kappa, control.value)]
      /\ equations' = equations /\ kappa' = kappa
  BY DEF WarehouseInv, CacheSet, Outside, ReturningTo
<1>2. n # 0 /\ ~Inside(control)
  BY <1>1, Active
<1>3. Top = stack[n] /\ x \in Name /\ n \in Nat
  BY <1>1, <1>2, TopOf
<1>4. IsCache(caches[x]) /\ Ordered(caches[x]) /\ caches = [y \in Name |-> caches[y]]
  BY <1>3 DEF WarehouseInv, CachesOK
<1>5. Busy(stack, control, n)
  BY <1>1, <1>2, <1>3 DEF Busy
<1>6. PICK own : MarkedBy(stack, kappa, delta, caches, n, own)
  BY <1>1, <1>5 DEF Calls, CallsOK, MarksOK
<1>7. Computes(caches[x], own, kappa, delta)
  BY <1>3, <1>6 DEF MarkedBy, KappaAfter, DeltaAfter
<1>8. /\ own \in DOMAIN caches[x] /\ Mark(caches[x], kappa) = own
      /\ caches[x][own].content.kind # "level"
  BY <1>4, <1>7, MarkIs
<1>9. SetKeeps(caches[x], kappa, control.value, Set(caches[x], kappa, control.value))
  BY <1>4, <1>8, SetIs
<1>10. /\ caches'[x] = Set(caches[x], kappa, control.value)
       /\ \A y \in Name \ {x} : caches'[y] = caches[y]
  BY <1>1, <1>3, <1>4
<1> QED
  BY <1>1, <1>2, <1>3, <1>7, <1>8, <1>9, <1>10

LEMMA SetStepTyped ==
  ASSUME WarehouseInv, NEW V, TypedNow(V), CacheSet
  PROVE  TypedNow(V)'
<1> DEFINE x == Top.of
           c == control.value
<1>1. /\ x \in Name /\ Len(stack) # 0 /\ equations' = equations /\ kappa' = kappa
      /\ SetKeeps(caches[x], kappa, c, caches'[x])
      /\ \A y \in Name \ {x} : caches'[y] = caches[y]
  BY SetMade
<1>2. Calls /\ Closures(V) /\ Frames(V, stack) /\ IsDelta(delta) /\ CacheTyped(V, caches[x])
  BY <1>1 DEF WarehouseInv, TypedNow, Typed, Frames
<1>3. IsAnswer(V, c)
  BY DEF CacheSet, ReturningTo, TypedNow, Typed, ControlTyped
<1>4. CacheTyped(V, caches'[x])
  BY <1>1, <1>2, <1>3, SetTyped
<1>5. CASE c.kind = "demand"
  <2>1. Demanded(c.dims)
    BY <1>5 DEF CacheSet
  <2>2. c.dims \subseteq Dims
    BY <1>2, <1>3, <1>5, KindOf DEF IsAnswer, Constants
  <2>3. IsDelta(delta') /\ Frames(V, stack') /\ ControlTyped(V, control')
    BY <1>1, <1>2, <2>1, <2>2, DemandedTyped
  <2> QED
    BY <1>1, <1>4, <2>3, KeptTyped
<1>6. CASE c.kind # "demand"
  <2>1. control' = Finishing /\ UNCHANGED <<delta, stack>>
    BY <1>6 DEF CacheSet
  <2>2. ControlTyped(V, control')
    BY <2>1 DEF ControlTyped, Finishing
  <2> QED
    BY <1>1, <1>2, <1>4, <2>1, <2>2, KeptTyped
<1> QED
  BY <1>5, <1>6

(***************************************************************************)
(* Behind its loop, CacheWS has an answer whatever the delta of its caller *)
(* has beyond its own                                                      *)
(***************************************************************************)
Leaf(c, k, ds, m) ==
  /\ m \in DOMAIN c /\ c[m].content.kind # "level"
  /\ Agrees(m, k) /\ Contains(ds, DimsOf(m))

Settled ==
  control.do = "finish" => \E m : Leaf(caches[Top.of], kappa, Top.delta, m)

LEMMA LeafAnswers ==
  ASSUME NEW c, IsCache(c), NEW r, NEW k, NEW ds, NEW m, Leaf(c, k, ds, m)
  PROVE  Get(c, r, k, ds).value # Calc /\ Get(c, r, k, ds).value.kind # "demand"
<1> DEFINE met == Walk(c, k, ds)
           found == c[m].content
<1>1. m \in met /\ c # <<>>
  BY DEF Walk, Leaf
<1>2. ASSUME NEW q \in met
      PROVE  Len(q) <= Len(m)
  <2>1. q \in DOMAIN c /\ Agrees(q, k) /\ Len(q) \in Nat /\ Len(m) \in Nat
    BY <1>1 DEF Walk, IsCache, IsPath
  <2>2. Len(m) <= Len(q) => q = m
    BY <2>1, OneLeaf DEF Leaf
  <2> QED
    BY <2>1, <2>2
<1>3. Deepest(met) = m
  BY <1>1, <1>2, DeepestOf
<1>4. Get(c, r, k, ds).value = Answer(found, ds)
  BY <1>1, <1>3 DEF Get
<1>5. found.kind \notin {"level", "demand"}
  BY DEF Leaf, IsCache
<1> HIDE DEF found
<1>6. Answer(found, ds) = Special("sploop") \/ (found.kind # "calc" /\ Answer(found, ds) = found)
  BY <1>5 DEF Answer
<1>7. Special("sploop").kind = "special" /\ Calc.kind = "calc"
  BY KindsAre
<1> QED
  BY <1>4, <1>5, <1>6, <1>7

LEMMA SettledByGet ==
  ASSUME WarehouseInv, CacheGet
  PROVE  Settled'
<1> SUFFICES ASSUME control'.do = "finish"
             PROVE  \E m : Leaf(caches'[Top'.of], kappa', Top'.delta, m)
  BY DEF Settled
<1> DEFINE x == Top.of
           c == caches[x]
           got == Get(c, retirement[x], kappa, delta)
           last == Deepest(Walk(c, kappa, delta))
           found == c[last].content
<1>1. /\ control = Looking /\ Keep(x, got) /\ equations' = equations /\ kappa' = kappa
  BY DEF CacheGet, Outside
<1>2. /\ got.value.kind \notin {"calc", "demand"} /\ stack' = stack
  BY ControlIs DEF CacheGet, Demanded
<1>3. Calls /\ Len(stack) # 0 /\ Top.fn = "cache"
  BY <1>1, Active, ControlIs DEF WarehouseInv, Inside
<1>4. x \in Name /\ delta \subseteq Top.delta
  BY <1>3, TopOf
<1>5. IsCache(c)
  BY <1>4 DEF WarehouseInv, CachesOK
<1>6. Kept(c, got.cache) /\ caches'[x] = got.cache
  BY <1>1, <1>4, GetChanges DEF GetKeeps
<1>7. c # <<>> /\ got.value = Answer(found, delta)
  <2>1. c = <<>> => got.value = Calc
    BY DEF Get
  <2>2. c # <<>>
    BY <1>2, <2>1, KindsAre
  <2> QED
    BY <2>2 DEF Get
<1> HIDE DEF got
<1>8. last \in DOMAIN c /\ Agrees(last, kappa) /\ Contains(delta, DimsOf(last))
  BY <1>5, <1>7, WalkEnds DEF Walk
<1>9. found.kind # "level"
  <2> HIDE DEF found
  <2>1. found.kind = "level" => Answer(found, delta).kind \in {"calc", "demand"}
    BY KindsAre DEF Answer
  <2> QED
    BY <1>2, <1>7, <2>1
<1>10. Contains(Top.delta, DimsOf(last))
  BY <1>4, <1>8 DEF Contains
<1>11. Leaf(got.cache, kappa, Top.delta, last)
  BY <1>6, <1>8, <1>9, <1>10 DEF Kept, Leaf
<1>12. Top' = Top
  BY <1>2 DEF Top
<1> QED
  BY <1>1, <1>6, <1>11, <1>12

LEMMA SettledBySet ==
  ASSUME WarehouseInv, NEW V, TypedNow(V), CacheSet
  PROVE  Settled'
<1> SUFFICES ASSUME control'.do = "finish"
             PROVE  \E m : Leaf(caches'[Top'.of], kappa', Top'.delta, m)
  BY DEF Settled
<1> DEFINE x == Top.of
           value == control.value
<1>1. value.kind # "demand" /\ stack' = stack
  BY ControlIs DEF CacheSet, Demanded
<1>2. PICK own :
        /\ x \in Name /\ Len(stack) # 0 /\ kappa' = kappa
        /\ Computes(caches[x], own, kappa, delta) /\ Mark(caches[x], kappa) = own
        /\ SetKeeps(caches[x], kappa, value, caches'[x])
  BY SetMade
<1>3. delta \subseteq Top.delta
  BY <1>2, TopOf DEF WarehouseInv, CacheSet, ReturningTo
<1>4. value.kind # "level"
  <2>1. Closures(V) /\ IsAnswer(V, value)
    BY DEF CacheSet, ReturningTo, TypedNow, Typed, ControlTyped
  <2> QED
    BY <2>1, KindOf DEF Constants
<1>5. /\ own \in DOMAIN caches[x] /\ Agrees(own, kappa) /\ Contains(delta, DimsOf(own))
  BY <1>2 DEF Computes, CalcsOf
<1>6. DOMAIN caches'[x] = DOMAIN caches[x] /\ caches'[x][own].content = value
  BY <1>1, <1>2 DEF SetKeeps, Stored
<1>7. Leaf(caches'[x], kappa, Top.delta, own)
  BY <1>3, <1>4, <1>5, <1>6 DEF Leaf, Contains
<1>8. Top' = Top
  BY <1>1 DEF Top
<1> QED
  BY <1>2, <1>7, <1>8

(***************************************************************************)
(* The steps of the world outside                                          *)
(***************************************************************************)
LEMMA OuterTyped ==
  ASSUME NEW V, NEW f, DOMAIN f = Dim, \A d \in Dim : \E n : f[d] = Intmp(n)
  PROVE  IsContext(V, Outer(f))
<1> DEFINE unset == [d \in Hidden |-> Unset]
<1>1. /\ DOMAIN Outer(f) = Dims
      /\ \A d \in Dims : Outer(f)[d] = IF d \in Dim THEN f[d] ELSE unset[d]
  BY DEF Outer, Perturbed, Dims
<1>2. \A d \in Hidden : unset[d] = Unset
  OBVIOUS
<1> HIDE DEF unset
<1>3. \A n : IsValue(V, Intmp(n))
  BY KindsAre DEF IsValue, Constants
<1>4. IsValue(V, Unset)
  BY SpecialIs DEF Unset
<1>5. \A d \in Dims : IsValue(V, Outer(f)[d])
  BY <1>1, <1>2, <1>3, <1>4 DEF Dims
<1> QED
  BY <1>1, <1>5 DEF IsContext

LEMMA OutsideTyped ==
  ASSUME NEW V, TypedNow(V), equations' = equations,
         \A x \in Name : CacheTyped(V, caches'[x]),
         IsContext(V, kappa'), IsDelta(delta'), Frames(V, stack'), ControlTyped(V, control')
  PROVE  TypedNow(V)'
<1>1. Name' = Name
  BY NamesStay
<1>2. Typed(V, kappa', delta', stack', control', caches', Name')
  BY <1>1 DEF TypedNow, Typed, Frames
<1> QED
  BY <1>2 DEF TypedNow

LEMMA AlreadyTyped ==
  ASSUME NEW V, TypedNow(V)
  PROVE  /\ Closures(V) /\ IsContext(V, kappa) /\ IsDelta(delta) /\ Frames(V, stack)
         /\ ControlTyped(V, control) /\ \A x \in Name : CacheTyped(V, caches[x])
BY DEF TypedNow, Typed, Frames

LEMMA NoFrames ==
  ASSUME NEW V
  PROVE  Frames(V, <<>>)
BY NoFrame DEF Frames

LEMMA ThrowTyped ==
  ASSUME Calls, NEW V, TypedNow(V), EvalThrows
  PROVE  TypedNow(V)'
<1>1. /\ kappa' = stack[1].kappa /\ delta' = {} /\ stack' = <<>> /\ control' = Idle
      /\ UNCHANGED <<equations, caches>> /\ control.do = "eval"
  BY DEF EvalThrows, Evaluating
<1>2. Len(stack) # 0 /\ 1 \in 1..Len(stack)
  BY <1>1, Active, TopOf
<1>3. IsContext(V, kappa') /\ \A x \in Name : CacheTyped(V, caches'[x])
  BY <1>1, <1>2, AlreadyTyped DEF Frames, FrameTyped
<1>4. IsDelta(delta') /\ Frames(V, stack') /\ ControlTyped(V, control')
  BY <1>1, NoFrames DEF IsDelta, ControlTyped, Idle
<1> QED
  BY <1>1, <1>3, <1>4, OutsideTyped

LEMMA LinkTyped ==
  ASSUME Calls, NEW V, TypedNow(V), ReturnLink
  PROVE  TypedNow(V)'
<1> DEFINE c == control.value
<1>1. control.do = "return" /\ UNCHANGED <<equations, kappa, caches>>
  BY DEF ReturnLink, ReturningTo
<1>2. /\ IsAnswer(V, c) /\ Frames(V, stack) /\ Frames(V, Popped) /\ Closures(V)
      /\ IsContext(V, kappa) /\ IsDelta(delta)
  BY <1>1, Active, TopTyped DEF ControlTyped
<1>3. \A x \in Name : CacheTyped(V, caches'[x])
  BY <1>1, AlreadyTyped
<1>4. CASE c.kind = "demand"
  <2>1. delta' = delta \cup c.dims /\ control' = Call(Top.of) /\ stack' = stack
    BY <1>4 DEF ReturnLink
  <2>2. c.dims \subseteq Dims
    BY <1>2, <1>4, KindOf DEF IsAnswer, Constants
  <2>3. IsDelta(delta') /\ ControlTyped(V, control')
    BY <1>2, <2>1, <2>2 DEF IsDelta, ControlTyped, Call
  <2> QED
    BY <1>1, <1>2, <1>3, <2>1, <2>3, OutsideTyped
<1>5. CASE c.kind # "demand"
  <2>1. delta' = {} /\ control' = Idle /\ stack' = Popped
    BY <1>5 DEF ReturnLink
  <2>2. IsDelta(delta') /\ ControlTyped(V, control')
    BY <2>1 DEF IsDelta, ControlTyped, Idle
  <2> QED
    BY <1>1, <1>2, <1>3, <2>1, <2>2, OutsideTyped
<1> QED
  BY <1>4, <1>5

LEMMA AskTyped ==
  ASSUME NEW V, TypedNow(V), NEW x, NEW k \in Context, Ask(x, k)
  PROVE  TypedNow(V)'
<1> DEFINE f == [fn |-> "link", of |-> x, delta |-> {}, kappa |-> k]
<1>1. /\ stack' = <<f>> /\ kappa' = k /\ delta' = {} /\ control' = Call(x)
      /\ UNCHANGED <<equations, caches>>
  BY DEF Ask
<1>2. IsContext(V, k)
  <2>1. PICK kk : k = Outer([d \in Dim |-> Intmp(kk[d])])
    BY DEF Context
  <2> DEFINE g == [d \in Dim |-> Intmp(kk[d])]
  <2>2. DOMAIN g = Dim /\ \A d \in Dim : \E n : g[d] = Intmp(n)
    OBVIOUS
  <2> HIDE DEF g
  <2>3. IsContext(V, Outer(g))
    BY <2>2, OuterTyped
  <2> QED
    BY <2>1, <2>3 DEF g
<1>3. f.fn = "link" /\ f.delta = {} /\ f.kappa = k
  OBVIOUS
<1> HIDE DEF f
<1>4. FrameTyped(V, f)
  BY <1>2, <1>3 DEF FrameTyped, IsDelta
<1>5. Frames(V, stack')
  <2>1. Len(<<f>>) = 1 /\ <<f>>[1] = f
    BY OneFrame
  <2>2. Frames(V, <<f>>)
    BY <1>4, <2>1 DEF Frames
  <2> QED
    BY <1>1, <2>2
<1>6. IsDelta(delta') /\ ControlTyped(V, control') /\ IsContext(V, kappa')
  BY <1>1, <1>2 DEF IsDelta, ControlTyped, Call
<1>7. \A y \in Name : CacheTyped(V, caches'[y])
  BY <1>1, AlreadyTyped
<1> QED
  BY <1>1, <1>5, <1>6, <1>7, OutsideTyped

LEMMA CollectTyped ==
  ASSUME WarehouseInv, NEW V, TypedNow(V), EndInstant
  PROVE  TypedNow(V)'
<1>1. /\ kappa' = Outer([d \in Dim |-> Intmp(IF d = TimeDim THEN now' ELSE 0)])
      /\ UNCHANGED <<equations, delta, stack, control>>
  BY DEF EndInstant
<1>2. ASSUME NEW x \in Name
      PROVE  CacheTyped(V, caches'[x])
  <2>1. Collects(x) /\ CacheTyped(V, caches[x])
    BY CollectStep, AlreadyTyped
  <2> QED
    BY <2>1 DEF Collects, CollectKeeps, CacheTyped
<1>3. IsContext(V, kappa')
  <2>1. PICK n : n = now'
    OBVIOUS
  <2> DEFINE g == [d \in Dim |-> Intmp(IF d = TimeDim THEN n ELSE 0)]
  <2>2. DOMAIN g = Dim /\ \A d \in Dim : \E m : g[d] = Intmp(m)
    OBVIOUS
  <2> HIDE DEF g
  <2>3. IsContext(V, Outer(g))
    BY <2>2, OuterTyped
  <2> QED
    BY <1>1, <2>1, <2>3 DEF g
<1> QED
  BY <1>1, <1>2, <1>3, AlreadyTyped, OutsideTyped

(***************************************************************************)
(* The shape of the state                                                  *)
(***************************************************************************)
TypedWarehouse == WarehouseInv /\ TypedInv /\ Settled

LEMMA TypedStarts ==
  ASSUME Init
  PROVE  TypedWarehouse
<1>1. /\ equations \in Programs /\ now = 0 /\ demands = 0 /\ delta = {} /\ stack = <<>>
      /\ kappa = Outer([d \in Dim |-> Intmp(0)]) /\ control = Idle
      /\ caches = [x \in Name |-> <<>>]
  BY DEF Init
<1>2. IsContext({}, kappa)
  <2> DEFINE g == [d \in Dim |-> Intmp(0)]
  <2>1. DOMAIN g = Dim /\ \A d \in Dim : \E n : g[d] = Intmp(n)
    OBVIOUS
  <2> HIDE DEF g
  <2>2. IsContext({}, Outer(g))
    BY <2>1, OuterTyped
  <2> QED
    BY <1>1, <2>2 DEF g
<1>3. IsDelta(delta) /\ ControlTyped({}, control) /\ Closures({})
  BY <1>1 DEF IsDelta, ControlTyped, Idle, Closures
<1>4. Frames({}, stack)
  BY <1>1, NoFrames
<1>5. \A x \in Name : CacheTyped({}, caches[x])
  <2>1. CacheTyped({}, <<>>)
    BY EmptyCache DEF CacheTyped
  <2> QED
    BY <1>1, <2>1
<1>6. TypedNow({})
  BY <1>2, <1>3, <1>4, <1>5 DEF TypedNow, Typed, Frames
<1>7. now \in Instant /\ demands \in 0..MaxDemands
  BY <1>1, WarehouseAssumption DEF Instant
<1>8. Settled
  BY <1>1, ControlIs DEF Settled
<1> QED
  BY <1>1, <1>6, <1>7, <1>8, WarehouseStarts DEF TypedWarehouse, TypedInv

\* CacheWS gets behind its loop from within it, and in no other way
Elsewhere(ctl) ==
  \/ \E e : ctl = Eval(e)
  \/ \E x : ctl = Call(x)
  \/ \E c : ctl = Return(c)
  \/ ctl = Looking \/ ctl = Idle

LEMMA OnlyFromLoop ==
  ASSUME \/ EvalConst \/ EvalHash \/ EvalIdent \/ EvalIf \/ EvalBang \/ EvalAt
         \/ EvalAbstraction \/ EvalApply \/ ReturnIf \/ ReturnBang \/ ReturnAt
         \/ ReturnApply \/ EvalThrows \/ CallCache \/ CacheFinish \/ ReturnLink
         \/ \E x \in Name, k \in Context : Ask(x, k)
  PROVE  control'.do # "finish"
<1> SUFFICES Elsewhere(control')
  BY ControlIs DEF Elsewhere
<1>1. CASE EvalConst \/ EvalHash \/ EvalIdent \/ EvalAbstraction
  BY <1>1, Zenon DEF EvalConst, EvalHash, EvalIdent, EvalAbstraction, Yield, Elsewhere
<1>2. CASE EvalIf \/ EvalBang \/ EvalAt \/ EvalApply
  BY <1>2, Zenon DEF EvalIf, EvalBang, EvalAt, EvalApply, Elsewhere
<1>3. CASE ReturnIf \/ ReturnBang
  BY <1>3, Zenon DEF ReturnIf, ReturnBang, Elsewhere
<1>4. CASE ReturnAt
  BY <1>4, Zenon DEF ReturnAt, Yield, Elsewhere
<1>5. CASE ReturnApply
  <2>1. \A c : Answered(c) => Elsewhere(control')
    BY Zenon DEF Answered, Yield, Elsewhere
  <2>2. \A f, args : Enter(f, args) => Elsewhere(control')
    BY Zenon DEF Enter, Elsewhere
  <2>3. \A by, done : ApplyNow(by, done) => Elsewhere(control')
    BY <2>1, <2>2, Zenon DEF ApplyNow
  <2>4. \/ \E e : control' = Eval(e)
        \/ \E by, done : ApplyNow(by, done)
    BY <1>5, Zenon DEF ReturnApply
  <2> QED
    BY <2>3, <2>4, Zenon DEF Elsewhere
<1>6. CASE EvalThrows \/ CallCache \/ CacheFinish \/ ReturnLink
  BY <1>6, Zenon DEF EvalThrows, CallCache, CacheFinish, ReturnLink, Elsewhere
<1>7. CASE \E x \in Name, k \in Context : Ask(x, k)
  BY <1>7, Zenon DEF Ask, Elsewhere
<1> QED
  BY <1>1, <1>2, <1>3, <1>4, <1>5, <1>6, <1>7

LEMMA SettledStays ==
  ASSUME WarehouseInv, NEW V, TypedNow(V), Settled, [Next]_vars
  PROVE  Settled'
<1>1. CASE CacheGet
  BY <1>1, SettledByGet
<1>2. CASE CacheSet
  BY <1>2, SettledBySet
<1>3. CASE UNCHANGED vars
  BY <1>3 DEF vars, Settled, Top
<1>4. CASE ReturnPerturbed
  <2>1. control'.do # "finish"
    BY <1>4 DEF ReturnPerturbed, ReturningTo
  <2> QED
    BY <2>1 DEF Settled
<1>5. CASE EndInstant
  <2>1. Len(stack) = 0 /\ control' = control
    BY <1>5, NoFrame DEF EndInstant
  <2>2. control.do # "finish"
    BY <2>1, Active DEF WarehouseInv
  <2> QED
    BY <2>1, <2>2 DEF Settled
<1>6. CASE control'.do # "finish"
  BY <1>6 DEF Settled
<1> QED
  BY <1>1, <1>2, <1>3, <1>4, <1>5, <1>6, OnlyFromLoop DEF Next, Step

LEMMA TypedStays ==
  ASSUME HostFunctions, WarehouseInv, equations \in Programs, Settled,
         NEW V, TypedNow(V), [Next]_vars
  PROVE  \E W : TypedNow(W)'
<1>0. Calls
  BY DEF WarehouseInv
<1>1. CASE \/ EvalConst \/ EvalHash \/ EvalIdent \/ EvalIf \/ EvalBang \/ EvalAt
           \/ EvalAbstraction \/ EvalApply
  BY <1>0, <1>1, EvalTyped
<1>2. CASE ReturnIf \/ ReturnBang \/ ReturnAt \/ ReturnPerturbed
  BY <1>0, <1>2, ReturnTyped
<1>3. CASE ReturnApply
  BY <1>0, <1>3, ApplyTyped
<1>4. CASE CallCache
  BY <1>0, <1>4, CallTyped
<1>5. CASE CacheGet
  BY <1>5, GetStepTyped
<1>6. CASE CacheSet
  BY <1>6, SetStepTyped
<1>7. CASE CacheFinish
  <2>1. control.do = "finish"
    BY <1>7, ControlIs DEF CacheFinish
  <2>2. PICK m : Leaf(caches[Top.of], kappa, Top.delta, m)
    BY <2>1 DEF Settled
  <2>3. Top.of \in Name
    BY <1>0, <2>1, Active, TopOf DEF Inside
  <2>4. IsCache(caches[Top.of])
    BY <2>3 DEF WarehouseInv, CachesOK
  <2>5. Get(caches[Top.of], retirement[Top.of], kappa, Top.delta).value # Calc
    BY <2>2, <2>4, LeafAnswers
  <2> QED
    BY <1>7, <2>5, FinishStepTyped
<1>8. CASE EvalThrows
  BY <1>0, <1>8, ThrowTyped
<1>9. CASE ReturnLink
  BY <1>0, <1>9, LinkTyped
<1>10. CASE \E x \in Name, k \in Context : Ask(x, k)
  BY <1>10, AskTyped
<1>11. CASE EndInstant
  BY <1>11, CollectTyped
<1>12. CASE UNCHANGED vars
  <2>1. UNCHANGED <<equations, kappa, delta, stack, control, caches>>
    BY <1>12 DEF vars
  <2> QED
    BY <2>1, AlreadyTyped, OutsideTyped
<1> QED
  BY <1>1, <1>2, <1>3, <1>4, <1>5, <1>6, <1>7, <1>8, <1>9, <1>10, <1>11, <1>12 DEF Next, Step

LEMMA OutsideIs ==
  ASSUME equations \in Programs, now \in Instant, demands \in 0..MaxDemands, [Next]_vars
  PROVE  equations' \in Programs /\ now' \in Instant /\ demands' \in 0..MaxDemands
<1>1. CASE Step
  BY <1>1 DEF Step, EvalConst, EvalHash, EvalIdent, EvalThrows, EvalIf, EvalBang, EvalAt,
       EvalAbstraction, EvalApply, ReturnApply, ReturnIf, ReturnBang, ReturnAt,
       ReturnPerturbed, ReturnLink, CallCache, CacheGet, CacheSet, CacheFinish, Local, Outside
<1>2. CASE \E x \in Name, k \in Context : Ask(x, k)
  BY <1>2, WarehouseAssumption DEF Ask
<1>3. CASE EndInstant
  BY <1>3, WarehouseAssumption DEF EndInstant, Instant
<1>4. CASE UNCHANGED vars
  BY <1>4 DEF vars
<1> QED
  BY <1>1, <1>2, <1>3, <1>4 DEF Next

LEMMA TypedKeeps ==
  ASSUME HostFunctions, TypedWarehouse, [Next]_vars
  PROVE  TypedWarehouse'
<1>1. PICK V : TypedNow(V)
  BY DEF TypedWarehouse, TypedInv
<1>2. WarehouseInv /\ Settled /\ equations \in Programs
  BY DEF TypedWarehouse, TypedInv
<1>3. WarehouseInv'
  BY <1>2, WarehouseKeeps
<1>4. Settled'
  BY <1>1, <1>2, SettledStays
<1>5. \E W : TypedNow(W)'
  BY <1>1, <1>2, TypedStays
<1>6. equations' \in Programs /\ now' \in Instant /\ demands' \in 0..MaxDemands
  BY OutsideIs DEF TypedWarehouse, TypedInv
<1> QED
  BY <1>3, <1>4, <1>5, <1>6 DEF TypedWarehouse, TypedInv, Instant

LEMMA TypedAlways ==
  ASSUME HostFunctions
  PROVE  Spec => []TypedWarehouse
<1>1. Init => TypedWarehouse
  BY TypedStarts
<1>2. TypedWarehouse /\ [Next]_vars => TypedWarehouse'
  BY TypedKeeps
<1> QED
  BY <1>1, <1>2, PTL DEF Spec

\* Contexts stay total and hold values, deltas list dimensions, and caches stay
\* trees whose paths go through levels: no demand and no calc is ever taken for
\* the ordinate of a dimension or for the value of an entry, whatever functions
\* and intensions a program makes, binds and applies.
THEOREM WarehouseTyped ==
  ASSUME HostFunctions
  PROVE  Spec => []TypeOK
<1>1. TypedWarehouse => TypeOK
  <2> SUFFICES ASSUME TypedWarehouse
               PROVE  TypeOK
    OBVIOUS
  <2>1. PICK V : TypedNow(V)
    BY DEF TypedWarehouse, TypedInv
  <2>2. /\ Closures(V) /\ IsContext(V, kappa) /\ IsDelta(delta)
        /\ \A x \in Name : CacheTyped(V, caches[x]) /\ IsCache(caches[x])
    BY <2>1, AlreadyTyped DEF TypedWarehouse, WarehouseInv, CachesOK
  <2>3. DOMAIN kappa = Dim \cup Hidden /\ delta \subseteq DOMAIN kappa \cup {Everything}
    BY <2>2 DEF IsContext, IsDelta, Dims
  <2>4. \A d \in DOMAIN kappa : kappa[d].kind \in {"intmp", "bool", "special", "closure"}
    BY <2>2, KindOf DEF IsContext, Constants
  <2>5. ASSUME NEW x \in Name, NEW p \in DOMAIN caches[x]
        PROVE  /\ caches[x][p].content.kind \in Kinds \ {"demand"}
               /\ caches[x][p].content.kind = "level" =>
                    caches[x][p].content = Level(caches[x][p].content.dims)
               /\ caches[x][p].age \in Nat
    <3> DEFINE content == caches[x][p].content
    <3>1. IsContent(V, content) /\ IsEntry(caches[x][p])
      BY <2>2 DEF CacheTyped, IsCache
    <3> HIDE DEF content
    <3>2. CASE IsValue(V, content)
      BY <2>2, <3>1, <3>2, KindOf DEF Constants, Kinds, IsEntry, content
    <3>3. CASE content = Calc
      BY <3>1, <3>3, KindsAre DEF Kinds, IsEntry, content
    <3>4. CASE content = Level(content.dims)
      BY <3>1, <3>4, KindsAre DEF Kinds, IsEntry, content
    <3> QED
      BY <3>1, <3>2, <3>3, <3>4 DEF IsContent
  <2>6. ASSUME NEW x \in Name, NEW p \in DOMAIN caches[x], NEW n \in 0..(Len(p) - 1)
        PROVE  /\ SubSeq(p, 1, n) \in DOMAIN caches[x]
               /\ caches[x][SubSeq(p, 1, n)].content = Level(DOMAIN p[n + 1])
    <3>1. Hangs(caches[x], p)
      BY <2>2 DEF IsCache
    <3>2. /\ SubSeq(p, 1, n) \in DOMAIN caches[x]
          /\ caches[x][SubSeq(p, 1, n)].content.kind = "level"
          /\ caches[x][SubSeq(p, 1, n)].content.dims = DOMAIN p[n + 1]
      BY <3>1 DEF Hangs, Prefix
    <3> QED
      BY <2>5, <3>2
  <2>7. now \in Instant /\ demands \in 0..MaxDemands
    BY DEF TypedWarehouse, TypedInv
  <2> QED
    BY <2>3, <2>4, <2>5, <2>6, <2>7 DEF TypeOK
<1> QED
  BY <1>1, TypedAlways, PTL

(***************************************************************************)
(* Calcs: as many as there are calls that compute, but for those that an   *)
(* exception has left behind                                               *)
(***************************************************************************)
ComputedBy(s, ctl, x) == {i \in 1..Len(s) : Busy(s, ctl, i) /\ s[i].of = x}

Left(c, s, ctl, x) == Cardinality(CalcsOf(c)) - Cardinality(ComputedBy(s, ctl, x))

\* The calls t, with "then" in progress, compute what the calls s did
SameBusy(s, ctl, t, then) ==
  \A i : /\ Busy(t, then, i) <=> Busy(s, ctl, i)
         /\ Busy(s, ctl, i) => t[i].of = s[i].of

LEMMA ComputingIs ==
  ASSUME NEW s, IsSeq(s), NEW ctl, NEW x
  PROVE  {i \in DOMAIN s :
            /\ s[i].fn = "cache" /\ s[i].of = x
            /\ i = Len(s) => ctl.do \notin {"get", "finish"}} = ComputedBy(s, ctl, x)
<1>1. DOMAIN s = 1..Len(s)
  BY DEF IsSeq
<1> QED
  BY <1>1 DEF ComputedBy, Busy, Inside

LEMMA CountsAre ==
  ASSUME NEW c, IsCache(c), NEW s, IsSeq(s), NEW ctl, NEW x
  PROVE  /\ IsFiniteSet(CalcsOf(c)) /\ Cardinality(CalcsOf(c)) \in Nat
         /\ IsFiniteSet(ComputedBy(s, ctl, x)) /\ Cardinality(ComputedBy(s, ctl, x)) \in Nat
<1>1. IsFiniteSet(CalcsOf(c))
  <2>1. IsFiniteSet(DOMAIN c) /\ CalcsOf(c) \in SUBSET DOMAIN c
    BY DEF IsCache, CalcsOf
  <2> QED
    BY <2>1, FS_Subset
<1>2. IsFiniteSet(ComputedBy(s, ctl, x))
  <2>1. Len(s) \in Int /\ 1 \in Int
    BY DEF IsSeq
  <2>2. IsFiniteSet(1..Len(s)) /\ ComputedBy(s, ctl, x) \in SUBSET (1..Len(s))
    BY <2>1, FS_Interval DEF ComputedBy
  <2> QED
    BY <2>2, FS_Subset
<1> QED
  BY <1>1, <1>2, FS_CardinalityType

LEMMA BusyKept ==
  ASSUME NEW s, NEW ctl, NEW t, NEW then, SameBusy(s, ctl, t, then), NEW x
  PROVE  ComputedBy(t, then, x) = ComputedBy(s, ctl, x)
BY DEF SameBusy, ComputedBy, Busy

LEMMA BusyStays ==
  ASSUME NEW s, NEW ctl, NEW then, Inside(ctl) <=> Inside(then)
  PROVE  SameBusy(s, ctl, s, then)
BY DEF SameBusy, Busy

LEMMA BusyPush ==
  ASSUME NEW s, IsSeq(s), NEW f, NEW ctl, NEW then,
         ~Inside(ctl), f.fn = "cache" => Inside(then)
  PROVE  SameBusy(s, ctl, Append(s, f), then)
<1> DEFINE t == Append(s, f)
<1>1. /\ Len(t) = Len(s) + 1 /\ t[Len(s) + 1] = f /\ Len(s) \in Nat
      /\ \A i \in 1..Len(s) : t[i] = s[i]
  BY PushIs DEF IsSeq
<1> HIDE DEF t
<1>2. \A i : i \in 1..Len(t) <=> i \in 1..Len(s) \/ i = Len(t)
  BY <1>1
<1>3. Len(t) \notin 1..Len(s)
  BY <1>1
<1>4. SameBusy(s, ctl, t, then)
  BY <1>1, <1>2, <1>3 DEF SameBusy, Busy
<1> QED
  BY <1>4 DEF t

LEMMA BusyPop ==
  ASSUME NEW s, IsSeq(s), Len(s) # 0, NEW ctl, NEW then,
         s[Len(s)].fn # "cache" \/ Inside(ctl), ~Inside(then)
  PROVE  SameBusy(s, ctl, SubSeq(s, 1, Len(s) - 1), then)
<1> DEFINE t == SubSeq(s, 1, Len(s) - 1)
<1>1. /\ Len(t) = Len(s) - 1 /\ Len(s) \in Nat
      /\ \A i \in 1..(Len(s) - 1) : t[i] = s[i]
  BY PopIs DEF IsSeq
<1> HIDE DEF t
<1>2. \A i : i \in 1..Len(s) <=> i \in 1..Len(t) \/ i = Len(s)
  BY <1>1
<1>3. Len(s) \notin 1..Len(t) /\ \A i \in 1..Len(t) : t[i] = s[i]
  BY <1>1
<1>4. SameBusy(s, ctl, t, then)
  BY <1>2, <1>3 DEF SameBusy, Busy
<1> QED
  BY <1>4 DEF t

LEMMA BusyTurn ==
  ASSUME NEW s, IsSeq(s), Len(s) # 0, NEW t, Len(t) = Len(s), NEW ctl, NEW then,
         s[Len(s)].fn # "cache", t[Len(s)].fn # "cache",
         \A i \in 1..(Len(s) - 1) : t[i] = s[i]
  PROVE  SameBusy(s, ctl, t, then)
<1>1. \A i : i \in 1..Len(s) <=> i \in 1..(Len(s) - 1) \/ i = Len(s)
  BY DEF IsSeq
<1>2. Len(s) \notin 1..(Len(s) - 1)
  BY DEF IsSeq
<1> QED
  BY <1>1, <1>2 DEF SameBusy, Busy

(* The actions *)

SameCalls == SameBusy(stack, control, stack', control')

\* One step in which the calls that compute stay the same
LEMMA CallsPush ==
  ASSUME WarehouseInv, ~Inside(control), NEW fn, NEW of, stack' = Push(Frame(fn, of)),
         fn = "cache" => Inside(control')
  PROVE  SameCalls
<1>1. IsSeq(stack)
  BY DEF WarehouseInv, Calls, CallsOK, FramesOK
<1>2. Frame(fn, of).fn = fn
  BY DEF Frame
<1> QED
  BY <1>1, <1>2, BusyPush DEF SameCalls, Push

LEMMA CallsPop ==
  ASSUME WarehouseInv, Len(stack) # 0, Top.fn # "cache" \/ Inside(control),
         stack' = Popped, ~Inside(control')
  PROVE  SameCalls
<1>1. IsSeq(stack) /\ Top = stack[Len(stack)]
  BY TopOf DEF WarehouseInv
<1> QED
  BY <1>1, BusyPop DEF SameCalls, Popped

LEMMA CallsEnter ==
  ASSUME WarehouseInv, Len(stack) # 0, Top.fn # "cache",
         NEW of, stack' = Append(Popped, Frame("perturbed", of))
  PROVE  SameCalls
<1> DEFINE f == Frame("perturbed", of)
<1>1. IsSeq(stack) /\ Top = stack[Len(stack)] /\ f.fn = "perturbed"
  BY TopOf DEF WarehouseInv, Frame
<1> HIDE DEF f
<1>2. LET t == Append(SubSeq(stack, 1, Len(stack) - 1), f)
      IN  /\ IsSeq(t) /\ Len(t) = Len(stack) /\ t[Len(stack)] = f
          /\ \A i \in 1..(Len(stack) - 1) : t[i] = stack[i]
  BY <1>1, ReplaceIs
<1>3. /\ Len(stack') = Len(stack) /\ stack'[Len(stack)] = f
      /\ \A i \in 1..(Len(stack) - 1) : stack'[i] = stack[i]
  BY <1>2 DEF Popped, f
<1> QED
  BY <1>1, <1>3, BusyTurn DEF SameCalls

LEMMA CallsContinue ==
  ASSUME WarehouseInv, Len(stack) # 0, Top.fn # "cache",
         NEW done, stack' = [stack EXCEPT ![Len(stack)].of.done = done]
  PROVE  SameCalls
<1> DEFINE n == Len(stack)
           f == [Top EXCEPT !.of = [Top.of EXCEPT !.done = done]]
<1>1. Top = stack[n] /\ IsFrame(Top) /\ IsSeq(stack) /\ n \in Nat /\ n # 0
  BY TopOf DEF WarehouseInv
<1>2. f.fn = Top.fn
  <2>1. \A a, b, c, d, e : [[fn |-> a, of |-> b, delta |-> c, kappa |-> d] EXCEPT !.of = e].fn = a
    OBVIOUS
  <2> QED
    BY <1>1, <2>1 DEF IsFrame
<1>3. stack' = [stack EXCEPT ![n] = f]
  <2>1. \A s, i, d : [s EXCEPT ![i].of.done = d]
                       = [s EXCEPT ![i] = [s[i] EXCEPT !.of = [s[i].of EXCEPT !.done = d]]]
    OBVIOUS
  <2> QED
    BY <1>1, <2>1
<1> HIDE DEF f
<1>4. Len(stack') = n /\ stack'[n] = f /\ \A i \in 1..(n - 1) : stack'[i] = stack[i]
  <2>1. PICK S : stack \in Seq(S)
    BY <1>1, SeqIsSequence
  <2>2. stack \in Seq(S \cup {f}) /\ f \in S \cup {f}
    BY <2>1
  <2> QED
    BY <1>1, <1>3, <2>2
<1> QED
  BY <1>1, <1>2, <1>4, BusyTurn DEF SameCalls

LEMMA EvalCalls ==
  ASSUME WarehouseInv,
         \/ EvalConst \/ EvalHash \/ EvalIdent \/ EvalIf \/ EvalBang \/ EvalAt
         \/ EvalAbstraction \/ EvalApply \/ CallCache
  PROVE  SameCalls
<1>1. ~Inside(control)
  BY Zenon, ControlIs DEF EvalConst, EvalHash, EvalIdent, EvalIf, EvalBang, EvalAt,
      EvalAbstraction, EvalApply, CallCache, Evaluating, Inside
<1>2. CASE EvalConst \/ EvalHash \/ EvalIdent \/ EvalAbstraction
  <2>1. stack' = stack
    BY <1>2 DEF EvalConst, EvalHash, EvalIdent, EvalAbstraction
  <2>2. Elsewhere(control') /\ control' # Looking
    BY <1>2, ControlIs, Zenon DEF EvalConst, EvalHash, EvalIdent, EvalAbstraction, Yield, Elsewhere
  <2>3. ~Inside(control')
    BY <2>2, ControlIs DEF Elsewhere, Inside
  <2> QED
    BY <1>1, <2>1, <2>3, BusyStays DEF SameCalls
<1>3. CASE EvalIf \/ EvalBang \/ EvalAt \/ EvalApply
  <2>1. \E fn, of : stack' = Push(Frame(fn, of)) /\ fn # "cache"
    BY <1>3 DEF EvalIf, EvalBang, EvalAt, EvalApply
  <2> QED
    BY <1>1, <2>1, CallsPush
<1>4. CASE CallCache
  <2>1. stack' = Push(Frame("cache", control.name)) /\ Inside(control')
    BY <1>4, ControlIs DEF CallCache
  <2> QED
    BY <1>1, <2>1, CallsPush
<1> QED
  BY <1>2, <1>3, <1>4

LEMMA ReturnCalls ==
  ASSUME WarehouseInv,
         ReturnIf \/ ReturnBang \/ ReturnAt \/ ReturnPerturbed \/ ReturnApply
  PROVE  SameCalls
<1>1. /\ control.do = "return" /\ Top.fn # "cache"
  BY DEF ReturnIf, ReturnBang, ReturnAt, ReturnPerturbed, ReturnApply, ReturningTo
<1>2. Len(stack) # 0 /\ ~Inside(control)
  BY <1>1, Active DEF WarehouseInv
<1>3. ~Inside(control') /\ control'.do \in {"eval", "return"}
  <2>1. (\E e : control' = Eval(e)) \/ (\E c : control' = Return(c)) \/ control' = control
    <3>1. CASE ReturnIf \/ ReturnBang
      BY <3>1, Zenon DEF ReturnIf, ReturnBang
    <3>2. CASE ReturnAt
      BY <3>2, Zenon DEF ReturnAt, Yield
    <3>3. CASE ReturnPerturbed
      BY <3>3, Zenon DEF ReturnPerturbed
    <3>4. CASE ReturnApply
      <4>1. \A by, done : ApplyNow(by, done) =>
              (\E e : control' = Eval(e)) \/ (\E c : control' = Return(c))
        BY Zenon DEF ApplyNow, Answered, Yield, Enter
      <4>2. (\E e : control' = Eval(e)) \/ \E by, done : ApplyNow(by, done)
        BY <3>4, Zenon DEF ReturnApply
      <4> QED
        BY <4>1, <4>2
    <3> QED
      BY <3>1, <3>2, <3>3, <3>4
  <2> QED
    BY <1>1, <2>1, ControlIs DEF Inside
<1>4. \/ stack' = Popped
      \/ \E of : stack' = Append(Popped, Frame("perturbed", of))
      \/ \E done : stack' = [stack EXCEPT ![Len(stack)].of.done = done]
  <2>1. CASE ReturnIf \/ ReturnPerturbed
    BY <2>1, Zenon DEF ReturnIf, ReturnPerturbed
  <2>2. CASE ReturnBang
    BY <2>2, Zenon DEF ReturnBang
  <2>3. CASE ReturnAt
    BY <2>3, Zenon DEF ReturnAt
  <2>4. CASE ReturnApply
    <3>1. \A by, done : ApplyNow(by, done) =>
            stack' = Popped \/ \E of : stack' = Append(Popped, Frame("perturbed", of))
      BY Zenon DEF ApplyNow, Answered, Enter
    <3>2. \/ \E done : stack' = [stack EXCEPT ![Len(stack)].of.done = done]
          \/ \E by, done : ApplyNow(by, done)
      BY <2>4, Zenon DEF ReturnApply
    <3> QED
      BY <3>1, <3>2
  <2> QED
    BY <2>1, <2>2, <2>3, <2>4
<1> QED
  BY <1>1, <1>2, <1>3, <1>4, CallsPop, CallsEnter, CallsContinue

LEMMA OutsideCalls ==
  ASSUME WarehouseInv, ReturnLink \/ \E x \in Name, k \in Context : Ask(x, k)
  PROVE  SameCalls
<1>1. CASE ReturnLink
  <2>1. /\ control.do = "return" /\ Top.fn = "link"
    BY <1>1 DEF ReturnLink, ReturningTo
  <2>2. Len(stack) # 0 /\ ~Inside(control)
    BY <2>1, Active DEF WarehouseInv
  <2>3. /\ ~Inside(control')
        /\ stack' = stack \/ stack' = Popped
    <3>1. (\E x : control' = Call(x)) \/ control' = Idle
      BY <1>1, Zenon DEF ReturnLink
    <3>2. stack' = stack \/ stack' = Popped
      BY <1>1, Zenon DEF ReturnLink
    <3> QED
      BY <3>1, <3>2, ControlIs DEF Inside
  <2> QED
    BY <2>1, <2>2, <2>3, CallsPop, BusyStays DEF SameCalls
<1>2. CASE \E x \in Name, k \in Context : Ask(x, k)
  <2>1. PICK x \in Name, k \in Context : Ask(x, k)
    BY <1>2
  <2> DEFINE f == [fn |-> "link", of |-> x, delta |-> {}, kappa |-> k]
  <2>2. stack = <<>> /\ stack' = <<f>> /\ f.fn # "cache"
    BY <2>1 DEF Ask
  <2> HIDE DEF f
  <2>3. Len(stack) = 0 /\ Len(stack') = 1 /\ stack'[1] = f
    BY <2>2, NoFrame, OneFrame
  <2> QED
    BY <2>2, <2>3 DEF SameCalls, SameBusy, Busy
<1> QED
  BY <1>1, <1>2

\* No mark comes or goes, nor does a call that computes
LEMMA LeftSame ==
  ASSUME NEW c, NEW d, CalcsOf(d) = CalcsOf(c), SameCalls, NEW x
  PROVE  Left(d, stack', control', x) = Left(c, stack, control, x)
BY BusyKept DEF SameCalls, Left

LEMMA DemandCalls ==
  ASSUME WarehouseInv, Inside(control), NEW ds, Demanded(ds)
  PROVE  SameCalls
<1>1. Len(stack) # 0
  BY Active DEF WarehouseInv, Inside
<1>2. \/ stack' = Popped /\ \E c : control' = Return(c)
      \/ stack' = stack /\ control' = Looking
  BY Zenon DEF Demanded
<1> QED
  BY <1>1, <1>2, CallsPop, BusyStays, ControlIs DEF SameCalls, Inside

LEMMA FinishCalls ==
  ASSUME TypedWarehouse, CacheFinish, NEW y \in Name
  PROVE  Left(caches'[y], stack', control', y) = Left(caches[y], stack, control, y)
<1> DEFINE x == Top.of
           got == Get(caches[x], retirement[x], kappa, Top.delta)
<1>1. /\ WarehouseInv /\ control = Finishing /\ Inside(control) /\ Keep(x, got)
      /\ equations' = equations /\ stack' = Popped /\ ~Inside(control')
      /\ control.do = "finish"
  BY ControlIs DEF TypedWarehouse, CacheFinish, Outside, Inside
<1>2. Len(stack) # 0 /\ Top.fn = "cache"
  BY <1>1, Active DEF WarehouseInv, Inside
<1>3. x \in Name
  BY <1>1, <1>2, TopOf DEF WarehouseInv
<1>4. IsCache(caches[x])
  BY <1>1, <1>3 DEF WarehouseInv, CachesOK
<1>5. got.value # Calc
  BY <1>1, <1>4, LeafAnswers DEF TypedWarehouse, Settled
<1> HIDE DEF got
<1>6. /\ GetKeeps(caches[x], retirement[x], kappa, Top.delta, got) /\ caches'[x] = got.cache
      /\ \A z \in Name \ {x} : caches'[z] = caches[z]
  BY <1>1, <1>3, GetChanges DEF got
<1>7. CalcsOf(caches'[x]) = CalcsOf(caches[x])
  BY <1>5, <1>6 DEF GetKeeps, Kept, CalcsOf
<1>8. SameCalls
  BY <1>1, <1>2, CallsPop
<1> QED
  BY <1>6, <1>7, <1>8, LeftSame

\* To be inside the loop is not to compute
LEMMA LoopIs ==
  ASSUME NEW s, IsSeq(s), Len(s) # 0, s[Len(s)].fn = "cache", NEW ctl, ~Inside(ctl), NEW x
  PROVE  /\ ComputedBy(s, Looking, x) = ComputedBy(s, ctl, x) \ {Len(s)}
         /\ Len(s) \in ComputedBy(s, ctl, x) <=> x = s[Len(s)].of
<1>1. Inside(Looking) /\ Len(s) \in 1..Len(s)
  BY ControlIs DEF IsSeq
<1> QED
  BY <1>1 DEF ComputedBy, Busy

\* A call begins, or ends, to compute: its mark comes, or goes, with it
LEMMA LeftMoves ==
  ASSUME NEW c, IsCache(c), NEW d, NEW s, IsSeq(s), Len(s) # 0, s[Len(s)].fn = "cache",
         NEW ctl, ~Inside(ctl), NEW x,
         IF x = s[Len(s)].of THEN \E m \in CalcsOf(c) : CalcsOf(d) = CalcsOf(c) \ {m}
         ELSE CalcsOf(d) = CalcsOf(c)
  PROVE  Left(d, s, Looking, x) = Left(c, s, ctl, x)
<1> DEFINE A == CalcsOf(c)
           B == ComputedBy(s, ctl, x)
           n == Len(s)
<1>1. /\ IsFiniteSet(A) /\ Cardinality(A) \in Nat
      /\ IsFiniteSet(B) /\ Cardinality(B) \in Nat
  BY CountsAre
<1>2. ComputedBy(s, Looking, x) = B \ {n} /\ (n \in B <=> x = s[n].of)
  BY LoopIs
<1>3. CASE x = s[n].of
  <2>1. PICK m \in A : CalcsOf(d) = A \ {m}
    BY <1>3
  <2> HIDE DEF A, B, n
  <2>2. Cardinality(A \ {m}) = Cardinality(A) - 1
    BY <1>1, FS_RemoveElement
  <2>3. Cardinality(B \ {n}) = Cardinality(B) - 1
    BY <1>1, <1>2, <1>3, FS_RemoveElement
  <2>4. Cardinality(A \ {m}) - Cardinality(B \ {n}) = Cardinality(A) - Cardinality(B)
    BY <1>1, <2>2, <2>3
  <2> QED
    BY <1>2, <2>1, <2>4 DEF Left, A, B
<1>4. CASE x # s[n].of
  <2>1. ComputedBy(s, Looking, x) = B
    BY <1>2, <1>4
  <2> QED
    BY <1>4, <2>1 DEF Left
<1> QED
  BY <1>3, <1>4

LEMMA GetCalls ==
  ASSUME WarehouseInv, CacheGet, NEW y \in Name, IsSeq(stack')
  PROVE  Left(caches'[y], stack', control', y) = Left(caches[y], stack, control, y)
<1> DEFINE x == Top.of
           got == Get(caches[x], retirement[x], kappa, delta)
<1>1. /\ control = Looking /\ Inside(control) /\ Keep(x, got) /\ equations' = equations
  BY ControlIs DEF CacheGet, Outside
<1>2. Len(stack) # 0 /\ Top.fn = "cache"
  BY <1>1, Active DEF WarehouseInv, Inside
<1>3. x \in Name /\ Top = stack[Len(stack)]
  BY <1>2, TopOf DEF WarehouseInv
<1> HIDE DEF got
<1>4. /\ GetKeeps(caches[x], retirement[x], kappa, delta, got) /\ caches'[x] = got.cache
      /\ CachesOK(caches, Name)' /\ Name' = Name
      /\ \A z \in Name \ {x} : caches'[z] = caches[z]
  BY <1>1, <1>3, GetChanges, NamesStay DEF got
<1>5. CASE got.value = Calc /\ control' = Eval(equations[x]) /\ UNCHANGED <<delta, stack>>
  <2>1. PICK p : Marks(caches[x], got.cache, p, kappa, delta)
    BY <1>4, <1>5 DEF GetKeeps
  <2>2. p \in CalcsOf(caches'[x]) /\ CalcsOf(caches[x]) = CalcsOf(caches'[x]) \ {p}
    BY <1>4, <2>1 DEF GetKeeps, Kept, Marks, CalcsOf
  <2>3. ~Inside(control')
    BY <1>5, ControlIs DEF Inside
  <2>4. IsCache(caches'[y])
    BY <1>4 DEF CachesOK
  <2>5. IF y = stack[Len(stack)].of
        THEN \E m \in CalcsOf(caches'[y]) : CalcsOf(caches[y]) = CalcsOf(caches'[y]) \ {m}
        ELSE CalcsOf(caches[y]) = CalcsOf(caches'[y])
    BY <1>3, <1>4, <2>2
  <2>6. stack' = stack /\ IsSeq(stack) /\ Len(stack) # 0 /\ stack[Len(stack)].fn = "cache"
    BY <1>2, <1>3, <1>5
  <2>7. Left(caches[y], stack, Looking, y) = Left(caches'[y], stack, control', y)
    BY <2>3, <2>4, <2>5, <2>6, LeftMoves
  <2> QED
    BY <1>1, <2>6, <2>7
<1>6. CASE got.value # Calc
  <2>1. CalcsOf(caches'[y]) = CalcsOf(caches[y])
    BY <1>4, <1>6 DEF GetKeeps, Kept, CalcsOf
  <2>2. SameCalls
    <3>1. CASE Demanded(got.value.dims)
      BY <1>1, <3>1, DemandCalls
    <3>2. CASE control' = Finishing /\ stack' = stack
      BY <1>1, <3>2, BusyStays, ControlIs DEF SameCalls
    <3> QED
      BY <1>6, <3>1, <3>2 DEF CacheGet, got
  <2> QED
    BY <2>1, <2>2, LeftSame
<1> QED
  BY <1>5, <1>6 DEF CacheGet, got, Calc

LEMMA SetCalls ==
  ASSUME WarehouseInv, NEW V, TypedNow(V), CacheSet, NEW y \in Name
  PROVE  Left(caches'[y], stack', control', y) = Left(caches[y], stack, control, y)
<1> DEFINE x == Top.of
           value == control.value
<1>1. PICK own :
        /\ x \in Name /\ Len(stack) # 0
        /\ Computes(caches[x], own, kappa, delta) /\ Mark(caches[x], kappa) = own
        /\ SetKeeps(caches[x], kappa, value, caches'[x])
        /\ \A z \in Name \ {x} : caches'[z] = caches[z]
  BY SetMade
<1>2. control.do = "return" /\ Top.fn = "cache"
  BY DEF CacheSet, ReturningTo
<1>3. ~Inside(control) /\ IsSeq(stack) /\ Top = stack[Len(stack)]
  BY <1>1, <1>2, Active, TopOf DEF WarehouseInv
<1>4. Stored(value) # Calc
  <2>1. IsAnswer(V, value) /\ Closures(V)
    BY <1>2 DEF TypedNow, Typed, ControlTyped
  <2>2. value.kind # "calc"
    BY <2>1, KindOf DEF Constants
  <2>3. Stored(value).kind # "calc"
    BY <2>2, KindsAre DEF Stored
  <2> QED
    BY <2>3, KindsAre
<1>5. own \in CalcsOf(caches[x]) /\ CalcsOf(caches'[x]) = CalcsOf(caches[x]) \ {own}
  BY <1>1, <1>4 DEF Computes, SetKeeps, CalcsOf
<1>6. IsCache(caches[y])
  BY DEF WarehouseInv, CachesOK
<1>7. IF y = stack[Len(stack)].of
      THEN \E m \in CalcsOf(caches[y]) : CalcsOf(caches'[y]) = CalcsOf(caches[y]) \ {m}
      ELSE CalcsOf(caches'[y]) = CalcsOf(caches[y])
  BY <1>1, <1>3, <1>5
<1>8. stack[Len(stack)].fn = "cache" /\ Len(stack) # 0
  BY <1>1, <1>2, <1>3
<1>9. Left(caches'[y], stack, Looking, y) = Left(caches[y], stack, control, y)
  BY <1>3, <1>6, <1>7, <1>8, LeftMoves
<1>10. SameBusy(stack, Looking, stack', control')
  <2>1. \/ stack' = Popped /\ ~Inside(control')
        \/ stack' = stack /\ Inside(control')
    <3>1. \/ stack' = Popped /\ \E c : control' = Return(c)
          \/ stack' = stack /\ control' = Looking
          \/ stack' = stack /\ control' = Finishing
      BY Zenon DEF CacheSet, Demanded
    <3> QED
      BY <3>1, ControlIs DEF Inside
  <2> QED
    BY <1>3, <1>8, <2>1, BusyPop, BusyStays, ControlIs DEF Popped
<1>11. ComputedBy(stack', control', y) = ComputedBy(stack, Looking, y)
  BY <1>10, BusyKept
<1> QED
  BY <1>9, <1>11 DEF Left

\* The collector takes entries away, at the end of an instant, when no call is active
LEMMA CollectCalls ==
  ASSUME WarehouseInv, EndInstant, NEW y \in Name
  PROVE  LET before == Left(caches[y], stack, control, y)
             after  == Left(caches'[y], stack', control', y)
         IN  after = before \/ (now' # now /\ after < before)
<1> DEFINE A == CalcsOf(caches[y])
           B == CalcsOf(caches'[y])
           C == ComputedBy(stack, control, y)
<1>1. Collects(y) /\ now' # now /\ stack' = stack /\ control' = control
  BY CollectStep DEF EndInstant, WarehouseInv
<1>2. IsCache(caches[y]) /\ IsSeq(stack)
  BY DEF WarehouseInv, CachesOK, Calls, CallsOK, FramesOK
<1>3. IsFiniteSet(A) /\ Cardinality(A) \in Nat /\ Cardinality(C) \in Nat
  BY <1>2, CountsAre
<1>4. B \in SUBSET A
  BY <1>1 DEF Collects, CollectKeeps, CalcsOf
<1> HIDE DEF A, B, C
<1>5. Cardinality(B) <= Cardinality(A) /\ Cardinality(B) \in Nat
  BY <1>3, <1>4, FS_Subset, FS_CardinalityType
<1>6. \/ Cardinality(B) - Cardinality(C) = Cardinality(A) - Cardinality(C)
      \/ Cardinality(B) - Cardinality(C) < Cardinality(A) - Cardinality(C)
  BY <1>3, <1>5
<1> QED
  BY <1>1, <1>6 DEF Left, A, B, C

\* calc marks the computations in progress, one entry for each active call of
\* m_expr (cache.cpp): a calc that is met, which answers sploop, is a loop.
\* Only an exception leaves calcs behind, and only the collector takes such away.
THEOREM CalcsAreComputing ==
  ASSUME HostFunctions
  PROVE  Spec => CalcIsComputing
<1>1. ASSUME TypedWarehouse, TypedWarehouse', [Next]_vars, NEW x \in Name
      PROVE  \/ LeftBehind(x)' = LeftBehind(x)
             \/ EvalThrows
             \/ now' # now /\ LeftBehind(x)' < LeftBehind(x)
  <2>1. WarehouseInv /\ WarehouseInv' /\ IsSeq(stack) /\ IsSeq(stack')
    BY <1>1 DEF TypedWarehouse, WarehouseInv, Calls, CallsOK, FramesOK
  <2>2. LeftBehind(x) = Left(caches[x], stack, control, x)
    BY <2>1, ComputingIs DEF LeftBehind, Computing, CalcsOf, Left
  <2>3. LeftBehind(x)' = Left(caches'[x], stack', control', x)
    BY <2>1, ComputingIs DEF LeftBehind, Computing, CalcsOf, Left
  <2> DEFINE before == Left(caches[x], stack, control, x)
             after == Left(caches'[x], stack', control', x)
  <2>4. SUFFICES \/ after = before
                 \/ EvalThrows
                 \/ now' # now /\ after < before
    BY <2>2, <2>3
  <2>5. CASE SameCalls /\ caches' = caches
    BY <2>5, LeftSame
  <2>6. CASE \/ EvalConst \/ EvalHash \/ EvalIdent \/ EvalIf \/ EvalBang \/ EvalAt
             \/ EvalAbstraction \/ EvalApply \/ CallCache
    <3>1. caches' = caches
      BY <2>6 DEF EvalConst, EvalHash, EvalIdent, EvalIf, EvalBang, EvalAt,
                  EvalAbstraction, EvalApply, CallCache, Local
    <3> QED
      BY <2>1, <2>5, <2>6, <3>1, EvalCalls
  <2>7. CASE ReturnIf \/ ReturnBang \/ ReturnAt \/ ReturnPerturbed \/ ReturnApply
    <3>1. caches' = caches
      BY <2>7 DEF ReturnIf, ReturnBang, ReturnAt, ReturnPerturbed, ReturnApply, Local
    <3> QED
      BY <2>1, <2>5, <2>7, <3>1, ReturnCalls
  <2>8. CASE ReturnLink \/ \E y \in Name, k \in Context : Ask(y, k)
    <3>1. caches' = caches
      BY <2>8 DEF ReturnLink, Ask
    <3> QED
      BY <2>1, <2>5, <2>8, <3>1, OutsideCalls
  <2>9. CASE CacheGet
    BY <2>1, <2>9, GetCalls
  <2>10. CASE CacheSet
    BY <1>1, <2>10, SetCalls DEF TypedWarehouse, TypedInv
  <2>11. CASE CacheFinish
    BY <1>1, <2>11, FinishCalls
  <2>12. CASE EndInstant
    BY <2>1, <2>12, CollectCalls
  <2>13. CASE UNCHANGED vars
    BY <2>13 DEF vars
  <2> QED
    BY <1>1, <2>6, <2>7, <2>8, <2>9, <2>10, <2>11, <2>12, <2>13 DEF Next, Step
<1>2. TypedWarehouse /\ TypedWarehouse' /\ [Next]_vars =>
        [\A x \in Name :
           \/ LeftBehind(x)' = LeftBehind(x)
           \/ EvalThrows
           \/ now' # now /\ LeftBehind(x)' < LeftBehind(x)]_vars
  BY <1>1
<1> QED
  BY <1>2, TypedAlways, PTL DEF Spec, CalcIsComputing

(***************************************************************************)
(* Levels: a demand is of dimensions that the delta in force has not       *)
(***************************************************************************)

\* L has the bodies of all base functions, and its expressions call nothing: a
\* base function, whose delta has every dimension, asks for none then
AskNothing(L) ==
  /\ L \subseteq Expression
  /\ \A e \in L :
       /\ e.op \notin {"ident", "apply"}
       /\ e.op = "if" => {e.cond, e.then, e.else} \subseteq L
       /\ e.op = "bang" => \A i \in DOMAIN e.args : e.args[i] \in L
       /\ e.op = "at" => {e.to, e.body} \subseteq L
  /\ \A e \in Expression : e.op = "abstraction" /\ e.by = "base" => e.body \in L

\* A demand made under delta ds
New(c, ds) ==
  c.kind = "demand" => c.dims # {} /\ Everything \notin ds /\ c.dims \cap ds = {}

\* What is evaluated under a delta that has every dimension
FrameNew(L, f) ==
  /\ f.fn \in {"bang", "apply"} => \A j \in 1..Len(f.of.done) : New(f.of.done[j], f.delta)
  /\ Everything \in f.delta =>
       /\ f.fn \in {"if", "bang", "at", "perturbed"}
       /\ f.fn \in {"if", "at"} => f.of \in L
       /\ f.fn = "bang" => f.of.expr \in L

\* A perturbation only adds to the delta, or gives it every dimension
Adds(f, ds) == f.fn = "perturbed" => f.delta \subseteq ds \/ Everything \in ds

FramesNew(L, s, ds) ==
  \A i \in 1..Len(s) : FrameNew(L, s[i]) /\ Adds(s[i], DeltaAfter(s, ds, i))

ControlNew(L, ctl, ds) ==
  /\ ctl.do = "eval" /\ Everything \in ds => ctl.expr \in L
  /\ ctl.do = "return" => New(ctl.value, ds)
  /\ ctl.do \in {"call", "get", "finish"} => Everything \notin ds

LevelsNew(c) ==
  \A p \in DOMAIN c :
    LET content == c[p].content
    IN  content.kind = "level" => content.dims # {} /\ content.dims \cap DimsOf(p) = {}

DemandsNew(L) == FramesNew(L, stack, delta) /\ ControlNew(L, control, delta)

NewInv(L) == DemandsNew(L) /\ \A x \in Name : LevelsNew(caches[x])

LEMMA NewPush ==
  ASSUME NEW L, NEW s, IsSeq(s), NEW ds, FramesNew(L, s, ds),
         NEW f, FrameNew(L, f), f.fn # "perturbed", f.delta = ds, NEW es
  PROVE  FramesNew(L, Append(s, f), es)
<1> DEFINE t == Append(s, f)
<1>1. /\ Len(t) = Len(s) + 1 /\ t[Len(s) + 1] = f /\ Len(s) \in Nat
      /\ \A i \in 1..Len(s) : t[i] = s[i]
  BY PushIs DEF IsSeq
<1> HIDE DEF t
<1>2. \A i \in 1..Len(t) : i \in 1..Len(s) \/ i = Len(t)
  BY <1>1
<1>3. \A i \in 1..Len(s) : i # Len(t) /\ DeltaAfter(t, es, i) = DeltaAfter(s, ds, i)
  <2> TAKE i \in 1..Len(s)
  <2>1. i # Len(t) /\ (i # Len(s) => i + 1 \in 1..Len(s)) /\ (i = Len(s) => i + 1 = Len(s) + 1)
    BY <1>1
  <2> QED
    BY <1>1, <2>1 DEF DeltaAfter
<1>4. FramesNew(L, t, es)
  BY <1>1, <1>2, <1>3 DEF FramesNew, Adds
<1> QED
  BY <1>4 DEF t

LEMMA NewPop ==
  ASSUME NEW L, NEW s, IsSeq(s), Len(s) # 0, NEW ds, FramesNew(L, s, ds)
  PROVE  FramesNew(L, SubSeq(s, 1, Len(s) - 1), s[Len(s)].delta)
<1> DEFINE t == SubSeq(s, 1, Len(s) - 1)
           es == s[Len(s)].delta
<1>1. /\ Len(t) = Len(s) - 1 /\ Len(s) \in Nat
      /\ \A i \in 1..(Len(s) - 1) : t[i] = s[i]
  BY PopIs DEF IsSeq
<1> HIDE DEF t
<1>2. ASSUME NEW i \in 1..Len(t)
      PROVE  i \in 1..Len(s) /\ t[i] = s[i] /\ DeltaAfter(t, es, i) = DeltaAfter(s, ds, i)
  <2>1. /\ i \in 1..Len(s) /\ t[i] = s[i] /\ i # Len(s)
        /\ i = Len(t) => i + 1 = Len(s)
        /\ i # Len(t) => i + 1 \in 1..(Len(s) - 1)
    BY <1>1
  <2> QED
    BY <1>1, <2>1 DEF DeltaAfter
<1>3. FramesNew(L, t, es)
  BY <1>2 DEF FramesNew
<1> QED
  BY <1>3 DEF t

LEMMA NewTurn ==
  ASSUME NEW L, NEW s, IsSeq(s), Len(s) # 0, NEW ds, FramesNew(L, s, ds),
         NEW t, Len(t) = Len(s), NEW f, t[Len(s)] = f, f.delta = s[Len(s)].delta,
         \A i \in 1..(Len(s) - 1) : t[i] = s[i],
         NEW es, FrameNew(L, f), Adds(f, es)
  PROVE  FramesNew(L, t, es)
<1>1. ASSUME NEW i \in 1..Len(s), i # Len(s)
      PROVE  t[i] = s[i] /\ DeltaAfter(t, es, i) = DeltaAfter(s, ds, i)
  <2>1. i \in 1..(Len(s) - 1) /\ (i + 1 = Len(s) \/ i + 1 \in 1..(Len(s) - 1))
    BY <1>1 DEF IsSeq
  <2> QED
    BY <1>1, <2>1 DEF DeltaAfter
<1>2. DeltaAfter(t, es, Len(s)) = es
  BY DEF DeltaAfter
<1> QED
  BY <1>1, <1>2 DEF FramesNew

\* The calls stay, the delta of the innermost one may change
LEMMA NewStay ==
  ASSUME NEW L, NEW s, NEW ds, FramesNew(L, s, ds), NEW es,
         es = ds \/ s[Len(s)].fn # "perturbed"
  PROVE  FramesNew(L, s, es)
BY DEF FramesNew, DeltaAfter, Adds

LEMMA NewTop ==
  ASSUME NEW L, FramesNew(L, stack, delta), IsSeq(stack), Len(stack) # 0
  PROVE  FrameNew(L, Top) /\ Adds(Top, delta)
<1>1. Len(stack) \in 1..Len(stack)
  BY DEF IsSeq
<1> QED
  BY <1>1 DEF FramesNew, Top, DeltaAfter

\* Values are no demands
LEMMA ValueNew ==
  ASSUME NEW V, Closures(V), NEW c, IsValue(V, c), NEW ds
  PROVE  New(c, ds)
BY KindOf DEF New, Constants

LEMMA SpecialNew ==
  ASSUME NEW s, NEW ds
  PROVE  New(Special(s), ds)
BY KindsAre DEF New

LEMMA YieldNew ==
  ASSUME NEW L, FramesNew(L, stack', delta), NEW c, New(c, delta), Yield(c)
  PROVE  DemandsNew(L)'
<1>1. control' = Return(c) /\ delta' = delta
  BY DEF Yield
<1>2. ControlNew(L, control', delta')
  BY <1>1 DEF ControlNew, Return
<1> QED
  BY <1>1, <1>2 DEF DemandsNew

\* An operand of the expression in progress is evaluated first
LEMMA OperandNew ==
  ASSUME NEW L, DemandsNew(L), IsSeq(stack), NEW fn, NEW of, fn # "perturbed",
         stack' = Push(Frame(fn, of)), delta' = delta, FrameNew(L, Frame(fn, of)),
         NEW e, control' = Eval(e), Everything \in delta => e \in L
  PROVE  DemandsNew(L)'
<1> DEFINE f == Frame(fn, of)
<1>1. f.fn = fn /\ f.delta = delta
  BY DEF Frame
<1> HIDE DEF f
<1>2. FramesNew(L, Append(stack, f), delta)
  BY <1>1, NewPush DEF DemandsNew, f
<1>3. ControlNew(L, control', delta')
  BY DEF ControlNew, Eval
<1> QED
  BY <1>2, <1>3 DEF DemandsNew, Push, f

LEMMA NoneDone ==
  Len(<<>>) = 0 /\ 1..Len(<<>>) = {}
OBVIOUS

LEMMA EvalNew ==
  ASSUME Calls, NEW L, AskNothing(L), NEW V, TypedNow(V), DemandsNew(L),
         \/ EvalConst \/ EvalHash \/ EvalIdent \/ EvalIf \/ EvalBang \/ EvalAt
         \/ EvalAbstraction \/ EvalApply
  PROVE  DemandsNew(L)'
<1> DEFINE e == control.expr
<1>1. /\ Closures(V) /\ IsContext(V, kappa) /\ FramesNew(L, stack, delta)
      /\ ControlNew(L, control, delta)
  BY AlreadyTyped DEF DemandsNew
<1>2. ASSUME NEW op, Evaluating(op)
      PROVE  /\ e \in Expression /\ e.op = op /\ IsSeq(stack) /\ Len(stack) # 0
             /\ Everything \in delta => e \in L
  <2>1. control.do = "eval" /\ e \in Expression /\ e.op = op
    BY <1>2, OpOf
  <2> QED
    BY <1>1, <2>1, Active, TopOf DEF ControlNew
<1>3. CASE EvalConst
  <2>1. Evaluating("const") /\ Yield(e.value) /\ stack' = stack
    BY <1>3 DEF EvalConst
  <2>2. New(e.value, delta)
    BY <1>2, <2>1, PartsOf DEF New, Constants
  <2> QED
    BY <1>1, <2>1, <2>2, YieldNew
<1>4. CASE EvalHash
  <2> DEFINE d == e.dim
             c == IF Contains(delta, {d}) THEN kappa[d] ELSE Demand({d})
  <2>1. Evaluating("hash") /\ Yield(c) /\ stack' = stack
    BY <1>4 DEF EvalHash
  <2>2. d \in Dims
    BY <1>2, <2>1, PartsOf
  <2>3. New(c, delta)
    <3>1. CASE Contains(delta, {d})
      <4>1. New(kappa[d], delta)
        BY <1>1, <2>2, ValueNew DEF IsContext
      <4> QED
        BY <3>1, <4>1
    <3>2. CASE ~Contains(delta, {d})
      <4>1. New(Demand({d}), delta)
        BY <3>2, KindsAre DEF New, Contains
      <4> QED
        BY <3>2, <4>1
    <3> QED
      BY <3>1, <3>2
  <2> HIDE DEF c
  <2> QED
    BY <1>1, <2>1, <2>3, YieldNew
<1>5. CASE EvalIdent
  <2>1. /\ Evaluating("ident") /\ stack' = stack /\ delta' = delta
        /\ control' = Call(e.name) \/ control' = Return(Special("spundef"))
    BY <1>5 DEF EvalIdent
  <2>2. Everything \notin delta
    BY <1>2, <2>1 DEF AskNothing
  <2>3. ControlNew(L, control', delta')
    BY <2>1, <2>2, SpecialNew DEF ControlNew, Call, Return
  <2> QED
    BY <1>1, <2>1, <2>3 DEF DemandsNew
<1>6. CASE EvalIf
  <2>1. /\ Evaluating("if") /\ stack' = Push(Frame("if", e)) /\ delta' = delta
        /\ control' = Eval(e.cond)
    BY <1>6 DEF EvalIf
  <2>2. Everything \in delta => e \in L /\ e.cond \in L
    BY <1>2, <2>1 DEF AskNothing
  <2>3. FrameNew(L, Frame("if", e))
    BY <2>2 DEF FrameNew, Frame
  <2> QED
    BY <1>2, <2>1, <2>2, <2>3, OperandNew
<1>7. CASE EvalBang
  <2> DEFINE of == [expr |-> e, done |-> <<>>]
  <2>1. /\ Evaluating("bang") /\ stack' = Push(Frame("bang", of)) /\ delta' = delta
        /\ control' = Eval(e.args[1])
    BY <1>7 DEF EvalBang
  <2>2. 1 \in DOMAIN e.args
    <3>1. e.args \in Seq(Expression) /\ e.args # <<>>
      BY <1>2, <2>1, PartsOf
    <3> QED
      BY <3>1
  <2>3. Everything \in delta => e \in L /\ e.args[1] \in L
    BY <1>2, <2>1, <2>2 DEF AskNothing
  <2>4. FrameNew(L, Frame("bang", of))
    <3>1. of.done = <<>> /\ of.expr = e
      OBVIOUS
    <3> HIDE DEF of
    <3> QED
      BY <2>3, <3>1, NoneDone DEF FrameNew, Frame
  <2> HIDE DEF of
  <2> QED
    BY <1>2, <2>1, <2>3, <2>4, OperandNew
<1>8. CASE EvalAt
  <2>1. /\ Evaluating("at") /\ stack' = Push(Frame("at", e)) /\ delta' = delta
        /\ control' = Eval(e.to)
    BY <1>8 DEF EvalAt
  <2>2. Everything \in delta => e \in L /\ e.to \in L
    BY <1>2, <2>1 DEF AskNothing
  <2>3. FrameNew(L, Frame("at", e))
    BY <2>2 DEF FrameNew, Frame
  <2> QED
    BY <1>2, <2>1, <2>2, <2>3, OperandNew
<1>9. CASE EvalAbstraction
  <2> DEFINE missing == Lacks(delta, e.binds \cup e.scope)
             c == IF missing # {} THEN Demand(missing) ELSE Bound(e, kappa)
  <2>1. Yield(c) /\ stack' = stack
    BY <1>9 DEF EvalAbstraction
  <2>2. New(c, delta)
    <3>1. CASE missing # {}
      <4>1. Everything \notin delta /\ missing \cap delta = {}
        BY <3>1 DEF Lacks
      <4> HIDE DEF missing
      <4>2. New(Demand(missing), delta)
        BY <3>1, <4>1, KindsAre DEF New
      <4> QED
        BY <3>1, <4>2
    <3>2. CASE missing = {}
      <4>1. Bound(e, kappa).kind = "closure"
        BY DEF Bound, Closure
      <4>2. New(Bound(e, kappa), delta)
        BY <4>1 DEF New
      <4> QED
        BY <3>2, <4>2
    <3> QED
      BY <3>1, <3>2
  <2> HIDE DEF c
  <2> QED
    BY <1>1, <2>1, <2>2, YieldNew
<1>10. CASE EvalApply
  <2> DEFINE of == [expr |-> e, done |-> <<>>]
  <2>1. /\ Evaluating("apply") /\ stack' = Push(Frame("apply", of)) /\ delta' = delta
        /\ control' = Eval(e.of[1])
    BY <1>10 DEF EvalApply
  <2>2. Everything \notin delta
    BY <1>2, <2>1 DEF AskNothing
  <2>3. FrameNew(L, Frame("apply", of))
    <3>1. of.done = <<>>
      OBVIOUS
    <3> HIDE DEF of
    <3> QED
      BY <2>2, <3>1, NoneDone DEF FrameNew, Frame
  <2> HIDE DEF of
  <2> QED
    BY <1>2, <2>1, <2>2, <2>3, OperandNew
<1> QED
  BY <1>3, <1>4, <1>5, <1>6, <1>7, <1>8, <1>9, <1>10

LEMMA AnswersNew ==
  ASSUME NEW args, IsSeq(args), NEW ds, \A j \in 1..Len(args) : New(args[j], ds)
  PROVE  /\ OfKind(args, "demand") # {} =>
              New(Demand(UNION {args[i].dims : i \in OfKind(args, "demand")}), ds)
         /\ OfKind(args, "special") # {} => New(FirstSpecial(args), ds)
<1> DEFINE dims == UNION {args[i].dims : i \in OfKind(args, "demand")}
<1>1. DOMAIN args = 1..Len(args) /\ Len(args) \in Nat
  BY DEF IsSeq
<1>2. \A i \in OfKind(args, "demand") :
        args[i].dims # {} /\ Everything \notin ds /\ args[i].dims \cap ds = {}
  BY <1>1 DEF OfKind, New
<1>3. OfKind(args, "demand") # {} => dims # {} /\ Everything \notin ds /\ dims \cap ds = {}
  BY <1>2
<1> HIDE DEF dims
<1>4. OfKind(args, "demand") # {} => New(Demand(dims), ds)
  BY <1>3, KindsAre DEF New
<1>5. ASSUME OfKind(args, "special") # {}
      PROVE  New(FirstSpecial(args), ds)
  <2>1. OfKind(args, "special") \subseteq 1..Len(args)
    BY <1>1 DEF OfKind
  <2>2. OfKind(args, "special") \in SUBSET Nat
    BY <1>1, <2>1
  <2>3. \E i \in OfKind(args, "special") : \A j \in OfKind(args, "special") : i <= j
    BY <1>5, <2>2, LeastOfNat
  <2> QED
    BY <2>1, <2>3 DEF FirstSpecial
<1> QED
  BY <1>4, <1>5 DEF dims

LEMMA CombinedNew ==
  ASSUME HostFunctions, NEW args, IsSeq(args), NEW ds, \A j \in 1..Len(args) : New(args[j], ds),
         NEW e \in Expression, e.op = "bang"
  PROVE  New(Combine(e.fn, args), ds)
<1>1. CASE OfKind(args, "demand") # {}
  BY <1>1, AnswersNew DEF Combine
<1>2. CASE OfKind(args, "demand") = {} /\ OfKind(args, "special") # {}
  BY <1>2, AnswersNew DEF Combine
<1>3. CASE OfKind(args, "demand") = {} /\ OfKind(args, "special") = {}
  <2>1. Combine(e.fn, args) = Apply(e.fn, args) /\ DOMAIN args = 1..Len(args)
    BY <1>3 DEF Combine, IsSeq
  <2>2. \/ Apply(e.fn, args).kind \in Constants
        \/ \E i \in 1..Len(args) : Apply(e.fn, args) = args[i]
    BY <2>1 DEF HostFunctions
  <2> QED
    BY <2>1, <2>2 DEF New, Constants
<1> QED
  BY <1>1, <1>2, <1>3

LEMMA DoneNew ==
  ASSUME NEW done, IsSeq(done), NEW ds, \A j \in 1..Len(done) : New(done[j], ds),
         NEW c, New(c, ds)
  PROVE  \A j \in 1..Len(Append(done, c)) : New(Append(done, c)[j], ds)
<1> DEFINE t == Append(done, c)
<1>1. /\ Len(t) = Len(done) + 1 /\ t[Len(done) + 1] = c /\ Len(done) \in Nat
      /\ \A i \in 1..Len(done) : t[i] = done[i]
  BY PushIs DEF IsSeq
<1> HIDE DEF t
<1>2. \A i \in 1..Len(t) : i \in 1..Len(done) \/ i = Len(done) + 1
  BY <1>1
<1>3. \A j \in 1..Len(t) : New(t[j], ds)
  BY <1>1, <1>2
<1> QED
  BY <1>3 DEF t

\* The next argument, or the next operand
LEMMA ContinuedNew ==
  ASSUME NEW L, NEW s, IsSeq(s), Len(s) # 0, NEW ds, FramesNew(L, s, ds),
         NEW V, Frames(V, s), NEW f, f = s[Len(s)], IsFrame(f), f.fn \in {"bang", "apply"},
         NEW done, \A j \in 1..Len(done) : New(done[j], f.delta)
  PROVE  FramesNew(L, [s EXCEPT ![Len(s)].of.done = done], ds)
<1> DEFINE n == Len(s)
           of == [expr |-> f.of.expr, done |-> done]
           g == WithDone(f, done)
           t == [s EXCEPT ![n].of.done = done]
<1>1. n \in 1..n
  BY DEF IsSeq
<1>2. FrameTyped(V, f) /\ FrameNew(L, f)
  BY <1>1 DEF Frames, FramesNew
<1>3. f.of = [expr |-> f.of.expr, done |-> f.of.done]
  BY <1>2 DEF FrameTyped, Operands
<1>4. Len(t) = n /\ t[n] = g /\ \A i \in 1..(n - 1) : t[i] = s[i]
  <2>1. GoesOn(s, f, done)
    BY <1>3, ContinuedIs
  <2> QED
    BY <2>1 DEF GoesOn
<1>5. of.expr = f.of.expr /\ of.done = done
  OBVIOUS
<1>6. g.fn = f.fn /\ g.of = of /\ g.delta = f.delta
  BY DEF WithDone
<1> HIDE DEF g, t, of
<1>7. FrameNew(L, g) /\ Adds(g, ds)
  BY <1>2, <1>5, <1>6 DEF FrameNew, Adds
<1>8. FramesNew(L, t, ds)
  BY <1>4, <1>6, <1>7, NewTurn
<1> QED
  BY <1>8 DEF t

\* The call on top, when the one above it returns
LEMMA TopNew ==
  ASSUME Calls, NEW L, DemandsNew(L), NEW V, TypedNow(V), NEW fn, ReturningTo(fn)
  PROVE  /\ Len(stack) # 0 /\ Top.fn = fn /\ Top = stack[Len(stack)] /\ IsFrame(Top)
         /\ IsSeq(stack) /\ IsAnswer(V, control.value) /\ New(control.value, delta)
         /\ FrameTyped(V, Top) /\ FrameNew(L, Top) /\ Adds(Top, delta)
         /\ Frames(V, stack) /\ Closures(V) /\ IsDelta(delta)
         /\ FramesNew(L, stack, delta) /\ FramesNew(L, Popped, Top.delta)
         /\ fn \in Plain => Top.delta = delta
<1>1. control.do = "return" /\ Top.fn = fn /\ Len(stack) # 0
  BY Active DEF ReturningTo
<1>2. FramesNew(L, stack, delta) /\ New(control.value, delta)
  BY <1>1 DEF DemandsNew, ControlNew
<1>3. Top = stack[Len(stack)] /\ IsFrame(Top) /\ IsSeq(stack) /\ (fn \in Plain => Top.delta = delta)
  BY <1>1, TopOf
<1>4. FrameNew(L, Top) /\ Adds(Top, delta)
  BY <1>1, <1>2, <1>3, NewTop
<1>5. FramesNew(L, Popped, Top.delta)
  BY <1>1, <1>2, <1>3, NewPop DEF Popped
<1>6. /\ FrameTyped(V, Top) /\ Frames(V, stack) /\ Closures(V) /\ IsDelta(delta)
      /\ IsAnswer(V, control.value)
  BY <1>1, TopTyped DEF ControlTyped
<1> QED
  BY <1>1, <1>2, <1>3, <1>4, <1>5, <1>6

\* The body of a perturbation, or of a closure
LEMMA EnterNew ==
  ASSUME NEW L, FramesNew(L, stack, delta), IsSeq(stack), Len(stack) # 0, Top.delta = delta,
         NEW of, stack' = Append(Popped, Frame("perturbed", of)),
         delta \subseteq delta' \/ Everything \in delta',
         NEW e, control' = Eval(e), Everything \in delta' => e \in L
  PROVE  DemandsNew(L)'
<1> DEFINE f == Frame("perturbed", of)
           n == Len(stack)
<1>1. f.fn = "perturbed" /\ f.delta = delta
  BY DEF Frame
<1> HIDE DEF f
<1>2. FrameNew(L, f) /\ Adds(f, delta')
  BY <1>1 DEF FrameNew, Adds
<1>3. /\ Len(stack') = n /\ stack'[n] = f
      /\ \A i \in 1..(n - 1) : stack'[i] = stack[i]
  <2> DEFINE t == Append(SubSeq(stack, 1, Len(stack) - 1), f)
  <2>1. stack' = t
    BY DEF Popped, f
  <2>2. /\ Len(t) = Len(stack) /\ t[Len(stack)] = f
        /\ \A i \in 1..(Len(stack) - 1) : t[i] = stack[i]
    BY ReplaceIs
  <2> HIDE DEF t
  <2> QED
    BY <2>1, <2>2
<1>4. f.delta = stack[n].delta
  BY <1>1 DEF Top
<1>5. FramesNew(L, stack', delta')
  BY <1>2, <1>3, <1>4, NewTurn
<1>6. ControlNew(L, control', delta')
  BY DEF ControlNew, Eval
<1> QED
  BY <1>5, <1>6 DEF DemandsNew

LEMMA ReturnNew ==
  ASSUME HostFunctions, Calls, NEW L, AskNothing(L), NEW V, TypedNow(V), DemandsNew(L),
         ReturnIf \/ ReturnBang \/ ReturnAt \/ ReturnPerturbed
  PROVE  DemandsNew(L)'
<1> DEFINE c == control.value
           n == Len(stack)
<1>1. CASE ReturnIf
  <2> DEFINE e == Top.of
  <2>1. ReturningTo("if") /\ stack' = Popped /\ delta' = delta
    BY <1>1 DEF ReturnIf
  <2>2. /\ FramesNew(L, Popped, delta) /\ New(c, delta) /\ e.op = "if"
        /\ Everything \in delta => e \in L
    BY <2>1, TopNew DEF Plain, FrameTyped, FrameNew
  <2>3. Everything \in delta => e.then \in L /\ e.else \in L
    BY <2>2 DEF AskNothing
  <2>4. \/ control' = Return(c) \/ control' = Return(Special("sptype"))
        \/ control' = Eval(e.then) \/ control' = Eval(e.else)
    BY <1>1 DEF ReturnIf
  <2>5. ControlNew(L, control', delta')
    BY <2>1, <2>2, <2>3, <2>4, SpecialNew DEF ControlNew, Return, Eval
  <2> QED
    BY <2>1, <2>2, <2>5 DEF DemandsNew
<1>2. CASE ReturnBang
  <2> DEFINE e == Top.of.expr
             done == Append(Top.of.done, c)
  <2>1. ReturningTo("bang") /\ delta' = delta
    BY <1>2 DEF ReturnBang
  <2>2. /\ FramesNew(L, Popped, delta) /\ FramesNew(L, stack, delta) /\ New(c, delta)
        /\ FrameNew(L, Top) /\ Top.fn = "bang" /\ Top.delta = delta /\ n # 0 /\ Frames(V, stack)
        /\ IsFrame(Top) /\ Top = stack[n] /\ IsSeq(stack)
        /\ Operands(V, Top.of, "bang") /\ IsAnswer(V, c)
    BY <2>1, TopNew DEF Plain, FrameTyped
  <2>3. IsSeq(done) /\ e \in Expression /\ e.op = "bang"
    BY <2>2, OperandsGrow
  <2>4. \A j \in 1..Len(done) : New(done[j], delta)
    <3>1. IsSeq(Top.of.done) /\ \A j \in 1..Len(Top.of.done) : New(Top.of.done[j], delta)
      BY <2>2 DEF Operands, FrameNew
    <3> QED
      BY <2>2, <3>1, DoneNew
  <2>5. CASE Len(done) < Len(e.args)
    <3>1. /\ stack' = [stack EXCEPT ![n].of.done = done]
          /\ control' = Eval(e.args[Len(done) + 1])
      BY <1>2, <2>5 DEF ReturnBang
    <3>2. Len(done) + 1 \in DOMAIN e.args
      <4>1. e.args \in Seq(Expression)
        BY <2>3, PartsOf
      <4> HIDE DEF done
      <4> QED
        BY <2>3, <2>5, <4>1 DEF IsSeq
    <3> HIDE DEF done
    <3>3. FramesNew(L, stack', delta)
      BY <2>2, <2>4, <3>1, ContinuedNew
    <3>4. Everything \in delta => e.args[Len(done) + 1] \in L
      BY <2>2, <2>3, <3>2 DEF FrameNew, AskNothing
    <3>5. ControlNew(L, control', delta')
      BY <2>1, <3>1, <3>4 DEF ControlNew, Eval
    <3> QED
      BY <2>1, <3>3, <3>5 DEF DemandsNew
  <2>6. CASE ~(Len(done) < Len(e.args))
    <3>1. stack' = Popped /\ control' = Return(Combine(e.fn, done))
      BY <1>2, <2>6 DEF ReturnBang
    <3> HIDE DEF done
    <3>2. New(Combine(e.fn, done), delta)
      BY <2>3, <2>4, CombinedNew
    <3>3. ControlNew(L, control', delta')
      BY <2>1, <3>1, <3>2 DEF ControlNew, Return
    <3> QED
      BY <2>1, <2>2, <3>1, <3>3 DEF DemandsNew
  <2> QED
    BY <2>5, <2>6
<1>3. CASE ReturnAt
  <2> DEFINE e == Top.of
  <2>1. ReturningTo("at")
    BY <1>3 DEF ReturnAt
  <2>2. /\ FramesNew(L, Popped, delta) /\ FramesNew(L, stack, delta) /\ New(c, delta)
        /\ FrameNew(L, Top) /\ Top.fn = "at" /\ Top.delta = delta /\ n # 0
        /\ IsSeq(stack) /\ e.op = "at" /\ e.dim \in Dims
        /\ Everything \in delta => e \in L
    BY <2>1, TopNew, PartsOf DEF Plain, FrameTyped, FrameNew
  <2>3. CASE \E d : New(d, delta) /\ Yield(d) /\ stack' = Popped
    BY <2>2, <2>3, YieldNew
  <2>4. CASE /\ stack' = Append(Popped, Frame("perturbed", e))
             /\ delta' = delta \cup {e.dim} /\ control' = Eval(e.body)
    <3>1. Everything # e.dim
      BY <2>2, EverythingAssumption DEF Dims
    <3>2. Everything \in delta' => e.body \in L
      BY <2>2, <2>4, <3>1 DEF AskNothing
    <3> QED
      BY <2>2, <2>4, <3>2, EnterNew
  <2> QED
    BY <1>3, <2>2, <2>3, <2>4, SpecialNew DEF ReturnAt
<1>4. CASE ReturnPerturbed
  <2>1. /\ ReturningTo("perturbed") /\ stack' = Popped
        /\ delta' = Top.delta /\ control' = control /\ control.do = "return"
    BY <1>4 DEF ReturnPerturbed, ReturningTo
  <2>2. FramesNew(L, Popped, Top.delta) /\ New(c, delta) /\ Adds(Top, delta) /\ Top.fn = "perturbed"
    BY <2>1, TopNew
  <2>3. New(c, Top.delta)
    BY <2>2 DEF New, Adds
  <2>4. ControlNew(L, control', delta')
    BY <2>1, <2>3 DEF ControlNew
  <2> QED
    BY <2>1, <2>2, <2>4 DEF DemandsNew
<1> QED
  BY <1>1, <1>2, <1>3, <1>4

LEMMA ApplyNew ==
  ASSUME Calls, NEW L, AskNothing(L), NEW V, TypedNow(V), DemandsNew(L), ReturnApply
  PROVE  DemandsNew(L)'
<1> DEFINE c == control.value
           n == Len(stack)
           e == Top.of.expr
           done == Append(Top.of.done, c)
<1>1. ReturningTo("apply")
  BY DEF ReturnApply
<1>2. /\ FramesNew(L, Popped, delta) /\ FramesNew(L, stack, delta) /\ New(c, delta)
      /\ FrameNew(L, Top) /\ Top.fn = "apply" /\ Top.delta = delta /\ n # 0 /\ Frames(V, stack)
      /\ IsFrame(Top) /\ Top = stack[n] /\ IsSeq(stack) /\ Closures(V)
      /\ Operands(V, Top.of, "apply") /\ IsAnswer(V, c)
  BY <1>1, TopNew DEF Plain, FrameTyped
<1>3. Everything \notin delta
  BY <1>2 DEF FrameNew
<1>4. /\ IsSeq(done) /\ \A i \in 1..Len(done) : IsAnswer(V, done[i])
      /\ e \in Expression /\ e.op = "apply"
  BY <1>2, OperandsGrow
<1>5. \A j \in 1..Len(done) : New(done[j], delta)
  <2>1. IsSeq(Top.of.done) /\ \A j \in 1..Len(Top.of.done) : New(Top.of.done[j], delta)
    BY <1>2 DEF Operands, FrameNew
  <2> QED
    BY <1>2, <2>1, DoneNew
<1>6. e.of \in Seq(Expression) /\ e.of # <<>>
  BY <1>4, PartsOf
<1>7. CASE Len(done) < Len(e.of)
  <2>1. /\ stack' = [stack EXCEPT ![n].of.done = done]
        /\ control' = Eval(e.of[Len(done) + 1]) /\ delta' = delta
    BY <1>7 DEF ReturnApply
  <2> HIDE DEF done
  <2>2. FramesNew(L, stack', delta)
    BY <1>2, <1>5, <2>1, ContinuedNew
  <2>3. ControlNew(L, control', delta')
    BY <1>3, <2>1 DEF ControlNew, Eval
  <2> QED
    BY <2>1, <2>2, <2>3 DEF DemandsNew
<1>8. CASE ~(Len(done) < Len(e.of))
  <2> DEFINE f == done[1]
             args == Tail(done)
  <2>1. ApplyNow(e.by, done)
    BY <1>8 DEF ReturnApply
  <2>2. Len(done) # 0 /\ 1 \in 1..Len(done)
    BY <1>4, <1>6, <1>8 DEF IsSeq
  <2> HIDE DEF done
  <2>3. /\ IsSeq(args) /\ \A i \in 1..Len(args) : args[i] = done[i + 1] /\ i + 1 \in 1..Len(done)
    BY <1>4, <2>2, TailIs
  <2>4. \A i \in 1..Len(args) : New(args[i], delta)
    BY <1>5, <2>3
  <2>5. /\ OfKind(done, "demand") # {} =>
             New(Demand(UNION {done[i].dims : i \in OfKind(done, "demand")}), delta)
        /\ New(NoFunction(e.by), delta) /\ New(Special("sptype"), delta)
        /\ OfKind(args, "special") # {} => New(FirstSpecial(args), delta)
    <3> HIDE DEF args
    <3>1. OfKind(done, "demand") # {} =>
            New(Demand(UNION {done[i].dims : i \in OfKind(done, "demand")}), delta)
      BY <1>4, <1>5, AnswersNew
    <3>2. New(NoFunction(e.by), delta) /\ New(Special("sptype"), delta)
      BY SpecialNew DEF NoFunction
    <3>3. OfKind(args, "special") # {} => New(FirstSpecial(args), delta)
      BY <2>3, <2>4, AnswersNew
    <3> QED
      BY <3>1, <3>2, <3>3
  <2>6. CASE \E d : New(d, delta) /\ Answered(d)
    BY <1>2, <2>6, YieldNew DEF Answered
  <2>7. CASE OfKind(done, "demand") = {} /\ IsClosure(f, e.by) /\ Enter(f, args)
    <3>1. IsValue(V, f)
      BY <1>2, <1>4, <2>2, <2>7, AnswersAre
    <3>2. f \in V
      BY <2>7, <3>1 DEF IsValue, IsClosure, Constants
    <3> HIDE DEF f, args
    <3>3. PICK m : MadeBy(V, f, m)
      BY <1>2, <3>2 DEF Closures
    <3>4. f.by = "base" => f.body \in L
      BY <3>3, MadeIs DEF AskNothing
    <3>5. {f.params[i] : i \in DOMAIN f.params} \cup DOMAIN f.binds \subseteq Dims
      <4>1. f.params \in Seq(Hidden) /\ DOMAIN f.binds \subseteq Dims
        BY <3>3, MadeIs, PartsOf DEF MadeBy
      <4>2. \A i \in DOMAIN f.params : f.params[i] \in Hidden
        BY <4>1
      <4> QED
        BY <4>1, <4>2 DEF Dims
    <3>6. /\ stack' = Append(Popped, Frame("perturbed", Top.of.expr)) /\ control' = Eval(f.body)
          /\ delta' = (IF f.by = "base" THEN {Everything} ELSE delta)
                        \cup {f.params[i] : i \in DOMAIN f.params} \cup DOMAIN f.binds
      BY <2>7 DEF Enter
    <3>7. Everything \in delta' => f.body \in L
      BY <1>3, <3>4, <3>5, <3>6, EverythingAssumption DEF Dims
    <3>8. delta \subseteq delta' \/ Everything \in delta'
      BY <3>6
    <3> QED
      BY <1>2, <3>6, <3>7, <3>8, EnterNew
  <2> HIDE DEF f, args
  <2>8. \/ \E d : New(d, delta) /\ Answered(d)
        \/ OfKind(done, "demand") = {} /\ IsClosure(f, e.by) /\ Enter(f, args)
    BY <2>1, <2>5, Zenon DEF ApplyNow, f, args
  <2> QED
    BY <2>6, <2>7, <2>8
<1> QED
  BY <1>7, <1>8

LEMMA CallNew ==
  ASSUME Calls, NEW L, DemandsNew(L), CallCache
  PROVE  DemandsNew(L)'
<1> DEFINE f == Frame("cache", control.name)
<1>1. /\ control.do = "call" /\ stack' = Append(stack, f) /\ delta' = {}
      /\ control' = Looking
  BY DEF CallCache, Push
<1>2. IsSeq(stack) /\ FramesNew(L, stack, delta) /\ Everything \notin delta
  BY <1>1, Active, TopOf DEF DemandsNew, ControlNew
<1>3. f.fn = "cache" /\ f.delta = delta
  BY DEF Frame
<1> HIDE DEF f
<1>4. FrameNew(L, f)
  BY <1>2, <1>3 DEF FrameNew
<1>5. FramesNew(L, stack', delta')
  BY <1>1, <1>2, <1>3, <1>4, NewPush
<1>6. ControlNew(L, control', delta')
  BY <1>1 DEF ControlNew, Looking
<1> QED
  BY <1>5, <1>6 DEF DemandsNew

\* CacheWS returns to its caller what the caller has not, or goes on with all of it
LEMMA DemandedNew ==
  ASSUME Calls, Len(stack) # 0, Top.fn = "cache", NEW L, DemandsNew(L), Everything \notin delta,
         NEW ds, ds \subseteq Dims, Demanded(ds)
  PROVE  DemandsNew(L)'
<1> DEFINE missing == ds \ Top.delta
<1>1. FramesNew(L, stack, delta) /\ IsSeq(stack) /\ Top = stack[Len(stack)]
  BY TopOf DEF DemandsNew
<1>2. Everything \notin Top.delta /\ FramesNew(L, Popped, Top.delta)
  BY <1>1, NewTop, NewPop DEF FrameNew, Popped
<1>3. CASE missing # {}
  <2>1. control' = Return(Demand(missing)) /\ delta' = Top.delta /\ stack' = Popped
    BY <1>3 DEF Demanded
  <2>2. New(Demand(missing), Top.delta)
    BY <1>2, <1>3, KindsAre DEF New
  <2> HIDE DEF missing
  <2>3. ControlNew(L, control', delta')
    BY <2>1, <2>2 DEF ControlNew, Return
  <2> QED
    BY <1>2, <2>1, <2>3 DEF DemandsNew
<1>4. CASE missing = {}
  <2>1. delta' = delta \cup ds /\ control' = Looking /\ stack' = stack
    BY <1>4 DEF Demanded
  <2>2. Everything \notin delta'
    BY <2>1, EverythingAssumption DEF Dims
  <2>3. ControlNew(L, control', delta')
    BY <2>1, <2>2 DEF ControlNew, Looking
  <2>4. FramesNew(L, stack', delta')
    BY <1>1, <2>1, NewStay
  <2> QED
    BY <2>3, <2>4 DEF DemandsNew
<1> QED
  BY <1>3, <1>4

\* A get leaves the levels that were there, and makes no other
LEMMA GetLevels ==
  ASSUME NEW c, LevelsNew(c), NEW r, NEW k, NEW ds, NEW got, GetKeeps(c, r, k, ds, got)
  PROVE  LevelsNew(got.cache)
<1>1. Kept(c, got.cache)
  BY DEF GetKeeps
<1>2. ASSUME NEW p \in DOMAIN got.cache
      PROVE  got.cache[p].content.kind = "level" => p \in DOMAIN c
  <2>1. CASE got.value = Calc
    <3>1. PICK m : Marks(c, got.cache, m, k, ds)
      BY <2>1 DEF GetKeeps
    <3>2. p \in DOMAIN c \/ got.cache[p].content = Calc
      BY <3>1 DEF Marks
    <3> QED
      BY <3>2, KindsAre
  <2>2. CASE got.value # Calc
    BY <2>2 DEF GetKeeps
  <2> QED
    BY <2>1, <2>2
<1>3. ASSUME NEW p \in DOMAIN got.cache, got.cache[p].content.kind = "level"
      PROVE  /\ got.cache[p].content.dims # {}
             /\ got.cache[p].content.dims \cap DimsOf(p) = {}
  <2>1. p \in DOMAIN c /\ got.cache[p].content = c[p].content
    BY <1>1, <1>2, <1>3 DEF Kept
  <2> QED
    BY <1>3, <2>1 DEF LevelsNew
<1> QED
  BY <1>3 DEF LevelsNew

\* CacheWS inside: one cache changes
LEMMA InsideNew ==
  ASSUME WarehouseInv, \A y \in Name : LevelsNew(caches[y]), equations' = equations,
         Inside(control), NEW ds, NEW got,
         got = Get(caches[Top.of], retirement[Top.of], kappa, ds), Keep(Top.of, got)
  PROVE  \A y \in Name : LevelsNew(caches'[y])
<1>1. Calls /\ Len(stack) # 0 /\ Top.fn = "cache"
  BY Active DEF WarehouseInv, Inside
<1>2. Top.of \in Name
  BY <1>1, TopOf
<1>3. /\ IsCache(caches[Top.of]) /\ Ordered(caches[Top.of]) /\ retirement[Top.of] \in Int
      /\ caches = [y \in Name |-> caches[y]]
  BY <1>2 DEF WarehouseInv, CachesOK, RetirementsOK, Young
<1>4. GetKeeps(caches[Top.of], retirement[Top.of], kappa, ds, got)
  BY <1>3, GetIs
<1>5. LevelsNew(got.cache)
  BY <1>2, <1>4, GetLevels
<1>6. caches'[Top.of] = got.cache /\ \A y \in Name \ {Top.of} : caches'[y] = caches[y]
  BY <1>2, <1>3 DEF Keep
<1> QED
  BY <1>5, <1>6

LEMMA NewKept ==
  ASSUME NEW L, DemandsNew(L)', equations' = equations,
         \A y \in Name : LevelsNew(caches'[y])
  PROVE  NewInv(L)'
<1>1. Name' = Name
  BY NamesStay
<1> QED
  BY <1>1 DEF NewInv

LEMMA GetStepNew ==
  ASSUME WarehouseInv, NEW V, TypedNow(V), NEW L, NewInv(L), CacheGet
  PROVE  NewInv(L)'
<1> DEFINE x == Top.of
           got == Get(caches[x], retirement[x], kappa, delta)
<1>1. /\ Inside(control) /\ control.do = "get" /\ Keep(x, got)
      /\ equations' = equations /\ kappa' = kappa
  BY ControlIs DEF CacheGet, Outside
<1> HIDE DEF got
<1>2. DemandsNew(L) /\ \A y \in Name : LevelsNew(caches[y])
  BY DEF NewInv
<1>3. \A y \in Name : LevelsNew(caches'[y])
  BY <1>1, <1>2, InsideNew DEF got
<1>4. /\ Calls /\ Len(stack) # 0 /\ Top.fn = "cache" /\ Everything \notin delta
      /\ FramesNew(L, stack, delta)
  BY <1>1, <1>2, Active DEF WarehouseInv, DemandsNew, ControlNew
<1>5. Closures(V) /\ (got.value = Calc \/ IsAnswer(V, got.value))
  BY <1>1, InsideTyped, AlreadyTyped DEF got
<1>6. CASE control' = Eval(equations[x]) /\ UNCHANGED <<delta, stack>>
  <2>1. ControlNew(L, control', delta')
    BY <1>4, <1>6 DEF ControlNew, Eval
  <2>2. DemandsNew(L)'
    BY <1>4, <1>6, <2>1 DEF DemandsNew
  <2> QED
    BY <1>1, <1>3, <2>2, NewKept
<1>7. CASE got.value.kind = "demand" /\ Demanded(got.value.dims)
  <2>1. got.value.dims \subseteq Dims
    BY <1>5, <1>7, KindOf, KindsAre DEF IsAnswer, Constants
  <2>2. DemandsNew(L)'
    BY <1>2, <1>4, <1>7, <2>1, DemandedNew
  <2> QED
    BY <1>1, <1>3, <2>2, NewKept
<1>8. CASE control' = Finishing /\ UNCHANGED <<delta, stack>>
  <2>1. ControlNew(L, control', delta')
    BY <1>4, <1>8 DEF ControlNew, Finishing
  <2>2. DemandsNew(L)'
    BY <1>4, <1>8, <2>1 DEF DemandsNew
  <2> QED
    BY <1>1, <1>3, <2>2, NewKept
<1> QED
  BY <1>6, <1>7, <1>8 DEF CacheGet, got

\* A demand of new dimensions is a new level
LEMMA SetLevels ==
  ASSUME NEW c, LevelsNew(c), NEW k, NEW value, value.kind # "level", NEW ds,
         New(value, ds), Computes(c, Mark(c, k), k, ds),
         NEW d, SetKeeps(c, k, value, d)
  PROVE  LevelsNew(d)
<1> DEFINE m == Mark(c, k)
<1>1. m \in DOMAIN c /\ Contains(ds, DimsOf(m))
  BY DEF Computes, CalcsOf
<1>2. /\ DOMAIN d = DOMAIN c /\ d[m].content = Stored(value)
      /\ \A p \in DOMAIN c \ {m} : d[p].content = c[p].content
  BY DEF SetKeeps
<1> HIDE DEF m
<1>3. ASSUME d[m].content.kind = "level"
      PROVE  d[m].content.dims # {} /\ d[m].content.dims \cap DimsOf(m) = {}
  <2>1. value.kind = "demand" /\ Stored(value) = Level(value.dims)
    BY <1>2, <1>3 DEF Stored
  <2>2. d[m].content.dims = value.dims
    BY <1>2, <2>1, KindsAre
  <2>3. value.dims # {} /\ value.dims \cap ds = {} /\ DimsOf(m) \subseteq ds
    BY <1>1, <2>1 DEF New, Contains
  <2> QED
    BY <2>2, <2>3
<1>4. ASSUME NEW p \in DOMAIN d, d[p].content.kind = "level"
      PROVE  d[p].content.dims # {} /\ d[p].content.dims \cap DimsOf(p) = {}
  BY <1>2, <1>3, <1>4 DEF LevelsNew
<1> QED
  BY <1>4 DEF LevelsNew

LEMMA SetStepNew ==
  ASSUME WarehouseInv, NEW V, TypedNow(V), NEW L, NewInv(L), CacheSet
  PROVE  NewInv(L)'
<1> DEFINE x == Top.of
           c == control.value
<1>1. PICK own :
        /\ x \in Name /\ Len(stack) # 0 /\ equations' = equations /\ kappa' = kappa
        /\ Computes(caches[x], own, kappa, delta) /\ Mark(caches[x], kappa) = own
        /\ SetKeeps(caches[x], kappa, c, caches'[x])
        /\ \A y \in Name \ {x} : caches'[y] = caches[y]
  BY SetMade
<1>2. DemandsNew(L) /\ (\A y \in Name : LevelsNew(caches[y])) /\ Calls
  BY DEF NewInv, WarehouseInv
<1>3. ReturningTo("cache")
  BY DEF CacheSet
<1>4. /\ IsAnswer(V, c) /\ New(c, delta) /\ FrameNew(L, Top) /\ Top.fn = "cache"
      /\ FramesNew(L, stack, delta) /\ Closures(V)
  BY <1>2, <1>3, TopNew
<1>5. Everything \notin delta
  <2>1. Everything \notin Top.delta
    BY <1>4 DEF FrameNew
  <2>2. delta \subseteq Top.delta
    BY <1>1, <1>2, <1>4, TopOf
  <2> QED
    BY <2>1, <2>2
<1>6. LevelsNew(caches'[x])
  <2>1. c.kind # "level"
    BY <1>4, KindOf DEF Constants
  <2>2. LevelsNew(caches[x]) /\ Computes(caches[x], Mark(caches[x], kappa), kappa, delta)
    BY <1>1, <1>2
  <2> QED
    BY <1>1, <1>4, <2>1, <2>2, SetLevels
<1>7. \A y \in Name : LevelsNew(caches'[y])
  BY <1>1, <1>2, <1>6
<1>8. CASE c.kind = "demand"
  <2>1. Demanded(c.dims)
    BY <1>8 DEF CacheSet
  <2>2. c.dims \subseteq Dims
    BY <1>4, <1>8, KindOf DEF IsAnswer, Constants
  <2>3. DemandsNew(L)'
    BY <1>1, <1>2, <1>4, <1>5, <2>1, <2>2, DemandedNew
  <2> QED
    BY <1>1, <1>7, <2>3, NewKept
<1>9. CASE c.kind # "demand"
  <2>1. control' = Finishing /\ UNCHANGED <<delta, stack>>
    BY <1>9 DEF CacheSet
  <2>2. ControlNew(L, control', delta')
    BY <1>5, <2>1 DEF ControlNew, Finishing
  <2>3. DemandsNew(L)'
    BY <1>4, <2>1, <2>2 DEF DemandsNew
  <2> QED
    BY <1>1, <1>7, <2>3, NewKept
<1> QED
  BY <1>8, <1>9

LEMMA FinishStepNew ==
  ASSUME WarehouseInv, Settled, NEW L, NewInv(L), CacheFinish
  PROVE  NewInv(L)'
<1> DEFINE x == Top.of
           got == Get(caches[x], retirement[x], kappa, Top.delta)
<1>1. /\ Inside(control) /\ control.do = "finish" /\ Keep(x, got)
      /\ equations' = equations /\ kappa' = kappa
      /\ control' = Return(got.value) /\ delta' = Top.delta /\ stack' = Popped
  BY ControlIs DEF CacheFinish, Outside
<1>2. Calls /\ Len(stack) # 0 /\ x \in Name /\ IsSeq(stack)
  BY <1>1, Active, TopOf DEF WarehouseInv
<1>3. got.value.kind # "demand"
  <2>1. PICK m : Leaf(caches[x], kappa, Top.delta, m)
    BY <1>1 DEF Settled
  <2>2. IsCache(caches[x])
    BY <1>2 DEF WarehouseInv, CachesOK
  <2> QED
    BY <2>1, <2>2, LeafAnswers
<1> HIDE DEF got
<1>4. DemandsNew(L) /\ \A y \in Name : LevelsNew(caches[y])
  BY DEF NewInv
<1>5. \A y \in Name : LevelsNew(caches'[y])
  BY <1>1, <1>4, InsideNew DEF got
<1>6. FramesNew(L, stack', delta')
  BY <1>1, <1>2, <1>4, NewPop DEF DemandsNew, Popped, Top
<1>7. ControlNew(L, control', delta')
  BY <1>1, <1>3 DEF ControlNew, Return, New
<1> QED
  BY <1>1, <1>5, <1>6, <1>7, NewKept DEF DemandsNew

LEMMA NoneNew ==
  ASSUME NEW L, NEW ds
  PROVE  FramesNew(L, <<>>, ds) /\ ControlNew(L, Idle, ds)
BY NoFrame DEF FramesNew, ControlNew, Idle

LEMMA ThrowNew ==
  ASSUME NEW L, NewInv(L), EvalThrows
  PROVE  NewInv(L)'
<1>1. /\ delta' = {} /\ stack' = <<>> /\ control' = Idle
      /\ equations' = equations /\ caches' = caches
  BY DEF EvalThrows
<1>2. DemandsNew(L)'
  BY <1>1, NoneNew DEF DemandsNew
<1>3. \A y \in Name : LevelsNew(caches'[y])
  BY <1>1 DEF NewInv
<1> QED
  BY <1>1, <1>2, <1>3, NewKept

\* What System::go fills in was not there
LEMMA LinkNew ==
  ASSUME Calls, NEW V, TypedNow(V), NEW L, NewInv(L), ReturnLink
  PROVE  NewInv(L)'
<1> DEFINE c == control.value
<1>1. ReturningTo("link") /\ UNCHANGED <<equations, kappa, caches>>
  BY DEF ReturnLink
<1>2. DemandsNew(L) /\ \A y \in Name : LevelsNew(caches'[y])
  BY <1>1 DEF NewInv
<1>3. /\ IsAnswer(V, c) /\ New(c, delta) /\ Top.fn = "link" /\ Len(stack) # 0
      /\ FramesNew(L, stack, delta) /\ Closures(V) /\ Top = stack[Len(stack)] /\ IsSeq(stack)
  BY <1>1, <1>2, TopNew
<1>4. CASE c.kind = "demand"
  <2>1. delta' = delta \cup c.dims /\ control' = Call(Top.of) /\ stack' = stack
    BY <1>4 DEF ReturnLink
  <2>2. c.dims \subseteq Dims
    BY <1>3, <1>4, KindOf DEF IsAnswer, Constants
  <2>3. Everything \notin delta'
    BY <1>3, <1>4, <2>1, <2>2, EverythingAssumption DEF New, Dims
  <2>4. ControlNew(L, control', delta')
    BY <2>1, <2>3 DEF ControlNew, Call
  <2>5. FramesNew(L, stack', delta')
    BY <1>3, <2>1, NewStay
  <2> QED
    BY <1>1, <1>2, <2>4, <2>5, NewKept DEF DemandsNew
<1>5. CASE c.kind # "demand"
  <2>1. delta' = {} /\ control' = Idle /\ stack' = Popped
    BY <1>5 DEF ReturnLink
  <2>2. Popped = <<>>
    <3>1. Len(stack) = 1
      BY <1>3, TopOf
    <3>2. IsSeq(Popped) /\ Len(Popped) = Len(stack) - 1
      BY <1>3, PopIs DEF Popped
    <3> QED
      BY <3>1, <3>2, EmptyIs
  <2> QED
    BY <1>1, <1>2, <2>1, <2>2, NoneNew, NewKept DEF DemandsNew
<1> QED
  BY <1>4, <1>5

LEMMA AskNew ==
  ASSUME NEW L, NewInv(L), NEW x, NEW k, Ask(x, k)
  PROVE  NewInv(L)'
<1> DEFINE f == [fn |-> "link", of |-> x, delta |-> {}, kappa |-> k]
<1>1. /\ stack' = <<f>> /\ delta' = {} /\ control' = Call(x)
      /\ equations' = equations /\ caches' = caches
  BY DEF Ask
<1>2. f.fn = "link" /\ f.delta = {}
  OBVIOUS
<1> HIDE DEF f
<1>3. FrameNew(L, f) /\ \A ds : Adds(f, ds)
  BY <1>2 DEF FrameNew, Adds
<1>4. Len(<<f>>) = 1 /\ <<f>>[1] = f
  BY OneFrame
<1>5. FramesNew(L, <<f>>, {})
  BY <1>3, <1>4 DEF FramesNew
<1>6. ControlNew(L, control', delta')
  BY <1>1 DEF ControlNew, Call
<1>7. \A y \in Name : LevelsNew(caches'[y])
  BY <1>1 DEF NewInv
<1> QED
  BY <1>1, <1>5, <1>6, <1>7, NewKept DEF DemandsNew

LEMMA CollectNew ==
  ASSUME WarehouseInv, NEW L, NewInv(L), EndInstant
  PROVE  NewInv(L)'
<1>1. UNCHANGED <<equations, delta, stack, control>>
  BY DEF EndInstant
<1>2. ASSUME NEW y \in Name
      PROVE  LevelsNew(caches'[y])
  <2>1. Collects(y) /\ LevelsNew(caches[y])
    BY CollectStep DEF NewInv
  <2> QED
    BY <2>1 DEF Collects, CollectKeeps, LevelsNew
<1>3. DemandsNew(L)'
  BY <1>1 DEF NewInv, DemandsNew
<1> QED
  BY <1>1, <1>2, <1>3, NewKept

LEMMA LocalNew ==
  ASSUME Local, NEW L, NewInv(L), DemandsNew(L)'
  PROVE  NewInv(L)'
BY NewKept DEF Local, NewInv

LEMMA NewKeeps ==
  ASSUME HostFunctions, TypedWarehouse, NEW L, AskNothing(L), NewInv(L), [Next]_vars
  PROVE  NewInv(L)'
<1>1. PICK V : TypedNow(V)
  BY DEF TypedWarehouse, TypedInv
<1>2. WarehouseInv /\ Settled /\ Calls /\ DemandsNew(L)
  BY DEF TypedWarehouse, WarehouseInv, NewInv
<1>3. CASE \/ EvalConst \/ EvalHash \/ EvalIdent \/ EvalIf \/ EvalBang \/ EvalAt
           \/ EvalAbstraction \/ EvalApply
  <2>1. Local
    BY <1>3 DEF EvalConst, EvalHash, EvalIdent, EvalIf, EvalBang, EvalAt, EvalAbstraction,
         EvalApply
  <2> QED
    BY <1>1, <1>2, <1>3, <2>1, EvalNew, LocalNew
<1>4. CASE ReturnIf \/ ReturnBang \/ ReturnAt \/ ReturnPerturbed
  <2>1. Local
    BY <1>4 DEF ReturnIf, ReturnBang, ReturnAt, ReturnPerturbed
  <2> QED
    BY <1>1, <1>2, <1>4, <2>1, ReturnNew, LocalNew
<1>5. CASE ReturnApply
  <2>1. Local
    BY <1>5 DEF ReturnApply
  <2> QED
    BY <1>1, <1>2, <1>5, <2>1, ApplyNew, LocalNew
<1>6. CASE CallCache
  <2>1. Local
    BY <1>6 DEF CallCache
  <2> QED
    BY <1>2, <1>6, <2>1, CallNew, LocalNew
<1>7. CASE CacheGet
  BY <1>1, <1>2, <1>7, GetStepNew
<1>8. CASE CacheSet
  BY <1>1, <1>2, <1>8, SetStepNew
<1>9. CASE CacheFinish
  BY <1>2, <1>9, FinishStepNew
<1>10. CASE EvalThrows
  BY <1>10, ThrowNew
<1>11. CASE ReturnLink
  BY <1>1, <1>2, <1>11, LinkNew
<1>12. CASE \E x \in Name, k \in Context : Ask(x, k)
  BY <1>12, AskNew
<1>13. CASE EndInstant
  BY <1>2, <1>13, CollectNew
<1>14. CASE UNCHANGED vars
  BY <1>14 DEF vars, NewInv, DemandsNew, Name
<1> QED
  BY <1>3, <1>4, <1>5, <1>6, <1>7, <1>8, <1>9, <1>10, <1>11, <1>12, <1>13, <1>14
  DEF Next, Step

LEMMA NewStarts ==
  ASSUME NEW L, Init
  PROVE  NewInv(L)
<1>1. /\ stack = <<>> /\ control = Idle /\ caches = [x \in Name |-> <<>>]
  BY DEF Init
<1>2. \A x \in Name : LevelsNew(caches[x])
  <2>1. LevelsNew(<<>>)
    BY EmptyCache DEF LevelsNew
  <2> QED
    BY <1>1, <2>1
<1> QED
  BY <1>1, <1>2, NoneNew DEF NewInv, DemandsNew

\* An expression demands only dimensions that its delta lacks, so a cache never
\* gets a level with a dimension of the levels above it, nor a level of no
\* dimension: every turn of the loop of CacheWS goes deeper.  Where the body of
\* a base function calls nothing: the delta it runs under has every dimension
\* without listing them, and what it calls may demand again what it has.
THEOREM LevelsStayNew ==
  ASSUME HostFunctions, NEW L, AskNothing(L)
  PROVE  Spec => []LevelsAreNew
<1>1. Init => NewInv(L)
  BY NewStarts
<1>2. TypedWarehouse /\ NewInv(L) /\ [Next]_vars => NewInv(L)'
  BY NewKeeps
<1>3. NewInv(L) => LevelsAreNew
  BY DEF NewInv, LevelsNew, LevelsAreNew
<1> QED
  BY <1>1, <1>2, <1>3, TypedAlways, PTL DEF Spec

(***************************************************************************)
(* Answers.  A judgement is about an expression in all the contexts that   *)
(* agree on a delta; what is returned under the delta is right if it is    *)
(* the value of each                                                       *)
(***************************************************************************)
Same(k, l, ds) == \A d \in Dims : Contains(ds, {d}) => k[d] = l[d]

About(J, e, k, ds) == {j \in J : j.expr = e /\ Same(j.at, k, ds)}

Right(J, e, k, ds, c) == c.kind # "demand" => \A j \in About(J, e, k, ds) : j.value = c

\* What is judged of e is judged of f too, by derivations lower by b
Onto(J, e, f, k, ds, b) ==
  \A j \in About(J, e, k, ds) :
    \E i \in About(J, f, k, ds) : i.value = j.value /\ i.height + b <= j.height

\* Whatever is judged of e has a judgement of its part f
Through(J, e, f, k, ds) ==
  \A j \in About(J, e, k, ds) : \E i \in About(J, f, k, ds) : i.height < j.height

LEMMA SameIs ==
  ASSUME NEW k, NEW l, NEW ds
  PROVE  /\ Same(k, k, ds) /\ (Same(k, l, ds) <=> Same(l, k, ds))
         /\ \A es : (Everything \in es => Everything \in ds) /\ es \subseteq ds /\ Same(k, l, ds)
              => Same(k, l, es)
BY DEF Same, Contains

LEMMA SameAll ==
  ASSUME NEW k, NEW l, NEW ds, Same(k, l, ds), NEW dims, dims \subseteq Dims,
         Contains(ds, dims)
  PROVE  \A d \in dims : k[d] = l[d]
BY DEF Same, Contains

\* What is known of the judgements J of the program E
Evaluations(E, V, J) == Derivations(E, V, J) /\ ArgumentsHaveValues(J)

LEMMA Judged ==
  ASSUME NEW E, NEW V, NEW J, Evaluations(E, V, J), NEW e, NEW k, NEW ds,
         NEW j \in About(J, e, k, ds)
  PROVE  /\ j \in J /\ j.expr = e /\ Same(j.at, k, ds) /\ j.height \in Nat
         /\ e \in Expression /\ IsContext(V, j.at)
         /\ Derived(E, J, e, j.at, j.value, j.height)
<1>1. j \in J /\ j.expr = e /\ Same(j.at, k, ds)
  BY DEF About
<1>2. Judgement(V, j) /\ Derived(E, J, j.expr, j.at, j.value, j.height)
  BY <1>1 DEF Evaluations, Derivations
<1> QED
  BY <1>1, <1>2 DEF Judgement

LEMMA DerivesIs ==
  ASSUME NEW J, NEW e, NEW l, NEW c, NEW n, Derives(J, e, l, c, n),
         NEW k, NEW ds, Same(l, k, ds)
  PROVE  \E i \in About(J, e, k, ds) : i.value = c /\ i.height < n
BY DEF Derives, About

LEMMA RightIs ==
  ASSUME NEW J, NEW e, NEW l, NEW c, NEW n, Derives(J, e, l, c, n),
         NEW k, NEW ds, Same(l, k, ds), NEW d, Right(J, e, k, ds, d), d.kind # "demand"
  PROVE  c = d
BY DerivesIs DEF Right

\* The rule that derives a judgement is that of its expression
LEMMA RuleIs ==
  ASSUME NEW E, NEW J, NEW e, NEW k, NEW c, NEW n, Derived(E, J, e, k, c, n)
  PROVE  /\ e.op = "const" => c = e.value
         /\ e.op = "hash" => c = k[e.dim]
         /\ e.op = "ident" => IdentHas(E, J, e, k, c, n)
         /\ e.op = "if" => IfHas(J, e, k, c, n)
         /\ e.op = "bang" => BangHas(J, e, k, c, n)
         /\ e.op = "at" => AtHas(J, e, k, c, n)
         /\ e.op = "abstraction" => c = Bound(e, k)
         /\ e.op = "apply" => ApplyHas(J, e, k, c, n)
BY DEF Derived

(***************************************************************************)
(* Expressions that are answered at once                                   *)
(***************************************************************************)
LEMMA ConstRight ==
  ASSUME NEW E, NEW V, NEW J, Evaluations(E, V, J), NEW e, e.op = "const", NEW k, NEW ds
  PROVE  Right(J, e, k, ds, e.value)
<1>1. \A j \in About(J, e, k, ds) : j.value = e.value
  BY Judged, RuleIs
<1> QED
  BY <1>1 DEF Right

LEMMA HashRight ==
  ASSUME NEW E, NEW V, NEW J, Evaluations(E, V, J), NEW e \in Expression, e.op = "hash",
         NEW k, NEW ds, Contains(ds, {e.dim})
  PROVE  Right(J, e, k, ds, k[e.dim])
<1>1. e.dim \in Dims
  BY PartsOf
<1>2. ASSUME NEW j \in About(J, e, k, ds)
      PROVE  j.value = k[e.dim]
  <2>1. j.value = j.at[e.dim] /\ Same(j.at, k, ds)
    BY Judged, RuleIs
  <2> QED
    BY <1>1, <2>1 DEF Same
<1> QED
  BY <1>2 DEF Right

\* An abstraction depends on what it is bound to
LEMMA AbstractionRight ==
  ASSUME NEW E, NEW V, NEW J, Evaluations(E, V, J),
         NEW e \in Expression, e.op = "abstraction",
         NEW k, NEW ds, Lacks(ds, e.binds \cup e.scope) = {},
         e.by = "base" => Contains(ds, {TimeDim})
  PROVE  Right(J, e, k, ds, Bound(e, k))
<1>1. BoundBy(e) \subseteq Dims
  <2>1. e.binds \cup e.scope \subseteq Dims /\ TimeDim \in Dims
    BY PartsOf, WarehouseAssumption DEF Dims
  <2> QED
    BY <2>1 DEF BoundBy
<1>2. Contains(ds, BoundBy(e))
  BY DEF Contains, Lacks, BoundBy
<1>3. ASSUME NEW j \in About(J, e, k, ds)
      PROVE  j.value = Bound(e, k)
  <2>1. j.value = Bound(e, j.at) /\ Same(j.at, k, ds)
    BY Judged, RuleIs
  <2>2. \A d \in BoundBy(e) : j.at[d] = k[d]
    BY <1>1, <1>2, <2>1, SameAll
  <2>3. [d \in BoundBy(e) |-> j.at[d]] = [d \in BoundBy(e) |-> k[d]]
    BY <2>2
  <2> QED
    BY <2>1, <2>3 DEF Bound
<1> QED
  BY <1>3 DEF Right

\* An identifier that is not defined, does not compile, or is called
LEMMA IdentRight ==
  ASSUME NEW E, NEW V, NEW J, Evaluations(E, V, J), NEW e, e.op = "ident", NEW k, NEW ds
  PROVE  /\ e.name \in Broken => About(J, e, k, ds) = {}
         /\ e.name \notin DOMAIN E => Right(J, e, k, ds, Special("spundef"))
         /\ e.name \in DOMAIN E => Onto(J, e, E[e.name], k, ds, 1)
<1>1. ASSUME NEW j \in About(J, e, k, ds)
      PROVE  /\ Same(j.at, k, ds) /\ j.height \in Nat /\ e.name \notin Broken
             /\ IF e.name \in DOMAIN E THEN Derives(J, E[e.name], j.at, j.value, j.height)
                ELSE j.value = Special("spundef")
  BY Judged, RuleIs DEF IdentHas
<1>2. e.name \in Broken => About(J, e, k, ds) = {}
  BY <1>1
<1>3. e.name \notin DOMAIN E => Right(J, e, k, ds, Special("spundef"))
  BY <1>1 DEF Right
<1>4. ASSUME e.name \in DOMAIN E, NEW j \in About(J, e, k, ds)
      PROVE  \E i \in About(J, E[e.name], k, ds) : i.value = j.value /\ i.height + 1 <= j.height
  <2>1. PICK i \in About(J, E[e.name], k, ds) : i.value = j.value /\ i.height < j.height
    BY <1>1, <1>4, DerivesIs
  <2>2. i.height \in Nat
    BY <2>1, Judged
  <2> QED
    BY <1>1, <2>1, <2>2
<1> QED
  BY <1>2, <1>3, <1>4 DEF Onto

(***************************************************************************)
(* Conditionals                                                            *)
(***************************************************************************)
LEMMA IfRight ==
  ASSUME NEW E, NEW V, NEW J, Evaluations(E, V, J), NEW e, e.op = "if", NEW k, NEW ds
  PROVE  /\ Through(J, e, e.cond, k, ds)
         /\ \A c : Right(J, e.cond, k, ds, c) /\ c.kind # "demand" =>
              /\ c.kind = "special" => Right(J, e, k, ds, c)
              /\ c.kind \notin {"special", "bool"} => Right(J, e, k, ds, Special("sptype"))
              /\ c.kind = "bool" =>
                   Onto(J, e, IF c.holds THEN e.then ELSE e.else, k, ds, 0)
<1>1. ASSUME NEW j \in About(J, e, k, ds)
      PROVE  /\ Same(j.at, k, ds) /\ j.height \in Nat
             /\ \E b : /\ Derives(J, e.cond, j.at, b, j.height)
                       /\ IF b.kind = "special" THEN j.value = b
                          ELSE IF b.kind # "bool" THEN j.value = Special("sptype")
                          ELSE Derives(J, IF b.holds THEN e.then ELSE e.else, j.at,
                                       j.value, j.height)
  BY Judged, RuleIs DEF IfHas
<1>2. Through(J, e, e.cond, k, ds)
  BY <1>1, DerivesIs DEF Through
<1>3. ASSUME NEW c, Right(J, e.cond, k, ds, c), c.kind # "demand", NEW j \in About(J, e, k, ds)
      PROVE  IF c.kind = "special" THEN j.value = c
             ELSE IF c.kind # "bool" THEN j.value = Special("sptype")
             ELSE Derives(J, IF c.holds THEN e.then ELSE e.else, j.at, j.value, j.height)
  <2>1. PICK b : /\ Derives(J, e.cond, j.at, b, j.height)
                 /\ IF b.kind = "special" THEN j.value = b
                    ELSE IF b.kind # "bool" THEN j.value = Special("sptype")
                    ELSE Derives(J, IF b.holds THEN e.then ELSE e.else, j.at,
                                 j.value, j.height)
    BY <1>1
  <2>2. b = c
    BY <1>1, <1>3, <2>1, RightIs
  <2> QED
    BY <2>1, <2>2
<1>4. ASSUME NEW c, Right(J, e.cond, k, ds, c), c.kind # "demand", c.kind = "bool"
      PROVE  Onto(J, e, IF c.holds THEN e.then ELSE e.else, k, ds, 0)
  <2> DEFINE f == IF c.holds THEN e.then ELSE e.else
  <2>1. ASSUME NEW j \in About(J, e, k, ds)
        PROVE  \E i \in About(J, f, k, ds) : i.value = j.value /\ i.height + 0 <= j.height
    <3>1. Derives(J, f, j.at, j.value, j.height)
      BY <1>3, <1>4
    <3> HIDE DEF f
    <3>2. PICK i \in About(J, f, k, ds) : i.value = j.value /\ i.height < j.height
      BY <1>1, <3>1, DerivesIs
    <3>3. i.height \in Nat /\ j.height \in Nat
      BY <1>1, <3>2, Judged
    <3> QED
      BY <3>2, <3>3
  <2> QED
    BY <2>1 DEF Onto
<1> QED
  BY <1>2, <1>3, <1>4 DEF Right

(***************************************************************************)
(* Operands                                                                *)
(***************************************************************************)

\* All of what es has been evaluated to is right
AllRight(J, es, k, ds, done) == \A i \in 1..Len(done) : Right(J, es[i], k, ds, done[i])

LEMMA OperandsAre ==
  ASSUME NEW J, NEW es, NEW l, NEW cs, NEW n, DerivesAll(J, es, l, cs, n),
         NEW k, NEW ds, Same(l, k, ds),
         NEW done, IsSeq(done), Len(done) = Len(es), AllRight(J, es, k, ds, done),
         OfKind(done, "demand") = {}
  PROVE  cs = done
<1>1. cs = [i \in 1..Len(es) |-> cs[i]] /\ \A i \in 1..Len(es) : Derives(J, es[i], l, cs[i], n)
  BY DEF DerivesAll
<1>2. done = [i \in 1..Len(es) |-> done[i]]
  BY DEF IsSeq
<1>3. ASSUME NEW i \in 1..Len(es)
      PROVE  cs[i] = done[i]
  <2>1. i \in DOMAIN done /\ done[i].kind # "demand"
    BY <1>2 DEF OfKind
  <2>2. Right(J, es[i], k, ds, done[i])
    BY DEF AllRight
  <2> QED
    BY <1>1, <2>1, <2>2, RightIs
<1>4. [i \in 1..Len(es) |-> cs[i]] = [i \in 1..Len(es) |-> done[i]]
  BY <1>3
<1> QED
  BY <1>1, <1>2, <1>4

LEMMA DemandRight ==
  ASSUME NEW J, NEW e, NEW k, NEW ds
  PROVE  \A dims : Right(J, e, k, ds, Demand(dims))
BY KindsAre DEF Right

LEMMA BangRight ==
  ASSUME NEW E, NEW V, NEW J, Evaluations(E, V, J), NEW e, e.op = "bang", NEW k, NEW ds
  PROVE  /\ \A i \in 1..Len(e.args) : Through(J, e, e.args[i], k, ds)
         /\ \A done : IsSeq(done) /\ Len(done) = Len(e.args) /\ AllRight(J, e.args, k, ds, done)
              => Right(J, e, k, ds, Combine(e.fn, done))
<1>1. ASSUME NEW j \in About(J, e, k, ds)
      PROVE  /\ Same(j.at, k, ds)
             /\ \E args : DerivesAll(J, e.args, j.at, args, j.height)
                          /\ j.value = Combine(e.fn, args)
  BY Judged, RuleIs DEF BangHas
<1>2. ASSUME NEW i \in 1..Len(e.args), NEW j \in About(J, e, k, ds)
      PROVE  \E h \in About(J, e.args[i], k, ds) : h.height < j.height
  BY <1>1, DerivesIs DEF DerivesAll
<1>3. ASSUME NEW done, IsSeq(done), Len(done) = Len(e.args), AllRight(J, e.args, k, ds, done)
      PROVE  Right(J, e, k, ds, Combine(e.fn, done))
  <2>1. CASE OfKind(done, "demand") # {}
    BY <2>1, DemandRight DEF Combine
  <2>2. CASE OfKind(done, "demand") = {}
    <3>1. \A j \in About(J, e, k, ds) : j.value = Combine(e.fn, done)
      BY <1>1, <1>3, <2>2, OperandsAre
    <3> QED
      BY <3>1 DEF Right
  <2> QED
    BY <2>1, <2>2
<1> QED
  BY <1>2, <1>3 DEF Through

(***************************************************************************)
(* Perturbations                                                           *)
(***************************************************************************)

\* What is judged of e in k is judged of f in l
Into(J, e, k, ds, f, l, es) ==
  \A j \in About(J, e, k, ds) :
    \E i \in About(J, f, l, es) : i.value = j.value /\ i.height <= j.height

\* Contexts that agree do so when both are perturbed
LEMMA SameChanged ==
  ASSUME NEW V, NEW k, IsContext(V, k), NEW l, IsContext(V, l), NEW ds, Same(l, k, ds),
         NEW dim \in Dims, NEW c
  PROVE  Same([l EXCEPT ![dim] = c], [k EXCEPT ![dim] = c], ds \cup {dim})
<1>1. DOMAIN k = Dims /\ DOMAIN l = Dims
  BY DEF IsContext
<1>2. ASSUME NEW d \in Dims, Contains(ds \cup {dim}, {d})
      PROVE  [l EXCEPT ![dim] = c][d] = [k EXCEPT ![dim] = c][d]
  <2>1. CASE d = dim
    BY <1>1, <2>1
  <2>2. CASE d # dim
    <3>1. Everything # dim
      BY EverythingAssumption DEF Dims
    <3>2. Contains(ds, {d})
      BY <1>2, <2>2, <3>1 DEF Contains
    <3> QED
      BY <1>1, <2>2, <3>2 DEF Same
  <2> QED
    BY <2>1, <2>2
<1> QED
  BY <1>2 DEF Same

LEMMA AtRight ==
  ASSUME NEW E, NEW V, NEW J, Evaluations(E, V, J), NEW e \in Expression, e.op = "at",
         NEW k, IsContext(V, k), NEW ds
  PROVE  /\ Through(J, e, e.to, k, ds)
         /\ \A c : Right(J, e.to, k, ds, c) /\ c.kind # "demand" =>
              /\ c.kind = "special" => Right(J, e, k, ds, c)
              /\ c.kind # "special" /\ (e.dim = TimeDim => Contains(ds, {TimeDim})) =>
                   IF e.dim = TimeDim /\ c.v > k[TimeDim].v
                   THEN Right(J, e, k, ds, Special("spaccess"))
                   ELSE Into(J, e, k, ds, e.body, [k EXCEPT ![e.dim] = c], ds \cup {e.dim})
<1>1. ASSUME NEW j \in About(J, e, k, ds)
      PROVE  /\ Same(j.at, k, ds) /\ j.height \in Nat /\ IsContext(V, j.at)
             /\ \E t : /\ Derives(J, e.to, j.at, t, j.height)
                       /\ IF t.kind = "special" THEN j.value = t
                          ELSE IF e.dim = TimeDim /\ t.v > j.at[TimeDim].v
                          THEN j.value = Special("spaccess")
                          ELSE Derives(J, e.body, [j.at EXCEPT ![e.dim] = t], j.value, j.height)
  <2>1. /\ Same(j.at, k, ds) /\ j.height \in Nat /\ IsContext(V, j.at)
        /\ AtHas(J, e, j.at, j.value, j.height)
    BY Judged, RuleIs
  <2> QED
    BY <2>1 DEF AtHas
<1>2. Through(J, e, e.to, k, ds)
  BY <1>1, DerivesIs DEF Through
<1>3. ASSUME NEW c, Right(J, e.to, k, ds, c), c.kind # "demand", NEW j \in About(J, e, k, ds)
      PROVE  IF c.kind = "special" THEN j.value = c
             ELSE IF e.dim = TimeDim /\ c.v > j.at[TimeDim].v
             THEN j.value = Special("spaccess")
             ELSE Derives(J, e.body, [j.at EXCEPT ![e.dim] = c], j.value, j.height)
  <2>1. PICK t : /\ Derives(J, e.to, j.at, t, j.height)
                 /\ IF t.kind = "special" THEN j.value = t
                    ELSE IF e.dim = TimeDim /\ t.v > j.at[TimeDim].v
                    THEN j.value = Special("spaccess")
                    ELSE Derives(J, e.body, [j.at EXCEPT ![e.dim] = t], j.value, j.height)
    BY <1>1
  <2>2. t = c
    BY <1>1, <1>3, <2>1, RightIs
  <2> QED
    BY <2>1, <2>2
<1>4. e.dim \in Dims
  BY PartsOf
<1>5. ASSUME e.dim = TimeDim, Contains(ds, {TimeDim}), NEW j \in About(J, e, k, ds)
      PROVE  j.at[TimeDim] = k[TimeDim]
  BY <1>1, <1>4, <1>5 DEF Same
<1>6. ASSUME NEW c, Right(J, e.to, k, ds, c), c.kind # "demand", c.kind # "special",
             e.dim = TimeDim => Contains(ds, {TimeDim}),
             ~(e.dim = TimeDim /\ c.v > k[TimeDim].v)
      PROVE  Into(J, e, k, ds, e.body, [k EXCEPT ![e.dim] = c], ds \cup {e.dim})
  <2> DEFINE l == [k EXCEPT ![e.dim] = c]
             es == ds \cup {e.dim}
  <2>1. ASSUME NEW j \in About(J, e, k, ds)
        PROVE  \E i \in About(J, e.body, l, es) : i.value = j.value /\ i.height <= j.height
    <3> DEFINE m == [j.at EXCEPT ![e.dim] = c]
    <3>1. Derives(J, e.body, m, j.value, j.height)
      <4>1. e.dim = TimeDim => j.at[TimeDim] = k[TimeDim]
        BY <1>5, <1>6
      <4> QED
        BY <1>3, <1>6, <4>1
    <3>2. Same(m, l, es)
      BY <1>1, <1>4, SameChanged
    <3> HIDE DEF m, l, es
    <3>3. PICK i \in About(J, e.body, l, es) : i.value = j.value /\ i.height < j.height
      BY <3>1, <3>2, DerivesIs
    <3>4. i.height \in Nat /\ j.height \in Nat
      BY <1>1, <3>3, Judged
    <3> QED
      BY <3>3, <3>4
  <2> QED
    BY <2>1 DEF Into
<1>7. ASSUME NEW c, Right(J, e.to, k, ds, c), c.kind # "demand", c.kind # "special",
             e.dim = TimeDim, Contains(ds, {TimeDim}), c.v > k[TimeDim].v
      PROVE  Right(J, e, k, ds, Special("spaccess"))
  <2>1. ASSUME NEW j \in About(J, e, k, ds)
        PROVE  j.value = Special("spaccess")
    <3>1. j.at[TimeDim] = k[TimeDim]
      BY <1>5, <1>7
    <3> QED
      BY <1>3, <1>7, <3>1
  <2> QED
    BY <2>1 DEF Right
<1>8. \A c : Right(J, e.to, k, ds, c) /\ c.kind = "special" => Right(J, e, k, ds, c)
  BY <1>3 DEF Right
<1> QED
  BY <1>2, <1>6, <1>7, <1>8

(***************************************************************************)
(* Applications                                                            *)
(***************************************************************************)

\* A closure's body depends on the context as its application does
LEMMA SameInside ==
  ASSUME NEW V, NEW k, IsContext(V, k), NEW l, IsContext(V, l), NEW ds, Same(l, k, ds),
         NEW f, NEW args,
         {f.params[i] : i \in DOMAIN f.params} \cup DOMAIN f.binds \subseteq Dims
  PROVE  Same(Perturbing(f, args, l), Perturbing(f, args, k),
              (IF f.by = "base" THEN {Everything} ELSE ds)
                \cup {f.params[i] : i \in DOMAIN f.params} \cup DOMAIN f.binds)
<1> DEFINE ps == {f.params[i] : i \in DOMAIN f.params}
           given == [i \in DOMAIN f.params |-> args[i]]
           params == [d \in ps |-> given[CHOOSE i \in DOMAIN f.params : f.params[i] = d]]
           es == (IF f.by = "base" THEN {Everything} ELSE ds) \cup ps \cup DOMAIN f.binds
           In(m) == IF f.by = "base"
                    THEN Perturbed(Perturbed([d \in DOMAIN m |-> Unset], f.binds), params)
                    ELSE Perturbed(Perturbed(m, params), f.binds)
<1>1. DOMAIN k = Dims /\ DOMAIN l = Dims
  BY DEF IsContext
<1>2. Perturbing(f, args, l) = In(l) /\ Perturbing(f, args, k) = In(k)
  BY DEF Perturbing
<1>3. DOMAIN params = ps /\ Everything \notin ps \cup DOMAIN f.binds
      /\ ps \cup DOMAIN f.binds \subseteq Dims
  BY EverythingAssumption DEF Dims
<1> HIDE DEF params, ps
<1>4. CASE f.by = "base"
  <2>1. In(l) = In(k)
    BY <1>1, <1>4
  <2> QED
    BY <1>2, <2>1 DEF Same, ps
<1>5. CASE f.by # "base"
  <2>1. In(l) = Perturbed(Perturbed(l, params), f.binds)
        /\ In(k) = Perturbed(Perturbed(k, params), f.binds)
    BY <1>5
  <2>2. \A m, d : d \in Dims /\ DOMAIN m = Dims =>
          Perturbed(Perturbed(m, params), f.binds)[d] =
            IF d \in DOMAIN f.binds THEN f.binds[d] ELSE IF d \in ps THEN params[d] ELSE m[d]
    BY <1>3 DEF Perturbed
  <2>3. ASSUME NEW d \in Dims, Contains(es, {d})
        PROVE  In(l)[d] = In(k)[d]
    <3>1. CASE d \in DOMAIN f.binds \cup ps
      BY <1>1, <2>1, <2>2, <3>1
    <3>2. CASE d \notin DOMAIN f.binds \cup ps
      <4>1. Contains(ds, {d})
        BY <1>3, <1>5, <2>3, <3>2 DEF Contains
      <4>2. l[d] = k[d]
        BY <4>1 DEF Same
      <4> QED
        BY <1>1, <2>1, <2>2, <3>2, <4>2
    <3> QED
      BY <3>1, <3>2
  <2> HIDE DEF es, In
  <2>4. Same(In(l), In(k), es)
    BY <2>3 DEF Same
  <2> QED
    BY <1>2, <2>4 DEF es, ps
<1> QED
  BY <1>4, <1>5

\* The delta of a closure's body (Enter)
DeltaInside(f, ds) ==
  (IF f.by = "base" THEN {Everything} ELSE ds)
    \cup {f.params[i] : i \in DOMAIN f.params} \cup DOMAIN f.binds

LEMMA OperandsRight ==
  ASSUME NEW E, NEW V, NEW J, Evaluations(E, V, J), NEW e, e.op = "apply", NEW k, NEW ds
  PROVE  /\ \A i \in 1..Len(e.of) : Through(J, e, e.of[i], k, ds)
         /\ \A done : IsSeq(done) /\ Len(done) = Len(e.of) /\ AllRight(J, e.of, k, ds, done)
                      /\ OfKind(done, "demand") = {} =>
              \A j \in About(J, e, k, ds) : Applies(J, e.by, done, j.at, j.value, j.height)
<1>1. ASSUME NEW j \in About(J, e, k, ds)
      PROVE  /\ Same(j.at, k, ds) /\ ApplyHas(J, e, j.at, j.value, j.height)
             /\ \E done : DerivesAll(J, e.of, j.at, done, j.height)
             /\ 1 \in 1..Len(e.of)
  <2>1. /\ j \in J /\ j.expr = e /\ Same(j.at, k, ds) /\ e \in Expression
        /\ ApplyHas(J, e, j.at, j.value, j.height)
    BY Judged, RuleIs
  <2>2. \E done : DerivesAll(J, e.of, j.at, done, j.height)
    BY <2>1 DEF Evaluations, ArgumentsHaveValues
  <2>3. e.of \in Seq(Expression) /\ e.of # <<>>
    BY <2>1, PartsOf
  <2> QED
    BY <2>1, <2>2, <2>3
<1>2. ASSUME NEW i \in 1..Len(e.of), NEW j \in About(J, e, k, ds)
      PROVE  \E h \in About(J, e.of[i], k, ds) : h.height < j.height
  BY <1>1, DerivesIs DEF DerivesAll
<1>3. ASSUME NEW done, IsSeq(done), Len(done) = Len(e.of), AllRight(J, e.of, k, ds, done),
             OfKind(done, "demand") = {}, NEW j \in About(J, e, k, ds)
      PROVE  Applies(J, e.by, done, j.at, j.value, j.height)
  <2>1. CASE \E ds2 : DerivesAll(J, e.of, j.at, ds2, j.height)
                      /\ Applies(J, e.by, ds2, j.at, j.value, j.height)
    BY <1>1, <1>3, <2>1, OperandsAre
  <2>2. CASE /\ j.value = NoFunction(e.by)
             /\ \E f : Derives(J, e.of[1], j.at, f, j.height) /\ ~IsClosure(f, e.by)
    <3>1. PICK f : Derives(J, e.of[1], j.at, f, j.height) /\ ~IsClosure(f, e.by)
      BY <2>2
    <3>2. 1 \in 1..Len(done) /\ 1 \in DOMAIN done
      BY <1>1, <1>3 DEF IsSeq
    <3>3. Right(J, e.of[1], k, ds, done[1]) /\ done[1].kind # "demand"
      BY <1>3, <3>2 DEF AllRight, OfKind
    <3>4. f = done[1]
      BY <1>1, <3>1, <3>3, RightIs
    <3> QED
      BY <2>2, <3>1, <3>4 DEF Applies
  <2> QED
    BY <1>1, <2>1, <2>2 DEF ApplyHas
<1> QED
  BY <1>2, <1>3 DEF Through

LEMMA ApplyRight ==
  ASSUME NEW E, NEW V, NEW J, Evaluations(E, V, J), NEW e, e.op = "apply",
         NEW k, IsContext(V, k), NEW ds,
         NEW done, IsSeq(done), Len(done) = Len(e.of), AllRight(J, e.of, k, ds, done),
         OfKind(done, "demand") = {}, NEW f, f = done[1], NEW args, args = Tail(done)
  PROVE  IF ~IsClosure(f, e.by) THEN Right(J, e, k, ds, NoFunction(e.by))
         ELSE IF e.by = "base" /\ OfKind(args, "special") # {}
         THEN Right(J, e, k, ds, FirstSpecial(args))
         ELSE IF Len(args) # Len(f.params) THEN Right(J, e, k, ds, Special("sptype"))
         ELSE {f.params[i] : i \in DOMAIN f.params} \cup DOMAIN f.binds \subseteq Dims =>
                Into(J, e, k, ds, f.body, Perturbing(f, args, k), DeltaInside(f, ds))
<1>1. ASSUME NEW j \in About(J, e, k, ds)
      PROVE  IF ~IsClosure(f, e.by) THEN j.value = NoFunction(e.by)
             ELSE IF e.by = "base" /\ OfKind(args, "special") # {} THEN j.value = FirstSpecial(args)
             ELSE IF Len(args) # Len(f.params) THEN j.value = Special("sptype")
             ELSE Derives(J, f.body, Perturbing(f, args, j.at), j.value, j.height)
  <2>1. Applies(J, e.by, done, j.at, j.value, j.height)
    BY OperandsRight
  <2> QED
    BY <2>1, Zenon DEF Applies
<1>2. CASE ~IsClosure(f, e.by)
  BY <1>1, <1>2 DEF Right
<1>3. CASE IsClosure(f, e.by) /\ e.by = "base" /\ OfKind(args, "special") # {}
  BY <1>1, <1>3 DEF Right
<1>4. CASE /\ IsClosure(f, e.by) /\ ~(e.by = "base" /\ OfKind(args, "special") # {})
           /\ Len(args) # Len(f.params)
  BY <1>1, <1>4 DEF Right
<1>5. ASSUME IsClosure(f, e.by), ~(e.by = "base" /\ OfKind(args, "special") # {}),
             Len(args) = Len(f.params),
             {f.params[i] : i \in DOMAIN f.params} \cup DOMAIN f.binds \subseteq Dims
      PROVE  Into(J, e, k, ds, f.body, Perturbing(f, args, k), DeltaInside(f, ds))
  <2> DEFINE l == Perturbing(f, args, k)
             es == DeltaInside(f, ds)
  <2>1. ASSUME NEW j \in About(J, e, k, ds)
        PROVE  \E i \in About(J, f.body, l, es) : i.value = j.value /\ i.height <= j.height
    <3> DEFINE m == Perturbing(f, args, j.at)
    <3>1. Derives(J, f.body, m, j.value, j.height)
      BY <1>1, <1>5
    <3>2. Same(j.at, k, ds) /\ IsContext(V, j.at) /\ j.height \in Nat
      BY Judged
    <3>3. Same(m, l, es)
      BY <1>5, <3>2, SameInside DEF DeltaInside
    <3> HIDE DEF m, l, es
    <3>4. PICK i \in About(J, f.body, l, es) : i.value = j.value /\ i.height < j.height
      BY <3>1, <3>3, DerivesIs
    <3>5. i.height \in Nat
      BY <3>4, Judged
    <3> QED
      BY <3>2, <3>4, <3>5
  <2> QED
    BY <2>1 DEF Into
<1> QED
  BY <1>2, <1>3, <1>4, <1>5

(***************************************************************************)
(* Keys                                                                    *)
(***************************************************************************)

KeyRecord(body, binds) == [kind |-> "intension", body |-> body, binds |-> binds]

LEMMA KeyRecordIs ==
  \A b, bs : KeyRecord(b, bs).body = b /\ KeyRecord(b, bs).binds = bs
BY DEF KeyRecord

\* Values of one plain key are the same
LEMMA PlainKeyIs ==
  ASSUME NEW V, Closures(V), NEW a, IsValue(V, a), NEW b, IsValue(V, b),
         Key(a) = Key(b), PlainKey(Key(a))
  PROVE  a = b
<1>1. ASSUME NEW c, IsValue(V, c)
      PROVE  \/ c.kind # "closure" /\ Key(c) = c /\ c.kind \in Constants
             \/ /\ c.kind = "closure" /\ c.by # "intension" /\ Key(c).kind = "function"
             \/ /\ c.kind = "closure" /\ c.by = "intension"
                /\ c = Closure("intension", <<>>, c.body, c.binds)
                /\ Key(c) = [kind |-> "intension", body |-> c.body,
                             binds |-> [d \in DOMAIN c.binds |-> Key(c.binds[d])]]
                /\ IsStep(c.binds) /\ \A d \in DOMAIN c.binds : IsValue(V, c.binds[d])
  <2>1. CASE c.kind \in Constants
    BY <2>1 DEF Key, Constants
  <2>2. CASE c \in V
    <3>1. PICK e : MadeBy(V, c, e)
      BY <2>2 DEF Closures
    <3>2. /\ c.kind = "closure" /\ c.by = e.by /\ c.params = e.params /\ c.body = e.body
          /\ e \in Expression /\ e.op = "abstraction"
      BY <3>1, MadeIs
    <3>3. /\ c = Closure(e.by, e.params, e.body, c.binds) /\ IsStep(c.binds)
          /\ \A d \in DOMAIN c.binds : IsValue(V, c.binds[d])
      <4>1. /\ c = Closure(e.by, e.params, e.body, [d \in DOMAIN c.binds |-> c.binds[d]])
            /\ \A d \in DOMAIN c.binds : IsValue(V, c.binds[d])
        BY <3>1 DEF MadeBy
      <4>2. c.binds = [d \in DOMAIN c.binds |-> c.binds[d]]
        BY <4>1 DEF Closure
      <4> QED
        BY <4>1, <4>2 DEF IsStep
    <3>4. CASE c.by # "intension"
      BY <3>2, <3>4 DEF Key
    <3>5. CASE c.by = "intension"
      <4>1. IsExpression(e)
        BY <3>2, WarehouseAssumption
      <4>2. e.params = <<>>
        BY <3>2, <3>5, <4>1 DEF IsExpression
      <4>3. c = Closure("intension", <<>>, c.body, c.binds)
        BY <3>2, <3>3, <3>5, <4>2
      <4>4. c.key = [kind |-> "intension", body |-> c.body,
                     binds |-> [d \in DOMAIN c.binds |-> Key(c.binds[d])]]
        BY <4>3 DEF Closure
      <4>5. Key(c) = c.key
        BY <3>2, <3>5 DEF Key
      <4> QED
        BY <3>2, <3>3, <3>5, <4>3, <4>4, <4>5
    <3> QED
      BY <3>4, <3>5
  <2> QED
    BY <1>1, <2>1, <2>2 DEF IsValue
<1>2. Key(a).kind # "function"
  BY DEF PlainKey, Constants
<1>3. CASE a.kind # "closure" \/ b.kind # "closure"
  <2>1. Key(a).kind \in Constants
    BY <1>1, <1>2, <1>3
  <2>2. "intension" \notin Constants
    BY DEF Constants
  <2> QED
    BY <1>1, <1>2, <2>1, <2>2
<1>4. CASE a.kind = "closure" /\ b.kind = "closure"
  <2>1. /\ a = Closure("intension", <<>>, a.body, a.binds)
        /\ b = Closure("intension", <<>>, b.body, b.binds)
        /\ a.body = b.body
        /\ [d \in DOMAIN a.binds |-> Key(a.binds[d])] = [d \in DOMAIN b.binds |-> Key(b.binds[d])]
        /\ IsStep(a.binds) /\ \A d \in DOMAIN a.binds : IsValue(V, a.binds[d])
        /\ IsStep(b.binds) /\ \A d \in DOMAIN b.binds : IsValue(V, b.binds[d])
    <3>1. Key(a) = [kind |-> "intension", body |-> a.body,
                    binds |-> [d \in DOMAIN a.binds |-> Key(a.binds[d])]]
      BY <1>1, <1>2, <1>4
    <3>2. Key(b) = [kind |-> "intension", body |-> b.body,
                    binds |-> [d \in DOMAIN b.binds |-> Key(b.binds[d])]]
      BY <1>1, <1>2, <1>4
    <3> DEFINE ak == [d \in DOMAIN a.binds |-> Key(a.binds[d])]
               bk == [d \in DOMAIN b.binds |-> Key(b.binds[d])]
    <3> HIDE DEF ak, bk
    <3>3. KeyRecord(a.body, ak) = KeyRecord(b.body, bk)
      BY <3>1, <3>2 DEF ak, bk, KeyRecord
    <3>4. a.body = b.body /\ ak = bk
      BY <3>3, KeyRecordIs
    <3> QED
      BY <1>1, <1>2, <1>4, <3>4 DEF ak, bk
  <2>2. DOMAIN a.binds = DOMAIN b.binds
    BY <2>1
  <2>3. \A d \in DOMAIN a.binds : Key(a.binds[d]).kind \in Constants
    <3>1. Key(a) = [kind |-> "intension", body |-> a.body,
                    binds |-> [d \in DOMAIN a.binds |-> Key(a.binds[d])]]
      BY <1>1, <1>2, <1>4
    <3>2. Key(a).kind = "intension"
          /\ \A d \in DOMAIN a.binds : Key(a).binds[d] = Key(a.binds[d])
          /\ DOMAIN Key(a).binds = DOMAIN a.binds
      BY <3>1
    <3> QED
      BY <3>2 DEF PlainKey, Constants
  <2>4. ASSUME NEW d \in DOMAIN a.binds
        PROVE  a.binds[d] = b.binds[d]
    <3>1. Key(a.binds[d]) = Key(b.binds[d])
      <4>1. [i \in DOMAIN a.binds |-> Key(a.binds[i])][d] = Key(a.binds[d])
        OBVIOUS
      <4>2. [i \in DOMAIN b.binds |-> Key(b.binds[i])][d] = Key(b.binds[d])
        BY <2>2
      <4> QED
        BY <2>1, <4>1, <4>2
    <3>2. IsValue(V, a.binds[d]) /\ IsValue(V, b.binds[d])
      BY <2>1, <2>2
    <3>3. Key(a.binds[d]) = a.binds[d]
      BY <1>1, <2>3, <3>2 DEF Constants
    <3>4. Key(b.binds[d]) = b.binds[d]
      BY <1>1, <2>3, <3>1, <3>2 DEF Constants
    <3> QED
      BY <3>1, <3>3, <3>4
  <2>5. a.binds = b.binds
    BY <2>1, <2>2, <2>4 DEF IsStep
  <2> QED
    BY <2>1, <2>5
<1> QED
  BY <1>3, <1>4

(***************************************************************************)
(* The paths of a cache, and the contexts that lead along them             *)
(***************************************************************************)
LEMMA PathDims ==
  ASSUME NEW c, IsCache(c), NEW V, Closures(V), CacheTyped(V, c), NEW p \in DOMAIN c
  PROVE  DimsOf(p) \subseteq Dims /\ Everything \notin DimsOf(p)
<1>1. IsPath(p) /\ Hangs(c, p)
  BY DEF IsCache
<1>2. DOMAIN p = 1..Len(p) /\ Len(p) \in Nat
  BY <1>1 DEF IsPath
<1>3. ASSUME NEW i \in DOMAIN p
      PROVE  DOMAIN p[i] \subseteq Dims
  <2> DEFINE q == Prefix(p, i - 1)
             content == c[q].content
  <2>1. i - 1 \in 0..(Len(p) - 1) /\ (i - 1) + 1 = i
    BY <1>2
  <2>2. q \in DOMAIN c /\ content.kind = "level" /\ content.dims = DOMAIN p[i]
    BY <1>1, <2>1 DEF Hangs
  <2>3. IsContent(V, content)
    BY <2>2 DEF CacheTyped
  <2> HIDE DEF content
  <2>4. ~IsValue(V, content) /\ content # Calc
    BY <2>2, KindOf, KindsAre DEF Constants
  <2> QED
    BY <2>2, <2>3, <2>4 DEF IsContent
<1>4. DimsOf(p) \subseteq Dims
  BY <1>3 DEF DimsOf
<1> QED
  BY <1>4, EverythingAssumption DEF Dims

LEMMA AgreesToo ==
  ASSUME NEW k, NEW l, NEW ds, Same(l, k, ds), NEW p, DimsOf(p) \subseteq Dims,
         Contains(ds, DimsOf(p)), Agrees(p, k)
  PROVE  Agrees(p, l)
<1>1. ASSUME NEW i \in DOMAIN p, NEW d \in DOMAIN p[i]
      PROVE  p[i][d] = Key(l[d])
  <2>1. d \in DimsOf(p)
    BY DEF DimsOf
  <2>2. l[d] = k[d]
    BY <2>1, SameAll
  <2> QED
    BY <2>2 DEF Agrees
<1> QED
  BY <1>1 DEF Agrees

PlainPath(p) == \A i \in DOMAIN p : \A d \in DOMAIN p[i] : PlainKey(p[i][d])

LEMMA AgreeSame ==
  ASSUME NEW V, Closures(V), NEW k, IsContext(V, k), NEW l, IsContext(V, l),
         NEW p, PlainPath(p), Everything \notin DimsOf(p), Agrees(p, k), Agrees(p, l)
  PROVE  Same(l, k, DimsOf(p))
<1>1. ASSUME NEW d \in Dims, Contains(DimsOf(p), {d})
      PROVE  l[d] = k[d]
  <2>1. PICK i \in DOMAIN p : d \in DOMAIN p[i]
    BY <1>1 DEF Contains, DimsOf
  <2>2. p[i][d] = Key(k[d]) /\ p[i][d] = Key(l[d]) /\ PlainKey(p[i][d])
    BY <2>1 DEF Agrees, PlainPath
  <2>3. IsValue(V, k[d]) /\ IsValue(V, l[d])
    BY DEF IsContext
  <2> QED
    BY <2>2, <2>3, PlainKeyIs
<1> QED
  BY <1>1 DEF Same

(***************************************************************************)
(* Frames and what they wait for                                           *)
(***************************************************************************)

\* What frame f evaluates; a call evaluates the equation of its variable
Goal(E, f) ==
  IF f.fn \in {"if", "at", "perturbed"} THEN f.of
  ELSE IF f.fn \in {"bang", "apply"} THEN f.of.expr
  ELSE E[f.of]

\* The part of it that frame f waits for
Part(E, f) ==
  IF f.fn = "if" THEN f.of.cond
  ELSE IF f.fn = "at" THEN f.of.to
  ELSE IF f.fn = "bang" THEN f.of.expr.args[Len(f.of.done) + 1]
  ELSE IF f.fn = "apply" THEN f.of.expr.of[Len(f.of.done) + 1]
  ELSE E[f.of]

\* The judgements that frame f asks for, k and ds being in force
Asks(E, J, f, k, ds) ==
  IF f.fn = "perturbed" THEN About(J, f.of, f.kappa, f.delta)
  ELSE About(J, Part(E, f), k, ds)

\* A call of the cache is a step further down the derivation
Deeper(f) == IF f.fn = "cache" THEN 1 ELSE 0

\* Whatever frame f asks for is judged of e, which is evaluated for it
Leads(E, J, f, k, ds, e, b) ==
  \A j \in Asks(E, J, f, k, ds) :
    \E i \in About(J, e, k, ds) :
      i.value = j.value /\ (f.fn = "link" \/ i.height + b <= j.height)

\* c is what frame f asks for
Fits(E, J, f, k, ds, c) ==
  c.kind # "demand" => \A j \in Asks(E, J, f, k, ds) : j.value = c

\* The operands that are there are right, and there is another
FrameRight(J, f) ==
  /\ f.fn = "bang" =>
       /\ Len(f.of.done) < Len(f.of.expr.args)
       /\ AllRight(J, f.of.expr.args, f.kappa, f.delta, f.of.done)
  /\ f.fn = "apply" =>
       /\ Len(f.of.done) < Len(f.of.expr.of)
       /\ AllRight(J, f.of.expr.of, f.kappa, f.delta, f.of.done)

Passes(E, J, f, g) == Leads(E, J, f, g.kappa, g.delta, Goal(E, g), Deeper(g))

FramesRight(E, J, s) ==
  /\ \A i \in 1..Len(s) : FrameRight(J, s[i])
  /\ \A i \in 1..(Len(s) - 1) : Passes(E, J, s[i], s[i + 1])

\* What the innermost call, of frame f, is doing
ControlRight(E, J, f, k, ds, ctl) ==
  /\ ctl.do = "eval" => Leads(E, J, f, k, ds, ctl.expr, 0)
  /\ ctl.do = "call" => Leads(E, J, f, k, ds, E[ctl.name], 1)
  /\ ctl.do = "return" => Fits(E, J, f, k, ds, ctl.value)

LEMMA FitsIs ==
  ASSUME NEW E, NEW J, NEW f, NEW k, NEW ds, NEW e, NEW b, Leads(E, J, f, k, ds, e, b),
         NEW c, Right(J, e, k, ds, c)
  PROVE  Fits(E, J, f, k, ds, c)
BY DEF Leads, Right, Fits

LEMMA LeadsOn ==
  ASSUME NEW E, NEW V, NEW J, Evaluations(E, V, J), NEW f, NEW k, NEW ds, NEW e,
         Leads(E, J, f, k, ds, e, 0), NEW g, NEW b \in {0, 1}, Onto(J, e, g, k, ds, b)
  PROVE  Leads(E, J, f, k, ds, g, b)
<1>1. ASSUME NEW j \in Asks(E, J, f, k, ds)
      PROVE  \E i \in About(J, g, k, ds) :
               i.value = j.value /\ (f.fn = "link" \/ i.height + b <= j.height)
  <2>1. PICK i \in About(J, e, k, ds) :
               i.value = j.value /\ (f.fn = "link" \/ i.height + 0 <= j.height)
    BY <1>1 DEF Leads
  <2>2. PICK h \in About(J, g, k, ds) : h.value = i.value /\ h.height + b <= i.height
    BY <2>1 DEF Onto
  <2>3. i.height \in Nat /\ h.height \in Nat /\ j.height \in Nat
    <3>1. j \in J
      BY DEF Asks, About
    <3> QED
      BY <2>1, <2>2, <3>1, Judged DEF Evaluations, Derivations, Judgement
  <2> QED
    BY <2>1, <2>2, <2>3
<1> QED
  BY <1>1 DEF Leads

\* A frame that begins to wait for a part of its own
LEMMA LeadsPart ==
  ASSUME NEW E, NEW V, NEW J, Evaluations(E, V, J), NEW f, f.fn # "perturbed", NEW k, NEW ds
  PROVE  Leads(E, J, f, k, ds, Part(E, f), 0)
         /\ (f.fn = "link" => Leads(E, J, f, k, ds, Part(E, f), 1))
<1>1. ASSUME NEW j \in Asks(E, J, f, k, ds)
      PROVE  j \in About(J, Part(E, f), k, ds) /\ j.height \in Nat /\ j.height + 0 <= j.height
  <2>1. j \in About(J, Part(E, f), k, ds)
    BY <1>1 DEF Asks
  <2> QED
    BY <2>1, Judged
<1> QED
  BY <1>1 DEF Leads

LEMMA RightPush ==
  ASSUME NEW E, NEW J, NEW s, IsSeq(s), FramesRight(E, J, s), NEW f, FrameRight(J, f),
         Len(s) # 0, Passes(E, J, s[Len(s)], f)
  PROVE  FramesRight(E, J, Append(s, f))
<1> DEFINE t == Append(s, f)
<1>1. /\ Len(t) = Len(s) + 1 /\ t[Len(s) + 1] = f /\ Len(s) \in Nat
      /\ \A i \in 1..Len(s) : t[i] = s[i]
  BY PushIs DEF IsSeq
<1> HIDE DEF t
<1>2. ASSUME NEW i \in 1..Len(t)
      PROVE  FrameRight(J, t[i])
  <2>1. CASE i = Len(s) + 1
    BY <1>1, <2>1
  <2>2. CASE i # Len(s) + 1
    <3>1. i \in 1..Len(s)
      BY <1>1, <2>2
    <3> QED
      BY <1>1, <3>1 DEF FramesRight
  <2> QED
    BY <2>1, <2>2
<1>3. ASSUME NEW i \in 1..(Len(t) - 1)
      PROVE  Passes(E, J, t[i], t[i + 1])
  <2>1. i \in 1..Len(s)
    BY <1>1
  <2>2. CASE i = Len(s)
    BY <1>1, <2>1, <2>2
  <2>3. CASE i # Len(s)
    <3>1. i \in 1..(Len(s) - 1) /\ i + 1 \in 1..Len(s)
      BY <1>1, <2>1, <2>3
    <3> QED
      BY <1>1, <2>1, <3>1 DEF FramesRight
  <2> QED
    BY <2>2, <2>3
<1> QED
  BY <1>2, <1>3 DEF FramesRight, t

LEMMA RightPop ==
  ASSUME NEW E, NEW J, NEW s, IsSeq(s), Len(s) # 0, FramesRight(E, J, s)
  PROVE  FramesRight(E, J, SubSeq(s, 1, Len(s) - 1))
<1> DEFINE t == SubSeq(s, 1, Len(s) - 1)
<1>1. /\ Len(t) = Len(s) - 1 /\ Len(s) \in Nat
      /\ \A i \in 1..(Len(s) - 1) : t[i] = s[i]
  BY PopIs DEF IsSeq
<1> HIDE DEF t
<1>2. ASSUME NEW i \in 1..Len(t)
      PROVE  FrameRight(J, t[i])
  <2>1. i \in 1..(Len(s) - 1) /\ i \in 1..Len(s)
    BY <1>1
  <2> QED
    BY <1>1, <2>1 DEF FramesRight
<1>3. ASSUME NEW i \in 1..(Len(t) - 1)
      PROVE  Passes(E, J, t[i], t[i + 1])
  <2>1. i \in 1..(Len(s) - 1) /\ i + 1 \in 1..(Len(s) - 1)
    BY <1>1
  <2> QED
    BY <1>1, <2>1 DEF FramesRight
<1> QED
  BY <1>2, <1>3 DEF FramesRight, t

\* The innermost frame makes way for another with the same goal
LEMMA RightTurn ==
  ASSUME NEW E, NEW J, NEW s, IsSeq(s), Len(s) # 0, FramesRight(E, J, s),
         NEW t, Len(t) = Len(s), \A i \in 1..(Len(s) - 1) : t[i] = s[i],
         FrameRight(J, t[Len(s)]),
         t[Len(s)].kappa = s[Len(s)].kappa, t[Len(s)].delta = s[Len(s)].delta,
         Goal(E, t[Len(s)]) = Goal(E, s[Len(s)]), Deeper(t[Len(s)]) = Deeper(s[Len(s)])
  PROVE  FramesRight(E, J, t)
<1>1. Len(s) \in Nat
  BY DEF IsSeq
<1>2. ASSUME NEW i \in 1..Len(t)
      PROVE  FrameRight(J, t[i])
  <2>1. CASE i = Len(s)
    BY <2>1
  <2>2. CASE i # Len(s)
    <3>1. i \in 1..(Len(s) - 1)
      BY <1>1, <2>2
    <3> QED
      BY <3>1 DEF FramesRight
  <2> QED
    BY <2>1, <2>2
<1>3. ASSUME NEW i \in 1..(Len(t) - 1)
      PROVE  Passes(E, J, t[i], t[i + 1])
  <2>1. i \in 1..(Len(s) - 1) /\ t[i] = s[i] /\ Passes(E, J, s[i], s[i + 1])
    BY DEF FramesRight
  <2>2. CASE i + 1 = Len(s)
    BY <2>1, <2>2 DEF Passes
  <2>3. CASE i + 1 # Len(s)
    <3>1. i + 1 \in 1..(Len(s) - 1)
      BY <1>1, <2>1, <2>3
    <3> QED
      BY <2>1, <3>1
  <2> QED
    BY <2>2, <2>3
<1> QED
  BY <1>2, <1>3 DEF FramesRight

\* A frame asks for a part of what it evaluates
LEMMA AsksOf ==
  ASSUME NEW E, NEW V, NEW J, Evaluations(E, V, J), NEW f, FrameTyped(V, f), FrameRight(J, f),
         f.fn \in Plain \cup {"cache", "perturbed"}, NEW k, NEW ds,
         f.fn # "perturbed" => k = f.kappa, f.fn \in Plain => ds = f.delta,
         f.fn = "cache" => ds \subseteq f.delta
  PROVE  \A j \in About(J, Goal(E, f), f.kappa, f.delta) :
           \E i \in Asks(E, J, f, k, ds) : i.height <= j.height
<1>1. \A j \in About(J, Goal(E, f), f.kappa, f.delta) : j.height \in Nat
  BY Judged
<1>2. CASE f.fn = "perturbed"
  <2>1. Asks(E, J, f, k, ds) = About(J, Goal(E, f), f.kappa, f.delta)
    BY <1>2 DEF Asks, Goal
  <2> QED
    BY <1>1, <2>1
<1>3. CASE f.fn = "cache"
  <2>1. Asks(E, J, f, k, ds) = About(J, Goal(E, f), f.kappa, ds)
    BY <1>3 DEF Asks, Goal, Part
  <2>2. \A j \in About(J, Goal(E, f), f.kappa, f.delta) : j \in About(J, Goal(E, f), f.kappa, ds)
    BY <1>3, SameIs DEF About
  <2> QED
    BY <1>1, <2>1, <2>2
<1>4. ASSUME Through(J, Goal(E, f), Part(E, f), f.kappa, f.delta), f.fn \in Plain
      PROVE  \A j \in About(J, Goal(E, f), f.kappa, f.delta) :
               \E i \in Asks(E, J, f, k, ds) : i.height <= j.height
  <2>1. Asks(E, J, f, k, ds) = About(J, Part(E, f), f.kappa, f.delta)
    BY <1>4 DEF Asks, Plain
  <2>2. ASSUME NEW j \in About(J, Goal(E, f), f.kappa, f.delta)
        PROVE  \E i \in Asks(E, J, f, k, ds) : i.height <= j.height
    <3>1. PICK i \in About(J, Part(E, f), f.kappa, f.delta) : i.height < j.height
      BY <1>4 DEF Through
    <3>2. i.height \in Nat /\ j.height \in Nat
      BY <1>1, <3>1, Judged
    <3> QED
      BY <2>1, <3>1, <3>2
  <2> QED
    BY <2>2
<1>5. CASE f.fn = "if"
  <2>1. f.of.op = "if" /\ Goal(E, f) = f.of /\ Part(E, f) = f.of.cond
    BY <1>5 DEF FrameTyped, Goal, Part
  <2>2. Through(J, f.of, f.of.cond, f.kappa, f.delta)
    BY <2>1, IfRight
  <2> QED
    BY <1>4, <1>5, <2>1, <2>2 DEF Plain
<1>6. CASE f.fn = "at"
  <2>1. /\ f.of \in Expression /\ f.of.op = "at" /\ IsContext(V, f.kappa)
        /\ Goal(E, f) = f.of /\ Part(E, f) = f.of.to
    BY <1>6 DEF FrameTyped, Goal, Part
  <2>2. Through(J, f.of, f.of.to, f.kappa, f.delta)
    BY <2>1, AtRight
  <2> QED
    BY <1>4, <1>6, <2>1, <2>2 DEF Plain
<1>7. CASE f.fn = "bang"
  <2> DEFINE n == Len(f.of.done) + 1
  <2>1. /\ f.of.expr.op = "bang" /\ Goal(E, f) = f.of.expr /\ Part(E, f) = f.of.expr.args[n]
    BY <1>7 DEF FrameTyped, Operands, Goal, Part
  <2>2. n \in 1..Len(f.of.expr.args)
    <3>1. IsSeq(f.of.done) /\ f.of.expr \in Expression /\ Len(f.of.done) < Len(f.of.expr.args)
      BY <1>7 DEF FrameTyped, Operands, FrameRight
    <3>2. Len(f.of.expr.args) \in Nat
      BY <2>1, <3>1, PartsOf
    <3> QED
      BY <3>1, <3>2 DEF IsSeq
  <2>3. Through(J, f.of.expr, f.of.expr.args[n], f.kappa, f.delta)
    BY <2>1, <2>2, BangRight
  <2> QED
    BY <1>4, <1>7, <2>1, <2>3 DEF Plain
<1>8. CASE f.fn = "apply"
  <2> DEFINE n == Len(f.of.done) + 1
  <2>1. /\ f.of.expr.op = "apply" /\ Goal(E, f) = f.of.expr /\ Part(E, f) = f.of.expr.of[n]
    BY <1>8 DEF FrameTyped, Operands, Goal, Part
  <2>2. n \in 1..Len(f.of.expr.of)
    <3>1. IsSeq(f.of.done) /\ f.of.expr \in Expression /\ Len(f.of.done) < Len(f.of.expr.of)
      BY <1>8 DEF FrameTyped, Operands, FrameRight
    <3>2. Len(f.of.expr.of) \in Nat
      BY <2>1, <3>1, PartsOf
    <3> QED
      BY <3>1, <3>2 DEF IsSeq
  <2>3. Through(J, f.of.expr, f.of.expr.of[n], f.kappa, f.delta)
    BY <2>1, <2>2, OperandsRight
  <2> QED
    BY <1>4, <1>8, <2>1, <2>3 DEF Plain
<1> QED
  BY <1>2, <1>3, <1>5, <1>6, <1>7, <1>8 DEF Plain

(***************************************************************************)
(* The calls above a call evaluate parts of its evaluation, and what they  *)
(* evaluate has a derivation no higher than that of the call               *)
(***************************************************************************)
Reaches(E, J, f, n) ==
  \E i \in About(J, Goal(E, f), f.kappa, f.delta) : i.height + Deeper(f) <= n

LEMMA ReachesNext ==
  ASSUME NEW E, NEW V, NEW J, Evaluations(E, V, J), NEW s, NEW k, NEW ds, NEW names,
         FramesOK(s, k, ds, names), Frames(V, s), FramesRight(E, J, s),
         NEW l \in 1..(Len(s) - 1), s[l].fn # "link", NEW n \in Nat, Reaches(E, J, s[l], n)
  PROVE  Reaches(E, J, s[l + 1], n)
<1> DEFINE f == s[l]
           g == s[l + 1]
<1>1. l \in 1..Len(s) /\ l # Len(s) /\ FrameOK(s, k, ds, names, l)
  BY DEF FramesOK, IsSeq
<1>2. KappaAfter(s, k, l) = g.kappa /\ DeltaAfter(s, ds, l) = g.delta
  BY <1>1 DEF KappaAfter, DeltaAfter
<1>3. FrameTyped(V, f) /\ FrameRight(J, f) /\ Passes(E, J, f, g)
  BY <1>1 DEF Frames, FramesRight
<1>4. /\ f.fn \in Plain \cup {"cache", "perturbed"}
      /\ f.fn # "perturbed" => g.kappa = f.kappa
      /\ f.fn \in Plain => g.delta = f.delta
      /\ f.fn = "cache" => g.delta \subseteq f.delta
  BY <1>1, <1>2 DEF FrameOK
<1> HIDE DEF f, g
<1>5. PICK j \in About(J, Goal(E, f), f.kappa, f.delta) : j.height + Deeper(f) <= n
  BY DEF Reaches, f
<1>6. PICK i \in Asks(E, J, f, g.kappa, g.delta) : i.height <= j.height
  BY <1>3, <1>4, AsksOf
<1>7. PICK h \in About(J, Goal(E, g), g.kappa, g.delta) :
        h.value = i.value /\ h.height + Deeper(g) <= i.height
  BY <1>3, <1>6 DEF Passes, Leads, f
<1>8. h.height \in Nat /\ j.height \in Nat
  BY <1>5, <1>7, Judged
<1>9. i.height \in Nat
  <2>1. i \in J
    BY <1>6 DEF Asks, About
  <2> QED
    BY <2>1 DEF Evaluations, Derivations, Judgement
<1>10. Deeper(f) \in Nat /\ Deeper(g) \in Nat
  BY DEF Deeper
<1>11. h.height + Deeper(g) <= n
  BY <1>5, <1>6, <1>7, <1>8, <1>9, <1>10
<1> QED
  BY <1>11 DEF Reaches, g

LEMMA ReachesAll ==
  ASSUME NEW E, NEW V, NEW J, Evaluations(E, V, J), NEW s, NEW k, NEW ds, NEW names,
         FramesOK(s, k, ds, names), Frames(V, s), FramesRight(E, J, s),
         NEW i \in 1..Len(s), s[i].fn = "cache",
         NEW j \in About(J, E[s[i].of], KappaAfter(s, k, i), DeltaAfter(s, ds, i))
  PROVE  \A l \in (i + 1)..Len(s) : Reaches(E, J, s[l], j.height)
<1> DEFINE S == {l \in (i + 1)..Len(s) : ~Reaches(E, J, s[l], j.height)}
<1>1. Len(s) \in Nat /\ i \in Nat /\ j.height \in Nat
  BY Judged DEF FramesOK, IsSeq
<1>2. ASSUME S # {}
      PROVE  FALSE
  <2>1. S \in SUBSET Nat
    BY <1>1
  <2>2. PICK m \in S : \A l \in S : m <= l
    BY <1>2, <2>1, LeastOfNat
  <2>3. m \in (i + 1)..Len(s) /\ ~Reaches(E, J, s[m], j.height)
    BY <2>2
  <2>4. CASE m = i + 1
    <3>1. i \in 1..(Len(s) - 1) /\ i # Len(s)
      BY <1>1, <2>3, <2>4
    <3>2. Passes(E, J, s[i], s[i + 1])
      BY <3>1 DEF FramesRight
    <3>3. j \in Asks(E, J, s[i], s[i + 1].kappa, s[i + 1].delta)
      BY <3>1 DEF Asks, Part, KappaAfter, DeltaAfter
    <3>4. Reaches(E, J, s[i + 1], j.height)
      BY <3>2, <3>3 DEF Passes, Leads, Reaches
    <3> QED
      BY <2>3, <2>4, <3>4
  <2>5. CASE m # i + 1
    <3> DEFINE l == m - 1
    <3>1. l \in (i + 1)..Len(s) /\ l \in 1..(Len(s) - 1) /\ l \in 1..Len(s) /\ l # 1 /\ m = l + 1
      BY <1>1, <2>3, <2>5
    <3>2. l \notin S
      BY <1>1, <2>2, <3>1
    <3> HIDE DEF l
    <3>3. Reaches(E, J, s[l], j.height)
      BY <3>1, <3>2
    <3>4. s[l].fn # "link"
      BY <3>1 DEF FramesOK, FrameOK
    <3>5. Reaches(E, J, s[l + 1], j.height)
      BY <1>1, <3>1, <3>3, <3>4, ReachesNext
    <3> QED
      BY <2>3, <3>1, <3>5
  <2> QED
    BY <2>4, <2>5
<1> QED
  BY <1>2

\* Down to what the innermost frame asks for
LEMMA AsksTop ==
  ASSUME NEW E, NEW V, NEW J, Evaluations(E, V, J), NEW s, NEW k, NEW ds, NEW names,
         FramesOK(s, k, ds, names), Frames(V, s), FramesRight(E, J, s),
         NEW i \in 1..Len(s), s[i].fn = "cache",
         NEW j \in About(J, E[s[i].of], KappaAfter(s, k, i), DeltaAfter(s, ds, i))
  PROVE  \E h \in Asks(E, J, s[Len(s)], k, ds) : h \in J
<1> DEFINE n == Len(s)
           f == s[n]
<1>1. n \in Nat /\ i \in Nat /\ n \in 1..n
  BY DEF FramesOK, IsSeq
<1>2. CASE i = n
  <2>1. j \in Asks(E, J, f, k, ds)
    BY <1>2 DEF Asks, Part, KappaAfter, DeltaAfter
  <2> QED
    BY <2>1 DEF About
<1>3. CASE i # n
  <2>1. n \in (i + 1)..n
    BY <1>1, <1>3
  <2>2. Reaches(E, J, f, j.height)
    BY <2>1, ReachesAll
  <2>3. FrameOK(s, k, ds, names, n) /\ FrameTyped(V, f) /\ FrameRight(J, f)
    BY <1>1 DEF FramesOK, Frames, FramesRight
  <2>4. KappaAfter(s, k, n) = k /\ DeltaAfter(s, ds, n) = ds
    BY DEF KappaAfter, DeltaAfter
  <2>5. n # 1
    <3>1. \A a, b \in Nat : a \in 1..b /\ a # b => b # 1
      OBVIOUS
    <3> HIDE DEF n
    <3>2. i \in 1..n
      BY DEF n
    <3> QED
      BY <1>1, <1>3, <3>1, <3>2
  <2>6. /\ f.fn \in Plain \cup {"cache", "perturbed"}
        /\ f.fn # "perturbed" => k = f.kappa
        /\ f.fn \in Plain => ds = f.delta
        /\ f.fn = "cache" => ds \subseteq f.delta
    BY <2>3, <2>4, <2>5 DEF FrameOK
  <2> HIDE DEF f
  <2>7. PICK h \in About(J, Goal(E, f), f.kappa, f.delta) : TRUE
    BY <2>2 DEF Reaches
  <2>8. \E g \in Asks(E, J, f, k, ds) : g.height <= h.height
    BY <2>3, <2>6, AsksOf
  <2>9. \A g \in Asks(E, J, f, k, ds) : g \in J
    BY DEF Asks, About
  <2> QED
    BY <2>8, <2>9 DEF f
<1> QED
  BY <1>2, <1>3

(***************************************************************************)
(* Work: a calc is the mark of a call that computes, whose delta is what   *)
(* leads to the mark; or it has been left behind where there is no value   *)
(***************************************************************************)
Dead(J, e, p) == \A j \in J : j.expr = e => ~Agrees(p, j.at)

Marked(s, k, ds, ctl, cs, x, p) ==
  \E i : Busy(s, ctl, i) /\ s[i].of = x /\ MarkedBy(s, k, ds, cs, i, p)

CalcsRight(E, J, s, k, ds, ctl, cs, names) ==
  \A x \in names : \A p \in CalcsOf(cs[x]) : Marked(s, k, ds, ctl, cs, x, p) \/ Dead(J, E[x], p)

MarksExact(s, k, ds, ctl, cs) ==
  \A i, m : Busy(s, ctl, i) /\ MarkedBy(s, k, ds, cs, i, m) => DeltaAfter(s, ds, i) \subseteq DimsOf(m)

WorkRight(E, J, s, k, ds, ctl, cs, names) ==
  CalcsRight(E, J, s, k, ds, ctl, cs, names) /\ MarksExact(s, k, ds, ctl, cs)

\* The same calls compute, in the same contexts
SameCall(s, k, ds, t, l, es, i) ==
  t[i].of = s[i].of /\ KappaAfter(t, l, i) = KappaAfter(s, k, i)
    /\ DeltaAfter(t, es, i) = DeltaAfter(s, ds, i)

SameWork(s, k, ds, ctl, t, l, es, then) ==
  \A i : /\ Busy(s, ctl, i) <=> Busy(t, then, i)
         /\ Busy(s, ctl, i) => SameCall(s, k, ds, t, l, es, i)

LEMMA WorkStays ==
  ASSUME NEW E, NEW J, NEW s, NEW k, NEW ds, NEW ctl, NEW cs, NEW names,
         FramesOK(s, k, ds, names), WorkRight(E, J, s, k, ds, ctl, cs, names),
         NEW t, NEW l, NEW es, NEW then, SameWork(s, k, ds, ctl, t, l, es, then),
         NEW news, \A x \in names : CalcsOf(news[x]) = CalcsOf(cs[x])
  PROVE  WorkRight(E, J, t, l, es, then, news, names)
<1>1. ASSUME NEW i, Busy(s, ctl, i) \/ Busy(t, then, i)
      PROVE  /\ Busy(s, ctl, i) /\ Busy(t, then, i) /\ t[i].of = s[i].of
             /\ DeltaAfter(t, es, i) = DeltaAfter(s, ds, i)
             /\ \A m : MarkedBy(t, l, es, news, i, m) <=> MarkedBy(s, k, ds, cs, i, m)
  <2>1. Busy(s, ctl, i) /\ Busy(t, then, i) /\ SameCall(s, k, ds, t, l, es, i)
    BY <1>1 DEF SameWork
  <2>2. s[i].of \in names
    BY <2>1 DEF Busy, FramesOK, FrameOK
  <2>3. /\ t[i].of = s[i].of /\ KappaAfter(t, l, i) = KappaAfter(s, k, i)
        /\ DeltaAfter(t, es, i) = DeltaAfter(s, ds, i)
    BY <2>1 DEF SameCall
  <2>4. CalcsOf(news[s[i].of]) = CalcsOf(cs[s[i].of])
    BY <2>2
  <2> QED
    BY <2>1, <2>3, <2>4 DEF MarkedBy, Computes
<1>2. ASSUME NEW x \in names, NEW p \in CalcsOf(news[x])
      PROVE  Marked(t, l, es, then, news, x, p) \/ Dead(J, E[x], p)
  <2>1. Marked(s, k, ds, ctl, cs, x, p) \/ Dead(J, E[x], p)
    BY DEF WorkRight, CalcsRight
  <2>2. ASSUME Marked(s, k, ds, ctl, cs, x, p)
        PROVE  Marked(t, l, es, then, news, x, p)
    BY <1>1, <2>2 DEF Marked
  <2> QED
    BY <2>1, <2>2
<1>3. ASSUME NEW i, NEW m, Busy(t, then, i), MarkedBy(t, l, es, news, i, m)
      PROVE  DeltaAfter(t, es, i) \subseteq DimsOf(m)
  BY <1>1, <1>3 DEF WorkRight, MarksExact
<1> QED
  BY <1>2, <1>3 DEF WorkRight, CalcsRight, MarksExact

LEMMA WorkPush ==
  ASSUME NEW s, IsSeq(s), NEW f, NEW k, NEW ds, f.kappa = k, f.delta = ds, NEW l, NEW es,
         NEW ctl, ~Inside(ctl), NEW then, f.fn = "cache" => Inside(then)
  PROVE  SameWork(s, k, ds, ctl, Append(s, f), l, es, then)
<1> DEFINE t == Append(s, f)
<1>1. /\ Len(t) = Len(s) + 1 /\ t[Len(s) + 1] = f /\ Len(s) \in Nat
      /\ \A i \in 1..Len(s) : t[i] = s[i]
  BY PushIs DEF IsSeq
<1> HIDE DEF t
<1>2. \A i : i \in 1..Len(t) <=> i \in 1..Len(s) \/ i = Len(t)
  BY <1>1
<1>3. \A i : Busy(s, ctl, i) <=> Busy(t, then, i)
  BY <1>1, <1>2 DEF Busy
<1>4. ASSUME NEW i \in 1..Len(s)
      PROVE  SameCall(s, k, ds, t, l, es, i)
  <2>1. i # Len(t) /\ t[i] = s[i]
    BY <1>1
  <2>2. CASE i = Len(s)
    BY <1>1, <2>1, <2>2 DEF SameCall, KappaAfter, DeltaAfter
  <2>3. CASE i # Len(s)
    <3>1. i + 1 \in 1..Len(s)
      BY <1>1, <2>3
    <3> QED
      BY <1>1, <2>1, <2>3, <3>1 DEF SameCall, KappaAfter, DeltaAfter
  <2> QED
    BY <2>2, <2>3
<1> QED
  BY <1>3, <1>4 DEF SameWork, Busy, t

LEMMA WorkPop ==
  ASSUME NEW s, IsSeq(s), Len(s) # 0, NEW k, NEW ds, NEW ctl, NEW then,
         s[Len(s)].fn # "cache" \/ Inside(ctl), ~Inside(then)
  PROVE  SameWork(s, k, ds, ctl, SubSeq(s, 1, Len(s) - 1), s[Len(s)].kappa, s[Len(s)].delta, then)
<1> DEFINE t == SubSeq(s, 1, Len(s) - 1)
           l == s[Len(s)].kappa
           es == s[Len(s)].delta
<1>1. /\ Len(t) = Len(s) - 1 /\ Len(s) \in Nat
      /\ \A i \in 1..(Len(s) - 1) : t[i] = s[i]
  BY PopIs DEF IsSeq
<1> HIDE DEF t
<1>2. \A i : i \in 1..Len(s) <=> i \in 1..Len(t) \/ i = Len(s)
  BY <1>1
<1>3. Len(s) \notin 1..Len(t)
  BY <1>1
<1>4. \A i : Busy(s, ctl, i) <=> Busy(t, then, i)
  BY <1>1, <1>2, <1>3 DEF Busy
<1>5. ASSUME NEW i \in 1..Len(t)
      PROVE  SameCall(s, k, ds, t, l, es, i)
  <2>1. i # Len(s) /\ t[i] = s[i]
    BY <1>1
  <2>2. CASE i = Len(t)
    <3>1. i + 1 = Len(s)
      BY <1>1, <2>2
    <3> QED
      BY <2>1, <2>2, <3>1 DEF SameCall, KappaAfter, DeltaAfter
  <2>3. CASE i # Len(t)
    <3>1. i + 1 \in 1..(Len(s) - 1)
      BY <1>1, <2>3
    <3>2. t[i + 1] = s[i + 1]
      BY <1>1, <3>1
    <3> QED
      BY <2>1, <2>3, <3>2 DEF SameCall, KappaAfter, DeltaAfter
  <2> QED
    BY <2>2, <2>3
<1> QED
  BY <1>4, <1>5 DEF SameWork, Busy, t

LEMMA WorkTurn ==
  ASSUME NEW s, IsSeq(s), Len(s) # 0, NEW t, Len(t) = Len(s), NEW ctl, NEW then,
         NEW k, NEW ds, NEW l, NEW es, s[Len(s)].fn # "cache", t[Len(s)].fn # "cache",
         t[Len(s)].kappa = s[Len(s)].kappa, t[Len(s)].delta = s[Len(s)].delta,
         \A i \in 1..(Len(s) - 1) : t[i] = s[i]
  PROVE  SameWork(s, k, ds, ctl, t, l, es, then)
<1>1. Len(s) \in Nat /\ \A i : i \in 1..Len(s) <=> i \in 1..(Len(s) - 1) \/ i = Len(s)
  BY DEF IsSeq
<1>2. Len(s) \notin 1..(Len(s) - 1)
  BY DEF IsSeq
<1>3. \A i : Busy(s, ctl, i) <=> Busy(t, then, i)
  BY <1>1, <1>2 DEF Busy
<1>4. ASSUME NEW i \in 1..(Len(s) - 1)
      PROVE  SameCall(s, k, ds, t, l, es, i)
  <2>1. i # Len(s) /\ t[i] = s[i]
    BY <1>2
  <2>2. t[i + 1].kappa = s[i + 1].kappa /\ t[i + 1].delta = s[i + 1].delta
    <3>1. i + 1 = Len(s) \/ i + 1 \in 1..(Len(s) - 1)
      BY <1>1
    <3> QED
      BY <3>1
  <2> QED
    BY <2>1, <2>2 DEF SameCall, KappaAfter, DeltaAfter
<1>5. \A i : Busy(s, ctl, i) => i \in 1..(Len(s) - 1)
  BY <1>1 DEF Busy
<1> QED
  BY <1>3, <1>4, <1>5 DEF SameWork

LEMMA WorkSame ==
  ASSUME NEW s, NEW k, NEW ds, NEW ctl, NEW then, Inside(ctl) <=> Inside(then),
         NEW l, NEW es, s = <<>> \/ (s[Len(s)].fn = "cache" /\ Inside(ctl)) \/ (l = k /\ es = ds)
  PROVE  SameWork(s, k, ds, ctl, s, l, es, then)
<1>1. \A i : Busy(s, ctl, i) <=> Busy(s, then, i)
  BY DEF Busy
<1>2. \A i : Busy(s, ctl, i) => SameCall(s, k, ds, s, l, es, i)
  BY DEF Busy, SameCall, KappaAfter, DeltaAfter
<1> QED
  BY <1>1, <1>2 DEF SameWork

(***************************************************************************)
(* What the caches and the calls say of the judgements of a program        *)
(***************************************************************************)
EntriesSay(J, E, cs, names) ==
  \A x \in names : \A p \in DOMAIN cs[x] :
    cs[x][p].content # Calc => EntrySays(J, E[x], p, cs[x][p].content)

\* In its loop CacheWS has found a level, and goes on with its dimensions
LooksRight(c, k, ds) ==
  \/ ds = {}
  \/ \E p \in DOMAIN c :
       /\ c[p].content.kind = "level" /\ Agrees(p, k)
       /\ ds = DimsOf(p) \cup c[p].content.dims

CallsRight(E, J) ==
  /\ FramesRight(E, J, stack)
  /\ Len(stack) # 0 => ControlRight(E, J, Top, kappa, delta, control)
  /\ WorkRight(E, J, stack, kappa, delta, control, caches, Name)
  /\ control.do = "get" => LooksRight(caches[Top.of], kappa, delta)

Sound(E, J) ==
  CallsRight(E, J) /\ EntriesSay(J, E, caches, Name) /\ AnsweredRight(J)

LEMMA LocalRight ==
  ASSUME Calls, NEW E, NEW J, Sound(E, J), Local, FramesRight(E, J, stack'),
         ControlRight(E, J, stack'[Len(stack')], kappa', delta', control'),
         SameWork(stack, kappa, delta, control, stack', kappa', delta', control'),
         control'.do = "get" => delta' = {}
  PROVE  Sound(E, J)'
<1>1. caches' = caches /\ Name' = Name /\ equations' = equations /\ result' = result
  BY NamesStay DEF Local
<1>2. WorkRight(E, J, stack', kappa', delta', control', caches', Name')
  <2>1. FramesOK(stack, kappa, delta, Name) /\ WorkRight(E, J, stack, kappa, delta, control, caches, Name)
    BY DEF Calls, CallsOK, Sound, CallsRight
  <2>2. WorkRight(E, J, stack', kappa', delta', control', caches, Name)
    BY <2>1, WorkStays
  <2> QED
    BY <1>1, <2>2
<1>3. (control.do = "get" => LooksRight(caches[Top.of], kappa, delta))'
  BY DEF LooksRight
<1>4. CallsRight(E, J)'
  BY <1>2, <1>3 DEF CallsRight, Top
<1>5. EntriesSay(J, E, caches, Name)'
  BY <1>1 DEF Sound
<1>6. AnsweredRight(J)'
  BY <1>1 DEF Sound, AnsweredRight, NoResult
<1> QED
  BY <1>4, <1>5, <1>6 DEF Sound

\* The call of the top frame goes on without calling
LEMMA StayRight ==
  ASSUME Calls, NEW E, NEW J, Sound(E, J), Local, control.do = "eval", Len(stack) # 0,
         stack' = stack, UNCHANGED <<kappa, delta>>, control'.do \in {"call", "return"},
         ControlRight(E, J, Top, kappa, delta, control')
  PROVE  Sound(E, J)'
<1>1. Inside(control) <=> Inside(control')
  BY DEF Inside
<1>2. SameWork(stack, kappa, delta, control, stack, kappa, delta, control')
  BY <1>1, WorkSame
<1>3. FramesRight(E, J, stack)
  BY DEF Sound, CallsRight
<1> QED
  BY <1>2, <1>3, LocalRight DEF Top

\* It calls: the frame of the call waits on top
LEMMA PushRight ==
  ASSUME Calls, NEW E, NEW J, Sound(E, J), Local, control.do \in {"eval", "call"},
         NEW f, stack' = Append(stack, f), f.kappa = kappa, f.delta = delta,
         kappa' = kappa, FrameRight(J, f),
         Leads(E, J, Top, kappa, delta, Goal(E, f), Deeper(f)),
         ControlRight(E, J, f, kappa, delta', control'),
         f.fn = "cache" => Inside(control'), control'.do = "get" => delta' = {}
  PROVE  Sound(E, J)'
<1>1. /\ IsSeq(stack) /\ Len(stack) # 0 /\ Top = stack[Len(stack)] /\ ~Inside(control)
      /\ FramesRight(E, J, stack)
  BY Active, TopOf DEF Sound, CallsRight
<1>2. Passes(E, J, stack[Len(stack)], f)
  BY <1>1 DEF Passes
<1>3. FramesRight(E, J, stack')
  BY <1>1, <1>2, RightPush
<1>4. SameWork(stack, kappa, delta, control, stack', kappa', delta', control')
  BY <1>1, WorkPush
<1>5. stack'[Len(stack')] = f
  BY <1>1, PushIs
<1> QED
  BY <1>3, <1>4, <1>5, LocalRight

\* It returns, or goes on in place of its caller
LEMMA PopRight ==
  ASSUME Calls, NEW E, NEW J, Sound(E, J), Local, Len(stack) # 0,
         Top.fn \notin {"cache", "link"}, stack' = Popped,
         kappa' = Top.kappa, delta' = Top.delta, control'.do \in {"eval", "return"},
         \A f : Leads(E, J, f, Top.kappa, Top.delta, Goal(E, Top), 0) =>
                  ControlRight(E, J, f, Top.kappa, Top.delta, control')
  PROVE  Sound(E, J)'
<1> DEFINE n == Len(stack)
           g == stack[n - 1]
<1>1. IsSeq(stack) /\ n \in Nat /\ Top = stack[n] /\ FramesRight(E, J, stack)
  BY TopOf DEF Sound, CallsRight
<1>2. n # 1
  BY <1>1 DEF Calls, CallsOK, FramesOK, FrameOK
<1>3. n - 1 \in 1..(n - 1) /\ (n - 1) + 1 = n
  <2>1. n # 0
    OBVIOUS
  <2> HIDE DEF n
  <2> QED
    BY <1>1, <1>2, <2>1
<1>4. Passes(E, J, g, Top)
  BY <1>1, <1>3 DEF FramesRight
<1>5. Leads(E, J, g, Top.kappa, Top.delta, Goal(E, Top), 0)
  BY <1>4 DEF Passes, Deeper
<1>6. FramesRight(E, J, stack')
  BY <1>1, RightPop DEF Popped
<1>7. SameWork(stack, kappa, delta, control, stack', kappa', delta', control')
  BY <1>1, WorkPop DEF Popped, Inside
<1>8. stack'[Len(stack')] = g
  <2>1. Len(stack') = n - 1 /\ stack'[n - 1] = stack[n - 1]
    BY <1>1, <1>3, PopIs DEF Popped
  <2> QED
    BY <2>1
<1>9. ControlRight(E, J, g, Top.kappa, Top.delta, control')
  BY <1>5
<1> HIDE DEF g
<1> QED
  BY <1>6, <1>7, <1>8, <1>9, LocalRight

\* Its frame makes way for another that has the same goal
LEMMA TurnRight ==
  ASSUME Calls, NEW E, NEW J, Sound(E, J), Local, Len(stack) # 0, Top.fn \in Plain,
         NEW f, f.fn \in Plain \cup {"perturbed"}, f.kappa = kappa, f.delta = delta,
         Len(stack') = Len(stack), stack'[Len(stack)] = f,
         \A i \in 1..(Len(stack) - 1) : stack'[i] = stack[i],
         FrameRight(J, f), Goal(E, f) = Goal(E, Top), control'.do = "eval",
         ControlRight(E, J, f, kappa', delta', control')
  PROVE  Sound(E, J)'
<1>1. /\ IsSeq(stack) /\ Top = stack[Len(stack)] /\ FramesRight(E, J, stack)
      /\ Top.kappa = kappa /\ Top.delta = delta
  BY TopOf DEF Sound, CallsRight, Plain
<1>2. Deeper(f) = Deeper(Top) /\ Top.fn # "cache" /\ f.fn # "cache"
  BY DEF Deeper, Plain
<1>3. FramesRight(E, J, stack')
  BY <1>1, <1>2, RightTurn
<1>4. SameWork(stack, kappa, delta, control, stack', kappa', delta', control')
  BY <1>1, <1>2, WorkTurn
<1> QED
  BY <1>3, <1>4, LocalRight

(***************************************************************************)
(* Steps that leave the caches alone                                       *)
(***************************************************************************)
\* An expression is answered at once
LEMMA YieldRight ==
  ASSUME Calls, NEW E, NEW J, Sound(E, J), Local, control.do = "eval", stack' = stack,
         NEW c, Yield(c), Right(J, control.expr, kappa, delta, c)
  PROVE  Sound(E, J)'
<1>1. Len(stack) # 0 /\ Leads(E, J, Top, kappa, delta, control.expr, 0)
  BY Active DEF Sound, CallsRight, ControlRight
<1>2. Fits(E, J, Top, kappa, delta, c)
  BY <1>1, FitsIs
<1>3. control' = Return(c) /\ UNCHANGED <<kappa, delta>>
  BY DEF Yield
<1>4. control'.do = "return" /\ control'.value = c
  BY <1>3 DEF Return
<1>5. ControlRight(E, J, Top, kappa, delta, control')
  BY <1>2, <1>4 DEF ControlRight
<1> QED
  BY <1>1, <1>3, <1>4, <1>5, StayRight

\* A part of the expression in progress is evaluated first
LEMMA PartRight ==
  ASSUME Calls, NEW E, NEW V, NEW J, Evaluations(E, V, J), Sound(E, J), Local,
         control.do = "eval", NEW fn \in Plain, NEW of, stack' = Push(Frame(fn, of)),
         UNCHANGED <<kappa, delta>>, FrameRight(J, Frame(fn, of)),
         Goal(E, Frame(fn, of)) = control.expr, control' = Eval(Part(E, Frame(fn, of)))
  PROVE  Sound(E, J)'
<1> DEFINE f == Frame(fn, of)
<1>1. Leads(E, J, Top, kappa, delta, control.expr, 0)
  BY Active DEF Sound, CallsRight, ControlRight
<1>2. f.fn = fn /\ f.kappa = kappa /\ f.delta = delta
  BY DEF Frame
<1>3. Goal(E, f) = control.expr /\ FrameRight(J, f) /\ control' = Eval(Part(E, f))
      /\ stack' = Append(stack, f)
  BY DEF Push
<1> HIDE DEF f
<1>4. f.fn \notin {"perturbed", "cache"} /\ Deeper(f) = 0
  BY <1>2 DEF Plain, Deeper
<1>5. Leads(E, J, f, kappa, delta, Part(E, f), 0)
  BY <1>4, LeadsPart
<1>6. control'.do = "eval" /\ control'.expr = Part(E, f)
  BY <1>3 DEF Eval
<1>7. ControlRight(E, J, f, kappa, delta', control')
  BY <1>5, <1>6 DEF ControlRight
<1>8. Leads(E, J, Top, kappa, delta, Goal(E, f), Deeper(f))
  BY <1>1, <1>3, <1>4
<1> QED
  BY <1>2, <1>3, <1>4, <1>6, <1>7, <1>8, PushRight

LEMMA EvalRight ==
  ASSUME Calls, NEW E, E = equations, NEW V, TypedNow(V), NEW J, Evaluations(E, V, J),
         Sound(E, J), TimeAsked,
         \/ EvalConst \/ EvalHash \/ EvalIdent \/ EvalIf \/ EvalBang \/ EvalAt
         \/ EvalAbstraction \/ EvalApply
  PROVE  Sound(E, J)'
<1> DEFINE e == control.expr
<1>1. ASSUME NEW op, Evaluating(op)
      PROVE  e \in Expression /\ e.op = op /\ control.do = "eval" /\ Len(stack) # 0
  BY <1>1, OpOf, Active
<1>2. CASE EvalConst
  <2>1. Evaluating("const") /\ Yield(e.value) /\ stack' = stack /\ Local
    BY <1>2 DEF EvalConst
  <2>2. Right(J, e, kappa, delta, e.value)
    BY <1>1, <2>1, ConstRight
  <2> QED
    BY <1>1, <2>1, <2>2, YieldRight
<1>3. CASE EvalHash
  <2> DEFINE c == IF Contains(delta, {e.dim}) THEN kappa[e.dim] ELSE Demand({e.dim})
  <2>1. Evaluating("hash") /\ Yield(c) /\ stack' = stack /\ Local
    BY <1>3 DEF EvalHash
  <2>2. Right(J, e, kappa, delta, Demand({e.dim}))
    BY DemandRight
  <2>3. Contains(delta, {e.dim}) => Right(J, e, kappa, delta, kappa[e.dim])
    BY <1>1, <2>1, HashRight
  <2>4. Right(J, e, kappa, delta, c)
    BY <2>2, <2>3
  <2> HIDE DEF c
  <2> QED
    BY <1>1, <2>1, <2>4, YieldRight
<1>4. CASE EvalIdent
  <2>1. Evaluating("ident") /\ stack' = stack /\ Local /\ UNCHANGED <<kappa, delta>>
    BY <1>4 DEF EvalIdent
  <2>2. e.op = "ident" /\ control.do = "eval" /\ Len(stack) # 0
    BY <1>1, <2>1
  <2>3. CASE e.name \in Name
    <3>1. control' = Call(e.name)
      BY <1>4, <2>3 DEF EvalIdent
    <3>2. Leads(E, J, Top, kappa, delta, e, 0)
      BY <2>2 DEF Sound, CallsRight, ControlRight
    <3>3. Onto(J, e, E[e.name], kappa, delta, 1)
      BY <2>2, <2>3, IdentRight DEF Name
    <3>4. Leads(E, J, Top, kappa, delta, E[e.name], 1)
      BY <3>2, <3>3, LeadsOn
    <3>5. control'.do = "call" /\ control'.name = e.name
      BY <3>1 DEF Call
    <3>6. ControlRight(E, J, Top, kappa, delta, control')
      BY <3>4, <3>5 DEF ControlRight
    <3> QED
      BY <2>1, <2>2, <3>5, <3>6, StayRight
  <2>4. CASE e.name \notin Name
    <3>1. Yield(Special("spundef"))
      BY <1>4, <2>4 DEF EvalIdent, Yield
    <3>2. Right(J, e, kappa, delta, Special("spundef"))
      BY <2>2, <2>4, IdentRight DEF Name
    <3> QED
      BY <2>1, <2>2, <3>1, <3>2, YieldRight
  <2> QED
    BY <2>3, <2>4
<1>5. CASE EvalIf
  <2> DEFINE f == Frame("if", e)
  <2>1. /\ Evaluating("if") /\ stack' = Push(f) /\ Local /\ UNCHANGED <<kappa, delta>>
        /\ control' = Eval(e.cond)
    BY <1>5 DEF EvalIf
  <2>2. f.fn = "if" /\ f.of = e
    BY DEF Frame
  <2>3. Goal(E, f) = e /\ Part(E, f) = e.cond /\ FrameRight(J, f)
    <3> HIDE DEF f
    <3> QED
      BY <2>2 DEF Goal, Part, FrameRight
  <2> QED
    BY <1>1, <2>1, <2>3, PartRight DEF Plain
<1>6. CASE EvalAt
  <2> DEFINE f == Frame("at", e)
  <2>1. /\ Evaluating("at") /\ stack' = Push(f) /\ Local /\ UNCHANGED <<kappa, delta>>
        /\ control' = Eval(e.to)
    BY <1>6 DEF EvalAt
  <2>2. f.fn = "at" /\ f.of = e
    BY DEF Frame
  <2>3. Goal(E, f) = e /\ Part(E, f) = e.to /\ FrameRight(J, f)
    <3> HIDE DEF f
    <3> QED
      BY <2>2 DEF Goal, Part, FrameRight
  <2> QED
    BY <1>1, <2>1, <2>3, PartRight DEF Plain
<1>7. ASSUME NEW fn \in {"bang", "apply"}, NEW es, NEW f,
             f = Frame(fn, [expr |-> e, done |-> <<>>]), Evaluating(fn), Local,
             stack' = Push(f), UNCHANGED <<kappa, delta>>, control' = Eval(es[1]),
             es = IF fn = "bang" THEN e.args ELSE e.of
      PROVE  Sound(E, J)'
  <2>1. f.fn = fn /\ f.of.expr = e /\ f.of.done = <<>>
    BY <1>7 DEF Frame
  <2>2. Goal(E, f) = e
    BY <2>1 DEF Goal
  <2>3. Part(E, f) = es[1]
    BY <1>7, <2>1, NoneDone DEF Part
  <2>4. Len(es) > 0
    <3>1. es \in Seq(Expression) /\ es # <<>>
      BY <1>1, <1>7, PartsOf
    <3> QED
      BY <3>1
  <2>5. FrameRight(J, f)
    BY <1>7, <2>1, <2>4, NoneDone DEF FrameRight, AllRight
  <2> QED
    BY <1>1, <1>7, <2>2, <2>3, <2>5, PartRight DEF Plain
<1>8. CASE EvalBang
  <2>1. /\ Evaluating("bang") /\ stack' = Push(Frame("bang", [expr |-> e, done |-> <<>>]))
        /\ Local /\ UNCHANGED <<kappa, delta>> /\ control' = Eval(e.args[1])
    BY <1>8 DEF EvalBang
  <2> QED
    BY <1>7, <2>1
<1>9. CASE EvalApply
  <2>1. /\ Evaluating("apply") /\ stack' = Push(Frame("apply", [expr |-> e, done |-> <<>>]))
        /\ Local /\ UNCHANGED <<kappa, delta>> /\ control' = Eval(e.of[1])
    BY <1>9 DEF EvalApply
  <2> QED
    BY <1>7, <2>1
<1>10. CASE EvalAbstraction
  <2> DEFINE missing == Lacks(delta, e.binds \cup e.scope)
  <2>1. /\ Evaluating("abstraction") /\ stack' = stack /\ Local
        /\ \/ missing # {} /\ Yield(Demand(missing))
           \/ missing = {} /\ Yield(Bound(e, kappa))
    BY <1>10 DEF EvalAbstraction
  <2>2. Right(J, e, kappa, delta, Demand(missing))
    BY DemandRight
  <2>3. missing = {} => Right(J, e, kappa, delta, Bound(e, kappa))
    <3>1. ASSUME missing = {}, e.by = "base"
          PROVE  Contains(delta, {TimeDim})
      BY <2>1, <3>1 DEF TimeAsked
    <3> QED
      BY <1>1, <2>1, <3>1, AbstractionRight
  <2> HIDE DEF missing
  <2> QED
    BY <1>1, <2>1, <2>2, <2>3, YieldRight
<1> QED
  BY <1>2, <1>3, <1>4, <1>5, <1>6, <1>8, <1>9, <1>10

\* What returns to the top frame is right for the part it waits for
LEMMA ReturnedIs ==
  ASSUME Calls, NEW E, NEW V, TypedNow(V), NEW J, Sound(E, J), NEW fn \in Plain, ReturningTo(fn)
  PROVE  /\ Len(stack) # 0 /\ Top = stack[Len(stack)] /\ Top.fn = fn /\ IsFrame(Top)
         /\ IsSeq(stack) /\ Top.kappa = kappa /\ Top.delta = delta
         /\ Right(J, Part(E, Top), kappa, delta, control.value)
         /\ FrameTyped(V, Top) /\ FrameRight(J, Top) /\ IsAnswer(V, control.value)
         /\ Closures(V) /\ IsContext(V, kappa) /\ IsDelta(delta)
<1>1. control.do = "return" /\ Top.fn = fn /\ Len(stack) # 0
  BY Active DEF ReturningTo
<1>2. /\ Top = stack[Len(stack)] /\ IsFrame(Top) /\ IsSeq(stack) /\ Len(stack) \in Nat
      /\ Top.kappa = kappa /\ Top.delta = delta
  BY <1>1, TopOf DEF Plain
<1>3. Fits(E, J, Top, kappa, delta, control.value)
  BY <1>1 DEF Sound, CallsRight, ControlRight
<1>4. Asks(E, J, Top, kappa, delta) = About(J, Part(E, Top), kappa, delta)
  BY <1>1 DEF Asks, Plain
<1>5. Right(J, Part(E, Top), kappa, delta, control.value)
  BY <1>3, <1>4 DEF Fits, Right
<1>6. FrameRight(J, Top)
  <2>1. Len(stack) \in 1..Len(stack)
    BY <1>1, <1>2
  <2> QED
    BY <1>2, <2>1 DEF Sound, CallsRight, FramesRight
<1>7. IsAnswer(V, control.value)
  BY <1>1, TopTyped DEF ControlTyped
<1> QED
  BY <1>1, <1>2, <1>5, <1>6, <1>7, TopTyped

\* The top frame answers with the value of what it evaluates
LEMMA ReplyRight ==
  ASSUME Calls, NEW E, NEW V, TypedNow(V), NEW J, Sound(E, J), Local,
         NEW fn \in Plain, ReturningTo(fn), stack' = Popped,
         NEW c, Yield(c), Right(J, Goal(E, Top), kappa, delta, c)
  PROVE  Sound(E, J)'
<1>1. /\ Len(stack) # 0 /\ Top.fn \notin {"cache", "link"}
      /\ Top.kappa = kappa /\ Top.delta = delta
  BY ReturnedIs DEF Plain
<1>2. control' = Return(c) /\ kappa' = Top.kappa /\ delta' = Top.delta
  BY <1>1 DEF Yield
<1>3. control'.do = "return" /\ control'.value = c
  BY <1>2 DEF Return
<1>4. ASSUME NEW f, Leads(E, J, f, Top.kappa, Top.delta, Goal(E, Top), 0)
      PROVE  ControlRight(E, J, f, Top.kappa, Top.delta, control')
  <2>1. Fits(E, J, f, Top.kappa, Top.delta, c)
    BY <1>1, <1>4, FitsIs
  <2> QED
    BY <1>3, <2>1 DEF ControlRight
<1> QED
  BY <1>1, <1>2, <1>3, <1>4, PopRight

\* What it evaluates goes on in its place
LEMMA RestRight ==
  ASSUME Calls, NEW E, NEW V, TypedNow(V), NEW J, Evaluations(E, V, J), Sound(E, J), Local,
         NEW fn \in Plain, ReturningTo(fn), stack' = Popped, UNCHANGED <<kappa, delta>>,
         NEW e, control' = Eval(e), Onto(J, Goal(E, Top), e, kappa, delta, 0)
  PROVE  Sound(E, J)'
<1>1. /\ Len(stack) # 0 /\ Top.fn \notin {"cache", "link"}
      /\ Top.kappa = kappa /\ Top.delta = delta
  BY ReturnedIs DEF Plain
<1>2. control'.do = "eval" /\ control'.expr = e
  BY DEF Eval
<1>3. ASSUME NEW f, Leads(E, J, f, Top.kappa, Top.delta, Goal(E, Top), 0)
      PROVE  ControlRight(E, J, f, Top.kappa, Top.delta, control')
  <2>1. Leads(E, J, f, kappa, delta, e, 0)
    BY <1>1, <1>3, LeadsOn
  <2> QED
    BY <1>1, <1>2, <2>1 DEF ControlRight
<1> QED
  BY <1>1, <1>2, <1>3, PopRight

\* Its body is evaluated in another context, and its frame waits for that
LEMMA BodyRight ==
  ASSUME Calls, NEW E, NEW V, TypedNow(V), NEW J, Evaluations(E, V, J), Sound(E, J), Local,
         NEW fn \in Plain, ReturningTo(fn),
         NEW e, Goal(E, Top) = e, stack' = Append(Popped, Frame("perturbed", e)),
         NEW b, control' = Eval(b), Into(J, e, kappa, delta, b, kappa', delta')
  PROVE  Sound(E, J)'
<1> DEFINE f == Frame("perturbed", e)
<1>1. Len(stack) # 0 /\ IsSeq(stack) /\ Top.fn \in Plain
  BY ReturnedIs
<1>2. f.fn = "perturbed" /\ f.of = e /\ f.kappa = kappa /\ f.delta = delta
  BY DEF Frame
<1>3. /\ Len(stack') = Len(stack) /\ stack'[Len(stack)] = f
      /\ \A i \in 1..(Len(stack) - 1) : stack'[i] = stack[i]
  BY <1>1, ReplaceIs DEF Popped
<1> HIDE DEF f
<1>4. FrameRight(J, f) /\ Goal(E, f) = e
  BY <1>2 DEF FrameRight, Goal
<1>5. control'.do = "eval" /\ control'.expr = b
  BY DEF Eval
<1>6. Leads(E, J, f, kappa', delta', b, 0)
  <2>1. Asks(E, J, f, kappa', delta') = About(J, e, kappa, delta)
    BY <1>2 DEF Asks
  <2>2. ASSUME NEW j \in About(J, e, kappa, delta)
        PROVE  \E i \in About(J, b, kappa', delta') :
                 i.value = j.value /\ (f.fn = "link" \/ i.height + 0 <= j.height)
    <3>1. PICK i \in About(J, b, kappa', delta') : i.value = j.value /\ i.height <= j.height
      BY DEF Into
    <3>2. i.height \in Nat
      BY <3>1 DEF About, Evaluations, Derivations, Judgement
    <3>3. i.height + 0 <= j.height
      BY <3>1, <3>2
    <3> QED
      BY <3>1, <3>3
  <2> QED
    BY <2>1, <2>2 DEF Leads
<1>7. ControlRight(E, J, f, kappa', delta', control')
  BY <1>5, <1>6 DEF ControlRight
<1> QED
  BY <1>1, <1>2, <1>3, <1>4, <1>5, <1>7, TurnRight

\* The next operand is evaluated
LEMMA NextRight ==
  ASSUME Calls, NEW E, NEW V, TypedNow(V), NEW J, Evaluations(E, V, J), Sound(E, J), Local,
         NEW fn \in {"bang", "apply"}, ReturningTo(fn), UNCHANGED <<kappa, delta>>,
         NEW es, es = IF fn = "bang" THEN Top.of.expr.args ELSE Top.of.expr.of,
         NEW done, done = Append(Top.of.done, control.value), Len(done) < Len(es),
         AllRight(J, es, kappa, delta, done),
         stack' = [stack EXCEPT ![Len(stack)].of.done = done],
         control' = Eval(es[Len(done) + 1])
  PROVE  Sound(E, J)'
<1>1. /\ Len(stack) # 0 /\ IsSeq(stack) /\ Top.fn = fn /\ Top.fn \in Plain /\ IsFrame(Top)
      /\ Top = stack[Len(stack)] /\ FrameTyped(V, Top)
      /\ Top.kappa = kappa /\ Top.delta = delta
  BY ReturnedIs DEF Plain
<1>2. Top.of = [expr |-> Top.of.expr, done |-> Top.of.done]
  BY <1>1 DEF FrameTyped, Operands
<1>3. GoesOn(stack, Top, done)
  BY <1>1, <1>2, ContinuedIs
<1>4. PICK f : f = WithDone(Top, done)
  OBVIOUS
<1>5. /\ f.fn = fn /\ f.kappa = kappa /\ f.delta = delta
      /\ f.of.expr = Top.of.expr /\ f.of.done = done
  BY <1>1, <1>4 DEF WithDone
<1>6. /\ Len(stack') = Len(stack) /\ stack'[Len(stack)] = f
      /\ \A i \in 1..(Len(stack) - 1) : stack'[i] = stack[i]
  BY <1>3, <1>4 DEF GoesOn
<1>7. FrameRight(J, f)
  BY <1>5 DEF FrameRight
<1>8. Goal(E, f) = Goal(E, Top) /\ Part(E, f) = es[Len(done) + 1]
  BY <1>1, <1>5 DEF Goal, Part
<1>9. Leads(E, J, f, kappa, delta, Part(E, f), 0)
  BY <1>5, LeadsPart
<1>10. control'.do = "eval" /\ control'.expr = Part(E, f)
  BY <1>8 DEF Eval
<1>11. ControlRight(E, J, f, kappa', delta', control')
  BY <1>9, <1>10 DEF ControlRight
<1>12. f.fn \in Plain \cup {"perturbed"}
  BY <1>5 DEF Plain
<1> QED
  BY <1>1, <1>5, <1>6, <1>7, <1>8, <1>10, <1>11, <1>12, TurnRight

\* With the operand that returns, all that are there are right
LEMMA DoneRight ==
  ASSUME Calls, NEW E, NEW V, TypedNow(V), NEW J, Sound(E, J),
         NEW fn \in {"bang", "apply"}, ReturningTo(fn),
         NEW es, es = IF fn = "bang" THEN Top.of.expr.args ELSE Top.of.expr.of,
         NEW done, done = Append(Top.of.done, control.value)
  PROVE  /\ IsSeq(done) /\ \A i \in 1..Len(done) : IsAnswer(V, done[i])
         /\ AllRight(J, es, kappa, delta, done)
         /\ Len(es) \in Nat => Len(done) < Len(es) \/ Len(done) = Len(es)
         /\ Top.of.expr \in Expression /\ Top.of.expr.op = fn /\ Goal(E, Top) = Top.of.expr
<1>1. /\ Top.fn = fn /\ Top.kappa = kappa /\ Top.delta = delta
      /\ Right(J, Part(E, Top), kappa, delta, control.value)
      /\ FrameTyped(V, Top) /\ FrameRight(J, Top) /\ IsAnswer(V, control.value)
  BY ReturnedIs DEF Plain
<1>2. Operands(V, Top.of, fn) /\ IsSeq(Top.of.done)
  BY <1>1 DEF FrameTyped, Operands
<1>3. PICK n \in Nat : n = Len(Top.of.done)
  BY <1>2 DEF IsSeq
<1>4. /\ IsSeq(done) /\ Len(done) = n + 1 /\ done[n + 1] = control.value
      /\ \A i \in 1..n : done[i] = Top.of.done[i]
  BY <1>2, <1>3, PushIs
<1>5. n < Len(es) /\ \A i \in 1..n : Right(J, es[i], kappa, delta, Top.of.done[i])
  BY <1>1, <1>3 DEF FrameRight, AllRight
<1>6. Right(J, es[n + 1], kappa, delta, control.value)
  BY <1>1, <1>3 DEF Part
<1>7. ASSUME NEW i \in 1..Len(done)
      PROVE  Right(J, es[i], kappa, delta, done[i])
  <2>1. i \in 1..n \/ i = n + 1
    BY <1>4
  <2> QED
    BY <1>4, <1>5, <1>6, <2>1
<1>8. Len(es) \in Nat => Len(done) < Len(es) \/ Len(done) = Len(es)
  BY <1>4, <1>5
<1>9. Goal(E, Top) = Top.of.expr
  BY <1>1 DEF Goal
<1> QED
  BY <1>1, <1>2, <1>4, <1>7, <1>8, <1>9, OperandsGrow DEF AllRight

LEMMA ReturnRight ==
  ASSUME Calls, NEW E, E = equations, NEW V, TypedNow(V), NEW J, Evaluations(E, V, J),
         Sound(E, J), TimeAsked,
         ReturnIf \/ ReturnBang \/ ReturnAt \/ ReturnPerturbed
  PROVE  Sound(E, J)'
<1> DEFINE c == control.value
           n == Len(stack)
<1>1. CASE ReturnIf
  <2> DEFINE e == Top.of
  <2>1. ReturningTo("if") /\ stack' = Popped /\ UNCHANGED <<kappa, delta>> /\ Local
    BY <1>1 DEF ReturnIf
  <2>2. /\ Top.fn = "if" /\ FrameTyped(V, Top)
        /\ Right(J, Part(E, Top), kappa, delta, c)
    BY <2>1, ReturnedIs DEF Plain
  <2>3. e.op = "if" /\ Goal(E, Top) = e /\ Part(E, Top) = e.cond
    BY <2>2 DEF FrameTyped, Goal, Part
  <2>4. Right(J, e.cond, kappa, delta, c)
    BY <2>2, <2>3
  <2>5. CASE c.kind \in {"demand", "special"}
    <3>1. Yield(c)
      BY <1>1, <2>1, <2>5 DEF ReturnIf, Yield
    <3>2. Right(J, e, kappa, delta, c)
      <4>1. c.kind = "special" => Right(J, e, kappa, delta, c)
        BY <2>3, <2>4, IfRight
      <4> QED
        BY <2>5, <4>1 DEF Right
    <3> QED
      BY <2>1, <2>3, <3>1, <3>2, ReplyRight DEF Plain
  <2>6. CASE c.kind \notin {"demand", "special", "bool"}
    <3>1. Yield(Special("sptype"))
      BY <1>1, <2>1, <2>6 DEF ReturnIf, Yield
    <3>2. Right(J, e, kappa, delta, Special("sptype"))
      BY <2>3, <2>4, <2>6, IfRight
    <3> QED
      BY <2>1, <2>3, <3>1, <3>2, ReplyRight DEF Plain
  <2>7. CASE c.kind = "bool"
    <3> DEFINE b == IF c.holds THEN e.then ELSE e.else
    <3>1. control' = Eval(b)
      BY <1>1, <2>7 DEF ReturnIf
    <3>2. Onto(J, e, b, kappa, delta, 0)
      BY <2>3, <2>4, <2>7, IfRight
    <3> HIDE DEF b
    <3> QED
      BY <2>1, <2>3, <3>1, <3>2, RestRight DEF Plain
  <2> QED
    BY <2>5, <2>6, <2>7
<1>2. CASE ReturnBang
  <2> DEFINE e == Top.of.expr
             done == Append(Top.of.done, c)
  <2>1. ReturningTo("bang") /\ UNCHANGED <<kappa, delta>> /\ Local
    BY <1>2 DEF ReturnBang
  <2>2. /\ IsSeq(done) /\ AllRight(J, e.args, kappa, delta, done)
        /\ Len(e.args) \in Nat => Len(done) < Len(e.args) \/ Len(done) = Len(e.args)
        /\ e \in Expression /\ e.op = "bang" /\ Goal(E, Top) = e
    BY <2>1, DoneRight
  <2>3. Len(e.args) \in Nat
    <3>1. e.args \in Seq(Expression)
      BY <2>2, PartsOf
    <3> QED
      BY <3>1
  <2>4. CASE Len(done) < Len(e.args)
    <3>1. /\ stack' = [stack EXCEPT ![n].of.done = done]
          /\ control' = Eval(e.args[Len(done) + 1])
      BY <1>2, <2>4 DEF ReturnBang
    <3> QED
      BY <2>1, <2>2, <2>4, <3>1, NextRight
  <2>5. CASE ~(Len(done) < Len(e.args))
    <3>1. stack' = Popped /\ Yield(Combine(e.fn, done))
      BY <1>2, <2>1, <2>5 DEF ReturnBang, Yield
    <3> HIDE DEF done
    <3>2. Right(J, e, kappa, delta, Combine(e.fn, done))
      BY <2>2, <2>3, <2>5, BangRight
    <3> QED
      BY <2>1, <2>2, <3>1, <3>2, ReplyRight DEF Plain
  <2> QED
    BY <2>4, <2>5
<1>3. CASE ReturnAt
  <2> DEFINE e == Top.of
  <2>1. ReturningTo("at") /\ Local
    BY <1>3 DEF ReturnAt
  <2>2. /\ Top.fn = "at" /\ FrameTyped(V, Top) /\ IsContext(V, kappa)
        /\ Right(J, Part(E, Top), kappa, delta, c)
    BY <2>1, ReturnedIs DEF Plain
  <2>3. e \in Expression /\ e.op = "at" /\ Goal(E, Top) = e /\ Part(E, Top) = e.to
    BY <2>2 DEF FrameTyped, Goal, Part
  <2>4. Right(J, e.to, kappa, delta, c)
    BY <2>2, <2>3
  <2>5. CASE c.kind \in {"demand", "special"}
    <3>1. Yield(c) /\ stack' = Popped
      BY <1>3, <2>5 DEF ReturnAt
    <3>2. Right(J, e, kappa, delta, c)
      <4>1. c.kind = "special" => Right(J, e, kappa, delta, c)
        BY <2>2, <2>3, <2>4, AtRight
      <4> QED
        BY <2>5, <4>1 DEF Right
    <3> QED
      BY <2>1, <2>3, <3>1, <3>2, ReplyRight DEF Plain
  <2>6. CASE c.kind \notin {"demand", "special"}
    <3>1. e.dim = TimeDim => Contains(delta, {TimeDim})
      BY <2>1, <2>6 DEF TimeAsked
    <3>2. IF e.dim = TimeDim /\ c.v > kappa[TimeDim].v
          THEN Right(J, e, kappa, delta, Special("spaccess"))
          ELSE Into(J, e, kappa, delta, e.body, [kappa EXCEPT ![e.dim] = c], delta \cup {e.dim})
      BY <2>2, <2>3, <2>4, <2>6, <3>1, AtRight
    <3>3. CASE e.dim = TimeDim /\ c.v > kappa[TimeDim].v
      <4>1. Yield(Special("spaccess")) /\ stack' = Popped
        BY <1>3, <2>6, <3>3 DEF ReturnAt
      <4> QED
        BY <2>1, <2>3, <3>2, <3>3, <4>1, ReplyRight DEF Plain
    <3>4. CASE ~(e.dim = TimeDim /\ c.v > kappa[TimeDim].v)
      <4>1. /\ stack' = Append(Popped, Frame("perturbed", e))
            /\ kappa' = [kappa EXCEPT ![e.dim] = c] /\ delta' = delta \cup {e.dim}
            /\ control' = Eval(e.body)
        BY <1>3, <2>6, <3>4 DEF ReturnAt
      <4>2. Into(J, e, kappa, delta, e.body, kappa', delta')
        BY <3>2, <3>4, <4>1
      <4> QED
        BY <2>1, <2>3, <4>1, <4>2, BodyRight DEF Plain
    <3> QED
      BY <3>3, <3>4
  <2> QED
    BY <2>5, <2>6
<1>4. CASE ReturnPerturbed
  <2>1. /\ ReturningTo("perturbed") /\ stack' = Popped /\ kappa' = Top.kappa
        /\ delta' = Top.delta /\ control' = control /\ Local
    BY <1>4 DEF ReturnPerturbed
  <2>2. control.do = "return" /\ Len(stack) # 0 /\ Top.fn = "perturbed"
    BY <2>1, Active DEF ReturningTo
  <2>3. Fits(E, J, Top, kappa, delta, c)
    BY <2>2 DEF Sound, CallsRight, ControlRight
  <2>4. Right(J, Goal(E, Top), Top.kappa, Top.delta, c)
    BY <2>2, <2>3 DEF Fits, Right, Asks, Goal
  <2>5. ASSUME NEW f, Leads(E, J, f, Top.kappa, Top.delta, Goal(E, Top), 0)
        PROVE  ControlRight(E, J, f, Top.kappa, Top.delta, control')
    <3>1. Fits(E, J, f, Top.kappa, Top.delta, c)
      BY <2>4, <2>5, FitsIs
    <3> QED
      BY <2>1, <2>2, <3>1 DEF ControlRight
  <2>6. control'.do \in {"eval", "return"}
    BY <2>1, <2>2
  <2> QED
    BY <2>1, <2>2, <2>5, <2>6, PopRight
<1> QED
  BY <1>1, <1>2, <1>3, <1>4

LEMMA ApplyStepRight ==
  ASSUME Calls, NEW E, NEW V, TypedNow(V), NEW J, Evaluations(E, V, J), Sound(E, J), ReturnApply
  PROVE  Sound(E, J)'
<1> DEFINE c == control.value
           n == Len(stack)
           e == Top.of.expr
           done == Append(Top.of.done, c)
<1>1. ReturningTo("apply") /\ Local
  BY DEF ReturnApply
<1>2. /\ IsSeq(done) /\ AllRight(J, e.of, kappa, delta, done)
      /\ \A i \in 1..Len(done) : IsAnswer(V, done[i])
      /\ Len(e.of) \in Nat => Len(done) < Len(e.of) \/ Len(done) = Len(e.of)
      /\ e \in Expression /\ e.op = "apply" /\ Goal(E, Top) = e
  BY <1>1, DoneRight
<1>3. e.of \in Seq(Expression) /\ e.of # <<>>
  BY <1>2, PartsOf
<1>4. Closures(V) /\ IsContext(V, kappa)
  BY <1>1, ReturnedIs DEF Plain
<1>5. CASE Len(done) < Len(e.of)
  <2>1. /\ stack' = [stack EXCEPT ![n].of.done = done]
        /\ control' = Eval(e.of[Len(done) + 1]) /\ UNCHANGED <<kappa, delta>>
    BY <1>5 DEF ReturnApply
  <2> QED
    BY <1>1, <1>2, <1>5, <2>1, NextRight
<1>6. CASE ~(Len(done) < Len(e.of))
  <2> DEFINE f == done[1]
             args == Tail(done)
  <2>1. ApplyNow(e.by, done)
    BY <1>6 DEF ReturnApply
  <2>2. Len(done) # 0 /\ 1 \in 1..Len(done) /\ Len(done) = Len(e.of)
    BY <1>2, <1>3, <1>6 DEF IsSeq
  <2> HIDE DEF done
  <2>3. /\ IsSeq(args) /\ \A i \in 1..Len(args) : args[i] = done[i + 1] /\ i + 1 \in 1..Len(done)
    BY <1>2, <2>2, TailIs
  <2>4. OfKind(done, "demand") = {} =>
          IF ~IsClosure(f, e.by) THEN Right(J, e, kappa, delta, NoFunction(e.by))
          ELSE IF e.by = "base" /\ OfKind(args, "special") # {}
          THEN Right(J, e, kappa, delta, FirstSpecial(args))
          ELSE IF Len(args) # Len(f.params) THEN Right(J, e, kappa, delta, Special("sptype"))
          ELSE {f.params[i] : i \in DOMAIN f.params} \cup DOMAIN f.binds \subseteq Dims =>
                 Into(J, e, kappa, delta, f.body, Perturbing(f, args, kappa), DeltaInside(f, delta))
    BY <1>2, <1>4, <2>2, ApplyRight
  <2>5. CASE \E d : Right(J, e, kappa, delta, d) /\ Answered(d)
    <3>1. PICK d : Right(J, e, kappa, delta, d) /\ Answered(d)
      BY <2>5
    <3> QED
      BY <1>1, <1>2, <3>1, ReplyRight DEF Answered, Plain
  <2>6. CASE /\ OfKind(done, "demand") = {} /\ IsClosure(f, e.by) /\ Len(args) = Len(f.params)
             /\ ~(e.by = "base" /\ OfKind(args, "special") # {}) /\ Enter(f, args)
    <3>1. IsValue(V, f) /\ \A i \in 1..Len(args) : IsValue(V, args[i])
      <4>1. \A i \in 1..Len(done) : IsValue(V, done[i])
        BY <1>2, <1>4, <2>6, AnswersAre
      <4> QED
        BY <2>2, <2>3, <4>1
    <3>2. f \in V
      BY <2>6, <3>1 DEF IsValue, IsClosure, Constants
    <3> HIDE DEF f, args
    <3>3. {f.params[i] : i \in DOMAIN f.params} \cup DOMAIN f.binds \subseteq Dims
      BY <1>4, <2>3, <2>6, <3>1, <3>2, EnteredTyped
    <3>4. Into(J, e, kappa, delta, f.body, Perturbing(f, args, kappa), DeltaInside(f, delta))
      BY <2>4, <2>6, <3>3
    <3>5. /\ stack' = Append(Popped, Frame("perturbed", e)) /\ control' = Eval(f.body)
          /\ kappa' = Perturbing(f, args, kappa) /\ delta' = DeltaInside(f, delta)
      BY <2>6 DEF Enter, DeltaInside
    <3> QED
      BY <1>1, <1>2, <3>4, <3>5, BodyRight DEF Plain
  <2>7. Right(J, e, kappa, delta, Demand(UNION {done[i].dims : i \in OfKind(done, "demand")}))
    BY DemandRight
  <2> HIDE DEF f, args
  <2>8. \/ \E d : Right(J, e, kappa, delta, d) /\ Answered(d)
        \/ /\ OfKind(done, "demand") = {} /\ IsClosure(f, e.by) /\ Len(args) = Len(f.params)
           /\ ~(e.by = "base" /\ OfKind(args, "special") # {}) /\ Enter(f, args)
    BY <2>1, <2>4, <2>7, Zenon DEF ApplyNow, f, args
  <2> QED
    BY <2>5, <2>6, <2>8
<1> QED
  BY <1>5, <1>6

(***************************************************************************)
(* Steps of the world outside                                              *)
(***************************************************************************)
\* Without calls that compute, nobody overwrites a calc any more
LEMMA QuietDead ==
  ASSUME NEW E, NEW J, NEW s, NEW k, NEW ds, NEW ctl, NEW cs, NEW names,
         WorkRight(E, J, s, k, ds, ctl, cs, names), \A i : ~Busy(s, ctl, i)
  PROVE  \A x \in names : \A p \in CalcsOf(cs[x]) : Dead(J, E[x], p)
BY DEF WorkRight, CalcsRight, Marked

LEMMA DeadQuiet ==
  ASSUME NEW E, NEW J, NEW s, NEW k, NEW ds, NEW ctl, NEW cs, NEW names,
         \A x \in names : \A p \in CalcsOf(cs[x]) : Dead(J, E[x], p), \A i : ~Busy(s, ctl, i)
  PROVE  WorkRight(E, J, s, k, ds, ctl, cs, names)
BY DEF WorkRight, CalcsRight, MarksExact

LEMMA NoneRight ==
  ASSUME NEW E, NEW J, NEW s, Len(s) = 0
  PROVE  FramesRight(E, J, s) /\ \A ctl, i : ~Busy(s, ctl, i)
<1>1. 1..Len(s) = {} /\ 1..(Len(s) - 1) = {}
  OBVIOUS
<1> QED
  BY <1>1 DEF FramesRight, Busy

\* No call is active any more
LEMMA IdleRight ==
  ASSUME NEW E, NEW J, EntriesSay(J, E, caches, Name)', AnsweredRight(J)', Len(stack') = 0,
         control'.do # "get",
         \A x \in Name' : \A p \in CalcsOf(caches'[x]) : Dead(J, E[x], p)
  PROVE  Sound(E, J)'
<1>1. FramesRight(E, J, stack') /\ \A i : ~Busy(stack', control', i)
  BY NoneRight
<1>2. WorkRight(E, J, stack', kappa', delta', control', caches', Name')
  BY <1>1, DeadQuiet
<1>3. CallsRight(E, J)'
  BY <1>1, <1>2 DEF CallsRight
<1> QED
  BY <1>3 DEF Sound

LEMMA AskRight ==
  ASSUME WarehouseInv, NEW E, E = equations, NEW V, NEW J, Evaluations(E, V, J), Sound(E, J),
         NEW x \in Name, NEW k, Ask(x, k)
  PROVE  Sound(E, J)'
<1> DEFINE f == [fn |-> "link", of |-> x, delta |-> {}, kappa |-> k]
<1>1. /\ stack = <<>> /\ stack' = <<f>> /\ kappa' = k /\ delta' = {} /\ control' = Call(x)
      /\ UNCHANGED <<equations, caches, result>>
  BY DEF Ask
<1>2. f.fn = "link" /\ f.of = x
  OBVIOUS
<1> HIDE DEF f
<1>3. Len(stack') = 1 /\ stack'[1] = f /\ Name' = Name
  BY <1>1, OneFrame, NamesStay
<1>4. control'.do = "call" /\ control'.name = x
  BY <1>1 DEF Call
<1>5. \A i : ~Busy(stack', control', i)
  BY <1>2, <1>3 DEF Busy
<1>6. \A y \in Name : \A p \in CalcsOf(caches[y]) : Dead(J, E[y], p)
  <2>1. Len(stack) = 0
    BY <1>1, NoFrame
  <2>2. \A i : ~Busy(stack, control, i)
    BY <2>1, NoneRight
  <2> QED
    BY <2>2, QuietDead DEF Sound, CallsRight
<1>7. WorkRight(E, J, stack', kappa', delta', control', caches', Name')
  BY <1>1, <1>3, <1>5, <1>6, DeadQuiet
<1>8. FramesRight(E, J, stack')
  <2>1. 1..Len(stack') = {1} /\ 1..(Len(stack') - 1) = {}
    BY <1>3
  <2>2. FrameRight(J, f)
    BY <1>2 DEF FrameRight
  <2> QED
    BY <1>3, <2>1, <2>2 DEF FramesRight
<1>9. ControlRight(E, J, f, kappa', delta', control')
  <2>1. Part(E, f) = E[x]
    BY <1>2 DEF Part
  <2>2. Leads(E, J, f, kappa', delta', E[x], 1)
    BY <1>2, <2>1, LeadsPart
  <2> QED
    BY <1>4, <2>2 DEF ControlRight
<1>10. CallsRight(E, J)'
  BY <1>3, <1>4, <1>7, <1>8, <1>9 DEF CallsRight, Top
<1>11. EntriesSay(J, E, caches, Name)' /\ AnsweredRight(J)'
  BY <1>1, <1>3 DEF Sound, AnsweredRight, NoResult
<1> QED
  BY <1>10, <1>11 DEF Sound

LEMMA CollectRight ==
  ASSUME WarehouseInv, NEW E, E = equations, NEW J, Sound(E, J), EndInstant
  PROVE  Sound(E, J)'
<1>1. stack = <<>> /\ UNCHANGED <<equations, stack, control, result>>
  BY DEF EndInstant
<1>2. Name' = Name /\ Len(stack) = 0
  BY <1>1, NamesStay, NoFrame
<1>3. ASSUME NEW x \in Name
      PROVE  /\ DOMAIN caches'[x] \subseteq DOMAIN caches[x]
             /\ \A p \in DOMAIN caches'[x] : caches'[x][p].content = caches[x][p].content
  BY CollectStep DEF Collects, CollectKeeps
<1>4. \A x \in Name : \A p \in CalcsOf(caches[x]) : Dead(J, E[x], p)
  <2>1. \A i : ~Busy(stack, control, i)
    BY <1>2, NoneRight
  <2> QED
    BY <2>1, QuietDead DEF Sound, CallsRight
<1>5. \A x \in Name' : \A p \in CalcsOf(caches'[x]) : Dead(J, E[x], p)
  BY <1>2, <1>3, <1>4 DEF CalcsOf
<1>6. EntriesSay(J, E, caches', Name')
  BY <1>2, <1>3 DEF Sound, EntriesSay
<1>7. AnsweredRight(J)'
  BY <1>1 DEF Sound, AnsweredRight, NoResult
<1>8. control'.do # "get"
  BY <1>1, <1>2 DEF WarehouseInv, Calls, CallsOK, ControlOK
<1> QED
  BY <1>1, <1>2, <1>5, <1>6, <1>7, <1>8, IdleRight

LEMMA LinkRight ==
  ASSUME WarehouseInv, NEW E, E = equations, NEW V, TypedNow(V), NEW J, Evaluations(E, V, J),
         Sound(E, J), ReturnLink
  PROVE  Sound(E, J)'
<1> DEFINE c == control.value
<1>1. /\ Calls /\ control.do = "return" /\ Top.fn = "link"
      /\ UNCHANGED <<equations, now, kappa, caches, retirement>>
  BY DEF WarehouseInv, ReturnLink, ReturningTo
<1>2. Len(stack) # 0
  BY <1>1, Active
<1>3. /\ Top = stack[1] /\ Top.kappa = kappa /\ Top.of \in Name
      /\ IsSeq(stack) /\ Len(stack) = 1
  BY <1>1, <1>2, TopOf
<1>4. Name' = Name
  BY <1>1, NamesStay
<1>5. EntriesSay(J, E, caches', Name')
  BY <1>1, <1>4 DEF Sound
<1>6. \A ctl, i : ~Busy(stack, ctl, i)
  BY <1>1, <1>3 DEF Busy
<1>7. \A x \in Name : \A p \in CalcsOf(caches[x]) : Dead(J, E[x], p)
  BY <1>6, QuietDead DEF Sound, CallsRight
<1>8. CASE control' = Call(Top.of) /\ stack' = stack /\ result' = result
  <2>1. control'.do = "call" /\ control'.name = Top.of
    BY <1>8, ControlIs
  <2>2. \A i : ~Busy(stack', control', i)
    BY <1>6, <1>8
  <2>3. WorkRight(E, J, stack', kappa', delta', control', caches', Name')
    BY <1>1, <1>4, <1>7, <2>2, DeadQuiet
  <2>4. Leads(E, J, Top, kappa, delta', E[Top.of], 1)
    <3>1. Part(E, Top) = E[Top.of]
      BY <1>1 DEF Part
    <3> QED
      BY <1>1, <3>1, LeadsPart
  <2>5. ControlRight(E, J, Top, kappa', delta', control')
    BY <1>1, <2>1, <2>4 DEF ControlRight
  <2>6. Top' = Top /\ FramesRight(E, J, stack')
    BY <1>8 DEF Top, Sound, CallsRight
  <2>7. CallsRight(E, J)'
    BY <2>1, <2>3, <2>5, <2>6 DEF CallsRight
  <2>8. AnsweredRight(J)'
    BY <1>1, <1>8 DEF Sound, AnsweredRight, NoResult
  <2> QED
    BY <1>5, <2>7, <2>8 DEF Sound
<1>9. CASE /\ c.kind # "demand" /\ control' = Idle /\ stack' = Popped
           /\ result' = [name |-> Top.of, at |-> kappa, value |-> c]
  <2>1. Len(stack') = 0
    <3>1. Len(Popped) = Len(stack) - 1
      BY <1>2, <1>3, PopIs DEF Popped
    <3> QED
      BY <1>3, <1>9, <3>1
  <2>2. control'.do # "get"
    BY <1>9, ControlIs
  <2>3. Fits(E, J, Top, kappa, delta, c)
    BY <1>1, <1>2 DEF Sound, CallsRight, ControlRight
  <2>4. \A j \in About(J, E[Top.of], kappa, delta) : j.value = c
    BY <1>1, <1>9, <2>3 DEF Fits, Asks, Part
  <2>5. result'.name = Top.of /\ result'.at = kappa /\ result'.value = c
    BY <1>9
  <2>6. ASSUME NEW j \in J, j.expr = E[Top.of], j.at = kappa
        PROVE  c = j.value
    BY <2>4, <2>6, SameIs DEF About
  <2>7. AnsweredRight(J)'
    BY <1>1, <2>5, <2>6 DEF AnsweredRight
  <2>8. \A x \in Name' : \A p \in CalcsOf(caches'[x]) : Dead(J, E[x], p)
    BY <1>1, <1>4, <1>7
  <2> QED
    BY <1>5, <2>1, <2>2, <2>7, <2>8, IdleRight
<1> QED
  BY <1>8, <1>9 DEF ReturnLink

(***************************************************************************)
(* A judgement that leads to a calc is about the call that computes it     *)
(***************************************************************************)
LEMMA MarkedAbout ==
  ASSUME NEW E, NEW V, NEW J, Evaluations(E, V, J), NEW s, NEW k, NEW ds, NEW ctl, NEW cs,
         NEW names, FramesOK(s, k, ds, names), Frames(V, s), IsContext(V, k),
         MarksExact(s, k, ds, ctl, cs), NEW x, IsCache(cs[x]), CacheTyped(V, cs[x]),
         NEW p, PlainPath(p), NEW i, Busy(s, ctl, i), s[i].of = x, MarkedBy(s, k, ds, cs, i, p),
         NEW j \in J, j.expr = E[x], Agrees(p, j.at)
  PROVE  j \in About(J, E[s[i].of], KappaAfter(s, k, i), DeltaAfter(s, ds, i))
<1> DEFINE l == KappaAfter(s, k, i)
           es == DeltaAfter(s, ds, i)
<1>1. p \in DOMAIN cs[x] /\ Agrees(p, l)
  BY DEF MarkedBy, Computes, CalcsOf
<1>2. Closures(V) /\ IsContext(V, j.at)
  BY DEF Evaluations, Derivations, Judgement
<1>3. IsContext(V, l)
  <2>1. i \in 1..Len(s) /\ Len(s) \in Nat
    BY DEF Busy, FramesOK, IsSeq
  <2>2. i # Len(s) => i + 1 \in 1..Len(s)
    BY <2>1
  <2> QED
    BY <2>2 DEF KappaAfter, Frames, FrameTyped
<1>4. Everything \notin DimsOf(p)
  BY <1>1, <1>2, PathDims
<1>5. es \subseteq DimsOf(p)
  BY DEF MarksExact
<1> HIDE DEF l, es
<1>6. Same(j.at, l, DimsOf(p))
  BY <1>1, <1>2, <1>3, <1>4, AgreeSame
<1>7. Same(j.at, l, es)
  BY <1>4, <1>5, <1>6, SameIs
<1> QED
  BY <1>7 DEF About, l, es

LEMMA PlainPaths ==
  ASSUME PlainKeys, NEW x \in Name, NEW p \in DOMAIN caches[x]
  PROVE  PlainPath(p)
BY DEF PlainKeys, PlainPath

LEMMA CallsAre ==
  ASSUME WarehouseInv, NEW V, TypedNow(V)
  PROVE  /\ Calls /\ FramesOK(stack, kappa, delta, Name) /\ Frames(V, stack)
         /\ IsContext(V, kappa) /\ Closures(V)
         /\ \A x \in Name : IsCache(caches[x]) /\ Ordered(caches[x]) /\ CacheTyped(V, caches[x])
BY AlreadyTyped DEF WarehouseInv, Calls, CallsOK, CachesOK

\* What throws has no value, nor has anything that waits for it: the calcs
\* left behind are met where there is none
LEMMA ThrowRight ==
  ASSUME WarehouseInv, NEW E, E = equations, NEW V, TypedNow(V), NEW J, Evaluations(E, V, J),
         Sound(E, J), PlainKeys, EvalThrows
  PROVE  Sound(E, J)'
<1> DEFINE e == control.expr
<1>1. /\ Evaluating("ident") /\ e.name \in Broken /\ stack' = <<>> /\ control' = Idle
      /\ result' = NoResult /\ UNCHANGED <<equations, caches>>
  BY DEF EvalThrows
<1>2. e.op = "ident" /\ control.do = "eval" /\ Len(stack) # 0
  BY <1>1, OpOf, Active DEF WarehouseInv
<1>3. Name' = Name /\ Len(stack') = 0
  BY <1>1, NamesStay, NoFrame
<1>4. /\ FramesOK(stack, kappa, delta, Name) /\ Frames(V, stack) /\ IsContext(V, kappa)
      /\ \A x \in Name : IsCache(caches[x]) /\ CacheTyped(V, caches[x])
      /\ FramesRight(E, J, stack)
      /\ WorkRight(E, J, stack, kappa, delta, control, caches, Name)
      /\ Leads(E, J, Top, kappa, delta, e, 0)
  BY <1>2, CallsAre DEF Sound, CallsRight, ControlRight
<1>5. About(J, e, kappa, delta) = {}
  BY <1>1, <1>2, IdentRight
<1>6. Asks(E, J, Top, kappa, delta) = {}
  BY <1>4, <1>5 DEF Leads
<1>7. ASSUME NEW x \in Name, NEW p \in CalcsOf(caches[x])
      PROVE  Dead(J, E[x], p)
  <2>1. PlainPath(p)
    BY PlainPaths DEF CalcsOf
  <2>2. ASSUME NEW i, Busy(stack, control, i), stack[i].of = x,
               MarkedBy(stack, kappa, delta, caches, i, p),
               NEW j \in J, j.expr = E[x], Agrees(p, j.at)
        PROVE  FALSE
    <3>1. j \in About(J, E[stack[i].of], KappaAfter(stack, kappa, i), DeltaAfter(stack, delta, i))
      BY <1>4, <2>1, <2>2, MarkedAbout DEF WorkRight
    <3>2. i \in 1..Len(stack) /\ stack[i].fn = "cache"
      BY <2>2 DEF Busy
    <3>3. \E h \in Asks(E, J, stack[Len(stack)], kappa, delta) : h \in J
      BY <1>4, <3>1, <3>2, AsksTop
    <3> QED
      BY <1>6, <3>3 DEF Top
  <2>3. ~Marked(stack, kappa, delta, control, caches, x, p) \/ Dead(J, E[x], p)
    BY <2>2 DEF Marked, Dead
  <2> QED
    BY <1>4, <2>3 DEF WorkRight, CalcsRight
<1>8. \A x \in Name' : \A p \in CalcsOf(caches'[x]) : Dead(J, E[x], p)
  BY <1>1, <1>3, <1>7
<1>9. EntriesSay(J, E, caches', Name')
  BY <1>1, <1>3 DEF Sound
<1>10. AnsweredRight(J)'
  BY <1>1 DEF AnsweredRight, NoResult
<1>11. control'.do # "get"
  BY <1>1, ControlIs
<1> QED
  BY <1>3, <1>8, <1>9, <1>10, <1>11, IdleRight

LEMMA CallRight ==
  ASSUME Calls, NEW E, NEW J, Sound(E, J), CallCache
  PROVE  Sound(E, J)'
<1> DEFINE f == Frame("cache", control.name)
<1>1. /\ control.do = "call" /\ stack' = Append(stack, f) /\ delta' = {} /\ kappa' = kappa
      /\ control' = Looking /\ Local
  BY DEF CallCache, Push
<1>2. f.fn = "cache" /\ f.of = control.name /\ f.kappa = kappa /\ f.delta = delta
  BY DEF Frame
<1> HIDE DEF f
<1>3. Goal(E, f) = E[control.name] /\ Deeper(f) = 1 /\ FrameRight(J, f)
  BY <1>2 DEF Goal, Deeper, FrameRight
<1>4. Leads(E, J, Top, kappa, delta, Goal(E, f), Deeper(f))
  BY <1>1, <1>3, Active DEF Sound, CallsRight, ControlRight
<1>5. control'.do = "get" /\ Inside(control')
  BY <1>1, ControlIs
<1>6. ControlRight(E, J, f, kappa, delta', control')
  BY <1>5 DEF ControlRight
<1> QED
  BY <1>1, <1>2, <1>3, <1>4, <1>5, <1>6, PushRight

(***************************************************************************)
(* Steps of CacheWS: what a get finds                                      *)
(***************************************************************************)
\* A walk goes to the level that CacheWS has found, and below it
LEMMA LookEnds ==
  ASSUME NEW c, IsCache(c), NEW k, NEW ds, Everything \notin ds,
         NEW p \in DOMAIN c, c[p].content.kind = "level", Agrees(p, k),
         ds = DimsOf(p) \cup c[p].content.dims,
         NEW last, last = Deepest(Walk(c, k, ds))
  PROVE  last = p \/ DimsOf(last) = ds
<1> DEFINE n == Len(p)
<1>1. p \in Walk(c, k, ds) /\ c # <<>>
  BY DEF Walk, Contains
<1>2. /\ last \in DOMAIN c /\ Agrees(last, k) /\ DimsOf(last) \subseteq ds
      /\ n <= Len(last)
  <2>1. last \in Walk(c, k, ds) /\ \A q \in Walk(c, k, ds) : Len(q) <= Len(last)
    BY <1>1, WalkEnds
  <2> QED
    BY <1>1, <2>1 DEF Walk, Contains
<1>3. IsPath(p) /\ IsPath(last) /\ n \in Nat /\ Len(last) \in Nat /\ Hangs(c, last)
  BY <1>2 DEF IsCache, IsPath
<1>4. Prefix(last, n) = p
  BY <1>2, OneBranch
<1>5. CASE n = Len(last)
  BY <1>3, <1>4, <1>5, PrefixIs
<1>6. CASE n # Len(last)
  <2>1. n \in 0..(Len(last) - 1) /\ n \in 0..Len(last) /\ n + 1 \in 1..Len(last)
    BY <1>2, <1>3, <1>6
  <2>2. c[p].content.dims = DOMAIN last[n + 1]
    BY <1>3, <1>4, <2>1 DEF Hangs
  <2>3. n + 1 \in DOMAIN last
    BY <1>3, <2>1 DEF IsPath
  <2>4. c[p].content.dims \subseteq DimsOf(last)
    BY <2>2, <2>3 DEF DimsOf
  <2>5. DimsOf(p) \subseteq DimsOf(last)
    BY <1>3, <1>4, <2>1, AgreeingPrefix
  <2> QED
    BY <1>2, <2>4, <2>5
<1> QED
  BY <1>5, <1>6

\* Where the walk of CacheWS ends, with all that its delta has
LEMMA LooksTo ==
  ASSUME NEW c, IsCache(c), c # <<>>, NEW k, NEW ds, Everything \notin ds, LooksRight(c, k, ds),
         NEW last, last = Deepest(Walk(c, k, ds))
  PROVE  /\ last \in DOMAIN c /\ Agrees(last, k)
         /\ \/ DimsOf(last) = ds
            \/ c[last].content.kind = "level" /\ ds = DimsOf(last) \cup c[last].content.dims
<1>1. last \in DOMAIN c /\ Agrees(last, k) /\ DimsOf(last) \subseteq ds
  BY WalkEnds DEF Walk, Contains
<1> QED
  BY <1>1, LookEnds DEF LooksRight

LEMMA GetLooks ==
  ASSUME NEW c, IsCache(c), Ordered(c), NEW k, NEW ds, Everything \notin ds, LooksRight(c, k, ds),
         NEW r \in Int, NEW got, got = Get(c, r, k, ds)
  PROVE  /\ got.value = Calc => \E p : Marks(c, got.cache, p, k, ds) /\ ds \subseteq DimsOf(p)
         /\ got.value.kind = "demand" => LooksRight(got.cache, k, ds \cup got.value.dims)
<1>1. GetKeeps(c, r, k, ds, got)
  BY GetIs
<1>2. CASE c = <<>>
  <2>1. ds = {}
    BY <1>2, EmptyCache DEF LooksRight
  <2>2. got.value = Calc
    BY <1>2 DEF Get
  <2> QED
    BY <1>1, <2>1, <2>2, KindsAre DEF GetKeeps
<1>3. CASE c # <<>>
  <2> DEFINE met == Walk(c, k, ds)
             last == Deepest(met)
             found == c[last].content
             value == Answer(found, ds)
             touched == Touch(c, met)
  <2>1. /\ got.value = value
        /\ got.cache = IF value = Calc THEN MarkCalc(touched, k, last, found.dims) ELSE touched
    BY <1>3 DEF Get
  <2>2. /\ last \in DOMAIN c /\ Agrees(last, k)
        /\ DimsOf(last) = ds \/ (found.kind = "level" /\ ds = DimsOf(last) \cup found.dims)
    BY <1>3, LooksTo
  <2>3. found.kind # "demand" /\ IsPath(last)
    BY <2>2 DEF IsCache
  <2>4. DOMAIN touched = DOMAIN c /\ Kept(c, touched)
    BY TouchIs
  <2>5. ASSUME value = Calc
        PROVE  \E p : Marks(c, got.cache, p, k, ds) /\ ds \subseteq DimsOf(p)
    <3>1. PICK p : Marks(c, got.cache, p, k, ds)
      BY <1>1, <2>1, <2>5 DEF GetKeeps
    <3> DEFINE b == Below(last, found.dims, k)
    <3>2. DOMAIN got.cache = DOMAIN touched \cup {b}
      BY <2>1, <2>5 DEF MarkCalc, With
    <3>3. p = b
      BY <2>4, <3>1, <3>2 DEF Marks
    <3>4. DimsOf(b) = DimsOf(last) \cup found.dims
      BY <2>2, <2>3, BelowIs
    <3> QED
      BY <2>2, <3>1, <3>3, <3>4
  <2>6. ASSUME value.kind = "demand"
        PROVE  LooksRight(got.cache, k, ds \cup value.dims)
    <3>1. value # Calc
      BY <2>6, KindsAre
    <3>2. got.cache = touched /\ touched[last].content = found
      BY <2>1, <2>2, <2>4, <3>1 DEF Kept
    <3>3. found.kind = "level" /\ ~Contains(ds, found.dims) /\ value = Demand(found.dims \ ds)
      <4> HIDE DEF found
      <4> QED
        BY <2>3, <2>6, KindsAre DEF Answer
    <3>4. DimsOf(last) = ds
      BY <2>2, <3>3 DEF Contains
    <3>5. ds \cup value.dims = DimsOf(last) \cup found.dims
      BY <3>3, <3>4, KindsAre
    <3> HIDE DEF value, touched, last, found
    <3> QED
      BY <2>2, <2>4, <3>2, <3>3, <3>5 DEF LooksRight
  <2> QED
    BY <2>1, <2>5, <2>6
<1> QED
  BY <1>2, <1>3

\* A call begins to compute: its mark is all that leads there
LEMMA WorkBegins ==
  ASSUME NEW E, NEW J, NEW s, NEW k, NEW ds, NEW ctl, NEW cs, NEW names,
         FramesOK(s, k, ds, names), WorkRight(E, J, s, k, ds, ctl, cs, names),
         NEW then, Inside(ctl), ~Inside(then), NEW n \in Nat, n = Len(s), n # 0,
         NEW x, x = s[n].of, s[n].fn = "cache", NEW news, IsCache(news[x]),
         \A y \in names \ {x} : news[y] = cs[y], Kept(cs[x], news[x]),
         NEW p, Marks(cs[x], news[x], p, k, ds), ds \subseteq DimsOf(p),
         MarksOK(s, k, ds, then, news)
  PROVE  WorkRight(E, J, s, k, ds, then, news, names)
<1>1. CalcsOf(news[x]) = CalcsOf(cs[x]) \cup {p} /\ p \notin CalcsOf(cs[x])
  BY DEF CalcsOf, Marks, Kept
<1>2. /\ \A i : Busy(s, then, i) <=> Busy(s, ctl, i) \/ i = n
      /\ n \in 1..n /\ ~Busy(s, ctl, n)
  BY DEF Busy
<1>3. KappaAfter(s, k, n) = k /\ DeltaAfter(s, ds, n) = ds
  BY DEF KappaAfter, DeltaAfter
<1>4. MarkedBy(s, k, ds, news, n, p)
  BY <1>1, <1>3 DEF MarkedBy, Computes, Marks
<1>5. \A i : Busy(s, ctl, i) => s[i].of \in names
  BY DEF Busy, FramesOK, FrameOK
<1>6. ASSUME NEW i, Busy(s, ctl, i), NEW m
      PROVE  /\ MarkedBy(s, k, ds, cs, i, m) => MarkedBy(s, k, ds, news, i, m)
             /\ MarkedBy(s, k, ds, news, i, m) => MarkedBy(s, k, ds, cs, i, m) \/ (s[i].of = x /\ m = p)
  <2>1. s[i].of = x \/ CalcsOf(news[s[i].of]) = CalcsOf(cs[s[i].of])
    BY <1>5, <1>6
  <2> QED
    BY <1>1, <2>1 DEF MarkedBy, Computes
<1>7. ASSUME NEW y \in names, NEW q \in CalcsOf(news[y])
      PROVE  Marked(s, k, ds, then, news, y, q) \/ Dead(J, E[y], q)
  <2>1. CASE y = x /\ q = p
    BY <1>2, <1>4, <2>1 DEF Marked
  <2>2. CASE ~(y = x /\ q = p)
    <3>1. q \in CalcsOf(cs[y])
      BY <1>1, <2>2
    <3>2. Marked(s, k, ds, ctl, cs, y, q) \/ Dead(J, E[y], q)
      BY <3>1 DEF WorkRight, CalcsRight
    <3> QED
      BY <1>2, <1>6, <3>2 DEF Marked
  <2> QED
    BY <2>1, <2>2
<1>8. ASSUME NEW i, NEW m, Busy(s, then, i), MarkedBy(s, k, ds, news, i, m)
      PROVE  DeltaAfter(s, ds, i) \subseteq DimsOf(m)
  <2>1. CASE i = n
    <3>1. m = p
      BY <1>4, <1>8, <2>1, OneMark DEF MarkedBy
    <3> QED
      BY <1>3, <2>1, <3>1
  <2>2. CASE i # n
    <3>1. Busy(s, ctl, i) /\ Busy(s, then, n)
      BY <1>2, <1>8, <2>2
    <3>2. ~(s[i].of = x /\ m = p)
      BY <1>4, <1>8, <2>2, <3>1 DEF MarksOK
    <3> QED
      BY <1>6, <1>8, <3>1, <3>2 DEF WorkRight, MarksExact
  <2> QED
    BY <2>1, <2>2
<1> QED
  BY <1>7, <1>8 DEF WorkRight, CalcsRight, MarksExact

LEMMA LookDims ==
  ASSUME NEW V, Closures(V), NEW c, IsCache(c), CacheTyped(V, c), NEW k, NEW ds,
         LooksRight(c, k, ds)
  PROVE  Everything \notin ds
<1>1. CASE ds = {}
  BY <1>1
<1>2. CASE ds # {}
  <2>1. PICK p \in DOMAIN c : c[p].content.kind = "level" /\ ds = DimsOf(p) \cup c[p].content.dims
    BY <1>2 DEF LooksRight
  <2>2. Everything \notin DimsOf(p)
    BY PathDims
  <2> DEFINE content == c[p].content
  <2>3. IsContent(V, content) /\ content.kind = "level"
    BY <2>1 DEF CacheTyped
  <2> HIDE DEF content
  <2>4. content.dims \subseteq Dims
    BY <2>3, KindOf, KindsAre DEF IsContent, Constants
  <2> QED
    BY <2>1, <2>2, <2>4, EverythingAssumption DEF Dims, content
<1> QED
  BY <1>1, <1>2

\* A get changes no content, and what it adds is a calc
OnlyCalcs(c, d) ==
  \A p \in DOMAIN d : d[p].content # Calc => p \in DOMAIN c /\ d[p].content = c[p].content

LEMMA GetAdds ==
  ASSUME NEW c, NEW r, NEW k, NEW ds, NEW got, GetKeeps(c, r, k, ds, got)
  PROVE  OnlyCalcs(c, got.cache)
BY DEF GetKeeps, Marks, Kept, OnlyCalcs

LEMMA EntriesKept ==
  ASSUME NEW E, NEW J, NEW cs, NEW names, EntriesSay(J, E, cs, names),
         NEW news, \A x \in names : OnlyCalcs(cs[x], news[x])
  PROVE  EntriesSay(J, E, news, names)
BY DEF EntriesSay, OnlyCalcs

LEMMA SameCalcsOf ==
  ASSUME NEW c, NEW d, Kept(c, d), DOMAIN d = DOMAIN c
  PROVE  CalcsOf(d) = CalcsOf(c)
BY DEF Kept, CalcsOf

\* A demand within the loop, with the caches as they are now
LEMMA DemandedRight ==
  ASSUME Calls, Len(stack) # 0, Top.fn = "cache", NEW E, NEW J, FramesRight(E, J, stack),
         WorkRight(E, J, stack, kappa, delta, Looking, caches', Name),
         equations' = equations, kappa' = kappa, NEW ds, Demanded(ds),
         LooksRight(caches'[Top.of], kappa, delta \cup ds)
  PROVE  CallsRight(E, J)'
<1> DEFINE missing == ds \ Top.delta
<1>1. /\ Name' = Name /\ IsSeq(stack) /\ Top = stack[Len(stack)] /\ Top.kappa = kappa
      /\ FramesOK(stack, kappa, delta, Name)
  BY NamesStay, TopOf DEF Calls, CallsOK
<1>2. Inside(Looking) /\ Looking.do = "get"
  BY ControlIs
<1>3. CASE control' = Return(Demand(missing)) /\ delta' = Top.delta /\ stack' = Popped
  <2>1. control'.do = "return" /\ control'.value.kind = "demand"
    BY <1>3, KindsAre DEF Return
  <2>2. FramesRight(E, J, stack')
    BY <1>1, <1>3, RightPop DEF Popped
  <2>3. SameWork(stack, kappa, delta, Looking, stack', kappa', delta', control')
    BY <1>1, <1>2, <1>3, <2>1, WorkPop DEF Popped, Inside
  <2>4. WorkRight(E, J, stack', kappa', delta', control', caches', Name)
    BY <1>1, <2>3, WorkStays
  <2>5. ControlRight(E, J, Top', kappa', delta', control')
    BY <2>1 DEF ControlRight, Fits
  <2> QED
    BY <1>1, <2>1, <2>2, <2>4, <2>5 DEF CallsRight
<1>4. CASE delta' = delta \cup ds /\ control' = Looking /\ stack' = stack
  <2>1. SameWork(stack, kappa, delta, Looking, stack', kappa', delta', control')
    BY <1>1, <1>2, <1>4, WorkSame
  <2>2. WorkRight(E, J, stack', kappa', delta', control', caches', Name)
    BY <1>1, <2>1, WorkStays
  <2>3. Top' = Top /\ FramesRight(E, J, stack')
    BY <1>4 DEF Top
  <2>4. ControlRight(E, J, Top', kappa', delta', control')
    BY <1>2, <1>4 DEF ControlRight
  <2>5. LooksRight(caches'[Top'.of], kappa', delta')
    BY <1>4, <2>3
  <2> QED
    BY <1>1, <2>2, <2>3, <2>4, <2>5 DEF CallsRight
<1> QED
  BY <1>3, <1>4 DEF Demanded

LEMMA GetRight ==
  ASSUME WarehouseInv, NEW E, E = equations, NEW V, TypedNow(V), NEW J, Evaluations(E, V, J),
         Sound(E, J), CacheGet
  PROVE  Sound(E, J)'
<1> DEFINE x == Top.of
           c == caches[x]
           got == Get(c, retirement[x], kappa, delta)
           n == Len(stack)
<1>1. /\ Calls /\ control = Looking /\ Inside(control) /\ Keep(x, got) /\ control.do = "get"
      /\ equations' = equations /\ kappa' = kappa /\ result' = result
  BY ControlIs DEF WarehouseInv, CacheGet, Outside
<1>2. n # 0 /\ Top.fn = "cache"
  BY <1>1, Active DEF Inside
<1>3. /\ Top = stack[n] /\ x \in Name /\ IsSeq(stack) /\ n \in Nat
      /\ FramesOK(stack, kappa, delta, Name) /\ Name' = Name
  BY <1>1, <1>2, TopOf, NamesStay DEF Calls, CallsOK
<1>4. /\ FramesRight(E, J, stack)
      /\ WorkRight(E, J, stack, kappa, delta, control, caches, Name)
      /\ LooksRight(c, kappa, delta) /\ EntriesSay(J, E, caches, Name)
  BY <1>1 DEF Sound, CallsRight
<1>5. /\ IsCache(c) /\ Ordered(c) /\ CacheTyped(V, c) /\ Closures(V) /\ retirement[x] \in Int
  BY <1>3, CallsAre DEF WarehouseInv, RetirementsOK, Young
<1>6. Everything \notin delta
  BY <1>4, <1>5, LookDims
<1> HIDE DEF got
<1>7. /\ GetKeeps(c, retirement[x], kappa, delta, got) /\ caches'[x] = got.cache
      /\ \A y \in Name \ {x} : caches'[y] = caches[y]
  BY <1>1, <1>3, GetChanges DEF got
<1>8. EntriesSay(J, E, caches', Name')
  <2>1. \A y \in Name : OnlyCalcs(caches[y], caches'[y])
    <3>1. OnlyCalcs(c, caches'[x])
      BY <1>7, GetAdds
    <3>2. \A y \in Name \ {x} : OnlyCalcs(caches[y], caches'[y])
      BY <1>7 DEF OnlyCalcs
    <3> QED
      BY <3>1, <3>2
  <2>2. EntriesSay(J, E, caches', Name)
    BY <1>4, <2>1, EntriesKept
  <2> QED
    BY <1>3, <2>2
<1>9. AnsweredRight(J)'
  BY <1>1 DEF Sound, AnsweredRight, NoResult
<1>10. /\ got.value = Calc => \E p : Marks(c, got.cache, p, kappa, delta) /\ delta \subseteq DimsOf(p)
       /\ got.value.kind = "demand" => LooksRight(got.cache, kappa, delta \cup got.value.dims)
  BY <1>4, <1>5, <1>6, GetLooks DEF got
<1>11. ASSUME got.value # Calc, NEW then, Inside(then)
       PROVE  WorkRight(E, J, stack, kappa, delta, then, caches', Name)
  <2>1. CalcsOf(got.cache) = CalcsOf(c)
    BY <1>7, <1>11, SameCalcsOf DEF GetKeeps
  <2>2. \A y \in Name : CalcsOf(caches'[y]) = CalcsOf(caches[y])
    BY <1>7, <2>1
  <2>3. SameWork(stack, kappa, delta, control, stack, kappa, delta, then)
    BY <1>1, <1>11, WorkSame
  <2> QED
    BY <1>3, <1>4, <2>2, <2>3, WorkStays
<1>12. CASE got.value = Calc /\ control' = Eval(equations[x]) /\ UNCHANGED <<delta, stack>>
  <2>1. PICK p : Marks(c, got.cache, p, kappa, delta) /\ delta \subseteq DimsOf(p)
    BY <1>10, <1>12
  <2>2. control'.do = "eval" /\ control'.expr = E[x] /\ ~Inside(control')
    BY <1>12 DEF Eval, Inside
  <2>3. MarksOK(stack, kappa, delta, control', caches')
    BY <1>1, <1>12, GetStep DEF WarehouseInv, Calls, CallsOK
  <2>4. IsCache(caches'[x]) /\ Kept(c, caches'[x]) /\ Marks(c, caches'[x], p, kappa, delta)
    BY <1>7, <2>1 DEF GetKeeps
  <2>5. WorkRight(E, J, stack, kappa, delta, control', caches', Name)
    BY <1>1, <1>2, <1>3, <1>4, <1>7, <2>1, <2>2, <2>3, <2>4, WorkBegins
  <2>6. Part(E, Top) = E[x]
    BY <1>2 DEF Part
  <2>7. ControlRight(E, J, Top, kappa, delta, control')
    BY <1>2, <2>2, <2>6, LeadsPart DEF ControlRight
  <2>8. Top' = Top
    BY <1>12 DEF Top
  <2>9. CallsRight(E, J)'
    BY <1>1, <1>3, <1>4, <1>12, <2>2, <2>5, <2>7, <2>8 DEF CallsRight
  <2> QED
    BY <1>8, <1>9, <2>9 DEF Sound
<1>13. CASE got.value.kind = "demand" /\ Demanded(got.value.dims)
  <2>1. got.value # Calc
    BY <1>13, KindsAre
  <2>2. WorkRight(E, J, stack, kappa, delta, Looking, caches', Name)
    BY <1>11, <2>1, ControlIs
  <2>3. LooksRight(caches'[x], kappa, delta \cup got.value.dims)
    BY <1>7, <1>10, <1>13
  <2>4. CallsRight(E, J)'
    BY <1>1, <1>2, <1>4, <1>13, <2>2, <2>3, DemandedRight
  <2> QED
    BY <1>8, <1>9, <2>4 DEF Sound
<1>14. CASE got.value.kind \notin {"calc", "demand"} /\ control' = Finishing /\ UNCHANGED <<delta, stack>>
  <2>1. got.value # Calc
    BY <1>14, KindsAre
  <2>2. WorkRight(E, J, stack, kappa, delta, Finishing, caches', Name)
    BY <1>11, <2>1, ControlIs
  <2>3. control'.do = "finish"
    BY <1>14, ControlIs
  <2>4. ControlRight(E, J, Top', kappa', delta', control')
    BY <2>3 DEF ControlRight
  <2>5. CallsRight(E, J)'
    BY <1>1, <1>3, <1>4, <1>14, <2>2, <2>3, <2>4 DEF CallsRight
  <2> QED
    BY <1>8, <1>9, <2>5 DEF Sound
<1> QED
  BY <1>12, <1>13, <1>14 DEF CacheGet, got

(***************************************************************************)
(* Steps of CacheWS: what a set stores                                     *)
(***************************************************************************)
LEMMA WorkEnds ==
  ASSUME NEW E, NEW J, NEW s, NEW k, NEW ds, NEW ctl, NEW cs, NEW names,
         WorkRight(E, J, s, k, ds, ctl, cs, names),
         NEW then, Inside(then), NEW n, n = Len(s), Busy(s, ctl, n),
         NEW x, x = s[n].of, IsCache(cs[x]), NEW own, MarkedBy(s, k, ds, cs, n, own),
         NEW news, CalcsOf(news[x]) = CalcsOf(cs[x]) \ {own},
         \A y \in names \ {x} : CalcsOf(news[y]) = CalcsOf(cs[y]), FramesOK(s, k, ds, names)
  PROVE  WorkRight(E, J, s, k, ds, then, news, names)
<1>1. \A i : Busy(s, then, i) <=> Busy(s, ctl, i) /\ i # n
  BY DEF Busy
<1>2. \A y \in names : CalcsOf(news[y]) \subseteq CalcsOf(cs[y])
  OBVIOUS
<1>3. \A i : Busy(s, ctl, i) => s[i].of \in names
  BY DEF Busy, FramesOK, FrameOK
<1>4. ASSUME NEW y \in names, NEW q \in CalcsOf(news[y])
      PROVE  Marked(s, k, ds, then, news, y, q) \/ Dead(J, E[y], q)
  <2>1. q \in CalcsOf(cs[y])
    BY <1>2
  <2>2. ASSUME NEW i, Busy(s, ctl, i), s[i].of = y, MarkedBy(s, k, ds, cs, i, q)
        PROVE  Busy(s, then, i) /\ MarkedBy(s, k, ds, news, i, q)
    <3>1. ASSUME i = n
          PROVE  FALSE
      <4>1. q = own
        BY <2>2, <3>1, OneMark DEF MarkedBy
      <4> QED
        BY <2>2, <3>1, <4>1
    <3>2. MarkedBy(s, k, ds, news, i, q)
      BY <2>2 DEF MarkedBy, Computes
    <3> QED
      BY <1>1, <2>2, <3>1, <3>2
  <2>3. Marked(s, k, ds, ctl, cs, y, q) \/ Dead(J, E[y], q)
    BY <2>1 DEF WorkRight, CalcsRight
  <2> QED
    BY <2>2, <2>3 DEF Marked
<1>5. ASSUME NEW i, NEW m, Busy(s, then, i), MarkedBy(s, k, ds, news, i, m)
      PROVE  DeltaAfter(s, ds, i) \subseteq DimsOf(m)
  <2>1. Busy(s, ctl, i) /\ s[i].of \in names
    BY <1>1, <1>3, <1>5
  <2>2. MarkedBy(s, k, ds, cs, i, m)
    BY <1>2, <1>5, <2>1 DEF MarkedBy, Computes
  <2> QED
    BY <2>1, <2>2 DEF WorkRight, MarksExact
<1> QED
  BY <1>4, <1>5 DEF WorkRight, CalcsRight, MarksExact

LEMMA StoredAs ==
  ASSUME NEW V, Closures(V), NEW c, IsAnswer(V, c)
  PROVE  /\ Stored(c) # Calc
         /\ c.kind = "demand" => Stored(c).kind = "level" /\ Stored(c).dims = c.dims
         /\ c.kind # "demand" => Stored(c) = c
BY KindOf, KindsAre DEF Stored, Constants

\* What m_expr has returned is the value in all contexts that lead to the mark
LEMMA MarkSays ==
  ASSUME NEW V, NEW E, NEW J, Evaluations(E, V, J), NEW k, IsContext(V, k), NEW ds,
         NEW p, PlainPath(p), Everything \notin DimsOf(p), Agrees(p, k), ds \subseteq DimsOf(p),
         NEW e, NEW c, c # Calc, \A j \in About(J, e, k, ds) : j.value = c
  PROVE  EntrySays(J, e, p, c)
<1>1. ASSUME NEW j \in J, j.expr = e, Agrees(p, j.at)
      PROVE  c = j.value
  <2>1. Closures(V) /\ IsContext(V, j.at)
    BY DEF Evaluations, Derivations, Judgement
  <2>2. Same(j.at, k, DimsOf(p))
    BY <1>1, <2>1, AgreeSame
  <2>3. Same(j.at, k, ds)
    BY <2>2, SameIs
  <2> QED
    BY <1>1, <2>3 DEF About
<1> QED
  BY <1>1 DEF EntrySays

LEMMA SetRight ==
  ASSUME WarehouseInv, NEW E, E = equations, NEW V, TypedNow(V), NEW J, Evaluations(E, V, J),
         Sound(E, J), PlainKeys, CacheSet
  PROVE  Sound(E, J)'
<1> DEFINE x == Top.of
           c == control.value
           n == Len(stack)
<1>1. /\ Calls /\ control.do = "return" /\ Top.fn = "cache" /\ ~Inside(control)
      /\ equations' = equations /\ kappa' = kappa /\ result' = result
      /\ IF c.kind = "demand" THEN Demanded(c.dims)
         ELSE control' = Finishing /\ UNCHANGED <<delta, stack>>
  BY DEF WarehouseInv, CacheSet, Outside, ReturningTo, Inside
<1>2. n # 0
  BY <1>1, Active
<1>3. /\ Top = stack[n] /\ x \in Name /\ IsSeq(stack) /\ n \in Nat
      /\ FramesOK(stack, kappa, delta, Name) /\ Name' = Name
  BY <1>1, <1>2, TopOf, NamesStay DEF Calls, CallsOK
<1>4. /\ FramesRight(E, J, stack) /\ Fits(E, J, Top, kappa, delta, c)
      /\ WorkRight(E, J, stack, kappa, delta, control, caches, Name)
      /\ EntriesSay(J, E, caches, Name)
  BY <1>1, <1>2 DEF Sound, CallsRight, ControlRight
<1>5. PICK own :
        /\ Computes(caches[x], own, kappa, delta) /\ Mark(caches[x], kappa) = own
        /\ SetKeeps(caches[x], kappa, c, caches'[x])
        /\ \A y \in Name \ {x} : caches'[y] = caches[y]
  BY SetMade
<1>6. IsCache(caches[x]) /\ CacheTyped(V, caches[x]) /\ Closures(V) /\ IsContext(V, kappa)
  BY <1>3, CallsAre
<1>7. own \in DOMAIN caches[x] /\ Agrees(own, kappa) /\ Contains(delta, DimsOf(own))
  BY <1>5 DEF Computes, CalcsOf
<1>8. PlainPath(own) /\ Everything \notin DimsOf(own)
  BY <1>3, <1>6, <1>7, PlainPaths, PathDims
<1>9. Busy(stack, control, n) /\ KappaAfter(stack, kappa, n) = kappa
      /\ DeltaAfter(stack, delta, n) = delta
  <2>1. n \in 1..n
    BY <1>2, <1>3
  <2> QED
    BY <1>1, <1>3, <2>1 DEF Busy, KappaAfter, DeltaAfter
<1>10. MarkedBy(stack, kappa, delta, caches, n, own)
  BY <1>3, <1>5, <1>9 DEF MarkedBy
<1>11. delta \subseteq DimsOf(own)
  BY <1>4, <1>9, <1>10 DEF WorkRight, MarksExact
<1>12. IsAnswer(V, c)
  BY <1>1, <1>2, TopTyped DEF ControlTyped
<1>13. /\ Stored(c) # Calc
       /\ c.kind = "demand" => Stored(c).kind = "level" /\ Stored(c).dims = c.dims
       /\ c.kind # "demand" => Stored(c) = c
  BY <1>6, <1>12, StoredAs
<1>14. /\ DOMAIN caches'[x] = DOMAIN caches[x] /\ caches'[x][own].content = Stored(c)
       /\ \A p \in DOMAIN caches[x] \ {own} : caches'[x][p].content = caches[x][p].content
  BY <1>5 DEF SetKeeps
<1>15. WorkRight(E, J, stack, kappa, delta, Looking, caches', Name)
  <2>1. CalcsOf(caches'[x]) = CalcsOf(caches[x]) \ {own}
    BY <1>13, <1>14 DEF CalcsOf
  <2>2. \A y \in Name \ {x} : CalcsOf(caches'[y]) = CalcsOf(caches[y])
    BY <1>5
  <2>3. Inside(Looking)
    BY ControlIs
  <2> QED
    BY <1>3, <1>4, <1>6, <1>9, <1>10, <2>1, <2>2, <2>3, WorkEnds
<1>16. EntrySays(J, E[x], own, Stored(c))
  <2>1. CASE c.kind = "demand"
    BY <1>13, <2>1 DEF EntrySays
  <2>2. CASE c.kind # "demand"
    <3>1. Asks(E, J, Top, kappa, delta) = About(J, E[x], kappa, delta)
      BY <1>1 DEF Asks, Part
    <3>2. \A j \in About(J, E[x], kappa, delta) : j.value = c
      BY <1>4, <2>2, <3>1 DEF Fits
    <3>3. c # Calc /\ Stored(c) = c
      BY <1>13, <2>2
    <3>4. EntrySays(J, E[x], own, c)
      BY <1>6, <1>7, <1>8, <1>11, <3>2, <3>3, MarkSays
    <3> QED
      BY <3>3, <3>4
  <2> QED
    BY <2>1, <2>2
<1>17. EntriesSay(J, E, caches', Name')
  <2>1. ASSUME NEW p \in DOMAIN caches'[x], caches'[x][p].content # Calc
        PROVE  EntrySays(J, E[x], p, caches'[x][p].content)
    <3>1. CASE p = own
      BY <1>14, <1>16, <3>1
    <3>2. CASE p # own
      BY <1>3, <1>4, <1>14, <2>1, <3>2 DEF EntriesSay
    <3> QED
      BY <3>1, <3>2
  <2>2. ASSUME NEW y \in Name \ {x}, NEW p \in DOMAIN caches'[y], caches'[y][p].content # Calc
        PROVE  EntrySays(J, E[y], p, caches'[y][p].content)
    BY <1>4, <1>5, <2>2 DEF EntriesSay
  <2> QED
    BY <1>3, <2>1, <2>2 DEF EntriesSay
<1>18. AnsweredRight(J)'
  BY <1>1 DEF Sound, AnsweredRight, NoResult
<1>19. CASE c.kind = "demand"
  <2>1. delta = DimsOf(own)
    BY <1>7, <1>8, <1>11 DEF Contains
  <2>2. LooksRight(caches'[x], kappa, delta \cup c.dims)
    BY <1>7, <1>13, <1>14, <1>19, <2>1 DEF LooksRight
  <2>3. CallsRight(E, J)'
    BY <1>1, <1>2, <1>4, <1>15, <1>19, <2>2, DemandedRight
  <2> QED
    BY <1>17, <1>18, <2>3 DEF Sound
<1>20. CASE c.kind # "demand"
  <2>1. control' = Finishing /\ UNCHANGED <<delta, stack>>
    BY <1>1, <1>20
  <2>2. control'.do = "finish"
    BY <2>1, ControlIs
  <2>3. SameWork(stack, kappa, delta, Looking, stack, kappa, delta, Finishing)
    BY WorkSame, ControlIs
  <2>4. WorkRight(E, J, stack, kappa, delta, Finishing, caches', Name)
    BY <1>3, <1>15, <2>3, WorkStays
  <2>5. ControlRight(E, J, Top', kappa', delta', control')
    BY <2>2 DEF ControlRight
  <2>6. CallsRight(E, J)'
    BY <1>1, <1>3, <1>4, <2>1, <2>2, <2>4, <2>5 DEF CallsRight
  <2> QED
    BY <1>17, <1>18, <2>6 DEF Sound
<1> QED
  BY <1>19, <1>20

(***************************************************************************)
(* Steps of CacheWS: what is found behind the loop                         *)
(***************************************************************************)
LEMMA LeafIs ==
  ASSUME NEW c, IsCache(c), NEW r, NEW k, NEW ds, NEW m, Leaf(c, k, ds, m)
  PROVE  Get(c, r, k, ds).value = Answer(c[m].content, ds)
<1> DEFINE met == Walk(c, k, ds)
<1>1. m \in met /\ c # <<>>
  BY DEF Walk, Leaf
<1>2. ASSUME NEW q \in met
      PROVE  Len(q) <= Len(m)
  <2>1. q \in DOMAIN c /\ Agrees(q, k) /\ Len(q) \in Nat /\ Len(m) \in Nat
    BY <1>1 DEF Walk, IsCache, IsPath
  <2>2. Len(m) <= Len(q) => q = m
    BY <2>1, OneLeaf DEF Leaf
  <2> QED
    BY <2>1, <2>2
<1>3. Deepest(met) = m
  BY <1>1, <1>2, DeepestOf
<1> QED
  BY <1>1, <1>3 DEF Get

\* The judgements that lead to p
Leading(J, e, p) == {j \in J : j.expr = e /\ Agrees(p, j.at)}

LEMMA AboutLeads ==
  ASSUME NEW V, NEW E, NEW J, Evaluations(E, V, J), NEW k, NEW ds, NEW p,
         DimsOf(p) \subseteq Dims, Contains(ds, DimsOf(p)), Agrees(p, k), NEW e
  PROVE  About(J, e, k, ds) \subseteq Leading(J, e, p)
<1>1. ASSUME NEW j \in About(J, e, k, ds)
      PROVE  j \in Leading(J, e, p)
  <2>1. j \in J /\ j.expr = e /\ Same(j.at, k, ds)
    BY <1>1 DEF About
  <2>2. Agrees(p, j.at)
    BY <2>1, AgreesToo
  <2> QED
    BY <2>1, <2>2 DEF Leading
<1> QED
  BY <1>1

\* A call that meets a calc has no judgement: it would have one lower than each
\* that leads to the calc
LEMMA LoopHasNone ==
  ASSUME NEW E, NEW V, NEW J, Evaluations(E, V, J), NEW s, NEW k, NEW ds, NEW ctl, NEW cs,
         NEW names, FramesOK(s, k, ds, names), Frames(V, s), IsContext(V, k),
         FramesRight(E, J, s), WorkRight(E, J, s, k, ds, ctl, cs, names), Inside(ctl),
         NEW n, n = Len(s), n # 0, s[n].fn = "cache", s[n].kappa = k,
         NEW x \in names, s[n].of = x, IsCache(cs[x]), CacheTyped(V, cs[x]),
         NEW p \in CalcsOf(cs[x]), PlainPath(p), Agrees(p, k), Contains(s[n].delta, DimsOf(p))
  PROVE  About(J, E[x], k, s[n].delta) = {}
<1> DEFINE es == s[n].delta
           H == {h \in Nat : \E j \in Leading(J, E[x], p) : j.height = h}
<1>1. SUFFICES ASSUME About(J, E[x], k, es) # {}
               PROVE  FALSE
  OBVIOUS
<1>2. Closures(V) /\ p \in DOMAIN cs[x] /\ n \in Nat
  BY DEF Evaluations, Derivations, CalcsOf, FramesOK, IsSeq
<1>3. DimsOf(p) \subseteq Dims
  BY <1>2, PathDims
<1>4. About(J, E[x], k, es) \subseteq Leading(J, E[x], p)
  BY <1>3, AboutLeads
<1>5. \A j \in Leading(J, E[x], p) : j \in J /\ j.height \in Nat /\ j.height \in H
  BY DEF Leading, Evaluations, Derivations, Judgement
<1>6. PICK h \in H : \A m \in H : h <= m
  BY <1>1, <1>4, <1>5, LeastOfNat
<1>7. PICK j \in Leading(J, E[x], p) : j.height = h
  BY <1>6
<1>8. j \in J /\ j.expr = E[x] /\ Agrees(p, j.at) /\ h \in Nat
  BY <1>6, <1>7 DEF Leading
<1>9. Marked(s, k, ds, ctl, cs, x, p)
  BY <1>8 DEF WorkRight, CalcsRight, Dead
<1>10. PICK i : Busy(s, ctl, i) /\ s[i].of = x /\ MarkedBy(s, k, ds, cs, i, p)
  BY <1>9 DEF Marked
<1>11. j \in About(J, E[s[i].of], KappaAfter(s, k, i), DeltaAfter(s, ds, i))
  BY <1>8, <1>10, MarkedAbout DEF WorkRight
<1>12. i \in 1..Len(s) /\ s[i].fn = "cache" /\ i # n
  BY <1>10 DEF Busy
<1>13. \A l \in (i + 1)..Len(s) : Reaches(E, J, s[l], j.height)
  BY <1>11, <1>12, ReachesAll
<1>14. n \in (i + 1)..Len(s)
  BY <1>2, <1>12
<1>15. Reaches(E, J, s[n], j.height)
  BY <1>13, <1>14
<1>16. Goal(E, s[n]) = E[x] /\ Deeper(s[n]) = 1
  BY DEF Goal, Deeper
<1>17. PICK g \in About(J, E[x], k, es) : g.height + 1 <= h
  BY <1>7, <1>15, <1>16 DEF Reaches
<1>18. g.height \in H /\ g.height \in Nat
  BY <1>4, <1>5, <1>17
<1>19. h <= g.height
  BY <1>6, <1>18
<1> QED
  BY <1>8, <1>17, <1>18, <1>19

\* So what CacheWS answers is right in all contexts that agree on the delta of
\* its caller
LEMMA FoundRight ==
  ASSUME WarehouseInv, Settled, NEW E, E = equations, NEW V, TypedNow(V),
         NEW J, Evaluations(E, V, J), Sound(E, J), PlainKeys, control = Finishing,
         NEW x, x = Top.of, NEW r
  PROVE  Right(J, E[x], kappa, Top.delta, Get(caches[x], r, kappa, Top.delta).value)
<1> DEFINE c == caches[x]
           n == Len(stack)
           es == Top.delta
<1>1. Calls /\ Inside(control) /\ control.do = "finish"
  BY ControlIs DEF WarehouseInv
<1>2. n # 0 /\ Top.fn = "cache"
  BY <1>1, Active DEF Inside
<1>3. Top = stack[n] /\ x \in Name /\ Top.kappa = kappa
  BY <1>1, <1>2, TopOf
<1>4. /\ IsCache(c) /\ CacheTyped(V, c) /\ Closures(V) /\ IsContext(V, kappa)
      /\ FramesOK(stack, kappa, delta, Name) /\ Frames(V, stack)
  BY <1>3, CallsAre
<1>5. /\ FramesRight(E, J, stack) /\ EntriesSay(J, E, caches, Name)
      /\ WorkRight(E, J, stack, kappa, delta, control, caches, Name)
  BY DEF Sound, CallsRight
<1>6. PICK m : Leaf(c, kappa, es, m)
  BY <1>1 DEF Settled
<1>7. /\ m \in DOMAIN c /\ c[m].content.kind # "level"
      /\ Agrees(m, kappa) /\ Contains(es, DimsOf(m))
  BY <1>6 DEF Leaf
<1>8. Get(c, r, kappa, es).value = Answer(c[m].content, es)
  BY <1>4, <1>6, LeafIs
<1>9. CASE c[m].content = Calc
  <2>1. m \in CalcsOf(c) /\ PlainPath(m)
    BY <1>3, <1>7, <1>9, PlainPaths DEF CalcsOf
  <2>2. About(J, E[x], kappa, es) = {}
    BY <1>1, <1>2, <1>3, <1>4, <1>5, <1>7, <2>1, LoopHasNone
  <2> QED
    BY <2>2 DEF Right
<1>10. CASE c[m].content # Calc
  <2>1. IsContent(V, c[m].content)
    BY <1>4, <1>7 DEF CacheTyped
  <2>2. Answer(c[m].content, es) = c[m].content
    <3> DEFINE found == c[m].content
    <3>1. IsContent(V, found) /\ found # Calc /\ found.kind # "level"
      BY <1>7, <1>10, <2>1
    <3> HIDE DEF found
    <3>2. found.kind # "calc"
      BY <1>4, <3>1, KindOf, KindsAre DEF IsContent, Constants
    <3>3. Answer(found, es) = found
      BY <3>1, <3>2 DEF Answer
    <3> QED
      BY <3>3 DEF found
  <2>3. EntrySays(J, E[x], m, c[m].content)
    BY <1>3, <1>5, <1>7, <1>10 DEF EntriesSay
  <2>4. About(J, E[x], kappa, es) \subseteq Leading(J, E[x], m)
    <3>1. DimsOf(m) \subseteq Dims
      BY <1>4, <1>7, PathDims
    <3> QED
      BY <1>7, <3>1, AboutLeads
  <2>5. \A j \in Leading(J, E[x], m) : j.value = c[m].content
    BY <1>7, <2>3 DEF EntrySays, Leading
  <2> QED
    BY <1>8, <2>2, <2>4, <2>5 DEF Right
<1> QED
  BY <1>9, <1>10

LEMMA FinishRight ==
  ASSUME WarehouseInv, Settled, NEW E, E = equations, NEW V, TypedNow(V),
         NEW J, Evaluations(E, V, J), Sound(E, J), PlainKeys, CacheFinish
  PROVE  Sound(E, J)'
<1> DEFINE x == Top.of
           c == caches[x]
           got == Get(c, retirement[x], kappa, Top.delta)
           n == Len(stack)
           g == stack[n - 1]
<1>1. /\ Calls /\ control = Finishing /\ Inside(control) /\ Keep(x, got)
      /\ control.do = "finish" /\ equations' = equations /\ kappa' = kappa /\ result' = result
      /\ stack' = Popped /\ delta' = Top.delta /\ control' = Return(got.value)
  BY ControlIs DEF WarehouseInv, CacheFinish, Outside
<1>2. n # 0 /\ Top.fn = "cache"
  BY <1>1, Active DEF Inside
<1>3. /\ Top = stack[n] /\ x \in Name /\ IsSeq(stack) /\ n \in Nat /\ Top.kappa = kappa
      /\ FramesOK(stack, kappa, delta, Name) /\ Name' = Name
  BY <1>1, <1>2, TopOf, NamesStay DEF Calls, CallsOK
<1>4. /\ FramesRight(E, J, stack) /\ EntriesSay(J, E, caches, Name)
      /\ WorkRight(E, J, stack, kappa, delta, control, caches, Name)
  BY DEF Sound, CallsRight
<1>5. Right(J, E[x], kappa, Top.delta, got.value)
  BY <1>1, FoundRight
<1>6. IsCache(c) /\ Settled
  BY <1>3, CallsAre
<1>7. got.value # Calc
  BY <1>1, <1>6, LeafAnswers DEF Settled
<1> HIDE DEF got
<1>8. /\ GetKeeps(c, retirement[x], kappa, Top.delta, got) /\ caches'[x] = got.cache
      /\ \A y \in Name \ {x} : caches'[y] = caches[y]
  BY <1>1, <1>3, GetChanges DEF got
<1>9. EntriesSay(J, E, caches', Name')
  <2>1. OnlyCalcs(c, caches'[x])
    BY <1>8, GetAdds
  <2>2. \A y \in Name : OnlyCalcs(caches[y], caches'[y])
    BY <1>8, <2>1 DEF OnlyCalcs
  <2>3. EntriesSay(J, E, caches', Name)
    BY <1>4, <2>2, EntriesKept
  <2> QED
    BY <1>3, <2>3
<1>10. WorkRight(E, J, stack', kappa', delta', control', caches', Name)
  <2>1. CalcsOf(got.cache) = CalcsOf(c)
    BY <1>7, <1>8, SameCalcsOf DEF GetKeeps
  <2>2. \A y \in Name : CalcsOf(caches'[y]) = CalcsOf(caches[y])
    BY <1>8, <2>1
  <2>3. ~Inside(control')
    BY <1>1, ControlIs DEF Inside
  <2>4. SameWork(stack, kappa, delta, control, stack', kappa', delta', control')
    BY <1>1, <1>2, <1>3, <2>3, WorkPop DEF Popped
  <2> QED
    BY <1>3, <1>4, <2>2, <2>4, WorkStays
<1>11. n # 1
  BY <1>2, <1>3 DEF FramesOK, FrameOK
<1>12. n - 1 \in 1..(n - 1) /\ (n - 1) + 1 = n
  <2> HIDE DEF n
  <2> QED
    BY <1>2, <1>3, <1>11
<1>13. Passes(E, J, g, Top)
  BY <1>3, <1>4, <1>12 DEF FramesRight
<1>14. Leads(E, J, g, kappa, Top.delta, E[x], 1)
  BY <1>2, <1>3, <1>13 DEF Passes, Deeper, Goal
<1>15. Fits(E, J, g, kappa, Top.delta, got.value)
  BY <1>5, <1>14, FitsIs
<1>16. FramesRight(E, J, stack')
  BY <1>1, <1>2, <1>3, <1>4, RightPop DEF Popped
<1>17. stack'[Len(stack')] = g
  <2>1. Len(stack') = n - 1 /\ stack'[n - 1] = stack[n - 1]
    BY <1>1, <1>2, <1>3, <1>12, PopIs DEF Popped
  <2> QED
    BY <2>1
<1>18. control'.do = "return" /\ control'.value = got.value
  BY <1>1 DEF Return
<1>19. ControlRight(E, J, g, kappa', delta', control')
  BY <1>1, <1>15, <1>18 DEF ControlRight
<1> HIDE DEF g
<1>20. CallsRight(E, J)'
  BY <1>3, <1>10, <1>16, <1>17, <1>18, <1>19 DEF CallsRight, Top
<1>21. AnsweredRight(J)'
  BY <1>1 DEF Sound, AnsweredRight, NoResult
<1> QED
  BY <1>9, <1>20, <1>21 DEF Sound

(***************************************************************************)
(* The agreement                                                           *)
(***************************************************************************)
\* The closures of the calls and those of the judgements are of one set
LEMMA BothTyped ==
  ASSUME NEW U, TypedNow(U), NEW E, NEW V, NEW J, Evaluations(E, V, J),
         NEW W, W = U \cup V
  PROVE  TypedNow(W) /\ Evaluations(E, W, J)
<1>1. U \subseteq W /\ V \subseteq W
  OBVIOUS
<1>2. Closures(U) /\ Closures(V)
  BY AlreadyTyped DEF Evaluations, Derivations
<1>3. \A c : IsValue(U, c) \/ IsValue(V, c) => IsValue(W, c)
  BY <1>1, MoreValues
<1>4. ASSUME NEW c \in W
      PROVE  \E e : MadeBy(W, c, e)
  <2>1. CASE c \in U
    BY <1>2, <1>3, <2>1 DEF Closures, MadeBy
  <2>2. CASE c \in V
    BY <1>2, <1>3, <2>2 DEF Closures, MadeBy
  <2> QED
    BY <2>1, <2>2
<1>5. Closures(W)
  BY <1>4 DEF Closures
<1>6. \A j \in J : Judgement(W, j)
  BY <1>1, MoreValues DEF Evaluations, Derivations, Judgement
<1>7. Evaluations(E, W, J)
  BY <1>5, <1>6 DEF Evaluations, Derivations
<1>8. /\ IsContext(W, kappa) /\ IsDelta(delta) /\ \A x \in Name : CacheTyped(W, caches[x])
      /\ \A i \in 1..Len(stack) : FrameTyped(W, stack[i])
  BY <1>1, AlreadyTyped, MoreValues DEF Frames
<1>9. ControlTyped(W, control)
  <2>1. ControlTyped(U, control)
    BY AlreadyTyped
  <2> QED
    BY <1>1, <2>1, MoreValues DEF ControlTyped
<1> QED
  BY <1>5, <1>7, <1>8, <1>9 DEF TypedNow, Typed

LEMMA SoundStays ==
  ASSUME WarehouseInv, Settled, NEW E, E = equations, NEW V, TypedNow(V),
         NEW J, Evaluations(E, V, J), Sound(E, J), TimeAsked, PlainKeys, [Next]_vars
  PROVE  Sound(E, J)'
<1>0. Calls
  BY DEF WarehouseInv
<1>1. CASE \/ EvalConst \/ EvalHash \/ EvalIdent \/ EvalIf \/ EvalBang \/ EvalAt
           \/ EvalAbstraction \/ EvalApply
  BY <1>0, <1>1, EvalRight
<1>2. CASE ReturnIf \/ ReturnBang \/ ReturnAt \/ ReturnPerturbed
  BY <1>0, <1>2, ReturnRight
<1>3. CASE ReturnApply
  BY <1>0, <1>3, ApplyStepRight
<1>4. CASE CallCache
  BY <1>0, <1>4, CallRight
<1>5. CASE CacheGet
  BY <1>5, GetRight
<1>6. CASE CacheSet
  BY <1>6, SetRight
<1>7. CASE CacheFinish
  BY <1>7, FinishRight
<1>8. CASE EvalThrows
  BY <1>8, ThrowRight
<1>9. CASE ReturnLink
  BY <1>9, LinkRight
<1>10. CASE \E x \in Name, k \in Context : Ask(x, k)
  BY <1>10, AskRight
<1>11. CASE EndInstant
  BY <1>11, CollectRight
<1>12. CASE UNCHANGED vars
  BY <1>12 DEF vars, Sound, CallsRight, AnsweredRight, Name, Top
<1> QED
  BY <1>1, <1>2, <1>3, <1>4, <1>5, <1>6, <1>7, <1>8, <1>9, <1>10, <1>11, <1>12 DEF Next, Step

LEMMA SoundKeeps ==
  ASSUME TypedWarehouse, NEW E, NEW V, NEW J, Evaluations(E, V, J),
         equations = E, Sound(E, J), TimeAsked, PlainKeys, [Next]_vars
  PROVE  equations' = E /\ Sound(E, J)'
<1>1. PICK U : TypedNow(U)
  BY DEF TypedWarehouse, TypedInv
<1>2. PICK W : TypedNow(W) /\ Evaluations(E, W, J)
  BY <1>1, BothTyped
<1>3. WarehouseInv /\ Settled
  BY DEF TypedWarehouse
<1>4. Sound(E, J)'
  BY <1>2, <1>3, SoundStays
<1>5. equations' = equations
  <2>1. CASE Step
    BY <2>1 DEF Step, EvalConst, EvalHash, EvalIdent, EvalThrows, EvalIf, EvalBang, EvalAt,
         EvalAbstraction, EvalApply, ReturnApply, ReturnIf, ReturnBang, ReturnAt,
         ReturnPerturbed, ReturnLink, CallCache, CacheGet, CacheSet, CacheFinish, Local, Outside
  <2>2. CASE \E x \in Name, k \in Context : Ask(x, k)
    BY <2>2 DEF Ask
  <2>3. CASE EndInstant
    BY <2>3 DEF EndInstant
  <2>4. CASE UNCHANGED vars
    BY <2>4 DEF vars
  <2> QED
    BY <2>1, <2>2, <2>3, <2>4 DEF Next
<1> QED
  BY <1>4, <1>5

LEMMA SoundStarts ==
  ASSUME Init, NEW E, NEW J
  PROVE  Sound(E, J)
<1>1. /\ stack = <<>> /\ control = Idle /\ result = NoResult
      /\ caches = [x \in Name |-> <<>>]
  BY DEF Init
<1>2. Len(stack) = 0 /\ control.do = "idle"
  BY <1>1, NoFrame, ControlIs
<1>3. FramesRight(E, J, stack) /\ \A i : ~Busy(stack, control, i)
  BY <1>2, NoneRight
<1>4. \A x \in Name : DOMAIN caches[x] = {} /\ CalcsOf(caches[x]) = {}
  BY <1>1, EmptyCache DEF CalcsOf
<1>5. WorkRight(E, J, stack, kappa, delta, control, caches, Name)
  BY <1>3, <1>4, DeadQuiet
<1>6. CallsRight(E, J)
  BY <1>2, <1>3, <1>5 DEF CallsRight
<1>7. EntriesSay(J, E, caches, Name)
  BY <1>4 DEF EntriesSay
<1>8. AnsweredRight(J)
  BY <1>1 DEF AnsweredRight
<1> QED
  BY <1>6, <1>7, <1>8 DEF Sound

LEMMA SoundEntries ==
  ASSUME NEW E, NEW J, equations = E, Sound(E, J)
  PROVE  EntriesRight(J)
<1>1. SUFFICES ASSUME NEW x \in Name, NEW p \in DOMAIN caches[x],
                      caches[x][p].content # Calc \/ stack = <<>>
               PROVE  EntrySays(J, E[x], p, caches[x][p].content)
  BY DEF EntriesRight
<1>2. CASE caches[x][p].content # Calc
  BY <1>1, <1>2 DEF Sound, EntriesSay
<1>3. CASE caches[x][p].content = Calc
  <2>1. \A i : ~Busy(stack, control, i)
    BY <1>1, <1>3, NoFrame, NoneRight
  <2>2. p \in CalcsOf(caches[x])
    BY <1>1, <1>3 DEF CalcsOf
  <2>3. Dead(J, E[x], p)
    BY <1>1, <2>1, <2>2, QuietDead DEF Sound, CallsRight
  <2> QED
    BY <2>3 DEF Dead, EntrySays
<1> QED
  BY <1>2, <1>3

\* For every program and any judgements J that the rules of the uncached overloads
\* derive of it: an answer of the warehouse (CacheWS::operator()(kappa), the link
\* of System::go) is the value judged, in whatever order variables are demanded,
\* whatever the caches hold by then, what the collector has taken, and after
\* whatever exceptions.  As long as the time is asked for by what changes it, and
\* the keys of entries are plain: TimeAsked and PlainKeys, which the two known
\* ways to a stale entry break.  And of programs in which an application that has a
\* value has arguments that have values (ArgumentsHaveValues): the warehouse
\* evaluates the arguments of what is no function too, and may meet a loop there.
THEOREM AnswersAreRight ==
  ASSUME HostFunctions, NEW E, NEW V, NEW J, Derivations(E, V, J),
         ArgumentsHaveValues(J)
  PROVE  Spec /\ equations = E /\ [](TimeAsked /\ PlainKeys) => []AnsweredRight(J)
<1>0. Evaluations(E, V, J)
  BY DEF Evaluations
<1>1. Init => Sound(E, J)
  BY SoundStarts
<1>2. TypedWarehouse /\ equations = E /\ Sound(E, J) /\ TimeAsked /\ PlainKeys /\ [Next]_vars
        => (equations = E)' /\ Sound(E, J)'
  BY <1>0, SoundKeeps
<1>3. Sound(E, J) => AnsweredRight(J)
  BY DEF Sound
<1> QED
  BY <1>1, <1>2, <1>3, TypedAlways, PTL DEF Spec

\* Under the same conditions each entry of a cache (Cache::get, Cache::set) holds
\* for every context that leads to it, though it was computed in one of them and
\* found by the dimensions asked for only; and a calc that nobody computes any
\* more, which is answered sploop, stands where the rules derive no value.
THEOREM EntriesAreRight ==
  ASSUME HostFunctions, NEW E, NEW V, NEW J, Derivations(E, V, J),
         ArgumentsHaveValues(J)
  PROVE  Spec /\ equations = E /\ [](TimeAsked /\ PlainKeys) => []EntriesRight(J)
<1>0. Evaluations(E, V, J)
  BY DEF Evaluations
<1>1. Init => Sound(E, J)
  BY SoundStarts
<1>2. TypedWarehouse /\ equations = E /\ Sound(E, J) /\ TimeAsked /\ PlainKeys /\ [Next]_vars
        => (equations = E)' /\ Sound(E, J)'
  BY <1>0, SoundKeeps
<1>3. equations = E /\ Sound(E, J) => EntriesRight(J)
  BY SoundEntries
<1> QED
  BY <1>1, <1>2, <1>3, TypedAlways, PTL DEF Spec

=============================================================================
