------------------------ MODULE BestfitChoiceProofs ------------------------
(***************************************************************************)
(* The choice between the definitions of a variable, for any definitions   *)
(* over any dimensions: the one chosen is the best, and it is the choice   *)
(* of every context that agrees on the dimensions that were asked for.     *)
(***************************************************************************)
EXTENDS BestfitChoice, TLAPS, FiniteSetTheorems, WellFoundedInduction

Context == [Dim -> Ordinate]

\* What ChoiceAssumption says of the definitions, once they are compiled
IsOperand(op) == op.from \in Dim \cup {NoDim}

IsValue(v) == v = [kind |-> v.kind, set |-> v.set]

IsDefinition(def) ==
  /\ def.provenance \in Nat /\ IsOperand(def.boolean)
  /\ \A e \in def.entries : IsOperand(e.dim) /\ IsOperand(e.value)
  /\ \A c \in Context, e \in def.entries : IsValue(ValueIn(e.value, c))
  /\ \A c \in Context, e, f \in def.entries :
       Rank(e) = Rank(f) /\ ValueIn(e.dim, c) = ValueIn(f.dim, c) => e = f

AreDefinitions(eqns) ==
  /\ Len(eqns) \in Nat /\ DOMAIN eqns = 1..Len(eqns)
  /\ \A i \in DOMAIN eqns : IsDefinition(eqns[i])
  /\ \A i, j \in DOMAIN eqns : i <= j => eqns[i].provenance <= eqns[j].provenance

(***************************************************************************)
(* Regions                                                                 *)
(***************************************************************************)
\* A region gives a dimension one specifier and one value
IsRegion(r) ==
  /\ \A x \in r : IsValue(x.value) /\ x = [dim |-> x.dim, spec |-> x.spec, value |-> x.value]
  /\ \A x, y \in r : x.dim = y.dim => x = y

LEMMA RegionIsRegion ==
  ASSUME NEW def, IsDefinition(def), NEW c \in Context
  PROVE  IsRegion(RegionOf(def, c))
<1> DEFINE Of(e) == [dim |-> ValueIn(e.dim, c), spec |-> e.spec, value |-> ValueIn(e.value, c)]
           Inserted == {f \in def.entries : \A g \in def.entries :
                          ValueIn(g.dim, c) = ValueIn(f.dim, c) => Rank(f) <= Rank(g)}
<1>1. RegionOf(def, c) = {Of(e) : e \in Inserted}
  BY DEF RegionOf
<1>2. ASSUME NEW e \in Inserted, NEW f \in Inserted, Of(e).dim = Of(f).dim
      PROVE  e = f
  <2>1. Rank(e) \in Nat /\ Rank(f) \in Nat
    BY DEF Rank
  <2>2. ValueIn(e.dim, c) = ValueIn(f.dim, c)
    BY <1>2
  <2>3. Rank(e) <= Rank(f) /\ Rank(f) <= Rank(e)
    BY <2>2
  <2>4. Rank(e) = Rank(f)
    BY <2>1, <2>3
  <2> QED
    BY <2>2, <2>4 DEF IsDefinition
<1>3. ASSUME NEW e \in Inserted
      PROVE  IsValue(Of(e).value)
  BY DEF IsDefinition
<1>4. ASSUME NEW e
      PROVE  Of(e) = [dim |-> Of(e).dim, spec |-> Of(e).spec, value |-> Of(e).value]
  OBVIOUS
<1> HIDE DEF Of, Inserted
<1> QED
  BY <1>1, <1>2, <1>3, <1>4 DEF IsRegion

\* What "in" means is an order on the values that occur
LEMMA RefinesTransitive ==
  ASSUME NEW a, NEW b, NEW c, ValueRefines(a, b), ValueRefines(b, c)
  PROVE  ValueRefines(a, c)
BY DEF ValueRefines

LEMMA RefinesAntisymmetric ==
  ASSUME NEW a, NEW b, IsValue(a), IsValue(b), ValueRefines(a, b), ValueRefines(b, a)
  PROVE  a = b
<1>1. CASE b.kind = "range" /\ a.kind = "range"
  <2>1. a.set = b.set
    BY <1>1 DEF ValueRefines
  <2>2. a.kind = b.kind
    BY <1>1
  <2> QED
    BY <2>1, <2>2 DEF IsValue
<1>2. CASE ~(b.kind = "range" /\ a.kind = "range")
  BY <1>2 DEF ValueRefines
<1> QED
  BY <1>1, <1>2

LEMMA RefinesReflexive ==
  ASSUME NEW a, NEW b, ValueRefines(a, b)
  PROVE  ValueRefines(b, b)
BY DEF ValueRefines

\* A value inside the smaller of two is inside the larger
LEMMA InsideSmaller ==
  ASSUME NEW v, NEW spec, NEW a, NEW b, ValueInside(v, spec, a), ValueSmaller(a, spec, b)
  PROVE  ValueInside(v, spec, b)
BY RefinesTransitive DEF ValueInside, ValueSmaller

\* What is in a region is in every region it is included in, given one context
\* that both have in them
LEMMA SubsetCovers ==
  ASSUME NEW a, NEW b, NEW c, NEW k0, RegionSubset(a, b),
         RegionApplicable(a, k0), RegionApplicable(b, k0), RegionApplicable(a, c)
  PROVE  RegionApplicable(b, c)
<1> SUFFICES ASSUME NEW y \in b
             PROVE  ValueInside(c[y.dim], y.spec, y.value)
  BY DEF RegionApplicable
<1>1. PICK x \in a : /\ x.dim = y.dim
                     /\ IF x.spec = y.spec THEN ValueSmaller(x.value, x.spec, y.value)
                        ELSE x.spec = "is" /\ y.spec \in {"in", "imp"}
  BY DEF RegionSubset
<1>2. /\ ValueInside(c[x.dim], x.spec, x.value)
      /\ ValueInside(k0[x.dim], x.spec, x.value)
      /\ ValueInside(k0[y.dim], y.spec, y.value)
  BY DEF RegionApplicable
<1>3. CASE x.spec = y.spec
  BY <1>1, <1>2, <1>3, InsideSmaller
<1>4. CASE x.spec # y.spec
  <2>1. c[x.dim] = x.value /\ k0[x.dim] = x.value
    BY <1>1, <1>2, <1>4 DEF ValueInside
  <2> QED
    BY <1>1, <1>2, <2>1
<1> QED
  BY <1>3, <1>4

\* Inclusion of regions that fit is reflexive and antisymmetric
LEMMA SubsetReflexive ==
  ASSUME NEW a, NEW c, RegionApplicable(a, c)
  PROVE  RegionSubset(a, a)
<1>1. ASSUME NEW y \in a
      PROVE  ValueSmaller(y.value, y.spec, y.value)
  <2>1. ValueInside(c[y.dim], y.spec, y.value)
    BY DEF RegionApplicable
  <2> QED
    BY <2>1, RefinesReflexive DEF ValueInside, ValueSmaller
<1> QED
  BY <1>1 DEF RegionSubset

LEMMA SubsetBothWays ==
  ASSUME NEW a, NEW b, IsRegion(a), IsRegion(b), RegionSubset(a, b), RegionSubset(b, a)
  PROVE  a = b
<1>1. ASSUME NEW r, NEW s, IsRegion(r), IsRegion(s), RegionSubset(r, s), RegionSubset(s, r),
             NEW y \in s
      PROVE  y \in r
  <2>1. PICK x \in r : /\ x.dim = y.dim
                       /\ IF x.spec = y.spec THEN ValueSmaller(x.value, x.spec, y.value)
                          ELSE x.spec = "is" /\ y.spec \in {"in", "imp"}
    BY <1>1 DEF RegionSubset
  <2>2. PICK z \in s : /\ z.dim = x.dim
                       /\ IF z.spec = x.spec THEN ValueSmaller(z.value, z.spec, x.value)
                          ELSE z.spec = "is" /\ x.spec \in {"in", "imp"}
    BY <1>1 DEF RegionSubset
  <2>3. z = y
    BY <1>1, <2>1, <2>2 DEF IsRegion
  <2>4. x.spec = y.spec
    BY <2>1, <2>2, <2>3
  <2>5. ValueSmaller(x.value, x.spec, y.value) /\ ValueSmaller(y.value, x.spec, x.value)
    BY <2>1, <2>2, <2>3, <2>4
  <2>6. IsValue(x.value) /\ IsValue(y.value)
    BY <1>1 DEF IsRegion
  <2>7. x.value = y.value
    BY <2>5, <2>6, RefinesAntisymmetric DEF ValueSmaller
  <2>8. /\ x = [dim |-> x.dim, spec |-> x.spec, value |-> x.value]
        /\ y = [dim |-> y.dim, spec |-> y.spec, value |-> y.value]
    BY <1>1 DEF IsRegion
  <2> QED
    BY <2>1, <2>4, <2>7, <2>8
<1> QED
  BY <1>1

(***************************************************************************)
(* The choice                                                              *)
(***************************************************************************)
Best(eqns, fitting, c) ==
  {i \in fitting : \A j \in fitting \ {i} :
     RegionSubset(RegionOf(eqns[i], c), RegionOf(eqns[j], c))}

LEMMA LeastOfNat ==
  ASSUME NEW S \in SUBSET Nat, S # {}
  PROVE  \E n \in S : \A m \in S : n <= m
<1>1. PICK n \in S : \A m \in S : ~(<<m, n>> \in OpToRel(<, Nat))
  BY NatLessThanWellFounded, WFMin, Zenon
<1>2. \A m \in S : ~(m < n)
  BY <1>1 DEF OpToRel
<1> QED
  BY <1>2

\* The best are in the order of their provenance: the last of them is as new as any
LEMMA NewestThere ==
  ASSUME NEW eqns, AreDefinitions(eqns), NEW best \in SUBSET DOMAIN eqns, best # {}
  PROVE  Newest(eqns, best) # {}
<1> DEFINE n == Len(eqns)
           places == {m \in Nat : n - m \in best}
<1>1. n \in Nat /\ best \subseteq 1..n
  BY DEF AreDefinitions
<1>2. places # {} /\ places \subseteq Nat
  <2>1. PICK i \in best : TRUE
    OBVIOUS
  <2>2. n - i \in Nat /\ n - (n - i) = i
    BY <1>1
  <2> QED
    BY <2>2
<1>3. PICK m \in places : \A l \in places : m <= l
  <2> HIDE DEF places
  <2> QED
    BY <1>2, LeastOfNat
<1>4. n - m \in best /\ m \in Nat
  OBVIOUS
<1>5. ASSUME NEW j \in best
      PROVE  eqns[j].provenance <= eqns[n - m].provenance
  <2>1. n - j \in Nat /\ n - (n - j) = j /\ j \in 1..n
    BY <1>1
  <2>2. n - j \in places
    BY <2>1
  <2>3. m <= n - j
    BY <1>3, <2>2
  <2>4. j <= n - m
    BY <1>1, <1>4, <2>1, <2>3
  <2> QED
    BY <1>4, <2>4 DEF AreDefinitions
<1> QED
  BY <1>4, <1>5 DEF Newest

\* What the choice gives
LEMMA ChosenIs ==
  ASSUME NEW eqns, AreDefinitions(eqns), NEW fitting \in SUBSET DOMAIN eqns, NEW c
  PROVE  LET best == Best(eqns, fitting, c)
             ch == Chosen(eqns, fitting, c)
         IN  \/ best = {} /\ ch = Undef
             \/ ch \in DOMAIN eqns /\ Newest(eqns, best) = {ch} /\ ch \in best
             \/ /\ ch = Multidef
                /\ \E i, j \in best : i # j /\ eqns[i].provenance = eqns[j].provenance
<1> DEFINE best == Best(eqns, fitting, c)
           latest == Newest(eqns, best)
           ch == Chosen(eqns, fitting, c)
<1>1. ch = IF best = {} THEN Undef
           ELSE IF Cardinality(latest) = 1 THEN CHOOSE i \in latest : TRUE ELSE Multidef
  BY DEF Chosen, Best
<1>2. best \subseteq DOMAIN eqns /\ latest \subseteq best
  BY DEF Best, Newest
<1>3. CASE best = {}
  BY <1>1, <1>3
<1>4. CASE best # {}
  <2>1. latest # {}
    <3> HIDE DEF best
    <3> QED
      BY <1>2, <1>4, NewestThere
  <2>2. IsFiniteSet(latest)
    <3>1. IsFiniteSet(1..Len(eqns)) /\ latest \subseteq 1..Len(eqns)
      BY <1>2, FS_Interval DEF AreDefinitions
    <3> QED
      BY <3>1, FS_Subset
  <2>3. CASE Cardinality(latest) = 1
    <3>1. PICK i : latest = {i}
      <4> HIDE DEF latest
      <4> QED
        BY <2>2, <2>3, FS_Singleton
    <3>2. ch = i
      BY <1>1, <1>4, <2>3, <3>1
    <3> QED
      BY <1>2, <3>1, <3>2
  <2>4. CASE Cardinality(latest) # 1
    <3>1. PICK i \in latest : TRUE
      BY <2>1
    <3>2. latest # {i}
      BY <2>4, FS_Singleton
    <3>3. PICK j \in latest : j # i
      BY <3>1, <3>2
    <3>4. /\ eqns[i].provenance \in Nat /\ eqns[j].provenance \in Nat
          /\ i \in best /\ j \in best
      BY <1>2 DEF AreDefinitions, IsDefinition
    <3>5. eqns[i].provenance <= eqns[j].provenance /\ eqns[j].provenance <= eqns[i].provenance
      BY <3>1, <3>3, <3>4 DEF Newest
    <3>6. eqns[i].provenance = eqns[j].provenance
      BY <3>4, <3>5
    <3> QED
      BY <1>1, <1>4, <2>4, <3>3, <3>4, <3>6
  <2> QED
    BY <2>3, <2>4
<1> QED
  BY <1>3, <1>4

FittingIn(eqns, c) == {i \in DOMAIN eqns : Fits(eqns[i], c)}

LEMMA EvaluatedIs ==
  ASSUME NEW eqns, NEW c
  PROVE  Evaluated(eqns, c) = Chosen(eqns, FittingIn(eqns, c), c)
BY DEF Evaluated, FittingIn

\* One whose region fits at the point where all that fit have their dimensions is
\* included in all of them
LEMMA PointIsBest ==
  ASSUME AreDefinitions(equations), k \in Context, NEW i \in Fitting, Point(i)
  PROVE  i \in Best(equations, Fitting, k)
<1> DEFINE R(j) == RegionOf(equations[j], k)
<1>1. ASSUME NEW j \in Fitting
      PROVE  RegionSubset(R(i), R(j))
  <2>1. RegionApplicable(R(i), k) /\ RegionApplicable(R(j), k)
    BY DEF Fitting, Fits
  <2>2. ASSUME NEW y \in R(j)
        PROVE  \E x \in R(i) :
                 /\ x.dim = y.dim
                 /\ IF x.spec = y.spec THEN ValueSmaller(x.value, x.spec, y.value)
                    ELSE x.spec = "is" /\ y.spec \in {"in", "imp"}
    <3>1. y.dim \in Dims(R(i))
      BY DEF Point, Dims
    <3>2. PICK x \in R(i) : x.dim = y.dim
      BY <3>1 DEF Dims
    <3>3. x.spec = "is"
      BY DEF Point
    <3>4. ValueInside(k[x.dim], x.spec, x.value) /\ ValueInside(k[y.dim], y.spec, y.value)
      BY <2>1 DEF RegionApplicable
    <3> QED
      BY <3>2, <3>3, <3>4 DEF ValueInside, ValueSmaller
  <2> QED
    BY <2>2 DEF RegionSubset
<1> QED
  BY <1>1 DEF Best

LEMMA EvaluatedIsBest ==
  ASSUME AreDefinitions(equations), k \in Context, choice = Evaluated(equations, k)
  PROVE  ChoiceIsBest
<1> DEFINE best == Best(equations, Fitting, k)
           R(i) == RegionOf(equations[i], k)
<1>1. Fitting \subseteq DOMAIN equations /\ best \subseteq Fitting
  BY DEF Fitting, Best
<1>2. \A i \in Fitting : RegionApplicable(R(i), k) /\ IsRegion(R(i))
  BY RegionIsRegion DEF Fitting, Fits, AreDefinitions
<1>3. \A i \in best, j \in Fitting : i # j => RegionSubset(R(i), R(j))
  BY DEF Best
<1>4. \/ best = {} /\ choice = Undef
      \/ choice \in DOMAIN equations /\ Newest(equations, best) = {choice} /\ choice \in best
      \/ /\ choice = Multidef
         /\ \E i, j \in best : i # j /\ equations[i].provenance = equations[j].provenance
  <2>1. choice = Chosen(equations, Fitting, k)
    BY EvaluatedIs DEF Fitting, FittingIn
  <2> QED
    BY <1>1, <2>1, ChosenIs
<1>5. DOMAIN equations = 1..Len(equations) /\ Len(equations) \in Nat
  BY DEF AreDefinitions
<1>6. Undef \notin DOMAIN equations /\ Multidef \notin DOMAIN equations /\ Undef # Multidef
  BY <1>5 DEF Undef, Multidef
<1> HIDE DEF best, R
<1>7. ASSUME choice \in DOMAIN equations, NEW j \in Fitting \ {choice}
      PROVE  /\ Covers(choice) \subseteq Covers(j)
             /\ SameRegion(choice, j) =>
                  equations[j].provenance < equations[choice].provenance
  <2>1. choice \in best /\ choice \in Fitting /\ Newest(equations, best) = {choice}
    BY <1>1, <1>4, <1>6, <1>7
  <2>2. Covers(choice) \subseteq Covers(j)
    <3>1. RegionSubset(R(choice), R(j))
      BY <1>3, <1>7, <2>1
    <3>2. \A c : RegionApplicable(R(choice), c) => RegionApplicable(R(j), c)
      BY <1>2, <1>7, <2>1, <3>1, SubsetCovers
    <3> QED
      BY <3>2 DEF Covers, R
  <2>3. ASSUME R(choice) = R(j)
        PROVE  equations[j].provenance < equations[choice].provenance
    <3>1. ASSUME NEW l \in Fitting
          PROVE  RegionSubset(R(j), R(l))
      <4>1. CASE l = choice
        BY <1>2, <2>1, <2>3, <4>1, SubsetReflexive
      <4>2. CASE l # choice
        BY <1>3, <2>1, <2>3, <4>2
      <4> QED
        BY <4>1, <4>2
    <3>2. j \in best
      BY <1>7, <3>1 DEF best, R, Best
    <3>3. j \notin Newest(equations, best)
      BY <1>7, <2>1
    <3>4. PICK l \in best : ~(equations[l].provenance <= equations[j].provenance)
      BY <3>2, <3>3 DEF Newest
    <3>5. equations[l].provenance <= equations[choice].provenance
      BY <2>1, <3>4 DEF Newest
    <3>6. /\ equations[l].provenance \in Nat /\ equations[j].provenance \in Nat
          /\ equations[choice].provenance \in Nat
      BY <1>1, <1>7, <2>1 DEF AreDefinitions, IsDefinition
    <3> QED
      BY <3>4, <3>5, <3>6
  <2> QED
    BY <2>2, <2>3 DEF SameRegion, R
<1>8. ASSUME choice = Undef, NEW i \in Fitting
      PROVE  ~Point(i)
  BY <1>4, <1>6, <1>8, PointIsBest DEF best
<1>9. ASSUME choice = Multidef
      PROVE  \E i, j \in Fitting :
               i # j /\ SameRegion(i, j) /\ equations[i].provenance = equations[j].provenance
  <2>1. PICK i \in best, j \in best :
          i # j /\ equations[i].provenance = equations[j].provenance
    BY <1>4, <1>6, <1>9
  <2>2. R(i) = R(j)
    BY <1>1, <1>2, <1>3, <2>1, SubsetBothWays
  <2> QED
    BY <1>1, <2>1, <2>2 DEF SameRegion, R
<1>10. choice \in DOMAIN equations => choice \in Fitting
  BY <1>1, <1>4, <1>6
<1> QED
  BY <1>7, <1>8, <1>9, <1>10 DEF ChoiceIsBest

(***************************************************************************)
(* The dimensions that were asked for                                      *)
(***************************************************************************)
\* Contexts that agree on the dimensions known
Agreed(c) == c \in Context /\ \A d \in known : c[d] = k[d]

LEMMA KnownValue ==
  ASSUME NEW op, NEW c, Agreed(c), Missing(op, known) = {}
  PROVE  ValueIn(op, c) = ValueIn(op, k)
<1>1. op.from = NoDim \/ op.from \in known
  BY DEF Missing
<1> QED
  BY <1>1 DEF ValueIn, Agreed

\* A guard that is given up as special is special in every such context
LEMMA SpecialStays ==
  ASSUME NEW def, IsDefinition(def), NEW c, Agreed(c), ~Nonspecial(def, k, known)
  PROVE  ~Nonspecial(def, c, Dim)
<1>1. PICK e \in def.entries : Missing(e.dim, known) = {} /\ ValueIn(e.dim, k) = NoDim
  BY DEF Nonspecial
<1>2. ValueIn(e.dim, c) = NoDim
  BY <1>1, KnownValue
<1>3. Missing(e.dim, Dim) = {}
  BY DEF IsDefinition, IsOperand, Missing
<1> QED
  BY <1>2, <1>3 DEF Nonspecial

\* One that is not, and whose operands are known, has the same region in them
LEMMA RegionStays ==
  ASSUME NEW def, IsDefinition(def), NEW c, Agreed(c), GuardDemands(def, known) = {}
  PROVE  /\ RegionOf(def, c) = RegionOf(def, k)
         /\ Nonspecial(def, c, Dim) <=> Nonspecial(def, k, Dim)
<1>1. ASSUME NEW e \in def.entries
      PROVE  /\ ValueIn(e.dim, c) = ValueIn(e.dim, k)
             /\ ValueIn(e.value, c) = ValueIn(e.value, k)
  <2>1. Missing(e.dim, known) = {} /\ Missing(e.value, known) = {}
    BY DEF GuardDemands
  <2> QED
    BY <2>1, KnownValue
<1>2. Nonspecial(def, c, Dim) <=> Nonspecial(def, k, Dim)
  BY <1>1 DEF Nonspecial
<1> DEFINE Of(e, x) == [dim |-> ValueIn(e.dim, x), spec |-> e.spec, value |-> ValueIn(e.value, x)]
           Inserted(x) == {f \in def.entries : \A g \in def.entries :
                             ValueIn(g.dim, x) = ValueIn(f.dim, x) => Rank(f) <= Rank(g)}
<1>3. Inserted(c) = Inserted(k)
  BY <1>1
<1>4. \A e \in def.entries : Of(e, c) = Of(e, k)
  BY <1>1
<1>5. Inserted(k) \subseteq def.entries
  OBVIOUS
<1>6. RegionOf(def, c) = {Of(e, c) : e \in Inserted(c)}
      /\ RegionOf(def, k) = {Of(e, k) : e \in Inserted(k)}
  BY DEF RegionOf
<1> HIDE DEF Of, Inserted
<1>7. RegionOf(def, c) = RegionOf(def, k)
  BY <1>3, <1>4, <1>5, <1>6
<1> QED
  BY <1>2, <1>7

\* And it fits in them if it fits in this one
LEMMA FitStays ==
  ASSUME AreDefinitions(equations), NEW i \in DOMAIN equations, NEW c, Agreed(c), k \in Context,
         Demand = {}
  PROVE  /\ Fits(equations[i], c) <=> Fits(equations[i], k)
         /\ Fits(equations[i], k) =>
              RegionOf(equations[i], c) = RegionOf(equations[i], k)
<1> DEFINE def == equations[i]
           r == RegionOf(def, k)
<1>1. IsDefinition(def) /\ Agreed(k)
  BY DEF AreDefinitions, Agreed
<1>2. OperandDemands(equations, k, known) = {} /\ FitDemands(equations, k, known) = {}
  BY DEF Demand
<1>3. CASE ~Nonspecial(def, k, known)
  BY <1>1, <1>3, SpecialStays DEF Fits
<1>4. CASE Nonspecial(def, k, known)
  <2>1. i \in Potential(equations, k, known)
    BY <1>4 DEF Potential
  <2>2. GuardDemands(def, known) = {}
    BY <1>2, <2>1 DEF OperandDemands
  <2>3. /\ RegionOf(def, c) = r
        /\ Nonspecial(def, c, Dim) <=> Nonspecial(def, k, Dim)
    BY <1>1, <2>2, RegionStays
  <2>4. (IF ~(Dims(r) \subseteq known) THEN Dims(r) \ known
         ELSE IF RegionApplicable(r, k) THEN Missing(def.boolean, known) ELSE {}) = {}
    <3> DEFINE Needs(j) == LET s == RegionOf(equations[j], k)
                           IN  IF ~(Dims(s) \subseteq known) THEN Dims(s) \ known
                               ELSE IF RegionApplicable(s, k)
                               THEN Missing(equations[j].boolean, known) ELSE {}
    <3>1. FitDemands(equations, k, known) = UNION {Needs(j) : j \in Potential(equations, k, known)}
      BY DEF FitDemands
    <3> HIDE DEF Needs
    <3>2. Needs(i) = {}
      BY <1>2, <2>1, <3>1
    <3> QED
      BY <3>2 DEF Needs
  <2>5. Dims(r) \subseteq known
    BY <2>4
  <2>6. RegionApplicable(r, c) <=> RegionApplicable(r, k)
    <3>1. \A x \in r : c[x.dim] = k[x.dim]
      BY <2>5 DEF Dims, Agreed
    <3> QED
      BY <3>1 DEF RegionApplicable
  <2>7. RegionApplicable(r, k) => (BooleanTrue(def, c) <=> BooleanTrue(def, k))
    <3>1. ASSUME RegionApplicable(r, k)
          PROVE  ValueIn(def.boolean, c) = ValueIn(def.boolean, k)
      BY <2>4, <2>5, <3>1, KnownValue
    <3> QED
      BY <3>1 DEF BooleanTrue
  <2> QED
    BY <2>3, <2>6, <2>7 DEF Fits
<1> QED
  BY <1>3, <1>4

LEMMA EvaluatedStays ==
  ASSUME AreDefinitions(equations), NEW c, Agreed(c), k \in Context, Demand = {}
  PROVE  Evaluated(equations, c) = Evaluated(equations, k)
<1> DEFINE fit == FittingIn(equations, k)
<1>1. FittingIn(equations, c) = fit
  BY FitStays DEF FittingIn
<1>2. \A i \in fit : RegionOf(equations[i], c) = RegionOf(equations[i], k)
  BY FitStays DEF FittingIn
<1> HIDE DEF fit
<1>3. Best(equations, fit, c) = Best(equations, fit, k)
  BY <1>2 DEF Best
<1>4. Chosen(equations, fit, c) = Chosen(equations, fit, k)
  <2>1. ASSUME NEW x
        PROVE  Chosen(equations, fit, x) =
                 LET best == Best(equations, fit, x)
                     latest == Newest(equations, best)
                 IN  IF best = {} THEN Undef
                     ELSE IF Cardinality(latest) = 1 THEN CHOOSE i \in latest : TRUE ELSE Multidef
    BY DEF Chosen, Best
  <2> QED
    BY <1>3, <2>1
<1> QED
  BY <1>1, <1>4, EvaluatedIs DEF fit

(***************************************************************************)
(* The inductive invariant                                                 *)
(***************************************************************************)
ChInv ==
  /\ AreDefinitions(equations)
  /\ k \in Context
  /\ choice # Undecided => Demand = {} /\ choice = Evaluated(equations, k)

LEMMA DefinitionsAre ==
  ASSUME NEW v \in Variables
  PROVE  AreDefinitions([i \in DOMAIN v |-> Compiled(v[i])])
<1> DEFINE eqns == [i \in DOMAIN v |-> Compiled(v[i])]
<1>1. Len(v) \in Nat /\ DOMAIN v = 1..Len(v)
  BY ChoiceAssumption
<1>2. DOMAIN eqns = 1..Len(v) /\ Len(eqns) = Len(v)
  BY <1>1
<1>3. ASSUME NEW i \in DOMAIN v
      PROVE  /\ eqns[i] = Compiled(v[i])
             /\ eqns[i].provenance = v[i].provenance
  BY DEF Compiled
<1>4. ASSUME NEW i \in DOMAIN v
      PROVE  IsDefinition(eqns[i])
  <2> DEFINE def == Compiled(v[i])
  <2>1. eqns[i] = def /\ def.provenance = v[i].provenance
    BY DEF Compiled
  <2>2. /\ v[i].provenance \in Nat
        /\ {def.boolean.from} \cup {e.dim.from : e \in def.entries}
             \cup {e.value.from : e \in def.entries} \subseteq Dim \cup {NoDim}
        /\ \A c \in [Dim -> Ordinate], e, f \in def.entries :
             /\ ValueIn(e.value, c) = [kind |-> ValueIn(e.value, c).kind,
                                       set |-> ValueIn(e.value, c).set]
             /\ Rank(e) = Rank(f) /\ ValueIn(e.dim, c) = ValueIn(f.dim, c) => e = f
    BY ChoiceAssumption
  <2> HIDE DEF def, eqns
  <2>3. IsOperand(def.boolean) /\ \A e \in def.entries : IsOperand(e.dim) /\ IsOperand(e.value)
    BY <2>2 DEF IsOperand
  <2>4. \A c \in Context, e \in def.entries : IsValue(ValueIn(e.value, c))
    BY <2>2 DEF IsValue, Context
  <2>5. \A c \in Context, e, f \in def.entries :
          Rank(e) = Rank(f) /\ ValueIn(e.dim, c) = ValueIn(f.dim, c) => e = f
    BY <2>2 DEF Context
  <2> QED
    BY <2>1, <2>2, <2>3, <2>4, <2>5 DEF IsDefinition
<1>5. \A i, j \in DOMAIN v : i <= j => v[i].provenance <= v[j].provenance
  BY ChoiceAssumption
<1> HIDE DEF eqns
<1>6. AreDefinitions(eqns)
  BY <1>1, <1>2, <1>3, <1>4, <1>5 DEF AreDefinitions
<1> QED
  BY <1>6 DEF eqns

LEMMA ChoiceInit == InitChoice => ChInv
<1> SUFFICES ASSUME InitChoice
             PROVE  ChInv
  OBVIOUS
<1>1. PICK v \in Variables : equations = [i \in DOMAIN v |-> Compiled(v[i])]
  BY DEF InitChoice
<1>2. AreDefinitions(equations)
  BY <1>1, DefinitionsAre
<1> QED
  BY <1>2 DEF InitChoice, ChInv, Context

LEMMA ChoiceStep == ChInv /\ [NextChoice]_choiceVars => ChInv'
<1> SUFFICES ASSUME ChInv, [NextChoice]_choiceVars
             PROVE  ChInv'
  OBVIOUS
<1>1. CASE AnswerDemand
  <2>1. choice' = Undecided /\ equations' = equations /\ k' = k
    BY <1>1 DEF AnswerDemand
  <2> QED
    BY <2>1 DEF ChInv
<1>2. CASE ChooseDefinition
  <2>1. /\ equations' = equations /\ k' = k /\ known' = known /\ Demand = {}
        /\ choice' = Evaluated(equations, k)
    BY <1>2 DEF ChooseDefinition
  <2>2. Demand' = {}
    BY <2>1 DEF Demand
  <2> QED
    BY <2>1, <2>2 DEF ChInv
<1>3. CASE UNCHANGED choiceVars
  <2>1. equations' = equations /\ k' = k /\ known' = known /\ choice' = choice
    BY <1>3 DEF choiceVars
  <2>2. Demand' = Demand
    BY <2>1 DEF Demand
  <2> QED
    BY <2>1, <2>2 DEF ChInv
<1> QED
  BY <1>1, <1>2, <1>3 DEF NextChoice

LEMMA ChoiceInvariant == SpecChoice => []ChInv
BY ChoiceInit, ChoiceStep, PTL DEF SpecChoice

(***************************************************************************)
(* Theorems                                                                *)
(***************************************************************************)
\* The definition a variable is evaluated by fits, in a region that every other
\* that fits includes, and is newer than those of the same region; there is none
\* only if no region is a point, and a conflict only between two of one region
\* and one instant
THEOREM BestIsChosen == SpecChoice => []ChoiceIsBest
<1>1. ChInv => ChoiceIsBest
  <2> SUFFICES ASSUME ChInv
               PROVE  ChoiceIsBest
    OBVIOUS
  <2>1. CASE choice = Undecided
    <3>1. choice \notin DOMAIN equations
      BY <2>1 DEF ChInv, AreDefinitions, Undecided
    <3> QED
      BY <2>1, <3>1 DEF ChoiceIsBest, Undecided, Undef, Multidef
  <2>2. CASE choice # Undecided
    BY <2>2, EvaluatedIsBest DEF ChInv
  <2> QED
    BY <2>1, <2>2
<1> QED
  BY <1>1, ChoiceInvariant, PTL

\* A choice made with a delta is that of every context which agrees on the
\* dimensions that were demanded for it: the cache of the variable may keep what
\* it leads to under those dimensions alone
THEOREM KnownIsEnough == SpecChoice => []ChoiceIsKnown
<1>1. ChInv => ChoiceIsKnown
  BY EvaluatedStays DEF ChInv, ChoiceIsKnown, Agreed, Context
<1> QED
  BY <1>1, ChoiceInvariant, PTL
=============================================================================
