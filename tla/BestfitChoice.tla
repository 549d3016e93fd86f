--------------------------- MODULE BestfitChoice ---------------------------
(***************************************************************************)
(* The choice between the definitions of a variable whose guards fit       *)
(* (libs/bestfit.cpp): guards are compiled, evaluated in the context into  *)
(* regions, and the definition whose region is included in all others is   *)
(* evaluated.  With the cache the choice is made from the dimensions known *)
(* so far, and answers with those it needs more.                           *)
(*                                                                         *)
(* All guards have priority 0 whatever their dimension "priority" says     *)
(* (CompiledEquationWS::priority), so the loop over priorities is one      *)
(* pass.                                                                   *)
(***************************************************************************)
EXTENDS Integers, Sequences, FiniteSets

CONSTANTS Dim,        \* dimensions of contexts
          Priority,   \* DIM_PRIORITY, not in Dim
          Time,       \* DIM_TIME, in Dim
          Ordinate,   \* values of dimensions: values of kind "int" and Special
          Variables   \* the sequences of definitions to choose from

(***************************************************************************)
(* A value has a kind and the integers it stands for.                      *)
(* A definition is [provenance, guarded, entries, boolean], an entry is    *)
(* [dim, spec, value], and dim, value and boolean are operands             *)
(* [from, gives]: what the expression gives for the ordinate of the        *)
(* dimension it depends on, or a constant if that is NoDim.                *)
(***************************************************************************)
Special == [kind |-> "special", set |-> {}]
IntValue(v) == [kind |-> "int", set |-> {v}]
NoDim == "none"

Undecided == 0
Undef == -1
Multidef == -2

VARIABLES equations,  \* m_equations
          k,          \* the context
          known,      \* the dimensions of delta
          choice      \* the definition chosen, Undef, Multidef, or Undecided

choiceVars == <<equations, k, known, choice>>

(***************************************************************************)
(* Guards                                                                  *)
(***************************************************************************)
ValueIn(op, c) == op.gives[IF op.from = NoDim THEN Special ELSE c[op.from]]

\* Mutant: dimensions are demanded again
MissingAgain(op, delta) == {op.from} \ {NoDim}

Missing(op, delta) == {op.from} \ (delta \cup {NoDim})

\* Guards are compiled in a context that has only the time, 0
CompileContext == [d \in Dim |-> IF d = Time THEN IntValue(0) ELSE Special]

\* Operands that give a value there are constant from then on
Frozen(op, nothing) ==
  LET v == ValueIn(op, CompileContext)
  IN  IF v = nothing THEN op ELSE [from |-> NoDim, gives |-> [o \in Ordinate |-> v]]

FrozenEntry(e) ==
  [dim |-> Frozen(e.dim, NoDim), spec |-> e.spec, value |-> Frozen(e.value, Special)]

SetsPriority(e) ==
  e.dim.from = NoDim /\ e.dim.gives[Special] = Priority /\ e.value.from = NoDim

Compiled(def) ==
  LET frozen == {FrozenEntry(def.entries[i]) : i \in DOMAIN def.entries}
  IN  [provenance |-> def.provenance, boolean |-> def.boolean,
       entries |-> {e \in frozen : ~SetsPriority(e)},
       guardPriority |-> {e.value.gives[Special] : e \in {f \in frozen : SetsPriority(f)}}]

\* Entries whose dimension is not known yet are not special, those with none are
Nonspecial(def, c, delta) ==
  \A e \in def.entries : Missing(e.dim, delta) = {} => ValueIn(e.dim, c) # NoDim

GuardDemands(def, delta) ==
  UNION {Missing(e.dim, delta) \cup Missing(e.value, delta) : e \in def.entries}

\* Constant entries are inserted before those with a constant dimension, and these
\* before the others; a dimension that is there is not inserted again
Rank(e) ==
  IF e.dim.from = NoDim THEN IF e.value.from = NoDim THEN 1 ELSE 2
  ELSE IF e.value.from = NoDim THEN 3 ELSE 4

RegionOf(def, c) ==
  {[dim |-> ValueIn(e.dim, c), spec |-> e.spec, value |-> ValueIn(e.value, c)] :
     e \in {f \in def.entries :
              \A g \in def.entries : ValueIn(g.dim, c) = ValueIn(f.dim, c) => Rank(f) <= Rank(g)}}

(***************************************************************************)
(* Definitions are in the order of their provenance, the instant they were *)
(* declared in.  Guards with two entries of one rank for the same          *)
(* dimension are left aside: which of them is inserted first is, for some  *)
(* ranks, the order of the addresses of their workshops.                   *)
(***************************************************************************)
ASSUME ChoiceAssumption ==
  /\ Time \in Dim /\ NoDim \notin Dim
  /\ \A v \in Variables :
       /\ Len(v) \in Nat /\ DOMAIN v = 1..Len(v)
       /\ \A i, j \in DOMAIN v : i <= j => v[i].provenance <= v[j].provenance
       /\ \A i \in DOMAIN v :
            LET def == Compiled(v[i])
            IN  /\ v[i].provenance \in Nat
                /\ {def.boolean.from} \cup {e.dim.from : e \in def.entries}
                     \cup {e.value.from : e \in def.entries} \subseteq Dim \cup {NoDim}
                /\ \A c \in [Dim -> Ordinate], e, f \in def.entries :
                     /\ ValueIn(e.value, c) = [kind |-> ValueIn(e.value, c).kind,
                                               set |-> ValueIn(e.value, c).set]
                     /\ Rank(e) = Rank(f) /\ ValueIn(e.dim, c) = ValueIn(f.dim, c) => e = f

(***************************************************************************)
(* Regions                                                                 *)
(***************************************************************************)
\* An integer or a range in a range, a value of a type in it, or equal
ValueRefines(a, b) ==
  \/ b.kind \in {"special", "int"} /\ a = b
  \/ b.kind = "range" /\ a.kind \in {"int", "range"} /\ a.set \subseteq b.set
  \/ b.kind = "type" /\ (a = b \/ a.kind = "int")

ValueInside(a, spec, b) ==
  \/ spec = "in" /\ ValueRefines(a, b)
  \/ spec = "is" /\ a = b
  \/ spec = "imp" /\ b.kind = "type" /\ a.kind = "int"

ValueSmaller(a, spec, b) ==
  IF spec = "in" THEN ValueRefines(a, b) ELSE a = b

RegionApplicable(r, c) == \A x \in r : ValueInside(c[x.dim], x.spec, x.value)

\* Mutant: any two different specifiers are let pass
RegionSubsetLax(a, b) ==
  \A y \in b : \E x \in a :
    x.dim = y.dim /\ (x.spec = y.spec => ValueSmaller(x.value, x.spec, y.value))

\* With canequal, as the choice calls it: every dimension of b is one of a
RegionSubset(a, b) ==
  \A y \in b : \E x \in a :
    /\ x.dim = y.dim
    /\ IF x.spec = y.spec THEN ValueSmaller(x.value, x.spec, y.value)
       ELSE x.spec = "is" /\ y.spec \in {"in", "imp"}

(***************************************************************************)
(* The choice                                                              *)
(***************************************************************************)
BooleanTrue(def, c) == ValueIn(def.boolean, c) = TRUE

Fits(def, c) ==
  /\ Nonspecial(def, c, Dim)
  /\ RegionApplicable(RegionOf(def, c), c)
  /\ BooleanTrue(def, c)

Newest(eqns, best) ==
  {i \in best : \A j \in best : eqns[j].provenance <= eqns[i].provenance}

Chosen(eqns, fitting, c) ==
  LET best == {i \in fitting : \A j \in fitting \ {i} :
                 RegionSubset(RegionOf(eqns[i], c), RegionOf(eqns[j], c))}
      latest == Newest(eqns, best)
  IN  IF best = {} THEN Undef
      ELSE IF Cardinality(latest) = 1
      THEN CHOOSE i \in latest : TRUE
      ELSE Multidef

\* ConditionalBestfitWS::operator()(k)
Evaluated(eqns, c) == Chosen(eqns, {i \in DOMAIN eqns : Fits(eqns[i], c)}, c)

\* With a delta: the guards that are not given up as special ...
Potential(eqns, c, delta) == {i \in DOMAIN eqns : Nonspecial(eqns[i], c, delta)}

\* ... need the dimensions of their operands ...
OperandDemands(eqns, c, delta) ==
  UNION {GuardDemands(eqns[i], delta) : i \in Potential(eqns, c, delta)}

\* ... and then those of their regions, and of the boolean if the region fits
Dims(r) == {x.dim : x \in r}

\* Mutant: the dimensions of regions are not asked for
FitDemandsOperandsOnly(eqns, c, delta) ==
  UNION {IF RegionApplicable(RegionOf(eqns[i], c), c)
         THEN Missing(eqns[i].boolean, delta) ELSE {} :
         i \in Potential(eqns, c, delta)}

FitDemands(eqns, c, delta) ==
  UNION {LET r == RegionOf(eqns[i], c)
         IN  IF ~(Dims(r) \subseteq delta) THEN Dims(r) \ delta
             ELSE IF RegionApplicable(r, c) THEN Missing(eqns[i].boolean, delta) ELSE {} :
         i \in Potential(eqns, c, delta)}

\* The definition to evaluate, or the dimensions that are demanded
Demand ==
  LET operands == OperandDemands(equations, k, known)
  IN  IF operands # {} THEN operands ELSE FitDemands(equations, k, known)

AnswerDemand ==
  /\ choice = Undecided /\ Demand # {}
  /\ known' = known \cup Demand
  /\ UNCHANGED <<equations, k, choice>>

ChooseDefinition ==
  /\ choice = Undecided /\ Demand = {}
  /\ choice' = Evaluated(equations, k)
  /\ UNCHANGED <<equations, k, known>>

InitChoice ==
  /\ \E v \in Variables : equations = [i \in DOMAIN v |-> Compiled(v[i])]
  /\ k \in [Dim -> Ordinate]
  /\ known = {}
  /\ choice = Undecided

NextChoice == AnswerDemand \/ ChooseDefinition

SpecChoice == InitChoice /\ [][NextChoice]_choiceVars

(***************************************************************************)
(* Properties                                                              *)
(***************************************************************************)
Fitting == {i \in DOMAIN equations : Fits(equations[i], k)}

Covers(i) ==
  LET r == RegionOf(equations[i], k)
  IN  {c \in [Dim -> Ordinate] : RegionApplicable(r, c)}

SameRegion(i, j) == RegionOf(equations[i], k) = RegionOf(equations[j], k)

Point(i) ==
  LET r == RegionOf(equations[i], k)
  IN  /\ \A x \in r : x.spec = "is"
      /\ \A j \in Fitting : Dims(RegionOf(equations[j], k)) \subseteq Dims(r)

\* The definition chosen fits, in a region no larger than that of any other that
\* fits, and is newer than any other of the same region; no definition is chosen
\* only if there is none that fits, none is a point, or two are of one instant.
ChoiceIsBest ==
  /\ choice \in DOMAIN equations =>
       /\ choice \in Fitting
       /\ \A j \in Fitting \ {choice} :
            /\ Covers(choice) \subseteq Covers(j)
            /\ SameRegion(choice, j) =>
                 equations[j].provenance < equations[choice].provenance
  /\ choice = Undef => \A i \in Fitting : ~Point(i)
  /\ choice = Multidef =>
       \E i, j \in Fitting :
         i # j /\ SameRegion(i, j) /\ equations[i].provenance = equations[j].provenance

\* The choice made with the dimensions that were asked for is that of every context
\* which agrees on them, so the cache may keep what it leads to under them.
ChoiceIsKnown ==
  choice # Undecided =>
    \A c \in [Dim -> Ordinate] :
      (\A d \in known : c[d] = k[d]) => Evaluated(equations, c) = choice

\* A demand is never for what is known: asking again always gets further.
DemandsEnd == <>(choice # Undecided)
=============================================================================
