-------------------------- MODULE ConstraintGraph --------------------------
(***************************************************************************)
(* The constraint graph of type inference: type variables with the         *)
(* variables below and above them, a lower and an upper bound, and         *)
(* conditional constraints, kept closed while constraints are added.       *)
(*                                                                         *)
(* The components of a function or an intension are sets of variables: a   *)
(* join or a meet of variables.  A graph has the variables its functions   *)
(* are defined on.                                                         *)
(***************************************************************************)
EXTENDS Naturals, Sequences, FiniteSets, FiniteSetsExt, SequencesExt

CONSTANTS TypeVar,         \* type variables, numbers
          Inputs,          \* constraints a program may add
          TypeOf,          \* the type of each constant
          MaxConstraints   \* bound: constraints added

VARIABLES g,       \* the graph
          added    \* the constraints added

graphVars == <<g, added>>

(***************************************************************************)
(* Types                                                                   *)
(***************************************************************************)
Type(kind, constants, atomics, arg, res) ==
  [kind |-> kind, constants |-> constants, atomics |-> atomics, arg |-> arg, res |-> res]
Bot == Type("bot", {}, {}, <<>>, {})
Top == Type("top", {}, {}, <<>>, {})
Con(c) == Type("constant", {c}, {}, <<>>, {})
Atom(T) == Type("atomic", {}, {T}, <<>>, {})
Union(C, A) == Type("union", C, A, <<>>, {})
CBV(V, W) == Type("cbv", {}, {}, <<V>>, W)
BaseFunction(Vs, W) == Type("base", {}, {}, Vs, W)
Intension(V) == Type("intension", {}, {}, <<>>, V)
Region == Type("region", {}, {}, <<>>, {})
Invalid == Type("invalid", {}, {}, <<>>, {})      \* BoundInvalid is thrown
Undefined == Type("undefined", {}, {}, <<>>, {})  \* a foreign iterator is erased

Basic(t) == t.kind \in {"constant", "atomic", "union"}
CoveredBy(A) == {c \in DOMAIN TypeOf : TypeOf[c] \in A}
In(t, u) ==    \* TypeAtomicUnion::in
  \/ t.kind = "constant" /\ t.constants \subseteq u.constants \cup CoveredBy(u.atomics)
  \/ t.kind = "atomic" /\ t.atomics \subseteq u.atomics
Within(u, t) ==
  t.kind = "atomic" /\ u.atomics \subseteq t.atomics /\ u.constants \subseteq CoveredBy(t.atomics)

\* A union is joined into a copy of another one, whose atomic_map still holds
\* iterators into the set of constants of the original.
Joined(t, u) ==
  IF t.kind = "union" /\ t.constants \cap CoveredBy(u.atomics) # {} THEN Undefined
  ELSE LET A == t.atomics \cup u.atomics
           C == (t.constants \cup u.constants) \ CoveredBy(A)
       IN CASE A = {} /\ Cardinality(C) = 1 /\ t.kind # "union" /\ u.kind # "union" -> t
            [] C = {} /\ Cardinality(A) = 1 /\ t.kind # "union" /\ u.kind # "union" ->
                 Type("atomic", {}, A, <<>>, {})
            [] OTHER -> Union(C, A)

SameShape(t, u) ==
  t.kind = u.kind /\ t.kind \in {"cbv", "base", "intension"} /\ Len(t.arg) = Len(u.arg)
Together(t, u) ==   \* each component with the one of the other
  Type(t.kind, {}, {}, [i \in DOMAIN t.arg |-> t.arg[i] \cup u.arg[i]], t.res \cup u.res)

LUBConstructed(t, u) ==
  CASE Basic(t) /\ Basic(u) -> IF u.kind = "union" /\ t.kind # "union" THEN Joined(u, t)
                               ELSE Joined(t, u)
    [] SameShape(t, u) -> Together(t, u)
    [] OTHER -> Invalid

GLBConstructed(t, u) ==
  CASE t.kind = "union" /\ u.kind = "union" ->
         Union(t.constants \cap u.constants, t.atomics \cap u.atomics)
    [] Basic(t) /\ u.kind = "union" -> IF In(t, u) THEN t ELSE Bot
    [] t.kind = "union" /\ Basic(u) -> IF In(u, t) THEN u ELSE Bot
    [] t.kind = "constant" /\ Basic(u) -> IF In(t, u) THEN t ELSE Bot
    [] t.kind = "atomic" /\ Basic(u) -> IF In(u, t) THEN u ELSE Bot
    [] SameShape(t, u) -> Together(t, u)
    [] OTHER -> Invalid

construct_lub(t, u) ==
  CASE Top \in {t, u} -> Top
    [] t = Bot -> u
    [] u = Bot -> t
    [] OTHER -> LUBConstructed(t, u)
construct_glb(t, u) ==
  CASE Bot \in {t, u} -> Bot
    [] t = Top -> u
    [] u = Top -> t
    [] OTHER -> GLBConstructed(t, u)

\* HeadCompare: the condition s is a constant
HeadCompare(s, t) == Basic(t) /\ In(Con(s), t)

(***************************************************************************)
(* Constraints.  [kind |-> "var", a, b] stands for a <= b, "upper" for     *)
(* a <= t, "lower" for t <= b and "if" for: a <= b when s <= v.            *)
(***************************************************************************)
Below(a, b) == [kind |-> "var", a |-> a, b |-> b]
Upper(a, t) == [kind |-> "upper", a |-> a, t |-> t]
Lower(t, b) == [kind |-> "lower", t |-> t, b |-> b]
OnlyIf(s, v, a, b) == [kind |-> "if", s |-> s, v |-> v, a |-> a, b |-> b]

InOrder(V) == IF V = {} THEN <<>> ELSE SelectSeq([v \in 1..Max(V) |-> v], LAMBDA v : v \in V)
Pairs(V, W) ==   \* each of V below each of W, in order
  FlattenSeq([i \in 1..Cardinality(V) |->
    [j \in 1..Cardinality(W) |->
      Below(InOrder(V)[i], InOrder(W)[j])]])

Refused(t, u) ==   \* subc throws SubcInvalid
  /\ t # Bot /\ u # Top
  /\ ~(t.kind = "constant" /\ u.kind = "atomic" /\ In(t, u))
  /\ ~(t.kind = "atomic" /\ t = u)
  /\ ~(u.kind = "union" /\ In(t, u))
  /\ ~(t.kind = "union" /\ Within(t, u))
  /\ ~(t.kind = "region" /\ u.kind = "region")
  /\ ~SameShape(t, u)

PairsOfEach(Vs, Ws) == FlattenSeq([i \in DOMAIN Vs |-> Pairs(Vs[i], Ws[i])])
\* Mutant: arguments are related the same way as results
SubcCovariant(t, u) ==
  IF SameShape(t, u) THEN PairsOfEach(t.arg, u.arg) \o Pairs(t.res, u.res) ELSE <<>>

subc(t, u) ==
  IF SameShape(t, u) THEN PairsOfEach(u.arg, t.arg) \o Pairs(t.res, u.res) ELSE <<>>

(***************************************************************************)
(* The closure                                                             *)
(***************************************************************************)
EmptyGraph(V) ==
  [less |-> [v \in V |-> {}], greater |-> [v \in V |-> {}],
   lower |-> [v \in V |-> Bot], upper |-> [v \in V |-> Top],
   conditions |-> [v \in V |-> {}], nodes |-> <<>>, status |-> "ok"]

Stop(G, status) == [G EXCEPT !.status = status]
SetLower(G, v, t) ==
  CASE G.status # "ok" -> G
    [] t = Invalid -> Stop(G, "error")
    [] t = Undefined -> Stop(G, "undefined")
    [] OTHER -> [G EXCEPT !.lower[v] = t]
SetUpper(G, v, t) ==
  CASE G.status # "ok" -> G
    [] t = Invalid -> Stop(G, "error")
    [] OTHER -> [G EXCEPT !.upper[v] = t]
SetUppers(G, V, t) ==
  FoldLeft(LAMBDA H, v : SetUpper(H, v, construct_glb(H.upper[v], t)), G, InOrder(V))

less(G, a, b) == a = b \/ b \in G.greater[a]
add_less_closed(G, a, b) ==
  IF less(G, a, b) THEN G
  ELSE LET A == G.less[a] \cup {a}
           B == G.greater[b] \cup {b}
       IN [G EXCEPT
            !.greater = [v \in DOMAIN @ |-> IF v \in A THEN @[v] \cup (B \ {v}) ELSE @[v]],
            !.less = [v \in DOMAIN @ |-> IF v \in B THEN @[v] \cup (A \ {v}) ELSE @[v]],
            !.conditions = [v \in DOMAIN @ |->
               IF v \in A THEN @[v] \cup UNION {@[w] : w \in B} ELSE @[v]]]

RECURSIVE add_to_closure(_, _), check_conditionals(_, _, _), NewLowers(_, _, _, _, _)

\* The conditions of v in the order of their addresses: a node that is added
\* below the current one meanwhile is not visited.
check_conditionals(G, v, i) ==
  IF i > Len(G.nodes) \/ G.status # "ok" THEN G
  ELSE LET c == G.nodes[i]
       IN check_conditionals(
            IF c \in G.conditions[v] /\ HeadCompare(c.s, G.lower[v])
            THEN add_to_closure(G, <<Below(c.a, c.b)>>) ELSE G, v, i + 1)

new_lower_closed(G, v, t) == check_conditionals(SetLower(G, v, t), v, 1)

\* The loop over the greater of b, from its i-th element of the sequence vs.
\* The type is that of from, or t.  A condition that fires may insert into
\* the vector the loop runs over, which invalidates its iterators.
SameGreater(G, H, b) ==
  IF H.status = "ok" /\ H.greater[b] # G.greater[b] THEN Stop(H, "undefined") ELSE H
NewLowers(G, b, vs, from, t) ==
  IF vs = <<>> \/ G.status # "ok" THEN G
  ELSE LET lower == IF from = 0 THEN t ELSE G.lower[from]
       IN NewLowers(
            SameGreater(G, new_lower_closed(G, Head(vs), construct_lub(G.lower[Head(vs)], lower)), b),
            b, Tail(vs), from, t)

NewGreater(G, b, from, t) == NewLowers(G, b, InOrder(G.greater[b]), from, t)
NewLess(G, a, t) == SetUppers(G, G.less[a], t)

\* The bounds of a <= b: of a, of b, of those above b, of those below a
Bounded(G, a, b) == SetUpper(G, a, construct_glb(G.upper[a], G.upper[b]))
Raised(G, a, b) == new_lower_closed(G, b, construct_lub(G.lower[b], G.lower[a]))
Lowered(G, a, b) == NewLess(G, a, G.upper[b])
AddBelow(G, a, b) ==
  Lowered(NewGreater(Raised(Bounded(add_less_closed(G, a, b), a, b), a, b), b, a, Bot), a, b)

AddUpper(G, a, t) == NewLess(SetUpper(G, a, construct_glb(G.upper[a], t)), a, t)
AddLower(G, t, b) == NewGreater(SetLower(G, b, construct_lub(G.lower[b], t)), b, 0, t)

\* The bounds a constraint brings together
Meets(G, c) ==
  CASE c.kind = "var" -> <<G.lower[c.a], G.upper[c.b]>>
    [] c.kind = "upper" -> <<G.lower[c.a], c.t>>
    [] c.kind = "lower" -> <<c.t, G.upper[c.b]>>
Known(G, c) ==
  CASE c.kind = "var" -> less(G, c.a, c.b)
    [] c.kind = "upper" -> construct_glb(G.upper[c.a], c.t) = G.upper[c.a]
    [] c.kind = "lower" -> construct_lub(G.lower[c.b], c.t) = G.lower[c.b]
\* The bound c would give cannot be built
Fails(G, c) ==
  CASE c.kind = "var" -> "ok"
    [] c.kind = "upper" -> SetUpper(G, c.a, construct_glb(G.upper[c.a], c.t)).status
    [] c.kind = "lower" -> SetLower(G, c.b, construct_lub(G.lower[c.b], c.t)).status
Add(G, c) ==
  CASE c.kind = "var" -> AddBelow(G, c.a, c.b)
    [] c.kind = "upper" -> AddUpper(G, c.a, c.t)
    [] c.kind = "lower" -> AddLower(G, c.t, c.b)

add_to_closure(G, q) ==
  IF q = <<>> \/ G.status # "ok" THEN G
  ELSE LET c == Head(q)
           meets == Meets(G, c)
       IN CASE Fails(G, c) # "ok" -> Stop(G, Fails(G, c))
            [] Known(G, c) -> add_to_closure(G, Tail(q))
            [] Refused(meets[1], meets[2]) -> Stop(G, "error")
            [] OTHER -> add_to_closure(Add(G, c), Tail(q) \o subc(meets[1], meets[2]))

\* The condition goes to the variables below the one it is about
CopyCondition(G, c) ==
  IF G.status # "ok" THEN G
  ELSE [G EXCEPT !.conditions =
          [v \in DOMAIN @ |-> IF v \in G.less[c.v] THEN @[v] \cup {c} ELSE @[v]]]
\* The new node has any address among those of the nodes there are
add_conditional(G, c, position) ==
  LET H == [G EXCEPT !.nodes = InsertAt(@, position, c), !.conditions[c.v] = @ \cup {c}]
  IN IF HeadCompare(c.s, G.lower[c.v]) THEN CopyCondition(add_to_closure(H, <<Below(c.a, c.b)>>), c)
     ELSE CopyCondition(H, c)

(***************************************************************************)
(* Adding constraints                                                      *)
(***************************************************************************)
InitGraph == g = EmptyGraph(TypeVar) /\ added = {}

More(c) ==
  /\ g.status = "ok"
  /\ Cardinality(added) < MaxConstraints
  /\ c \notin added
  /\ added' = added \cup {c}

\* A bound is put below a variable that has no condition of its own yet: the
\* inference does so for new variables only.
AddConstraint ==
  \E c \in {d \in Inputs : d.kind # "if"} :
    /\ More(c)
    /\ c.kind = "lower" => \A d \in added : d.kind = "if" => d.v # c.b
    /\ g' = add_to_closure(g, <<c>>)

AddConditional ==
  \E c \in {d \in Inputs : d.kind = "if"}, position \in 1..Len(g.nodes) + 1 :
    More(c) /\ g' = add_conditional(g, c, position)

NextGraph == AddConstraint \/ AddConditional

SpecGraph == InitGraph /\ [][NextGraph]_graphVars

(***************************************************************************)
(* Properties                                                              *)
(***************************************************************************)
\* The constants a type stands for, and when a type is below another one,
\* said of what they stand for.
Denotes(t) == t.constants \cup CoveredBy(t.atomics)
AllBelow(V, W) == \A v \in V, w \in W : less(g, v, w)
TypeBelow(t, u) ==
  \/ t = Bot
  \/ u = Top
  \/ Basic(t) /\ Basic(u) /\ Denotes(t) \subseteq Denotes(u)
  \/ t = Region /\ u = Region
  \/ /\ SameShape(t, u)
     /\ \A i \in DOMAIN t.arg : AllBelow(u.arg[i], t.arg[i])
     /\ AllBelow(t.res, u.res)
\* A lower bound is within another one, an upper bound within another one
Widens(t, u) ==
  \/ t = Bot
  \/ Basic(t) /\ Basic(u) /\ Denotes(t) \subseteq Denotes(u)
  \/ SameShape(t, u) /\ Together(t, u) = u
Narrows(t, u) ==
  \/ Bot = t \/ u = Top
  \/ Basic(t) /\ Basic(u) /\ Denotes(t) \subseteq Denotes(u)
  \/ SameShape(t, u) /\ Together(t, u) = t

OrderKept ==
  \A a \in TypeVar :
    /\ \A b \in g.greater[a] :
         /\ a \in g.less[b]
         /\ Widens(g.lower[a], g.lower[b])
         /\ Narrows(g.upper[a], g.upper[b])
         /\ g.greater[b] \subseteq g.greater[a] \cup {a}
    /\ \A b \in g.less[a] : a \in g.greater[b]
Met(d) == d.s \in Denotes(g.lower[d.v])
\* The condition d fires in the middle of an addition that raises the bound of
\* d.v and the one of d.a.  If it is d.v first, the new bound reaches a by the
\* edge from d.a to d.b, and add_to_closure has compared the old one only.
Overtakes(d, a) ==
  less(g, d.b, a) /\ \E w \in TypeVar : less(g, w, d.v) /\ less(g, w, d.a)
Holds(c) ==
  CASE c.kind = "var" -> less(g, c.a, c.b)
    [] c.kind = "upper" -> \/ g.upper[c.a] = Bot
                           \/ TypeBelow(g.lower[c.a], c.t)
                           \/ \E d \in added : d.kind = "if" /\ Met(d) /\ Overtakes(d, c.a)
    [] c.kind = "lower" -> Widens(c.t, g.lower[c.b])
    [] c.kind = "if" -> Met(c) => less(g, c.a, c.b)

\* A graph that is accepted is a solution: in whatever order the constraints
\* are added, and whichever conditions fire while others are being added,
\* the order is transitive and carries the bounds along, and every constraint
\* that was ever added holds of the lower bounds, a conditional one when its
\* condition is met.  This is what add_to_closure, subc, add_less_closed and
\* check_conditionals are for.  It is not so for an upper bound that a met
\* condition overtakes, see Overtakes: such a graph may be accepted with a
\* lower bound that is not below the upper one.
ClosureKept ==
  g.status = "ok" => OrderKept /\ \A c \in added : Holds(c)
=============================================================================
