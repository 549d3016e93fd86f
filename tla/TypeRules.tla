----------------------------- MODULE TypeRules -----------------------------
(***************************************************************************)
(* Type inference of a program: the rule of each expression, which adds    *)
(* its constraints to the graph of its parts and says what it needs of its *)
(* context, and the environment of the identifiers, inferred one recursion *)
(* group after another.                                                    *)
(*                                                                         *)
(* The graphs of the parts of an expression have no variable in common:    *)
(* one graph is passed along and grows.  Fresh variables are the next      *)
(* numbers.  A join or a meet of variables is the set of them.             *)
(***************************************************************************)
EXTENDS ConstraintGraph

CONSTANTS Programs,   \* programs to infer
          HostType,   \* the types of the arguments and result of host functions
          HostGives   \* what a host function returns

VARIABLES program,      \* the program
          inferred,     \* the number of groups inferred
          environment,  \* the schemes of the identifiers inferred
          verdict       \* "none", "rejected", or the lower bound of the program's type

typingVars == <<program, inferred, environment, verdict>>

(***************************************************************************)
(* Expressions                                                             *)
(***************************************************************************)
Const(c) == [op |-> "const", c |-> c]
HostFun(f) == [op |-> "host", f |-> f]
Param(p) == [op |-> "param", p |-> p]          \* #.p, p a dimension of a binder
Query(e) == [op |-> "query", e |-> e]              \* #.e
Refer(x) == [op |-> "refer", x |-> x]
Choose(c, t, elseifs, e) == [op |-> "if", c |-> c, t |-> t, elseifs |-> elseifs, e |-> e]
Abstract(p, e) == [op |-> "lambda", p |-> p, e |-> e]
Apply1(f, a) == [op |-> "app", f |-> f, a |-> a]
BaseOf(ps, e) == [op |-> "base", ps |-> ps, e |-> e]
Bang(f, args) == [op |-> "bang", f |-> f, args |-> args]
Delay(e) == [op |-> "delay", e |-> e]
Force(e) == [op |-> "force", e |-> e]
Change(e, pairs) == [op |-> "at", e |-> e, pairs |-> pairs]       \* pairs of expressions
WhereDim(dims, e) == [op |-> "where", dims |-> dims, e |-> e]     \* pairs: name, expression
Best(declarations) == [op |-> "best", declarations |-> declarations]

(***************************************************************************)
(* Graphs and contexts                                                     *)
(***************************************************************************)
Size(G) == Len(G.less)
Fresh(G, k) ==
  LET news(x) == [i \in 1..k |-> x]
  IN [G EXCEPT !.less = @ \o news({}), !.greater = @ \o news({}), !.conditions = @ \o news({}),
               !.lower = @ \o news(Bot), !.upper = @ \o news(Top)]

Shift(V, n) == {v + n : v \in V}
ShiftType(t, n) ==
  [t EXCEPT !.arg = [i \in DOMAIN @ |-> Shift(@[i], n)], !.res = Shift(@, n)]
ShiftNode(c, n) == [c EXCEPT !.v = @ + n, !.a = @ + n, !.b = @ + n]
make_union(G, H) ==   \* with the variables of H renamed after those of G
  LET n == Size(G)
      all(f) == [v \in 1..Size(H) |-> Shift(f[v], n)]
      types(f) == [v \in 1..Size(H) |-> ShiftType(f[v], n)]
  IN [less |-> G.less \o all(H.less), greater |-> G.greater \o all(H.greater),
      lower |-> G.lower \o types(H.lower), upper |-> G.upper \o types(H.upper),
      conditions |-> G.conditions \o
        [v \in 1..Size(H) |-> {ShiftNode(c, n) : c \in H.conditions[v]}],
      nodes |-> G.nodes \o [i \in 1..Len(H.nodes) |-> ShiftNode(H.nodes[i], n)],
      status |-> IF G.status = "ok" THEN H.status ELSE G.status]

NoContext == [params |-> <<>>, vars |-> <<>>, dims |-> <<>>]
Lookup(f, x) == IF x \in DOMAIN f THEN f[x] ELSE {}
Use(f, d) == IF d \in DOMAIN f THEN f[d] ELSE [given |-> {}, wanted |-> {}]
Merge(f, h) == [x \in DOMAIN f \cup DOMAIN h |-> Lookup(f, x) \cup Lookup(h, x)]
MergeUses(f, h) ==
  [d \in DOMAIN f \cup DOMAIN h |-> [given |-> Use(f, d).given \cup Use(h, d).given,
                                    wanted |-> Use(f, d).wanted \cup Use(h, d).wanted]]
join(A, B) == [params |-> Merge(A.params, B.params), vars |-> Merge(A.vars, B.vars),
               dims |-> MergeUses(A.dims, B.dims)]
addConstantDim(A, c, given, wanted) ==
  [A EXCEPT !.dims = MergeUses(@, c :> [given |-> given, wanted |-> wanted])]
Removed(f, X) == [x \in DOMAIN f \ X |-> f[x]]

Scheme(A, t, G) == [A |-> A, t |-> t, G |-> G]
AddAll(G, cs) ==
  FoldLeft(LAMBDA H, c : IF H.status # "ok" THEN H
                         ELSE IF c.kind = "if" THEN add_conditional(H, c, Len(H.nodes) + 1)
                         ELSE add_to_closure(H, <<c>>),
           G, cs)

(***************************************************************************)
(* Simplification: sets of variables become variables of their own, gamma  *)
(* for a meet and lambda for a join, and what is given to a dimension      *)
(* goes below what is wanted of it.                                        *)
(***************************************************************************)
Listed(X) == FoldSet(LAMBDA e, s : Append(s, e), <<>>, X)
Sets(t) == {S \in Range(t.arg) \cup {t.res} : Cardinality(S) > 1}
Indices(Ss, S) == CHOOSE i \in DOMAIN Ss : Ss[i] = S
Meet(Ss, n, S) == IF Cardinality(S) > 1 THEN {n + 2 * Indices(Ss, S) - 1} ELSE S
JoinOf(Ss, n, S) == IF Cardinality(S) > 1 THEN {n + 2 * Indices(Ss, S)} ELSE S
Positive(Ss, n, t) ==
  [t EXCEPT !.arg = [i \in DOMAIN @ |-> Meet(Ss, n, @[i])], !.res = JoinOf(Ss, n, @)]
Negative(Ss, n, t) ==
  [t EXCEPT !.arg = [i \in DOMAIN @ |-> JoinOf(Ss, n, @[i])], !.res = Meet(Ss, n, @)]

\* An edge to every variable strictly above one of S, from those strictly below
rewrite_less(G, gamma, S) ==
  FoldLeft(LAMBDA H, v : IF \E s \in S : s # v /\ less(H, s, v)
                         THEN add_less_closed(H, gamma, v) ELSE H,
           G, [v \in 1..Size(G) |-> v])
rewrite_greater(G, lambda, S) ==
  FoldLeft(LAMBDA H, v : IF \E s \in S : s # v /\ less(H, v, s)
                         THEN add_less_closed(H, v, lambda) ELSE H,
           G, [v \in 1..Size(G) |-> v])

\* The i-th set rewritten is given its bounds, which may need others
MeetOfUppers(G, S) ==
  FoldLeft(LAMBDA t, v : IF t = Invalid THEN t ELSE construct_glb(t, G.upper[v]), Top, InOrder(S))
JoinOfLowers(G, S) ==
  FoldLeft(LAMBDA t, v : IF t.kind \in {"invalid", "undefined"} THEN t
                         ELSE construct_lub(t, G.lower[v]), Bot, InOrder(S))
Rewritten(G, S, gamma, lambda) ==
  rewrite_greater(rewrite_less(G, gamma, S), lambda, S)

RECURSIVE CanoniseQueue(_, _, _, _)
Canonised(G, Ss, Rs, n, i, glb, lub) ==
  LET gamma == n + 2 * i - 1
      lambda == n + 2 * i
  IN CanoniseQueue(
       Rewritten(SetLower(SetUpper(Fresh(G, 2 * (Len(Rs) - Len(Ss))), gamma, Negative(Rs, n, glb)),
                          lambda, Positive(Rs, n, lub)),
                 Ss[i], gamma, lambda),
       Rs, n, i + 1)
WithSets(Ss, glb, lub) == Ss \o Listed((Sets(glb) \cup Sets(lub)) \ Range(Ss))
BothBounds(G, Ss, n, i, glb, lub) ==
  Canonised(G, Ss, WithSets(Ss, glb, lub), n, i, glb, lub)
CanoniseQueue(G, Ss, n, i) ==
  IF i > Len(Ss) \/ G.status # "ok" THEN [G |-> G, Ss |-> Ss]
  ELSE BothBounds(G, Ss, n, i, MeetOfUppers(G, Ss[i]), JoinOfLowers(G, Ss[i]))

rewrite_lub_glb(G, Ss, n) ==
  FoldLeft(LAMBDA H, ij : IF \E s \in Ss[ij[1]], t \in Ss[ij[2]] : less(H, s, t)
                          THEN add_less_closed(H, n + 2 * ij[1] - 1, n + 2 * ij[2]) ELSE H,
           G, Listed({ij \in (DOMAIN Ss) \X (DOMAIN Ss) : ij[1] # ij[2]}))

\* The variables of the sets Ss are those after the n of the graph
InNewVariables(G, Ss, n) ==
  [Fresh(G, 2 * Len(Ss)) EXCEPT !.lower = [v \in DOMAIN @ |-> Positive(Ss, n, @[v])],
                                !.upper = [v \in DOMAIN @ |-> Negative(Ss, n, @[v])]]
ContextInNewVariables(A, Ss, n) ==
  LET meet(f) == [x \in DOMAIN f |-> Meet(Ss, n, f[x])]
  IN [params |-> meet(A.params), vars |-> meet(A.vars),
      dims |-> [d \in DOMAIN A.dims |-> [given |-> JoinOf(Ss, n, A.dims[d].given),
                                         wanted |-> Meet(Ss, n, A.dims[d].wanted)]]]
Finished(Q, n) == IF Q.G.status = "ok" THEN rewrite_lub_glb(Q.G, Q.Ss, n) ELSE Q.G
Replaced(R, Ss) ==
  LET n == Size(R.G)
  IN Scheme(ContextInNewVariables(R.A, Ss, n), R.t,
            Finished(CanoniseQueue(InNewVariables(R.G, Ss, n), Ss, n, 1), n))
canonise(R) ==
  LET inContext == Range(R.A.params) \cup Range(R.A.vars)
                   \cup UNION {{u.given, u.wanted} : u \in Range(R.A.dims)}
  IN Replaced(R, Listed(UNION {Sets(t) : t \in Range(R.G.lower) \cup Range(R.G.upper)}
                        \cup {S \in inContext : Cardinality(S) > 1}))

instantiate_parameters(R) ==
  LET uses == Listed(DOMAIN R.A.dims)
      given(d) == Pairs(R.A.dims[d].given, R.A.dims[d].wanted)
  IN [R EXCEPT !.G = AddAll(@, FlattenSeq([i \in DOMAIN uses |-> given(uses[i])]))]

simplify(R) == IF R.G.status = "ok" THEN instantiate_parameters(canonise(R)) ELSE R

(***************************************************************************)
(* The rules.  Each gives what its expression needs of the context, its    *)
(* variable, the graph of its parts with the fresh variables, and the      *)
(* constraints to add.  The parts have no variable in common, so that it   *)
(* is the same to add the constraints when all the parts are there.        *)
(***************************************************************************)
Rule(A, t, G, constraints) == [A |-> A, t |-> t, G |-> G, constraints |-> constraints]
Failing(A, t, G) == Rule(A, t, Stop(G, "error"), <<>>)

\* A dimension must be a constant: nothing below it, and a constant as bound
Dimensions(R) ==
  IF R.G.less[R.t] = {} /\ R.G.lower[R.t].kind = "constant" THEN R.G.lower[R.t].constants ELSE {}

make_constant(c, G) ==
  LET t == Size(G) + 1 IN Rule(NoContext, t, Fresh(G, 1), <<Lower(Con(c), t)>>)

make_host_op_type(f, G) ==
  LET args == Len(HostType[f]) - 1
      result == Size(G) + args + 1
      t == result + 1
  IN Rule(NoContext, t, Fresh(G, args + 2),
          [i \in 1..args |-> Upper(Size(G) + i, Atom(HostType[f][i]))]
          \o <<Lower(Atom(HostType[f][args + 1]), result),
               Lower(BaseFunction([i \in 1..args |-> {Size(G) + i}], {result}), t)>>)

TypeParam(p, G) ==
  LET alpha == Size(G) + 1
  IN Rule([NoContext EXCEPT !.params = p :> {alpha}], alpha + 1, Fresh(G, 2),
          <<Below(alpha, alpha + 1)>>)

Renamed(A, n) ==
  LET shifted(f) == [x \in DOMAIN f |-> Shift(f[x], n)]
  IN [params |-> shifted(A.params), vars |-> shifted(A.vars),
      dims |-> [d \in DOMAIN A.dims |-> shifted(A.dims[d])]]
After(G, R) == Rule(Renamed(R.A, Size(G)), R.t + Size(G), make_union(G, R.G), <<>>)
TypeIdent(x, env, G) ==
  LET alpha == Size(G) + 1
  IN IF x \in DOMAIN env
     THEN After(G, env[x])
     ELSE Rule([NoContext EXCEPT !.vars = x :> {alpha}], alpha + 1, Fresh(G, 2),
               <<Below(alpha, alpha + 1)>>)

RECURSIVE Infer(_, _, _), InferAll(_, _, _), ElseIfs(_, _, _, _, _), Changes(_, _, _),
          WhereDims(_, _, _), TypeDeclarations(_, _, _)

\* The expressions es one after another: their variables are ts
InferAll(es, env, G) ==
  IF es = <<>> THEN [A |-> NoContext, ts |-> <<>>, G |-> G]
  ELSE LET R == Infer(Head(es), env, G)
           T == InferAll(Tail(es), env, R.G)
       IN [A |-> join(R.A, T.A), ts |-> <<R.t>> \o T.ts, G |-> T.G]

TypeHash(e, env, G) ==
  LET R == Infer(e, env, G)
      n == Size(R.G)
  IN IF R.G.status # "ok" \/ Dimensions(R) = {} THEN Failing(R.A, R.t, R.G)
     ELSE Rule(addConstantDim(R.A, CHOOSE c \in Dimensions(R) : TRUE, {n + 1}, {n + 2}), n + 3,
               Fresh(R.G, 3), <<Below(n + 2, n + 3)>>)

\* R has the variable of the latest condition as t, and the bound of the
\* result in case it is false is upper
ElseIfs(ps, beta, env, R, upper) ==
  IF ps = <<>> THEN [R |-> R, upper |-> upper]
  ELSE LET bound == Size(R.G) + 1
           T == InferAll(Head(ps), env, Fresh(R.G, 1))
       IN ElseIfs(Tail(ps), beta, env,
                  Rule(join(R.A, T.A), T.ts[1], T.G,
                       R.constraints \o <<Below(T.ts[1], beta), OnlyIf("false", R.t, bound, upper),
                                          OnlyIf("true", T.ts[1], T.ts[2], bound)>>),
                  bound)

TypeIf(e, env, G) ==
  LET T == InferAll(<<e.c, e.t>>, env, G)
      alpha == Size(T.G) + 1
      beta == alpha + 1
      I == ElseIfs(e.elseifs, beta, env,
             Rule(T.A, T.ts[1], Fresh(T.G, 2),
                  <<Upper(beta, Atom("bool")), Below(T.ts[1], beta),
                    OnlyIf("true", T.ts[1], T.ts[2], alpha)>>), alpha)
      E == Infer(e.e, env, I.R.G)
  IN Rule(join(I.R.A, E.A), alpha, E.G,
          I.R.constraints \o <<OnlyIf("false", I.R.t, E.t, I.upper)>>)

TypeLambda(e, env, G) ==
  LET R == Infer(e.e, env, G)
      alpha == Size(R.G) + 1
      dim == IF e.p \in DOMAIN R.A.params THEN R.A.params[e.p] ELSE {alpha + 1}
  IN Rule([R.A EXCEPT !.params = Removed(@, {e.p})], alpha, Fresh(R.G, 2),
          <<Lower(CBV(dim, {R.t}), alpha)>>)

TypeLambdaApp(e, env, G) ==
  LET T == InferAll(<<e.f, e.a>>, env, G)
      gamma == Size(T.G) + 1
      alpha == gamma + 1
  IN Rule(T.A, gamma, Fresh(T.G, 2),
          <<Below(alpha, gamma), Upper(T.ts[1], CBV({T.ts[2]}, {alpha}))>>)

TypeBaseAbstraction(e, env, G) ==
  LET R == Infer(e.e, env, G)
      alpha == Size(R.G) + 1
      dim(i) == IF e.ps[i] \in DOMAIN R.A.params THEN R.A.params[e.ps[i]] ELSE {alpha + i}
  IN Rule([R.A EXCEPT !.params = Removed(@, Range(e.ps))], alpha, Fresh(R.G, 1 + Len(e.ps)),
          <<Lower(BaseFunction([i \in DOMAIN e.ps |-> dim(i)], {R.t}), alpha)>>)

TypeBangApp(e, env, G) ==
  LET T == InferAll(<<e.f>> \o e.args, env, G)
      alpha == Size(T.G) + 1
  IN Rule(T.A, alpha + 1, Fresh(T.G, 2),
          <<Upper(T.ts[1], BaseFunction([i \in DOMAIN e.args |-> {T.ts[i + 1]}], {alpha})),
            Below(alpha, alpha + 1)>>)

TypeMakeInten(e, env, G) ==
  LET R == Infer(e, env, G)
      alpha == Size(R.G) + 1
  IN Rule(R.A, alpha, Fresh(R.G, 1), <<Lower(Intension({R.t}), alpha)>>)

TypeEvalInten(e, env, G) ==
  LET R == Infer(e, env, G)
      alpha == Size(R.G) + 1
  IN Rule(R.A, alpha + 1, Fresh(R.G, 2),
          <<Upper(R.t, Intension({alpha})), Below(alpha, alpha + 1)>>)

\* The pairs of a change of context, R typed so far
Changes(ps, env, R) ==
  IF ps = <<>> \/ R.G.status # "ok" THEN R
  ELSE LET V == Infer(Head(ps)[2], env, R.G)
           D == Infer(Head(ps)[1], env, V.G)
           n == Size(D.G) + 1
       IN IF D.G.status # "ok" \/ Dimensions(D) = {} THEN Failing(R.A, R.t, D.G)
          ELSE Changes(Tail(ps), env,
                 Rule(addConstantDim(join(join(R.A, V.A), D.A), CHOOSE c \in Dimensions(D) : TRUE,
                                     {V.t}, {n}),
                      R.t, Fresh(D.G, 1), <<>>))

\* The dimensions a where clause declares, R being its body
WhereDims(ds, env, R) ==
  IF ds = <<>> THEN R
  ELSE LET d == Head(ds)[1]
           T == Infer(Head(ds)[2], env, R.G)
           A == join(R.A, T.A)
           use == Use(A.dims, d)
           alpha == Size(T.G) + 1
       IN WhereDims(Tail(ds), env,
            Rule([A EXCEPT !.params = Removed(@, {d}), !.dims = Removed(@, {d})], R.t, Fresh(T.G, 1),
                 R.constraints \o Pairs({alpha}, use.wanted) \o Pairs(use.given, {alpha})
                 \o Pairs({alpha}, Lookup(A.params, d)) \o <<Below(T.t, alpha)>>))

TypeWhere(e, env, G) ==
  WhereDims(e.dims, env, After(G, simplify(Infer(e.e, env, EmptyGraph({})))))

\* A guard is a set of records: dimension dim, by "is" or "imp", constant or
\* type of
GuardType(entry) == IF entry.by = "is" THEN Con(entry.of) ELSE Atom(entry.of)
InUnion(t, u) ==
  LET A == t.atomics \cup u.atomics IN Union((t.constants \cup u.constants) \ CoveredBy(A), A)

\* Each declaration: what its body needs but is not guarded for goes to R.A
TypeDeclarations(ds, env, R) ==
  IF ds = <<>> THEN R
  ELSE LET d == Head(ds)
           B == Infer(d.e, env, R.G)
           T == InferAll(d.boolean, env, B.G)
           guarded == {entry.dim : entry \in d.guard}
           body == [B.A EXCEPT !.params = Removed(@, guarded)]
       IN TypeDeclarations(Tail(ds), env,
            Rule(join(join(R.A, T.A), body), R.t, T.G,
                 R.constraints \o [i \in DOMAIN T.ts |-> Upper(T.ts[i], Atom("bool"))]
                               \o <<Below(B.t, R.t)>>))

TypeBestfit(ds, env, G) ==
  LET R == TypeDeclarations(ds, env, Rule(NoContext, Size(G) + 1, Fresh(G, 1), <<>>))
      entries == UNION {d.guard : d \in Range(ds)}
      types(x) == {GuardType(entry) : entry \in {f \in entries : f.dim = x}}
      regionType(x) == IF Len(ds) = 1 THEN CHOOSE t \in types(x) : TRUE
                       ELSE FoldLeft(InUnion, Union({}, {}), Listed(types(x)))
      dims == Listed({x \in {entry.dim : entry \in entries} :
                        \A d \in Range(ds) : \E entry \in d.guard : entry.dim = x})
      tyvar == [x \in Range(dims) |-> Size(R.G) + CHOOSE i \in DOMAIN dims : dims[i] = x]
  IN Rule([R.A EXCEPT !.params = [x \in Range(dims) |-> {tyvar[x]}] @@ @], R.t,
          Fresh(R.G, Len(dims)),
          R.constraints \o [i \in DOMAIN dims |-> Upper(tyvar[dims[i]], regionType(dims[i]))])

Added(R) == Scheme(R.A, R.t, AddAll(R.G, R.constraints))
TypeOfExpr(e, env, G) ==
  CASE e.op = "const" -> make_constant(e.c, G)
    [] e.op = "host" -> make_host_op_type(e.f, G)
    [] e.op = "param" -> TypeParam(e.p, G)
    [] e.op = "refer" -> TypeIdent(e.x, env, G)
    [] e.op = "query" -> TypeHash(e.e, env, G)
    [] e.op = "if" -> TypeIf(e, env, G)
    [] e.op = "lambda" -> TypeLambda(e, env, G)
    [] e.op = "app" -> TypeLambdaApp(e, env, G)
    [] e.op = "base" -> TypeBaseAbstraction(e, env, G)
    [] e.op = "bang" -> TypeBangApp(e, env, G)
    [] e.op = "delay" -> TypeMakeInten(e.e, env, G)
    [] e.op = "force" -> TypeEvalInten(e.e, env, G)
    [] e.op = "at" ->
      LET R == Infer(e.e, env, G) IN Changes(e.pairs, env, Rule(R.A, R.t, R.G, <<>>))
    [] e.op = "where" -> TypeWhere(e, env, G)
    [] e.op = "best" -> TypeBestfit(e.declarations, env, G)

Infer(e, env, G) ==
  IF G.status # "ok" THEN Scheme(NoContext, 1, G)
  ELSE Added(TypeOfExpr(e, env, G))

(***************************************************************************)
(* Inferring a program: its recursion groups, then its expression          *)
(***************************************************************************)
\* Mutant: the identifiers of a pair are not linked
LinkedWhenLong(group) == Len(group) > 2

\* Whether the group's identifiers are linked to their uses
Linked(group) == Len(group) > 1
Links(group, T) ==
  LET link(i) == LET alpha == Size(T.G) + 2 * i - 1
                     gamma == alpha + 1
                 IN <<Below(T.ts[i], alpha), Below(alpha, gamma)>>
                    \o Pairs({gamma}, Lookup(T.A.vars, group[i].x))
  IN AddAll(Fresh(T.G, 2 * Len(group)), FlattenSeq([i \in DOMAIN group |-> link(i)]))
GroupSchemes(group, T, G) ==
  LET A == [T.A EXCEPT !.vars = Removed(@, {group[i].x : i \in DOMAIN group})]
  IN [i \in DOMAIN group |-> simplify(Scheme(A, T.ts[i], G))]
Inferred(group, T) == GroupSchemes(group, T, IF Linked(group) THEN Links(group, T) ELSE T.G)
InferGroup(group, env) ==
  Inferred(group, InferAll([i \in DOMAIN group |-> group[i].e], env, EmptyGraph({})))

Verdict(kind) == Type(kind, {}, {}, <<>>, {})
TypeFound(R) == IF R.G.status = "ok" THEN R.G.lower[R.t] ELSE Verdict("rejected")
InitTyping == program \in Programs /\ inferred = 0 /\ environment = <<>> /\ verdict = Verdict("none")

infer_system ==
  /\ verdict.kind = "none" /\ inferred < Len(program.groups)
  /\ inferred' = inferred + 1
  /\ LET group == program.groups[inferred + 1]
     IN \E schemes \in {InferGroup(group, environment)} :
          \/ /\ \A i \in DOMAIN group : schemes[i].G.status = "ok"
             /\ environment' = [x \in {group[i].x : i \in DOMAIN group} |->
                   schemes[CHOOSE i \in DOMAIN group : group[i].x = x]] @@ environment
             /\ UNCHANGED verdict
          \/ /\ \E i \in DOMAIN group : schemes[i].G.status # "ok"
             /\ verdict' = Verdict("rejected")
             /\ UNCHANGED environment
  /\ UNCHANGED program

infer ==
  /\ verdict.kind = "none" /\ inferred = Len(program.groups)
  /\ verdict' = TypeFound(simplify(simplify(Infer(program.main, environment, EmptyGraph({})))))
  /\ UNCHANGED <<program, inferred, environment>>

NextTyping == infer_system \/ infer
SpecTyping == InitTyping /\ [][NextTyping]_typingVars

(***************************************************************************)
(* What the program evaluates to: parameters are bound lexically, P, and   *)
(* dimensions dynamically, k.  A value is "wrong" when a constant of       *)
(* another type, or no function or intension, is met; "none" when a        *)
(* dimension or an identifier nobody set is read, or the fuel is spent.    *)
(***************************************************************************)
Value(kind, of, P) == [kind |-> kind, of |-> of, P |-> P]
Wrong == Value("wrong", <<>>, <<>>)
None == Value("none", <<>>, <<>>)
Failed(v) == v.kind \in {"wrong", "none"}
Bool(v, b) == v.kind = "const" /\ v.of = b

RECURSIVE Eval(_, _, _, _), EvalAll(_, _, _, _), EvalIf(_, _, _, _, _), Applied(_, _, _, _)
Equation(x) ==
  LET all == FlattenSeq(program.groups) IN {all[i].e : i \in {j \in DOMAIN all : all[j].x = x}}

\* A sequence of values, ended by the first failure
EvalAll(es, P, k, fuel) ==
  IF es = <<>> THEN <<>>
  ELSE LET v == Eval(Head(es), P, k, fuel)
       IN IF Failed(v) THEN <<v>> ELSE <<v>> \o EvalAll(Tail(es), P, k, fuel)

EvalIf(branches, e, P, k, fuel) ==
  IF branches = <<>> THEN Eval(e, P, k, fuel)
  ELSE LET c == Eval(Head(branches)[1], P, k, fuel)
       IN CASE Failed(c) -> c
            [] Bool(c, "true") -> Eval(Head(branches)[2], P, k, fuel)
            [] Bool(c, "false") -> EvalIf(Tail(branches), e, P, k, fuel)
            [] OTHER -> Wrong

\* The value f applied to the values args, none of which has failed
Applied(f, args, k, fuel) ==
  CASE f.kind = "fun" -> Eval(f.of.e, f.of.p :> args[1] @@ f.P, k, fuel)
    [] f.kind = "base" -> Eval(f.of.e,
         [p \in Range(f.of.ps) |-> args[CHOOSE i \in DOMAIN f.of.ps : f.of.ps[i] = p]] @@ f.P, k, fuel)
    [] f.kind = "host" ->
         LET cs == [i \in DOMAIN args |-> args[i].of]
         IN IF (\A i \in DOMAIN args : args[i].kind = "const") /\ cs \in DOMAIN HostGives[f.of]
            THEN Value("const", HostGives[f.of][cs], <<>>) ELSE Wrong

\* The value of a dimension or a parameter
Reading(x, P, k) == IF x \in DOMAIN P THEN P[x] ELSE IF x \in DOMAIN k THEN k[x] ELSE None
Guarded(d, P, k) ==
  \A entry \in d.guard :
    LET v == Reading(entry.dim, P, k)
    IN v.kind = "const" /\ IF entry.by = "is" THEN v.of = entry.of ELSE TypeOf[v.of] = entry.of
\* The rule of a constant is narrower than the one of its type
EvalBest(ds, P, k, fuel) ==
  LET guarded == {d \in Range(ds) : Guarded(d, P, k)}
      tests(d) == EvalAll(d.boolean, P, k, fuel)
      holding == {d \in guarded : \A i \in DOMAIN tests(d) : Bool(tests(d)[i], "true")}
      narrow == {d \in holding : \E entry \in d.guard : entry.by = "is"}
      best == IF narrow # {} THEN narrow ELSE holding
  IN CASE guarded = {} -> Wrong
       [] \E d \in guarded : \E i \in DOMAIN tests(d) : tests(d)[i].kind = "wrong" -> Wrong
       [] best = {} -> None
       [] OTHER -> Eval((CHOOSE d \in best : TRUE).e, P, k, fuel)

Eval(e, P, k, fuel) ==
  CASE
    fuel = 0 -> None
    [] e.op = "const" -> Value("const", e.c, <<>>)
    [] e.op = "host" -> Value("host", e.f, <<>>)
    [] e.op = "param" -> Reading(e.p, P, k)
    [] e.op = "refer" ->
      IF Equation(e.x) = {} THEN None
      ELSE Eval(CHOOSE f \in Equation(e.x) : TRUE, <<>>, k, fuel - 1)
    [] e.op = "query" ->
      LET d == Eval(e.e, P, k, fuel) IN IF Failed(d) THEN d ELSE Reading(d.of, <<>>, k)
    [] e.op = "if" -> EvalIf(<<<<e.c, e.t>>>> \o e.elseifs, e.e, P, k, fuel)
    [] e.op = "lambda" -> Value("fun", e, P)
    [] e.op = "base" -> Value("base", e, P)
    [] e.op = "delay" -> Value("delay", e.e, P)
    [] e.op = "force" ->
      LET v == Eval(e.e, P, k, fuel)
      IN CASE Failed(v) -> v
           [] v.kind = "delay" -> Eval(v.of, v.P, k, fuel - 1)
           [] OTHER -> Wrong
    [] e.op \in {"app", "bang"} ->
      LET vs == EvalAll(<<e.f>> \o (IF e.op = "app" THEN <<e.a>> ELSE e.args), P, k, fuel)
          v == vs[Len(vs)]
      IN CASE Failed(v) -> v
           [] e.op = "app" /\ vs[1].kind = "fun" -> Applied(vs[1], Tail(vs), k, fuel - 1)
           [] /\ e.op = "bang"
              /\ \/ vs[1].kind = "base" /\ Len(vs[1].of.ps) = Len(e.args)
                 \/ vs[1].kind = "host"
              -> Applied(vs[1], Tail(vs), k, fuel - 1)
           [] OTHER -> Wrong
    [] e.op = "at" ->
      LET ds == EvalAll([i \in DOMAIN e.pairs |-> e.pairs[i][1]], P, k, fuel)
          vs == EvalAll([i \in DOMAIN e.pairs |-> e.pairs[i][2]], P, k, fuel)
      IN IF Failed(ds[Len(ds)]) THEN ds[Len(ds)]
         ELSE IF Failed(vs[Len(vs)]) THEN vs[Len(vs)]
         ELSE Eval(e.e, P, [d \in {ds[i].of : i \in DOMAIN ds} |->
                              vs[CHOOSE i \in DOMAIN ds : ds[i].of = d]] @@ k, fuel)
    [] e.op = "where" ->
      LET vs == EvalAll([i \in DOMAIN e.dims |-> e.dims[i][2]], P, k, fuel)
      IN IF Failed(vs[Len(vs)]) THEN vs[Len(vs)]
         ELSE Eval(e.e, P, [d \in {e.dims[i][1] : i \in DOMAIN e.dims} |->
                              vs[CHOOSE i \in DOMAIN e.dims : e.dims[i][1] = d]] @@ k, fuel)
    [] e.op = "best" -> EvalBest(e.declarations, P, k, fuel)

Fuel == 8
HasType(v, t) ==
  \/ t = Top
  \/ v.kind = "const" /\ Basic(t) /\ v.of \in Denotes(t)
  \/ v.kind = "fun" /\ t.kind = "cbv"
  \/ v.kind \in {"base", "host"} /\ t.kind = "base"
  \/ v.kind = "delay" /\ t.kind = "intension"

\* A program whose types are inferred does not meet a value of a wrong type
\* when it runs, and the value it gives is one the inferred type stands for:
\* each rule, the joining of contexts, the linking of recursive identifiers,
\* renaming and canonisation lose no constraint.
TypesSound ==
  verdict.kind \notin {"none", "rejected"} =>
    LET v == Eval(program.main, <<>>, <<>>, Fuel)
    IN v.kind = "none" \/ HasType(v, verdict)
=============================================================================
