------------------------ MODULE WarehouseDerivations ------------------------
(***************************************************************************)
(* What the equations of a program mean without the warehouse, as rules:   *)
(* the uncached overloads operator()(Context&) of the workshops            *)
(* (libs/system/eval_workshops.cpp).  A judgement says that an expression  *)
(* has a value in a context; it is derived from judgements of less height, *)
(* as an evaluation that ends is made of evaluations that end.  An         *)
(* evaluation that never ends, or that throws, has no judgement.           *)
(***************************************************************************)
EXTENDS Warehouse

Dims == Dim \cup Hidden
Constants == {"intmp", "bool", "special"}

\* A value is a constant, or a closure that an abstraction of the program has
\* made of values: V is a set of closures that holds with each of them those it
\* was bound to
IsValue(V, c) == c.kind \in Constants \/ c \in V

MadeBy(V, c, e) ==
  /\ e \in Expression /\ e.op = "abstraction"
  /\ c = Closure(e.by, e.params, e.body, [d \in DOMAIN c.binds |-> c.binds[d]])
  /\ DOMAIN c.binds \subseteq Dims /\ \A d \in DOMAIN c.binds : IsValue(V, c.binds[d])

Closures(V) == \A c \in V : \E e : MadeBy(V, c, e)

IsContext(V, k) == DOMAIN k = Dims /\ \A d \in Dims : IsValue(V, k[d])

Judgement(V, j) ==
  /\ j.expr \in Expression /\ IsContext(V, j.at) /\ j.height \in Nat

-----------------------------------------------------------------------------
(* The rules, for judgements J of the program E *)

\* By a derivation of height below n, e has value c in context k
Derives(J, e, k, c, n) ==
  \E i \in J : i.expr = e /\ i.at = k /\ i.value = c /\ i.height < n

\* By derivations of height below n, the expressions es have the values cs
DerivesAll(J, es, k, cs, n) ==
  /\ Len(cs) = Len(es) /\ cs = [i \in 1..Len(es) |-> cs[i]]
  /\ \A i \in 1..Len(es) : Derives(J, es[i], k, cs[i], n)

\* IdentWS::evaluate
IdentHas(E, J, e, k, c, n) ==
  /\ e.name \notin Broken
  /\ IF e.name \in DOMAIN E THEN Derives(J, E[e.name], k, c, n)
     ELSE c = Special("spundef")

IfHas(J, e, k, c, n) ==
  \E b : /\ Derives(J, e.cond, k, b, n)
         /\ IF b.kind = "special" THEN c = b
            ELSE IF b.kind # "bool" THEN c = Special("sptype")
            ELSE Derives(J, IF b.holds THEN e.then ELSE e.else, k, c, n)

BangHas(J, e, k, c, n) ==
  \E args : DerivesAll(J, e.args, k, args, n) /\ c = Combine(e.fn, args)

AtHas(J, e, k, c, n) ==
  \E t : /\ Derives(J, e.to, k, t, n)
         /\ e.dim = TimeDim => t.kind \in {"special", "intmp"}
         /\ IF t.kind = "special" THEN c = t
            ELSE IF e.dim = TimeDim /\ t.v > k[TimeDim].v THEN c = Special("spaccess")
            ELSE Derives(J, e.body, [k EXCEPT ![e.dim] = t], c, n)

\* What applying done[1] to the rest gives
Applies(J, by, done, k, c, n) ==
  LET f == done[1]
      args == Tail(done)
  IN  IF ~IsClosure(f, by) THEN c = NoFunction(by)
      ELSE IF by = "base" /\ OfKind(args, "special") # {} THEN c = FirstSpecial(args)
      ELSE IF Len(args) # Len(f.params) THEN c = Special("sptype")
      ELSE Derives(J, f.body, Perturbing(f, args, k), c, n)

\* What is not a function is refused before its arguments are evaluated, but for one
\* argument of what is not a base function
Refuses(e) == e.by = "value" \/ Len(e.of) # 2

ApplyHas(J, e, k, c, n) ==
  \/ \E done : DerivesAll(J, e.of, k, done, n) /\ Applies(J, e.by, done, k, c, n)
  \/ /\ Refuses(e) /\ c = NoFunction(e.by)
     /\ \E f : Derives(J, e.of[1], k, f, n) /\ ~IsClosure(f, e.by)

Derived(E, J, e, k, c, n) ==
  \/ e.op = "const" /\ c = e.value
  \/ e.op = "hash"  /\ c = k[e.dim]
  \/ e.op = "ident" /\ IdentHas(E, J, e, k, c, n)
  \/ e.op = "if"    /\ IfHas(J, e, k, c, n)
  \/ e.op = "bang"  /\ BangHas(J, e, k, c, n)
  \/ e.op = "at"    /\ AtHas(J, e, k, c, n)
  \/ e.op = "abstraction" /\ c = Bound(e, k)
  \/ e.op = "apply" /\ ApplyHas(J, e, k, c, n)

Derivations(E, V, J) ==
  /\ Closures(V)
  /\ \A j \in J : Judgement(V, j) /\ Derived(E, J, j.expr, j.at, j.value, j.height)

-----------------------------------------------------------------------------
(* The agreement of the warehouse with the rules *)

\* Where an application has a value its operands have values, as when nothing is
\* applied but functions: the warehouse evaluates all of them, also those that the
\* rules refuse to look at
ArgumentsHaveValues(J) ==
  \A j \in J : j.expr.op = "apply" =>
    \E done : DerivesAll(J, j.expr.of, j.at, done, j.height)

\* A program that changes the time, or makes a base function, has asked for the
\* time before: the warehouse does so without asking (WarehouseAhead)
TimeAsked ==
  /\ ReturningTo("at") /\ Top.of.dim = TimeDim /\ control.value.kind \notin {"demand", "special"}
       => Contains(delta, {TimeDim})
  /\ Evaluating("abstraction") /\ control.expr.by = "base"
       /\ Lacks(delta, control.expr.binds \cup control.expr.scope) = {}
       => Contains(delta, {TimeDim})

\* The ordinates by which entries are found are constants, or intensions that
\* are bound to constants only: others can be equal keys and yet differ
PlainKey(o) ==
  \/ o.kind \in Constants
  \/ o.kind = "intension" /\ \A d \in DOMAIN o.binds : o.binds[d].kind \in Constants

PlainKeys ==
  \A x \in Name : \A p \in DOMAIN caches[x] : \A i \in DOMAIN p :
    \A d \in DOMAIN p[i] : PlainKey(p[i][d])

\* A demand is answered with the value the variable has without the warehouse
AnsweredRight(J) ==
  result # NoResult =>
    \A j \in J : j.expr = equations[result.name] /\ j.at = result.at => result.value = j.value

\* What an entry says of the contexts that lead to it: the value stored is the
\* value there, and a calc has none
EntrySays(J, e, p, content) ==
  content.kind # "level" =>
    \A j \in J : j.expr = e /\ Agrees(p, j.at) => content # Calc /\ content = j.value

\* Every entry holds for each context that leads to it.  A calc that nobody is
\* computing any more, which is answered sploop from then on, is met only where
\* the variable has no value.
EntriesRight(J) ==
  \A x \in Name : \A p \in DOMAIN caches[x] :
    LET content == caches[x][p].content
    IN  content # Calc \/ stack = <<>> => EntrySays(J, equations[x], p, content)

=============================================================================
