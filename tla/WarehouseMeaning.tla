--------------------------- MODULE WarehouseMeaning ---------------------------
(***************************************************************************)
(* What the equations of a program mean without the warehouse, and the     *)
(* agreement of the warehouse with it.  Models the uncached overloads      *)
(* operator()(Context&) of the workshops (libs/system/eval_workshops.cpp). *)
(***************************************************************************)
EXTENDS WarehouseDerivations

\* An uncached evaluation that never ends, or that throws
NoValue == [kind |-> "none"]

\* The value of expression e in context k, with at most "fuel" nested calls of
\* variables
RECURSIVE Uncached(_, _, _, _)

\* IdentWS::evaluate
UncachedIdent(eqns, e, k, fuel) ==
  IF e.name \in Broken THEN NoValue
  ELSE IF e.name \notin DOMAIN eqns THEN Special("spundef")
  ELSE IF fuel = 0 THEN NoValue
  ELSE Uncached(eqns, eqns[e.name], k, fuel - 1)

UncachedIf(eqns, e, k, fuel) ==
  LET c == Uncached(eqns, e.cond, k, fuel)
  IN  IF c.kind \in {"special", "none"} THEN c
      ELSE IF c.kind # "bool" THEN Special("sptype")
      ELSE Uncached(eqns, IF c.holds THEN e.then ELSE e.else, k, fuel)

UncachedBang(eqns, e, k, fuel) ==
  LET args == [i \in DOMAIN e.args |-> Uncached(eqns, e.args[i], k, fuel)]
  IN  IF OfKind(args, "none") # {} THEN NoValue
      ELSE Combine(e.fn, args)

UncachedAt(eqns, e, k, fuel) ==
  LET c == Uncached(eqns, e.to, k, fuel)
  IN  IF c.kind \in {"special", "none"} THEN c
      ELSE IF e.dim = TimeDim /\ c.kind # "intmp" THEN NoValue
      ELSE IF e.dim = TimeDim /\ c.v > k[TimeDim].v THEN Special("spaccess")
      ELSE Uncached(eqns, e.body, [k EXCEPT ![e.dim] = c], fuel)

\* The operands, then the body in what it was bound to
UncachedApply(eqns, e, k, fuel) ==
  LET done == [i \in DOMAIN e.of |-> Uncached(eqns, e.of[i], k, fuel)]
      f == done[1]
      args == Tail(done)
  IN  IF f # NoValue /\ ~IsClosure(f, e.by) /\ Refuses(e) THEN NoFunction(e.by)
      ELSE IF OfKind(done, "none") # {} THEN NoValue
      ELSE IF ~IsClosure(f, e.by) THEN NoFunction(e.by)
      ELSE IF e.by = "base" /\ OfKind(args, "special") # {} THEN FirstSpecial(args)
      ELSE IF Len(args) # Len(f.params) THEN Special("sptype")
      ELSE Uncached(eqns, f.body, Perturbing(f, args, k), fuel)

\* HashWS looks the dimension up; the rest as above
Uncached(eqns, e, k, fuel) ==
  CASE e.op = "const" -> e.value
    [] e.op = "hash"  -> k[e.dim]
    [] e.op = "ident" -> UncachedIdent(eqns, e, k, fuel)
    [] e.op = "if"    -> UncachedIf(eqns, e, k, fuel)
    [] e.op = "bang"  -> UncachedBang(eqns, e, k, fuel)
    [] e.op = "at"    -> UncachedAt(eqns, e, k, fuel)
    [] e.op = "abstraction" -> Bound(e, k)
    [] e.op = "apply" -> UncachedApply(eqns, e, k, fuel)

\* A chain of calls longer than the number of variables times contexts
\* repeats one of them, and so never ends; where parameters have values too, a
\* longer chain than any the programs make
Fuel(eqns) == Cardinality(DOMAIN eqns) * Cardinality(Context)

Means(x, k) == Uncached(equations, equations[x], k, Fuel(equations))

\* A value stands for a meaning: the same value, or a special for an
\* evaluation that would not end, or would throw and has thrown before
StandsFor(value, meaning) ==
  IF meaning = NoValue THEN value.kind = "special" ELSE value = meaning

\* An ordinate that looks like every other function of its kind
FunctionKey(c) == c.kind = "function"

\* Some entry was found, or made, by a function in the context
KeyedByFunction ==
  \E x \in Name : \E p \in DOMAIN caches[x] : \E i \in DOMAIN p :
    \E d \in DOMAIN p[i] : FunctionKey(p[i][d])

\* The warehouse is transparent: a demand is answered with the value the
\* variable has without it, and with a special if it has none.  But not so once
\* an entry depends on a function, since all functions are one key.
Transparent ==
  result # NoResult /\ ~KeyedByFunction =>
    StandsFor(result.value, Means(result.name, result.at))

\* Each stored value holds for every context that leads to it: the dimensions
\* on its path are all it depends on, so no context reads another's value.  And
\* a calc that an exception left behind, which is answered sploop from then on,
\* is met only in contexts in which the variable has no value.  Looked at
\* between demands, since stored values stay; functions excepted as above, and
\* contexts that do not come from outside.
HoldsFor(content, meaning) ==
  CASE content.kind \in {"intmp", "bool", "special"} -> StandsFor(content, meaning)
    [] content.kind = "calc" -> meaning = NoValue
    [] OTHER -> TRUE

EntriesSound ==
  stack = <<>> /\ ~KeyedByFunction =>
    \A x \in Name : \A p \in DOMAIN caches[x] : \A k \in Context :
      Agrees(p, k) /\ caches[x][p].content.kind # "level" =>
        HoldsFor(caches[x][p].content, Means(x, k))

=============================================================================
