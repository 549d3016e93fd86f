------------------------------ MODULE Warehouse ------------------------------
(***************************************************************************)
(* The warehouse: the cached evaluation of variables, one cache per        *)
(* variable.  Models Cache and CacheWS (libs/system/cache.cpp) with the    *)
(* cached overloads of the workshops that an expression is made of         *)
(* (libs/system/eval_workshops.cpp).                                       *)
(*                                                                         *)
(* The C++ call stack is explicit: "stack" holds one frame per active      *)
(* call, "control" the call or return in progress.  The cache tree of a    *)
(* variable is a function on paths: the path of an entry is the sequence,  *)
(* one element per CacheLevel on the way to it, of the ordinates of the    *)
(* dimensions of that level.                                               *)
(***************************************************************************)
EXTENDS Integers, Sequences, FiniteSets

CONSTANTS
  Dim,          \* named dimensions
  Hidden,       \* the hidden dimensions of parameters
  TimeDim,      \* DIM_TIME
  Ordinate,     \* the ordinates of named dimensions: a set of integers
  Programs,     \* sets of equations to run: functions from names to expressions
  Expression,   \* the expressions of the programs, with all their parts
  Broken,       \* other variables, whose definitions do not compile
  Apply(_, _),  \* BaseFunction::apply: a pure function of its arguments
  Collected,    \* the names System::garbageCollect visits (m_cachedVars)
  MaxInstant,   \* bound: last instant explored
  MaxDemands    \* bound: evaluations demanded from outside per instant

\* What the parts of an expression are (WorkshopBuilder): its name, constant or
\* dimensions, and other expressions
IsExpression(e) ==
  \/ e.op = "const" /\ e.value.kind \in {"intmp", "bool", "special"}
  \/ e.op = "hash" /\ e.dim \in Dim \cup Hidden
  \/ e.op = "ident"
  \/ e.op = "if" /\ {e.cond, e.then, e.else} \subseteq Expression
  \/ e.op = "bang" /\ e.args \in Seq(Expression) /\ e.args # <<>>
  \/ e.op = "at" /\ e.dim \in Dim \cup Hidden /\ {e.to, e.body} \subseteq Expression
  \/ /\ e.op = "abstraction" /\ e.by \in {"value", "base", "intension"}
     /\ e.params \in Seq(Hidden) /\ e.binds \cup e.scope \subseteq Dim \cup Hidden
     /\ e.body \in Expression /\ (e.by = "intension" => e.params = <<>>)
  \/ e.op = "apply" /\ e.of \in Seq(Expression) /\ e.of # <<>>

ASSUME WarehouseAssumption ==
  /\ TimeDim \in Dim /\ Dim \cap Hidden = {}
  /\ \A e \in Expression : IsExpression(e)
  /\ \A eqns \in Programs : \A x \in DOMAIN eqns : eqns[x] \in Expression
  /\ Ordinate \subseteq Int
  /\ \A eqns \in Programs : DOMAIN eqns \cap Broken = {}
  /\ 0 \in Ordinate
  /\ MaxInstant \in Nat
  /\ MaxDemands \in Nat

VARIABLES
  equations,   \* the expression of each variable; fixed
  now,         \* System::m_time
  demands,     \* number of demands made in this instant
  kappa,       \* the context, shared and perturbed by all active calls
  delta,       \* the dimensions the innermost call may look at
  stack,       \* active calls, innermost last
  control,     \* what the innermost call is doing
  caches,      \* per variable: m_cache, from paths to entries
  retirement,  \* per variable: m_retirementAge
  result       \* the last demand answered

vars == <<equations, now, demands, kappa, delta, stack, control, caches,
          retirement, result>>

Name == DOMAIN equations
Instant == 0..MaxInstant

-----------------------------------------------------------------------------
(* Constants, the values of TransLucid *)

Intmp(n)   == [kind |-> "intmp", v |-> n]
Boolean(b) == [kind |-> "bool", holds |-> b]
Special(s) == [kind |-> "special", name |-> s]
Demand(ds) == [kind |-> "demand", dims |-> ds]
Calc       == [kind |-> "calc"]

\* Ordinates are keys of a std::map: a function is not less than any other
\* (less_false, ValueFunctionType::less), so all of a kind are one key
Key(c) ==
  IF c.kind # "closure" THEN c
  ELSE IF c.by = "intension" THEN c.key
  ELSE [kind |-> "function", by |-> c.by]

\* Functions of either kind and intensions are a body with the ordinates it was
\* bound to; "by" is the call by value function, base function or intension
Closure(by, params, body, binds) ==
  [kind |-> "closure", by |-> by, params |-> params, body |-> body, binds |-> binds,
   key |-> [kind |-> by, body |-> body, binds |-> [d \in DOMAIN binds |-> Key(binds[d])]]]

IsClosure(c, by) == c.kind = "closure" /\ c.by = by

\* A CacheLevel with dimensions; only ever found as the content of an entry
Level(ds) == [kind |-> "level", dims |-> ds]

\* The function g, perturbed by f (MutableContext::perturb)
Perturbed(g, f) == [d \in DOMAIN f \cup DOMAIN g |-> IF d \in DOMAIN f THEN f[d] ELSE g[d]]

\* Contexts as the outside asks: named dimensions are set, parameters are not
Unset == Special("spdim")
Outer(k) == Perturbed([d \in Hidden |-> Unset], k)
Context ==
  {Outer([d \in Dim |-> Intmp(k[d])]) :
     k \in {f \in [Dim -> Ordinate \cup Instant] :
              f[TimeDim] \in Instant /\ \A d \in Dim \ {TimeDim} : f[d] \in Ordinate}}

\* A Delta may have every dimension; then what it lists are those it was given
Everything == "every dimension"
ASSUME EverythingAssumption == Everything \notin Dim \cup Hidden

Contains(ds, dims) == Everything \in ds \/ dims \subseteq ds
Lacks(ds, dims) == IF Everything \in ds THEN {} ELSE dims \ ds

-----------------------------------------------------------------------------
(* Cache *)

Entry(content) == [content |-> content, age |-> 0]

Root == <<>>

\* The path agrees with the ordinates of context k
Agrees(p, k) == \A i \in DOMAIN p : \A d \in DOMAIN p[i] : p[i][d] = Key(k[d])

DimsOf(p) == UNION {DOMAIN p[i] : i \in DOMAIN p}

\* The entries met on the way down from the root, entering no level that has
\* a dimension outside ds
Walk(c, k, ds) == {p \in DOMAIN c : Agrees(p, k) /\ Contains(ds, DimsOf(p))}

Deepest(paths) == CHOOSE p \in paths : \A q \in paths : Len(q) <= Len(p)

Below(p, ds, k) == Append(p, [d \in ds |-> Key(k[d])])

\* c with a new entry e at path p
With(c, p, e) == [q \in DOMAIN c \cup {p} |-> IF q = p THEN e ELSE c[q]]

Largest(S) == CHOOSE m \in S : \A n \in S : n <= m

\* The answer to a get whose walk has ended at content found: what the walk
\* cannot answer is a calc, for the caller to compute
Answer(found, ds) ==
  IF found.kind = "calc" THEN Special("sploop")
  ELSE IF found.kind # "level" THEN found
  ELSE IF ~Contains(ds, found.dims) THEN Demand(found.dims \ ds)
  ELSE Calc

\* Mutant of Touch: a level on the way keeps its age
TouchValues(c, met) ==
  [p \in DOMAIN c |->
     IF p \in met /\ c[p].content.kind # "level" THEN [c[p] EXCEPT !.age = 0]
     ELSE c[p]]

\* A walk that meets an entry makes it young again (get_cache_level_visitor)
Touch(c, met) ==
  [p \in DOMAIN c |-> IF p \in met THEN [c[p] EXCEPT !.age = 0] ELSE c[p]]

\* Mutant of Older: the retirement age only ever falls
NeverOlder(c, met, r) == r

\* Cache::updateRetirementAge for every entry met
Older(c, met, r) == Largest({c[p].age : p \in met} \cup {r})

\* Mutant of MarkCalc: the computation leaves no mark
MarkNothing(c, k, last, ds) == c

\* Where the walk has no entry yet one is made, marked as being computed
MarkCalc(c, k, last, ds) == With(c, Below(last, ds, k), Entry(Calc))

\* Cache::get on cache c of retirement age r: the value returned, and the
\* cache and retirement age left behind
Get(c, r, k, ds) ==
  IF c = <<>> THEN
    [value |-> Calc, cache |-> With(c, Root, Entry(Calc)), retirement |-> r]
  ELSE
    LET met     == Walk(c, k, ds)
        last    == Deepest(met)
        found   == c[last].content
        value   == Answer(found, ds)
        touched == Touch(c, met)
    IN  [value      |-> value,
         cache      |-> IF value = Calc THEN MarkCalc(touched, k, last, found.dims)
                        ELSE touched,
         retirement |-> Older(c, met, r)]

\* A demand becomes the next level
Stored(value) == IF value.kind = "demand" THEN Level(value.dims) ELSE value

\* Mutants of Set: a demand stored like a value; specials not stored; the level
\* at the top overwritten instead of entered
SetDemand(c, k, value) == [c EXCEPT ![Deepest(Walk(c, k, {Everything}))].content = value]

SetUnlessSpecial(c, k, value) ==
  IF value.kind = "special" THEN c
  ELSE [c EXCEPT ![Deepest(Walk(c, k, {Everything}))].content = Stored(value)]

SetTop(c, k, value) == [c EXCEPT ![Root].content = Stored(value)]

\* Cache::set walks down whatever the delta, and overwrites the entry it ends at
Set(c, k, value) ==
  [c EXCEPT ![Deepest(Walk(c, k, {Everything}))].content = Stored(value)]

\* Cache::set throws when the walk ends at a level, not at a calc or a value
SetThrows(c, k) ==
  c = <<>> \/ c[Deepest(Walk(c, k, {Everything}))].content.kind = "level"

IsPrefix(p, q) == Len(p) <= Len(q) /\ SubSeq(q, 1, Len(p)) = p

\* collect_level_node: an entry goes with everything below it, or not at all
Collectable(c, r, p) == \A q \in DOMAIN c : IsPrefix(p, q) => c[q].age > r

\* Cache::garbageCollect; the root stays even when it could be collected
GarbageCollect(c, r) ==
  [p \in {q \in DOMAIN c : q = Root \/ ~Collectable(c, r, q)} |->
     IF Collectable(c, r, p) THEN c[p] ELSE [c[p] EXCEPT !.age = @ + 1]]

-----------------------------------------------------------------------------
(* Calls and returns *)

Idle         == [do |-> "idle"]
Eval(e)      == [do |-> "eval", expr |-> e]
Call(x)      == [do |-> "call", name |-> x]
Return(c)    == [do |-> "return", value |-> c]
Looking      == [do |-> "get"]      \* head of the loop of CacheWS
Finishing    == [do |-> "finish"]   \* behind that loop

\* The calls that wait: System::go's call of a variable (link), CacheWS in
\* m_expr (cache), IfWS in its condition, BangOpWS in an argument, AtTupleWS in
\* its tuple (at) or in its body with kappa and delta perturbed (perturbed)
Frame(fn, payload) == [fn |-> fn, of |-> payload, delta |-> delta, kappa |-> kappa]

Top == stack[Len(stack)]
Popped == SubSeq(stack, 1, Len(stack) - 1)
Push(frame) == Append(stack, frame)

Evaluating(op) == control.do = "eval" /\ control.expr.op = op
ReturningTo(fn) == control.do = "return" /\ Top.fn = fn

\* Steps that leave the caches and the world outside alone
Local == UNCHANGED <<equations, now, demands, caches, retirement, result>>

\* Return c to the frame below, from a call that changed neither context
Yield(c) ==
  /\ control' = Return(c)
  /\ UNCHANGED <<kappa, delta>>

-----------------------------------------------------------------------------
(* Workshops: the cached overloads operator()(kappa, delta, w, t) *)

EvalConst ==
  /\ Evaluating("const")
  /\ Yield(control.expr.value)
  /\ UNCHANGED stack
  /\ Local

\* Mutants of EvalHash: the dimension demanded although delta has it; the
\* ordinate used although delta has not
EvalHashDemanding ==
  /\ Evaluating("hash")
  /\ Yield(Demand({control.expr.dim}))
  /\ UNCHANGED stack
  /\ Local

EvalHashAnyway ==
  /\ Evaluating("hash")
  /\ Yield(kappa[control.expr.dim])
  /\ UNCHANGED stack
  /\ Local

\* HashWS: a dimension must be in delta before its ordinate may be used
EvalHash ==
  /\ Evaluating("hash")
  /\ LET d == control.expr.dim
     IN  Yield(IF Contains(delta, {d}) THEN kappa[d] ELSE Demand({d}))
  /\ UNCHANGED stack
  /\ Local

\* IdentWS
EvalIdent ==
  /\ Evaluating("ident") /\ control.expr.name \notin Broken
  /\ LET x == control.expr.name
     IN  control' = IF x \in Name THEN Call(x) ELSE Return(Special("spundef"))
  /\ UNCHANGED <<kappa, delta, stack>>
  /\ Local

NoResult == [name |-> "", at |-> <<>>, value |-> Calc]

\* A group that does not compile throws whenever it is evaluated.  No cache
\* catches it: destructors put the context back, and the calcs of the calls it
\* goes through stay.  Who asked may ask again, as the lexer does for the next
\* operator.
EvalThrows ==
  /\ Evaluating("ident") /\ control.expr.name \in Broken
  /\ kappa' = stack[1].kappa
  /\ delta' = {}
  /\ stack' = <<>>
  /\ control' = Idle
  /\ result' = NoResult
  /\ UNCHANGED <<equations, now, demands, caches, retirement>>

\* IfWS evaluates its condition first
EvalIf ==
  /\ Evaluating("if")
  /\ stack' = Push(Frame("if", control.expr))
  /\ control' = Eval(control.expr.cond)
  /\ UNCHANGED <<kappa, delta>>
  /\ Local

ReturnIf ==
  /\ ReturningTo("if")
  /\ LET c == control.value
         e == Top.of
     IN  control' = IF c.kind \in {"demand", "special"} THEN Return(c)
                    ELSE IF c.kind # "bool" THEN Return(Special("sptype"))
                    ELSE IF c.holds THEN Eval(e.then)
                    ELSE Eval(e.else)
  /\ stack' = Popped
  /\ UNCHANGED <<kappa, delta>>
  /\ Local

\* BangOpWS with a base function: every argument is evaluated, whatever the
\* ones before it returned
EvalBang ==
  /\ Evaluating("bang")
  /\ stack' = Push(Frame("bang", [expr |-> control.expr, done |-> <<>>]))
  /\ control' = Eval(control.expr.args[1])
  /\ UNCHANGED <<kappa, delta>>
  /\ Local

OfKind(args, kind) == {i \in DOMAIN args : args[i].kind = kind}

FirstSpecial(args) ==
  args[CHOOSE i \in OfKind(args, "special") : \A j \in OfKind(args, "special") : i <= j]

\* All the arguments are there: demands first, then the special combiner (the
\* header's special_combine keeps the first), then the function itself
Combine(f, args) ==
  IF OfKind(args, "demand") # {}
  THEN Demand(UNION {args[i].dims : i \in OfKind(args, "demand")})
  ELSE IF OfKind(args, "special") # {}
  THEN FirstSpecial(args)
  ELSE Apply(f, args)

ReturnBang ==
  /\ ReturningTo("bang")
  /\ LET e    == Top.of.expr
         done == Append(Top.of.done, control.value)
     IN  IF Len(done) < Len(e.args)
         THEN /\ stack' = [stack EXCEPT ![Len(stack)].of.done = done]
              /\ control' = Eval(e.args[Len(done) + 1])
         ELSE /\ stack' = Popped
              /\ control' = Return(Combine(e.fn, done))
  /\ UNCHANGED <<kappa, delta>>
  /\ Local

\* AtTupleWS with one pair [dim <- to]
EvalAt ==
  /\ Evaluating("at")
  /\ stack' = Push(Frame("at", control.expr))
  /\ control' = Eval(control.expr.to)
  /\ UNCHANGED <<kappa, delta>>
  /\ Local

\* A later instant is refused, by the time in kappa and not by one demanded;
\* otherwise the body runs with kappa and delta perturbed.  The number of a time is
\* taken before a special is looked for: of a special it is read from what is none,
\* and the program does not go on
ReturnAt ==
  /\ ReturningTo("at")
  /\ Top.of.dim = TimeDim => control.value.kind \in {"demand", "intmp"}
  /\ LET c == control.value
         e == Top.of
     IN  IF c.kind \in {"demand", "special"}
         THEN Yield(c) /\ stack' = Popped
         ELSE IF e.dim = TimeDim /\ c.v > kappa[TimeDim].v
         THEN Yield(Special("spaccess")) /\ stack' = Popped
         ELSE /\ stack' = Append(Popped, Frame("perturbed", e))
              /\ kappa' = [kappa EXCEPT ![e.dim] = c]
              /\ delta' = delta \cup {e.dim}
              /\ control' = Eval(e.body)
  /\ Local

\* Mutant of ReturnPerturbed: the dimension stays in delta
ReturnStillPerturbed ==
  /\ ReturningTo("perturbed")
  /\ kappa' = Top.kappa
  /\ stack' = Popped
  /\ UNCHANGED <<control, delta>>
  /\ Local

\* ~ContextPerturber and ~DeltaPerturber
ReturnPerturbed ==
  /\ ReturningTo("perturbed")
  /\ kappa' = Top.kappa
  /\ delta' = Top.delta
  /\ stack' = Popped
  /\ UNCHANGED control
  /\ Local

-----------------------------------------------------------------------------
(* Functions and intensions *)

\* What an abstraction is bound to: the dimensions of its binds, constants here,
\* those of the parameters around it, and the time if it is a base function
BoundBy(e) == e.binds \cup e.scope \cup (IF e.by = "base" THEN {TimeDim} ELSE {})

Bound(e, k) == Closure(e.by, e.params, e.body, [d \in BoundBy(e) |-> k[d]])

\* LambdaAbstractionWS, BaseAbstractionWS and MakeIntenWS: what is bound has to
\* be in delta, but for the time
EvalAbstraction ==
  /\ Evaluating("abstraction")
  /\ LET e == control.expr
         missing == Lacks(delta, e.binds \cup e.scope)
     IN  Yield(IF missing # {} THEN Demand(missing) ELSE Bound(e, kappa))
  /\ UNCHANGED stack
  /\ Local

\* The body of a closure runs with what it was bound to: on top of the context,
\* or, for a base function, of an empty one whose delta lists nothing else
Perturbing(c, args, k) ==
  LET given == [i \in DOMAIN c.params |-> args[i]]
      params == [d \in {c.params[i] : i \in DOMAIN c.params} |->
                   given[CHOOSE i \in DOMAIN c.params : c.params[i] = d]]
  IN  IF c.by = "base" THEN Perturbed(Perturbed([d \in DOMAIN k |-> Unset], c.binds), params)
      ELSE Perturbed(Perturbed(k, params), c.binds)

Enter(c, args) ==
  /\ stack' = Append(Popped, Frame("perturbed", Top.of.expr))
  /\ kappa' = Perturbing(c, args, kappa)
  /\ delta' = (IF c.by = "base" THEN {Everything} ELSE delta)
              \cup {c.params[i] : i \in DOMAIN c.params} \cup DOMAIN c.binds
  /\ control' = Eval(c.body)

Answered(c) == Yield(c) /\ stack' = Popped

\* LambdaApplicationWS, EvalIntenWS, and BangOpWS with an expression for its
\* function: it and its operands are evaluated, whatever the ones before returned
EvalApply ==
  /\ Evaluating("apply")
  /\ stack' = Push(Frame("apply", [expr |-> control.expr, done |-> <<>>]))
  /\ control' = Eval(control.expr.of[1])
  /\ UNCHANGED <<kappa, delta>>
  /\ Local

NoFunction(by) == Special(IF by = "base" THEN "spundef" ELSE "sptype")

\* Demands come first; then the function is looked at, a base function combining
\* the specials it is given
ApplyNow(by, done) ==
  LET f == done[1]
      args == Tail(done)
  IN  IF OfKind(done, "demand") # {}
      THEN Answered(Demand(UNION {done[i].dims : i \in OfKind(done, "demand")}))
      ELSE IF ~IsClosure(f, by) THEN Answered(NoFunction(by))
      ELSE IF by = "base" /\ OfKind(args, "special") # {} THEN Answered(FirstSpecial(args))
      ELSE IF Len(args) # Len(f.params) THEN Answered(Special("sptype"))
      ELSE Enter(f, args)

ReturnApply ==
  /\ ReturningTo("apply")
  /\ LET e    == Top.of.expr
         done == Append(Top.of.done, control.value)
     IN  IF Len(done) < Len(e.of)
         THEN /\ stack' = [stack EXCEPT ![Len(stack)].of.done = done]
              /\ control' = Eval(e.of[Len(done) + 1])
              /\ UNCHANGED <<kappa, delta>>
         ELSE ApplyNow(e.by, done)
  /\ Local

-----------------------------------------------------------------------------
(* CacheWS *)

\* operator()(kappa, delta, w, t) is called: subdelta starts empty, the delta of
\* the caller is kept in the frame
CallCache ==
  /\ control.do = "call"
  /\ stack' = Push(Frame("cache", control.name))
  /\ delta' = {}
  /\ control' = Looking
  /\ UNCHANGED kappa
  /\ Local

\* Mutant of Demanded: subdelta does not grow
DemandedAgain(ds) ==
  LET missing == ds \ Top.delta
  IN  IF missing # {}
      THEN /\ control' = Return(Demand(missing))
           /\ delta' = Top.delta
           /\ stack' = Popped
      ELSE /\ control' = Looking
           /\ UNCHANGED <<delta, stack>>

\* A demand within the loop: what the caller does not have is returned to it,
\* else subdelta grows and the loop goes round
Demanded(ds) ==
  LET missing == ds \ Top.delta
  IN  IF missing # {}
      THEN /\ control' = Return(Demand(missing))
           /\ delta' = Top.delta
           /\ stack' = Popped
      ELSE /\ delta' = delta \cup ds
           /\ control' = Looking
           /\ UNCHANGED stack

Keep(x, got) ==
  /\ caches' = [caches EXCEPT ![x] = got.cache]
  /\ retirement' = [retirement EXCEPT ![x] = got.retirement]

Outside == UNCHANGED <<equations, now, demands, kappa, result>>

\* m_cache.get(kappa, subdelta)
CacheGet ==
  /\ control = Looking
  /\ LET x   == Top.of
         got == Get(caches[x], retirement[x], kappa, delta)
     IN  /\ Keep(x, got)
         /\ \/ /\ got.value = Calc
               /\ control' = Eval(equations[x])
               /\ UNCHANGED <<delta, stack>>
            \/ /\ got.value.kind = "demand"
               /\ Demanded(got.value.dims)
            \/ /\ got.value.kind \notin {"calc", "demand"}
               /\ control' = Finishing
               /\ UNCHANGED <<delta, stack>>
  /\ Outside

\* m_expr has returned: m_cache.set(kappa, subdelta, result)
CacheSet ==
  /\ ReturningTo("cache")
  /\ LET x == Top.of
         c == control.value
     IN  /\ ~SetThrows(caches[x], kappa)
         /\ caches' = [caches EXCEPT ![x] = Set(@, kappa, c)]
         /\ IF c.kind = "demand" THEN Demanded(c.dims)
            ELSE control' = Finishing /\ UNCHANGED <<delta, stack>>
  /\ UNCHANGED retirement
  /\ Outside

\* the last m_cache.get(kappa, delta), with the delta of the caller
CacheFinish ==
  /\ control = Finishing
  /\ LET x   == Top.of
         got == Get(caches[x], retirement[x], kappa, Top.delta)
     IN  /\ Keep(x, got)
         /\ control' = Return(got.value)
  /\ delta' = Top.delta
  /\ stack' = Popped
  /\ Outside

\* CacheWS::operator()(kappa), the link from System::go: every demand that
\* gets this far is filled in from kappa, and the call is repeated
ReturnLink ==
  /\ ReturningTo("link")
  /\ LET c == control.value
     IN  IF c.kind = "demand"
         THEN /\ delta' = delta \cup c.dims
              /\ control' = Call(Top.of)
              /\ UNCHANGED <<stack, result>>
         ELSE /\ delta' = {}
              /\ control' = Idle
              /\ stack' = Popped
              /\ result' = [name |-> Top.of, at |-> kappa, value |-> c]
  /\ UNCHANGED <<equations, now, demands, kappa, caches, retirement>>

Step ==
  \/ EvalConst \/ EvalHash \/ EvalIdent \/ EvalThrows \/ EvalIf \/ EvalBang \/ EvalAt
  \/ EvalAbstraction \/ EvalApply \/ ReturnApply
  \/ ReturnIf \/ ReturnBang \/ ReturnAt \/ ReturnPerturbed \/ ReturnLink
  \/ CallCache \/ CacheGet \/ CacheSet \/ CacheFinish

-----------------------------------------------------------------------------
(* System::go *)

Init ==
  /\ equations \in Programs
  /\ now = 0
  /\ demands = 0
  /\ kappa = Outer([d \in Dim |-> Intmp(0)])
  /\ delta = {}
  /\ stack = <<>>
  /\ control = Idle
  /\ caches = [x \in Name |-> <<>>]
  /\ retirement = [x \in Name |-> 2]
  /\ result = NoResult

\* An assignment asks for variable x somewhere in the current instant
Ask(x, k) ==
  /\ stack = <<>>
  /\ demands < MaxDemands
  /\ demands' = demands + 1
  /\ k[TimeDim] = Intmp(now)
  /\ kappa' = k
  /\ delta' = {}
  /\ stack' = <<[fn |-> "link", of |-> x, delta |-> {}, kappa |-> k]>>
  /\ control' = Call(x)
  /\ UNCHANGED <<equations, now, caches, retirement, result>>

\* The assignments are done: caches are collected, and the next instant begins
EndInstant ==
  /\ stack = <<>>
  /\ now < MaxInstant
  /\ now' = now + 1
  /\ demands' = 0
  /\ caches' = [x \in Name |->
        IF x \in Collected /\ caches[x] # <<>>
        THEN GarbageCollect(caches[x], retirement[x]) ELSE caches[x]]
  /\ retirement' = [x \in Name |->
        IF x \in Collected /\ caches[x] # <<>>
        THEN retirement[x] - 1 ELSE retirement[x]]
  /\ kappa' = Outer([d \in Dim |-> Intmp(IF d = TimeDim THEN now' ELSE 0)])
  /\ UNCHANGED <<equations, delta, stack, control, result>>

Next ==
  \/ Step
  \/ \E x \in Name, k \in Context : Ask(x, k)
  \/ EndInstant

Spec == Init /\ [][Next]_vars

\* One thread runs an evaluation to its end
FairSpec == Spec /\ WF_vars(Step)

-----------------------------------------------------------------------------
(* Correctness *)

Kinds == {"intmp", "bool", "special", "closure", "demand", "calc", "level"}

\* The shape of the state: contexts are total, deltas are sets of dimensions,
\* every cache is a tree whose paths go through levels.
TypeOK ==
  /\ now \in Instant /\ demands \in 0..MaxDemands
  /\ DOMAIN kappa = Dim \cup Hidden
  /\ \A d \in DOMAIN kappa : kappa[d].kind \in {"intmp", "bool", "special", "closure"}
  /\ delta \subseteq DOMAIN kappa \cup {Everything}
  /\ \A x \in Name : \A p \in DOMAIN caches[x] :
       /\ caches[x][p].content.kind \in Kinds \ {"demand"}
       /\ caches[x][p].age \in Nat
       /\ \A n \in 0..(Len(p) - 1) :
            LET above == SubSeq(p, 1, n)
            IN  /\ above \in DOMAIN caches[x]
                /\ caches[x][above].content = Level(DOMAIN p[n + 1])

\* "There is guaranteed to be an entry for the current delta which is set to
\* calc" (cache.cpp): when an expression returns, its result has a calc to
\* overwrite, whatever the evaluation below it did to the same cache, and none
\* of the Cache error exceptions is thrown.
CalcToOverwrite ==
  control.do = "return" /\ stack # <<>> /\ Top.fn = "cache" =>
    /\ ~SetThrows(caches[Top.of], kappa)
    /\ LET met == Walk(caches[Top.of], kappa, {Everything})
       IN  /\ caches[Top.of][Deepest(met)].content = Calc
           /\ Deepest(met) = Deepest(Walk(caches[Top.of], kappa, delta))

\* The calls of CacheWS that are computing m_expr
Computing(x) ==
  {i \in DOMAIN stack :
     /\ stack[i].fn = "cache" /\ stack[i].of = x
     /\ i = Len(stack) => control.do \notin {"get", "finish"}}

\* calc marks the computations in progress, one entry for each active call of
\* m_expr.  Only an exception leaves calcs behind, those of the calls it ends,
\* and only the collector takes such away: else sploop is a loop and nothing
\* else.
LeftBehind(x) ==
  Cardinality({p \in DOMAIN caches[x] : caches[x][p].content = Calc})
    - Cardinality(Computing(x))

CalcIsComputing ==
  [][\A x \in Name :
       \/ LeftBehind(x)' = LeftBehind(x)
       \/ EvalThrows
       \/ now' # now /\ LeftBehind(x)' < LeftBehind(x)]_vars

\* An expression demands only dimensions its delta lacks, so every turn of the
\* loop of CacheWS goes one level deeper, and no dimension occurs twice on a
\* path.
LevelsAreNew ==
  \A x \in Name : \A p \in DOMAIN caches[x] :
    LET content == caches[x][p].content
    IN  content.kind = "level" =>
          content.dims # {} /\ content.dims \cap DimsOf(p) = {}

\* The age of an entry is at most that of the entries below it: to be used is
\* to have every entry above used, which the collector relies on when it keeps
\* an entry for the sake of its children.
AgesOrdered ==
  \A x \in Name : \A p, q \in DOMAIN caches[x] :
    IsPrefix(p, q) => caches[x][p].age <= caches[x][q].age

\* What is known stays known: an entry that holds a value keeps it until it is
\* collected at the end of an instant, and a level keeps its dimensions.
ValuesStay ==
  [][\A x \in Name : \A p \in DOMAIN caches[x] :
       LET content == caches[x][p].content
       IN  content # Calc =>
             \/ p \in DOMAIN caches'[x] /\ caches'[x][p].content = content
             \/ p \notin DOMAIN caches'[x] /\ now' # now]_vars

\* The collector takes nothing that was used in the instant it ends.
UsedIsKept ==
  [][now' # now =>
       \A x \in Name : \A p \in DOMAIN caches[x] :
         caches[x][p].age = 0 => p \in DOMAIN caches'[x]]_vars

\* Every evaluation ends, with a value or a special; also those of variables
\* defined in terms of themselves, which never end without the cache.
EveryDemandAnswered == stack # <<>> ~> stack = <<>>

=============================================================================
