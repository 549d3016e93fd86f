# Verification of TransLucid

TransLucid is a declarative language whose variables are functions of a
multi-dimensional context. A *system* lives through instants of time: in each
instant, objects are declared, deleted or replaced, then demands are evaluated,
then the next instant begins. This directory holds TLA+ models of the parts of
the system that carry that behaviour, the TLC configurations that check them,
and TLAPS proofs about them. Paths below are relative to the repository; `libs`
stands for `src/libs/system`, `tl` for `src/include/tl`.

## 1. The system

| Component | Code | State it keeps | Operations |
|---|---|---|---|
| Definition groups | `tl/bestfit.hpp`, `libs/bestfit.cpp`, used by `equation`, `function`, `opdef`, `datadef` | definitions with their intervals, the index of each uuid, the instants of change, compiled evaluators, a parse position, the compiling flag | add, del, repl, evaluate (which parses and compiles) |
| Warehouse | `libs/cache.cpp`, cached overloads in `libs/eval_workshops.cpp` | one tree of values per cached expression, its retirement age | get, set, garbageCollect; evaluation with (kappa, delta) |
| System | `libs/system.cpp` | tables of identifiers, objects by uuid, assignments, hyperdatons; the instant | addDeclaration, delDecl, replDecl, go |
| Best fit | `libs/bestfit.cpp` (ConditionalBestfitWS), `libs/region.cpp` | none | choice of the most specific, newest applicable definition |
| Context | `tl/context.hpp`, `libs/context.cpp` | a stack of ordinates per dimension, the rho queue | perturb, restore, RAII perturbers |
| Assignments, hyperdatons | `libs/assignment.cpp`, `tl/hyperdaton.hpp`, `libs/hyperdatons` | pending output | enumerate demands, put, commit |
| Text interface | `src/tltext` | input position, headers, options | read an instant, run it, print it |
| Tokenizer, lexer, parser | `libs/line_tokenizer.cpp`, `libs/lexertl.cpp`, `libs/parser.cpp` | a position | split, tokenize (evaluating `operator`), parse |
| Tree passes | `libs/semantic_transform.cpp`, `rename`, `tree_to_wstree`, `workshop_builder` | none | rewriting, compilation to workshops |
| Dependencies | `libs/dependencies.cpp` | sets being closed | a fixed point over identifiers |
| Type inference | `libs/tyinf` | a constraint graph closed under its order | add a constraint, solve, simplify |
| Types, ranges, registries, uuids, character sets | the rest of `libs` | next free indices | conversion and arithmetic |

How they interact. `System::addDeclaration` finds the object a text declares and
adds a definition to its group, or hands a deletion or replacement to the group
that owns the uuid. `System::go` evaluates the assignments in contexts whose time
is the current instant; each assignment is a cached expression, which evaluates
identifiers, whose groups compile themselves on first use, the compiled evaluator
being in turn a cached expression. Reading a text can also evaluate: the lexer
asks `operator` for the properties of a symbol, while declarations are still
being read. There are no threads (the `Thread` argument of the workshops is
passed along and not used); what makes the code hard is

* re-entrancy: an expression evaluates variables that evaluate it again, on the
  same cache tree, with the same context perturbed and restored around it;
* laziness: a definition is parsed and compiled long after it was added, when
  others have been added, ended or replaced;
* failure in the middle: exceptions leave a compilation half done;
* ordering: evaluation and declaration interleave within an instant;
* what is remembered across instants: evaluators and cached values.

What makes each component correct: for a group, that an evaluation at time t uses
exactly the definitions in force at t, and that what was compiled stays valid;
for the warehouse, that it gives the answer evaluation would give without it and
always ends; for the registry, that every uuid reaches the object that has it;
for the best fit, that the choice is the most specific definition and the newest
of those, and does not depend on the order of definitions;
for contexts, that every perturbation is undone exactly; for the text interface,
that what is printed is what was asked, in the instant it was asked in; for the
parser, that it reads every declaration for the tree that was written and
refuses the rest; for the tree passes, that a name means what its binder made
it; for the type graph, that it is closed, and for inference, that a program it
types does not go wrong. The hazards behind these, at their lines, are in
`PROJECT.json`.

## 2. Modules

| Module | Models | Composed in |
|---|---|---|
| `BestfitGroup`, `DefinitionLog` (abstract), `BestfitGroupProofs` | the definitions of one object over time | `MCBestfitGroup` |
| `Warehouse`, `WarehouseDerivations` and `WarehouseMeaning` (what it has to agree with, as rules and as a function), `WarehouseProofs` | cached evaluation | `MCWarehouse` |
| `ContextScopes`, `ScopedBindings` (abstract), `ContextScopesProofs` | context, perturbers, rho and delta | `MCEvaluation` |
| `WhereDims`, extending `ContextScopes`; `WhereDimsProofs` | where clauses and hidden dimensions | `MCEvaluation` |
| `SystemRegistry` | names, uuids, objects, host functions | `MCSystem` |
| `TextInstants`, extending `SystemRegistry` | the main loop of `tltext` | `MCSystem` |
| `DemandEnumeration` | the contexts of an assignment | `MCSystem` |
| `SystemProofs` | the theorems about these three | |
| `BestfitChoice`, `BestfitChoiceProofs` | the choice among definitions with guards | `MCSystem` |
| `LineTokens`, `LineTokensProofs` | from text to lines | `MCStatic` |
| `ExprParser`, `ScopeRenaming` | from a line to the renamed tree | `MCStatic` |
| `RecursionGroups`, `RecursionGroupsProofs` | the order in which types are inferred | `MCStatic` |
| `ConstraintGraph`, `TypeRules` | type inference | `MCStatic` |

`MCEvaluation`, `MCSystem` and `MCStatic` each hold several components that do
not act on one another. Their variable `part` is chosen at the start and never
changes: it says which component the behaviour is of, and the variables of the
others stay what they were. One run then checks them all, each by itself, without
the product of their states.

### BestfitGroup: one object's definitions over time

`BestfitGroup.tla` models class `BestfitGroup`. The variables are its members
(`m_definitions` is `definitions`, and so on; `now` is `System::m_time`), plus
`answer`, what the last operation returned or threw, and `phase`, where the
client is within an instant. A definition is a record of its uuid, its interval
(`-1`, `Open`, for no end) and a class of text: one that fits the object
(`byvalue` and `byname` are functions whose parameters cannot be mixed), one that
declares another kind of object, or one that does not parse. The second can only
come from a replacement, since an addition is dispatched by its first words.

`AddEquation`, `Del` and `Repl` are the member functions, with their refusals.
`Evaluate(t)` is `operator()`: it throws while the compiling flag is set; else,
if changes are pending, it parses the unparsed texts and compiles one evaluator
per change; either may throw, at the text or change where the code does, with
what was done before it kept and the flag left set; then it chooses the evaluator
by `t`. `Chosen`, `LinearSearch` and `BinarySearch` are the three ways to choose.
A compiled evaluator is abstracted to its interval and the set of definitions
grouped into it.

The constant `Interleaved` says whether evaluations happen before the last
declaration of an instant. The instants of `tltext` alternate the two phases, but
reading operators and clients of the library do not.

`DefinitionLog.tla` is the abstract specification: a log of intervals, and
evaluations that use exactly the definitions in force. `BestfitGroup` implements
it under a refinement mapping that forgets everything but the intervals
(`ImplementsLog`).

### Warehouse: cached evaluation

`Warehouse.tla` models `Cache`, `CacheWS` and the cached overloads of the
workshops of constants, identifiers, `#`, `if`, `!` (base functions), `@` (one
pair of a tuple), abstractions, applications and intensions. A cache is a function
from paths to entries: a path has one element per `CacheLevel`, the ordinates of
that level's dimensions, so that the maps of the code, one per dimension, are one
step of the path. An entry is a value, `calc` or a level, with its age.

The C++ stack is a variable. Each active call is a frame with the delta and
kappa to restore; `control` is the call or return in progress. One action is one
call or return, so every re-entrant evaluation is a behaviour of the model.
`CacheGet`, `CacheSet` and `CacheFinish` are the three places where
`CacheWS::operator()` touches its tree, `Demanded` is the loop between them and
`ReturnLink` the repetition of the call by the uncached `operator()`.

The programs that run are a constant: sets of equations, given as expression
trees. `Expression` is the set of these expressions with all their parts, and
`IsExpression` says what the parts of each are, as the workshop builder has them. Base functions of the host are the operator `Apply`; the special combiner
is the one of the standard header, which keeps the first special. The functions
a program defines are values: a call by value function, a base function or an
intension is a `Closure`, its body with the ordinates it was bound to, and its
parameters are hidden dimensions (`Hidden`) that no demand from outside sets.
`EvalAbstraction` makes them, `EvalApply`, `ReturnApply` and `Enter` apply them.
As keys of the tree (`Key`) all functions of one kind are the same, as
`less_false` makes them, while intensions compare by what they are.

`EvalThrows` is an exception: a variable in `Broken` is one whose group does not
compile, which throws at every evaluation (`FailedForGood` of `BestfitGroup` is
that). Nothing between the cache and the lexer (`libs/lexertl.cpp:663`), the
reader of expressions or a client of the library catches it, so that one step
unwinds the stack and restores the context; the calcs of the calls it goes
through stay in their trees.

The model is of variables with one definition that is never changed, the case in
which the group between an identifier and its cache passes calls through.
`Collected` names the caches that `System::go` visits. As the code is wired none
of those that groups and assignments make are visited, so the run about values
leaves it empty; the run about the collector names the caches in it, and shows
what `Cache::garbageCollect` does when it is called.

`WarehouseDerivations.tla` states what an expression means without the warehouse as
rules, one per uncached overload. A judgement is an expression, a context, a value
and a height; a set `J` of judgements is of the program (`Derivations`) when each of
them follows by a rule from judgements in `J` of less height, as an evaluation that
ends is made of evaluations that end. An application of what is no function is
refused before its arguments are looked at (`Refuses`), as the uncached overloads do.
`J` can be the set of all that can be derived;
an evaluation that never ends, or that throws, has no judgement in any `J`. The
agreement of the warehouse with the rules is `AnsweredRight` and `EntriesRight`,
which section 4 proves.

`WarehouseMeaning.tla` defines the same expressions by the uncached overloads,
as a recursive operator with a bound on nested calls beyond which evaluation
cannot end, and states the agreement of the two. `NoValue` stands for evaluations
that never end and for those that throw. Two things are set apart. An entry
that depends on a parameter whose value is a function (`KeyedByFunction`) answers
for every function, so `Transparent` and `EntriesSound` say nothing once there is
one. And a special that an earlier exception has left reaches the program as a
value: a function that ignores its argument would turn it into an answer where
evaluation without the cache throws again; the programs that throw have none.

### ContextScopes and WhereDims: the context of an evaluation

`ContextScopes.tla` models `Context` as it is: a window of cells from `min` to
`max` that grows at both ends, each cell a current ordinate and the stack below
it, and `setDims`. What perturbs it are C++ objects whose destructors restore it;
a scope is one of them, either a `ContextPerturber` with the `DeltaPerturber`
beside it or a `RhoManager`. They end innermost first,
whether by return or by an exception that unwinds several. `LessEqMeans` compares
`operator<=` with inclusion. `ScopedBindings.tla` is the abstract specification:
dynamic scoping, where leaving a scope brings back what was seen on entering it.

`WhereDims.tla` adds `WhereWS` and `ChiMap`. Every evaluation of a where clause
asks for hidden dimensions for those it declares, by its place, and by the rho of
the context without the cache or by the clause's own stack of depths with it; then
evaluates the initialisers, which may enter the same clause again, and the body.
An exception may end it at any point.

### SystemRegistry, TextInstants: declarations and instants

`SystemRegistry.tla` models the tables of `System`: `identifiers`, from names to
objects, `objects`, from uuids to objects, `basefuns` with the counter of its
versions, and the definitions of each object. Every kind of declaration is an
action, with deletion, replacement and the next instant. `TextInstants.tla` is
the loop of `TLText::run` over it: declarations, expressions, each of which becomes
an assignment to the output `demand` in a slot of the instant, the assignments of
all instants so far, of which those of another time are passed over, and the
printing of the slots of `DemandHD`, which are kept from instant to instant.
Evaluating an identifier compiles its group, and those of the identifiers its
definitions mention (any, in the model): `evaluators` holds, for each object
evaluated so far, what each of its changes was compiled to. As in `BestfitGroup` an
evaluator is the set of definitions it is made of, chosen by the test of
`compileInstant` (`CompileInstant`) when it is compiled and kept from then on, and
the evaluator used is that of the last change (`LastChange`). So a definition that
was deleted is printed again after a later change, as it is by the program. What a
slot holds is this set, not the value it evaluates to: the caches and the values of
what the definitions mention are the matter of `Warehouse`.

`DemandEnumeration.tla` is the odometer of `AssignmentWS` over the ranges of a
demand. `BestfitChoice.tla` is the choice of `ConditionalBestfitWS` and of
`Bestfit` for one variable: guards whose entries are frozen or evaluated into
regions, applicability, inclusion of regions, the newest of the best, and the
cached form of the same choice, where an entry may answer with a demand and is
looked at again once the dimension is there.

### LineTokens, ExprParser, ScopeRenaming: from text to tree

`LineTokens.tla` is the scanner that cuts a text into declarations. The variables
are the members of `LineTokenizer`, and `at` says which loop is executed; a step is
one turn of a loop with the character it reads (`SkipSpace`, `SkipComment`,
`ReadOuter`, `readInterpretedString`, ...), with what the turn does to the buffer,
the nesting of `where` and the read-ahead, or with the exception that ends the line.
`Emitted` is the return of `next`, and `Call` the next call of it. The reference,
`Pieces`, goes over the text once and knows nothing of the members; `SplitsAtOuter`
says that the lines returned so far are its pieces, and at the end all of them.

The comparison is for `Plain` texts. In the others the code overlooks a character: a
quote that follows a word directly leaves the word open (`line_tokenizer.cpp:243`), so
that what follows the string is joined to it; the character after a single `/` or `;`
is read by the case of the switch and skipped by the loop (`:272`, `:283`, `:307`), so
that a quote or a word there begins nothing; and a line that begins with a single `/`
gets the character after it twice in place of the `/` (`:175`, `:199`). No comment says
what these texts should give, so there is nothing to refute; the run has some of them
among its texts, on which `SplitsAtOuter` claims nothing.

`ExprParser.tla` is the recursive descent of `parser.cpp` over
tokens, with the stack of where clauses and `insert_binary_operator`, which mends
the tree when the next operator binds more tightly; a declaration is written out
from its tree, perhaps with a token dropped, doubled or strayed in, and parsed by
a parser that may have thrown before. `ScopeRenaming.tla` is the part of the
semantic transform that renames binders and allocates dimensions in a scope that
is pushed and popped as the tree is walked, the definitions of where clauses
being transformed later in the scope saved for them.

### RecursionGroups, ConstraintGraph, TypeRules: type inference

`RecursionGroups.tla` orders identifiers as `generate_recurse_groups` does. Its first
steps are the rounds that find the vertices (`FindFree`). Then `StrongConnect` runs,
one step for each call that begins, each edge its loop takes and each call that
returns: `calls` is the C++ stack, with the edges that each loop has left;
`m_index`, `index`, `lowlink`, `m_S` and `groups` (`m_result`) are the members of the
class. Names are numbers in the order of `std::map`, so that the loop takes the least
edge first and the outer loop the vertices in the order `updateIndex` gives them.
`ConstraintGraph.tla` is the closed graph of type variables: order, lower and
upper bounds, conditional constraints, and the decomposition of function types,
each constraint being added with everything that follows from it.
`TypeRules.tla` gives each expression its rule: the graph of its parts, fresh
variables, constraints, and a context of what it needs of parameters, free
identifiers and dimensions. It models the joining and meeting of contexts, the
renaming of a scheme at each use, canonisation, in which sets of variables become
variables with bounds of their own, and `infer_system`, which infers one group
after another. A program is then run by `Eval`, which is not taken from the code
but is the semantics of the language, so that `TypesSound` asks what types are for.

## 3. What is checked

All runs switch deadlock checking off: instants and declarations are bounded, and
a text, a demand, a choice or a tree is done after some steps, so that every
behaviour stops.

| Run | What it shows |
|---|---|
| `Group` | 4 instants, 3 definitions, 2 uuids, all operations and all classes of text, evaluations anywhere. `EvaluatorsTile`: the evaluators partition time. `SearchFinds`: both searches find the same evaluator and end. `EveryChangeRecorded`, `OnlyParsedCompiled`. `PastIsFixed`: a compiled instant keeps its meaning. `FailedForGood`: a compilation that threw makes every later evaluation throw. |
| `GroupAbstract` | Additions only, before the evaluations of their instant: `ImplementsLog`. |
| `GroupDeleted`, `GroupReplaced`, `GroupSameInstant` | Disagreements, below. |
| `WarehouseValues` | 40 programs of two variables over three dimensions, two parameters and two instants, two demands per instant from any context. The tree is a tree (`TypeOK`), a result always finds its calc (`CalcToOverwrite`), calcs are the computations in progress and those an exception ended (`CalcIsComputing`), levels bring new dimensions (`LevelsAreNew`), stored values stay (`ValuesStay`) and are right in every context that reads them, what an exception left included (`EntriesSound`), and demands are answered as they would be without a cache (`Transparent`). |
| `WarehouseInstants` | 4 programs over five instants with collection: `AgesOrdered`, `UsedIsKept`, and `EveryDemandAnswered` under fairness. |
| `Evaluation` | Scopes in every nesting. `ScopesNest`: unwinding finds what each scope began with. `ImplementsScoping`: it is dynamic scoping. `InclusionDecided`: `operator<=` is inclusion, whatever the windows. `HiddenDimsKeep`: while a clause's body runs, its hidden dimensions have the values of its initialisers, also when the clause is entered again inside or left by an exception. |
| `System` | Tables: `UUIDsOwned`, `OneOpen`, `FirstWins`. Texts: `PrintedIsDemanded`, and `TextEnds`. Demands: `DemandPutOnce`, `EnumerationEnds`. Choice: `ChoiceIsBest`, `ChoiceIsKnown` (the choice is that of every context which agrees on the dimensions asked for), `DemandsEnd`. |
| `Static` | `SplitsAtOuter`, `ReadsBack`, `ResolvesLexically`, `GroupsInOrder`, `ClosureKept` (every constraint ever added holds of the bounds), `TypesSound` (a typed program does not go wrong and gives a value of its type). |
| `WarehouseAhead`, `LambdaScope` | Disagreements, below. |

Bounds. Four instants give four evaluators, more than `LinearSearchMaxSize` (2 in
the runs, 7 in the code), so both searches run; three definitions are enough for
one that is ended, its replacement and an unrelated one. `MaxDefinitions` and
`MaxTime` only bound the environment. In the warehouse two ordinates per
dimension give a level siblings, three dimensions give three levels, the second
demand of an instant and the second instant meet what the first left. Five
instants are what the retirement age, which starts at 2, needs to fall below 0
if nothing held it. `MaxInstant` and `MaxDemands` bound the environment; within a
demand nothing is bounded.

In `Evaluation`, `MaxScopes` (5) lets a clause be entered inside a clause with
the scopes of both alive, `MaxPlainScopes` (3) nests all kinds of scope by
themselves, `MaxCalls` (2) is recursion of a clause with the cache;
`MaxPerturb` (2) lets a scope perturb one dimension twice and `MaxIndex` (1) tell
two operands apart; two hidden dimensions can be given before `LastHidden`. In
`System` three uuids are a definition, another of the same name and a third of
another kind, replaced and deleted at will; a text has up to six lines
(`MaxLines`), which make up to three instants, and two expressions per instant
(`MaxSlots`), so that slots are filled, left and filled again; it has one name
and two uuids. Six lines are a definition, its deletion, the end of the instant,
another definition, `%%` and an expression, with which the definition deleted comes
back. Demands have up to three ranges, one of them empty, negative or
infinite; variables have up to three definitions over all the contexts of two
dimensions and the time. In `Static`, texts are all sequences of up to four
fragments (words, separators, strings with escapes, comments), where clauses with two
declarations, and seven texts that are cut short or not plain; declarations have every node
of the grammar and up to three operators of four precedences and associativities,
with one mistake at any place; trees have binders two and three deep over two
names; all graphs of three identifiers are grouped, and all of four in which none
mentions itself; up to five of 21 constraints (`MaxConstraints`) are put between
four type variables in every order; 792 programs are typed, about half of which
are accepted. `Fuel` bounds the evaluation of a typed program beyond any call
chain that these programs end.

Identifiers are symmetric in the group runs: they are only compared.

Fairness. `WF_vars(Step)` in the warehouse: the thread that runs an evaluation
goes on with it. Nothing is assumed of the environment: it need not ask, or end
an instant. `SpecSystem` has weak fairness of its next-state relation: each of its
parts is one thread (a text being read from a file that ends, an assignment
being enumerated, a variable choosing) that does not wait for anybody.

### Where the code and its comments differ

* `GroupDeleted`: `compileInstant` tests `end < time` (`libs/bestfit.cpp:487`)
  where validity at `time` needs `time < end`. A deleted definition is absent at
  the instant of its deletion and is back at the next change; an earlier instant
  compiled after the deletion misses it.
* `GroupReplaced`: `repl` does not move the uuid to the new definition
  (`tl/bestfit.hpp:307`; `adduuid` is never called), so a uuid is replaced once.
* `GroupSameInstant`: `change` (`tl/bestfit.hpp:383`) records an instant once,
  also when it has been compiled since.
* `WarehouseAhead`: `@` compares with the time of kappa without demanding it
  (`libs/eval_workshops.cpp:2046`), so a refusal to look ahead is stored for all
  instants. The programs of the other runs look only back.
* `LambdaScope`: the transform of a lambda or a base function pushes its names
  with `pushScope` and never calls `popScope`
  (`libs/semantic_transform.cpp:449`, "restore the scope"), so that a name reused
  by a lambda stands for its parameter in the rest of the tree.
  `ResolvesLexically` holds of trees in which those names are apart.

Others were met while modelling and have no run of their own.

* The cached `@` with a special for the time hands it to `Types::Intmp::get` before
  it looks for specials (`libs/eval_workshops.cpp:2088`); the uncached overload
  (line 1895) looks first. What follows is undefined, so `ReturnAt` has no step there;
  no program of the runs comes to it.
* The uncached application refuses what is no function before it evaluates the
  argument (`libs/eval_workshops.cpp:1672`); the cached one evaluates the argument
  first. With `x = 5.(y)` and `y = x`, a demand of `x` stores `sploop` for `y`,
  whose value without the cache is `sptype`: TLC finds `Transparent` violated by this
  program. In the programs of the runs the arguments of what is no function do not
  come back to it.
* All functions of a kind are one key of a cache
  (`libs/types/function_type.cpp:260`, where `less` is false): with
  `KeyPrograms` and without the exception for `KeyedByFunction`, a variable given
  the second function answers with the value of the first. No property of the
  runs covers this.
* A base function evaluated under the cache runs with a delta that contains every
  dimension but lists only its own (`libs/cache.cpp:727` subtracts what is
  listed): a cached variable it calls that demands another dimension is asked
  again without end. The programs have no such call, and no property of the runs
  covers it.
* A base function is bound to the time (`tl/types/function.hpp:181`, `DIM_TIME`), but
  the cached overload that makes it (`libs/eval_workshops.cpp:1523`) demands only its
  binds and its scope: a cached variable that calls a base function which reads the
  time keeps at later instants the value of the first. In the programs of the runs
  such a call is only an operand beside a special, which does not change.
* The version counter of host functions is read before it is incremented
  (`libs/system.cpp:899`): the second function of a name gets the number of the
  first, and `insert` keeps the first.
* `fillDelta` (`tl/context.hpp:169`) never advances its index.
* The group chooses an evaluator by the time without demanding it
  (`libs/bestfit.cpp:567`), so that a cached variable keeps what it computed
  from an earlier definition; `go` collects only the caches `cacheVar` has put in
  `m_cachedVars` (`libs/system.cpp:468`), which are never those of groups.
* In the constraint graph, `check_conditionals` fires a condition while the raised
  bound is on its way (`tyinf/constraint_graph.cpp:221` and `:359`), so that a
  later turn of the loop raises a lower bound past an upper one without comparing
  them: from "if b is true then c below d", "b below c", "d at most int", "a below
  b" and "true below a" it accepts `c`. `ClosureKept` names the case `Overtakes`.
  For the same reason a program whose condition and branches read one dimension
  can be typed wrongly, `succ!((\x -> if #.d then x else true)!#.d) @ [d <- true]`
  as an integer for one; the conditions of `MCPrograms` read a dimension of their
  own.
* A join that canonisation makes a variable is not put above the members of its
  set, so that a condition which is met later does not reach it
  (`tyinf/type_inference.cpp`, about 2413).
* The rule of a best fit takes the dimensions that are guarded out of what the
  body needs (`tyinf/type_inference.cpp:1199`), without comparing the type the
  guard leaves with the type the body needs; guarded bodies in `MCPrograms` use a
  parameter at the type it is guarded for.
* `infer_system` links identifiers to their uses only in groups of two or more
  (`tyinf/type_inference.cpp:218`), so a function that calls itself is typed
  without, and its loss is not what `TypesSound` would catch: the recursive programs
  of `MCPrograms` are groups of two. Dimensions that are parameters are never
  instantiated, since the variable that stands for them always has one below it.
* The dependency analysis (`libs/dependencies.cpp`) does not add the direct
  identifiers of what it finds to those seen, stops by counting, drops two of the
  sets of an application, never advances one of its iterators, does not end for a
  function that returns itself, and throws for an application through an outer
  parameter. It is not modelled: there is nothing to state of its result that
  holds.

## 4. What is proved

Thirty-six theorems are listed in `PROJECT.json`; each is for every value of the
constants that the named assumption of its module allows. All of them are safety.
The runs check the same properties on small instances, and each invariant was
checked by TLC before it was proved.

### A definition group

`BestfitGroupProofs.tla` proves, for every number of uuids, instants and
definitions, every class of text and every interleaving,

* `TypeCorrect`: `Spec => []TypeOK`,
* `Tiling`: `Spec => []EvaluatorsTile`,
* `Recorded`: `Spec => []EveryChangeRecorded`,
* `ParsedOnly`: `Spec => []OnlyParsedCompiled`,
* `FailureFinal`: `Spec => FailedForGood`,
* `SearchesAgree`: `Spec => []SearchFinds`,
* `PastFixed`: `Spec => PastIsFixed`,
* `AdditionsAsLogged`: `AdditionsOnly` implies `Spec => ImplementsLog`,

all from `Invariance`, that `IInv == TypeOK /\ EvaluatorsTile` is inductive. Neither
half is inductive alone: the indices of the evaluators are meaningful only while
there are no more evaluators than changes, which is part of the tiling, and the
tiling needs the types of the vectors. The only assumption is `GroupAssumption`,
the types of the constants. There is one lemma per operation: a declaration
extends or keeps `changes` in order (`ChangeRecords`, `ChangeTiles`); a
compilation, whether it ends, or stops at change c having begun it,
produces evaluators that tile the changes begun (`CompiledToTiles`, used by
`CompileTiles`); `NextPreserves` puts them together. `EvaluatorsTile` says
nothing of the end of the last evaluator once a compilation has thrown, since the
code has moved it by then; without the flag in it the invariant is false.

Three of the others add what they need to `IInv`. `EveryChangeRecorded` is inductive
beside it: a declaration starts and ends definitions at the current instant only
(`DeclarationKeeps`), which `change` has then recorded, and recorded instants
stay (`DeclarationRecorded`). `OnlyParsedCompiled` needs `PInv`: what the parse
position counts did parse, and evaluators hold nothing beyond it; the position
stops at the text that failed, and a compilation that reaches the grouper has
moved it to the end. `FailedForGood` needs `FailureAnswered`, that a failed
object has not answered with a value, for the steps that change other variables.

`SearchesAgree` is about the recursion of `BinarySearch`, a recursive function on
ranges of indices. Its defining equation has a solution since each call is on a
smaller range (`FindsIsFixed`); that the call on a range of evaluators that tile
ends at the one that holds the instant is shown for the smallest range that would
be wrong (`BinaryFinds`, with `LeastOfNat`, since induction over a predicate is
out of reach). Exactly one evaluator holds an instant because of the tiling
(`OneHolds`, `OnlyItHolds`), so the linear search finds the same.

`PastFixed` needs no more than `IInv`: the position of the compilation only grows,
so a later compilation keeps all evaluators but the last, of which it only moves
the end, to the instant of the next change (`ContinuedSame`, `CompileKeepsPast`).

`AdditionsAsLogged` is the refinement of `DefinitionLog` under the assumption the
run `GroupAbstract` checks it with: definitions are only added, all before the
evaluations of their instant, and their texts parse and fit together. Its
invariant `LInv` says that nothing has failed, that an instant compiled has
passed or has no more declarations to come, and that each evaluator holds the
definitions that began by its start. Without the assumption the code does not
refine the log: the three `Group...` runs that end in violations show the
deletions, replacements and late additions that it loses.

### The registry, texts and demands

`SystemProofs.tla` proves, for any number of names, host functions, uuids
and instants,

* `RegistryTyped`: `SpecRegistry => []RegistryTypeOK`,
* `UuidsOfOneObject`: `SpecRegistry => []UUIDsOwned`,
* `OneInForce`: `SpecRegistry => []OneOpen`,
* `FirstDeclaredWins`: `SpecRegistry => []FirstWins`,

from `RegistryInvariant`, that `RInv` is inductive: the four together with
`TablesTyped` (the groups are sequences of definitions, without which nothing
can be said of one that grows) and `ObjectsMade` (a uuid is sent to an object
that is there). They need one another. At most one definition of a uuid has
not ended only because a deletion or replacement goes to the object that owns the
uuid and ends what it finds there; that object owns all of them only because a
new uuid is fresh, which is a fact of the types; and the first declared object
wins because uuids only grow. The argument is made once for all operations:
`Changes` says that an object keeps its definitions in place, but for the end of
at most one, and gets at most one more behind them. `AddToChanges`,
`SendDelChanges` and `SendReplChanges` show that the operations do no more, one
lemma for each part of the invariant that such a change keeps it. The only
assumption is `RegistryAssumption`, the types of the constants. The run `System`
checks the same four in the part `registry`.

It proves `TextDrivesRegistry`, `SpecText => SpecRegistry`,
step by step: the loop of `tltext` uses the registry only by its operations, and
at most one of them in a step, so the four theorems hold of every text too. It
proves `PrintedAsAsked`, `SpecText => []PrintedIsDemanded`, from
`TextInv`, which is `RInv`, `TextTyped` and what each phase has to say. While the text
is read (`Reading`), all assignments are of earlier instants. While they are
evaluated (`Going`), the last of them are this instant's expressions slot by slot,
those before them are of earlier instants, and the slots of those already
passed hold their values. While it prints (`Printing`), all slots of the instant do.
The value of an expression is what `compileInstant` would choose, for the last change
of its object, from all that is declared; what is printed comes from an evaluator that
may be of an earlier instant. `EvaluatorsRight` relates the two: while a text is read,
every change that has an evaluator is of an earlier instant, and if it is still the last
of its object, its evaluator is made of the definitions that would be chosen now. A
declaration keeps this since it makes the present instant a change
(`DefinitionLineChanges`), so that the evaluators of its object are no longer those of
the last change; a compilation keeps it by making the missing ones
(`EvaluationCompiles`). The theorem says nothing of the intervals that definitions
should have: `compileInstant` chooses by `end < time`, and `GroupDeleted` shows what
comes of it.
What a slot holds from an earlier instant is overwritten before it is read, since
the slots are numbered from 0 again in each instant and the assignments of other
instants write nothing. It assumes no more than the registry does.

It proves `DemandsPutOnce`,
`SpecEnum => []DemandPutOnce`, for any number of ranges, empty or negative. Its
`EnumInv` is the order of the odometer: what has been put is the contexts of the
demand of this instant that come before the current one, each once. The step to
the next context leaves none between them, there is none before the first, and the
carry out of the last range leaves none after it. It assumes that the limits are sequences
of bounds (`LimitsAssumption`).

### Contexts and where clauses

`ContextScopesProofs.tla` proves

* `InclusionByWindows`: `operator<=` of any two well formed contexts in which only
  dimensions are set is inclusion of what they bind;
* `ContextTyped`: `SpecContext => []ContextTypeOK`,
* `ScopesAlwaysNest`: `SpecContext => []ScopesNest`,
* `InclusionAlwaysDecided`: `SpecContext => []InclusionDecided`,
* `PerturbersScope`: `SpecContext => ImplementsScoping`, the refinement of
  `ScopedBindings`.

The inductive invariant `CInv` is `ContextTypeOK`, `OnlyDims(k)` and `ScopesInv`:
the scopes are typed, managers perturb nothing, every scope saw, as it began, the
top of what it has to bring back (`SawWhatItHad`), and what it has to bring back
is under what it and the scopes within it have pushed (`ScopesNest`). A step that
restores needs `ScopesNest`, or the pop would take what another scope had pushed;
that leaving a scope in the refinement brings back what was *seen* needs
`SawWhatItHad`; the inclusion needs `OnlyDims`, since cells between dimensions are
there only because the window is contiguous. The operators have their lemmas
first: what widening a window, pushing, popping and looking up do to cells and
stacks (`WidenedKeeps`, `PerturbedIs`, `RestoredIs`). `ContextAssumption` types
the constants. The run checks `InclusionDecided` in the module `MCEvaluation`.

`WhereDimsProofs.tla` proves that the hidden dimensions of a where clause keep
the values of its initialisers while its body is evaluated, in any nesting, for
the same clause within itself, and after exceptions:

* `HiddenKeptUncached`: `SpecUncached => []HiddenDimsKeep`,
* `HiddenKeptCached`: `SpecCached => []HiddenDimsKeep`.

The property is far from inductive. `HInv` is common to both: `CInv`; `ChiMap` is
injective and counts down; the evaluations in progress nest as their scopes do;
and, for each body, the values it was given are on top or will be once its
perturbations and the scopes within it have ended (`Held`). It remains that a clause within a body is never given the same
dimensions, for which the code has two reasons. Without the cache (`UInv`) the dimensions are asked for by rho: its length
is the number of managers alive, each evaluation has its own manager, so the rho
of an inner evaluation is longer. With the cache (`KInv`) they are asked for by the
stack of depths in `m_chivalue`. The argument traces the stack each evaluation
found (`Trace`: there are a history V of these stacks and one D of the depths). A body
sets the clause's own hidden dimension (PsiQ) to one more than the depth of its
stack, and no scope within the body takes that stack below it, so an evaluation of
the clause inside the body pushes a greater depth; stacks of different clauses
differ in the tag at their bottom. After an exception the depths
stay in `m_chivalue`, so the trace is only claimed while none is unwinding. After
that the stacks may repeat, but no body is left that could be disturbed.
`WhereAssumption` says that the dimensions come from the `DimensionTranslator`,
which gives none twice. A program's evaluations either all use the cache or none
does, as the run has it.

### The choice of a definition

`BestfitChoiceProofs.tla` proves `BestIsChosen`, `SpecChoice => []ChoiceIsBest`, and
`KnownIsEnough`, `SpecChoice => []ChoiceIsKnown`, for any variable, context and set
of known dimensions. Inclusion of regions is a partial order (`SubsetReflexive`,
`SubsetCovers`, `SubsetBothWays`) up to the boolean guard, so the best of those that
apply, if there is one, is unique but for definitions of the same region, of which
the newest is taken (`NewestThere`). `EvaluatedStays` is the lemma under
`KnownIsEnough`: what reads only known dimensions evaluates the same in every
context that agrees on them (`KnownValue`, `RegionStays`, `FitStays`). The invariant
`ChInv` says that a choice is made only when no dimension is still to be asked for.
`ChoiceAssumption` says that definitions are in the order they were declared in and
that no guard has two entries of one rank for a dimension; the order between such
entries is that of addresses.

### The warehouse

`WarehouseProofs.tla` proves

* `CalcIsThere`: `Spec => []CalcToOverwrite`,
* `AgesAreOrdered`: `Spec => []AgesOrdered`,
* `KnownStays`: `Spec => ValuesStay`,
* `UsedStays`: `Spec => UsedIsKept`,
* `WarehouseTyped`: `Spec => []TypeOK`,
* `CalcsAreComputing`: `Spec => CalcIsComputing`,
* `LevelsStayNew`: `Spec => []LevelsAreNew`,
* `AnswersAreRight`: `Spec /\ equations = E /\ [](TimeAsked /\ PlainKeys) =>
  []AnsweredRight(J)`, for each set `J` of derivations of the program `E` with
  `ArgumentsHaveValues(J)`,
* `EntriesAreRight`: the same with `[]EntriesRight(J)`,

for any programs, functions, dimensions and depth of recursion, the last five under
hypotheses that are below. The invariant
`WarehouseInv` has: the frames of the C++ stack give back the context and delta they
began with, and the control fits the innermost of them; each call that computes has
its own calc in its tree, where the walk of its context and delta ends, and no two
calls have the same (`MarksOK`); each cache is a finite tree, in which an entry
hangs below levels with its dimensions (`IsCache`); an entry is not older than those
below it (`Ordered`); and a tree whose retirement age has fallen below 0 has no
entry below the root that was used in this instant (`RetirementsOK`), which is what
`UsedStays` needs. `CalcIsThere` is the heart. The evaluation between the get and the
set of a call may get and set in the same tree, and an exception may leave calcs
anywhere, so the invariant has to speak of all calls on the stack: the set of one
call changes its own calc into a value or a level and nothing else, and a get that
adds an entry adds it where the walk of no other call ends. `AgesAreOrdered` rests on
a walk touching all that it passes. `WarehouseInv` does not look at values, so that
nothing is assumed of the programs for these four beyond `WarehouseAssumption`.

`WarehouseTyped` does look at values. A closure is bound to values, which may be
closures again, to any depth; instead of an induction the invariant `TypedInv` has a
set `V` of closures, each made by an abstraction of the program and bound to constants
or members of `V` (`Closures`), to which every closure in a context, a frame, the
control or a cache belongs; a new closure makes `V` larger (`ClosuresGrow`). Answers
are values and demands of dimensions that there are (`IsAnswer`). A third part,
`Settled`, is about the last `get` of `CacheWS`, with the delta of the caller: behind
the loop there is an entry that is no level on the way of the context, within that
delta, so that this `get` returns neither a calc nor a demand. It needs that the delta
of the loop lists only dimensions the caller has, which `FrameOK` says of each frame.
The hypothesis `HostFunctions` is about the constant `Apply`: what a function of the
host returns is a constant or one of its arguments.

`CalcsAreComputing` counts. With `WarehouseInv` a call that computes has a calc of its
own, but the property is that the difference of the two numbers does not change, so
each step is compared with the calls before and after it: a get that makes a calc is
followed by the call that computes it, and a set overwrites the calc of the call that
stops computing and no other. That what is set is not a calc itself is typing, hence
`HostFunctions` again.

`LevelsStayNew` needs to know which dimensions can be demanded. The invariant `NewInv`
says that a demand on its way, or put aside among the operands of an application, has
a dimension and only dimensions that the delta in force lacks (`New`), and that
perturbations only add to the delta (`Adds`); a set finds its calc at a path within
the delta, so the level it makes is new. A base function is the exception: it runs
under a delta that has every dimension and lists few of them. `AskNothing(L)` is the
hypothesis that the bodies of base functions call nothing: they lie in a set `L` of
expressions without identifiers and applications, closed under operands. It holds of
the programs of the runs. Without it the property fails: a cached variable that a base
function calls can demand again what is demanded already (section 3, the
disagreement at `libs/cache.cpp:727`).

`AnswersAreRight` and `EntriesAreRight` say that the cache is transparent: what is
answered through it is what the rules of the uncached overloads derive, if they derive
anything, and what an entry holds is right in every context that leads to it. The
invariant `Sound` has three parts besides what is asked for.

* `FramesRight`: each frame of the C++ stack is related to the call above it. Where
  the frame's call has a judgement, the one above has the judgement the frame waits
  for, in every context that agrees with the present one on the dimensions of the delta
  in force (`Same`, `About`, `Leads`), and a value on its way down is the value of the
  call in all these contexts (`Right`, `Fits`). Contexts and not one context, because
  what returns is stored for all contexts that agree on what was demanded.
* `EntriesSay`: a stored value is the value in every context that leads to it.
* `WorkRight`: each calc is that of a call which is computing, whose delta lies within
  the dimensions of its path; or no judgement is led to it (`Dead`), as when an
  exception has left it.

The hard case is `sploop`. The answer to a call that meets a calc of the stack is a
special, so it has to be shown that the expression has no value there
(`LoopHasNone`). If it had one, so would the call that made the calc, in the same
contexts; by `Leads` the heights fall along the stack, so that the call above would
have a judgement lower than the one below, and both are led to the same calc, so each
judgement that leads there has a lower one. Heights are natural numbers, hence there
is none. For the same reason the calcs an exception leaves are dead: what throws has
no judgement, and neither has a call that waits for it.

The hypotheses are those of the code. `HostFunctions` is as above. `TimeAsked` says
that a program which changes the time by `@`, or makes a base function, has the time in
the delta already: without it the theorem fails in the way `WarehouseAhead` shows, and
by what section 3 says of base functions bound to the time. `PlainKeys` says that the
ordinates by which entries are found are constants, or intensions bound to constants
only: call by value functions are all one key of the tree (section 3), and so may be
two intensions that are bound to them. `ArgumentsHaveValues` says that where an
application has a value, so have all its operands, as when only functions are applied;
without it a loop through the argument of what is no function is answered `sploop`
(section 3). The first two are stated of the behaviour and not of the
program, so that a program which has such parts and does not reach them is covered.
TLC checked that `TimeAsked /\ PlainKeys` implies `AnsweredRight` and `EntriesRight`
in every state of the run `WarehouseValues`, with the derivations of its programs for
`J`; the run itself checks `Transparent` and `EntriesSound`, the same agreement with
the recursive form of the meaning.

### The groups of identifiers

`RecursionGroupsProofs.tla` proves `GroupsAreInOrder`, `SpecGroups => []GroupsInOrder`,
for any number of identifiers and whatever they mention: Tarjan's algorithm, as
`StrongConnect` has it. Its invariant `GroupsInv` has

* `RoundsKept`: what is met, and what that mentions, is what the identifiers asked for
  depend on, and no search begins before it is known;
* `NodesKept` and `CallsKept`: a vertex that was visited is on `m_S`, in the order of the
  indices, or in a group; the calls are of vertices on the stack, each made by the
  one before by an edge it has taken, and the first call is of the lowest vertex;
* `ReachKept`: what is above the vertex of a call on the stack can be reached from it;
* `LowKept`: a lowlink is the index of a vertex on the stack that can be reached, it is
  below the own index once the call has returned without a group, and the lowlink of
  a call is as low as those of all the calls it made that have returned;
* `EdgesKept`: an edge that was taken leads into a group, or to a vertex on the stack
  not below the lowlink;
* `GroupsKept`: the groups are components, disjoint, and their edges lead to groups
  that are there.

The step that matters is `FinishRootKeeps`: a call ends with its lowlink equal to its
index. By `LowKept` no vertex above it on the stack has a lowlink below this index, so
by `EdgesKept` their edges lead to one another or into groups, which is the order.
They are reached from the root by `ReachKept`. That each reaches the root is shown
for the one with the least index that would not: its lowlink is the index of a
vertex below it, which does. The code compares with the lowlink of a vertex on the
stack and not with its index, as Tarjan does, so a lowlink need not be that of a
vertex one edge away; `LowKept` asks no more than that it can be reached. At the
end (`GroupsAtEnd`) the groups up to any one are closed under what is mentioned,
hence nothing is reached outside of them. `MentionsAssumption` says that a program is a
graph whose vertices are numbers.

### Lines

`LineTokensProofs.tla` proves `LinesAreSplit`, `SpecTokens => []SplitsAtOuter`, for any
text over the symbols. `TextsAssumption` says no more than that texts are made of them.

The reference is a recursive function over the symbols of the text, so what holds of
its places needs an induction. `ScansExist` shows that the function exists, and
`PlacesKept` and `LinesExtend` what its places are and that a place only adds to the
lines of those before it; each takes the least number of symbols for which it would
fail, which exists since the numbers are well founded, and steps to it from the one
before.

The invariant `TokensInv` says of each loop which place of the reference the character
at hand has, and that the buffer is the text from where the line began up to it:

* `AtNext`, `AtSkip`, `AtSkipComment`: between lines, the place is before a line or in
  a comment before it, and the lines returned are those of the place;
* `AtPeeked`: a character was read ahead only for a comment; the position is one past
  the current character here and nowhere else;
* `AtLine` with `Fits`: in a line, the loop is the mode of the place; the loops for the
  second `/`, `;`, `$` and `%` are where the place has the first one as its last
  symbol, and the main loop is where it has not, so that neither pairs three of them
  differently from the other;
* `Counted`: `m_whereDepth` is the depth of the place, and `m_currentIdent` is the word
  that the place is in.

Each action keeps it (`ReadOuterKeeps` and so on) by the step of the reference over the
same symbol. What `Plain` excludes is used in three places only: `AfterIs` for what follows
a single `;` or `/`, `WordCounts` for a quote after a word, and `PeekSlashKeeps` for a
single `/` before a line.

### Only model-checked

* `Transparent` and `EntriesSound` as they are written: `WarehouseMeaning` defines
  recursive operators, and the prover has no induction over data. The two theorems
  above are about the rules instead. Left to TLC is also that an evaluation without a
  value that ends is answered by a special, and the cases in which `TimeAsked` or
  `PlainKeys` fail and the agreement holds nevertheless.
* `ReadsBack`, `ResolvesLexically`, `ClosureKept` and `TypesSound` of the run `Static`:
  their algorithms call themselves over trees or graphs and are written with
  recursive operators. The recursion of `StrongConnect` and the loops of the tokenizer
  became steps of a machine, with the invariants above; a parser or a walk over a
  tree would need its stack of calls as a variable, and an order on trees to induct on.
* `EveryDemandAnswered`, `TextEnds`, `EnumerationEnds` and `DemandsEnd`: liveness
  under fairness, out of the reach of the prover.

## 5. Not modelled

* Warehouse: tuples and regions as values, several pairs of an `@`, unary
  operators and conversions.
* System: inputs and outputs by name and their commit (`in`, `out`, `hd` and
  `assign` declarations), libraries and headers.
* Hyperdatons for files, arrays and the environment: input and output.
* Lexer: its regular expressions and literals. Tokens are given.
* Tree passes: `rename.cpp` and `tree_to_wstree.cpp`, which nothing uses
  (`libs/utility.cpp:716` has the call commented out), and node kinds without
  names, which a generic visitor passes through.
* Workshop builder: the nodes whose workshops are not modelled; the others are
  `IsExpression`.
* Dependency analysis: see above; its order of groups is in `RecursionGroups`.
* Type inference: parameters as dimensions (`#.(#.d)`, changes of them), tuples as
  values, regions in guards beyond constants and types, literals, printing; the
  garbage collection and minimisation of graphs are not called.
* Types: arithmetic and text (GMP, ICU), and conversions between types.
* Static function descriptions, character sets, dynamic libraries.

`PROJECT.json` gives the reason for each component. Vendored code (`lexertl`,
`catch`, `cxxopts`, `optionparser`) is left aside.

## 6. Plan

Theorems to prove next: `ClosureKept` for the closed constraint graph, with
`add_to_closure` as a machine over the constraints still to be added, then `ReadsBack`
and `ResolvesLexically` with the stack of calls as a variable.

To model next: the group and the warehouse together, for the redefinition of a
variable whose dependents are cached, and outputs by name with their commit.
