---------------------------- MODULE ScopeRenaming ----------------------------
(***************************************************************************)
(* The semantic transform, which gives every bound identifier a unique     *)
(* name while it walks a tree, replaces parameters by their hidden         *)
(* dimensions, and puts aside the definitions of where clauses, with their *)
(* scope, to be transformed when they are first used.                      *)
(*                                                                         *)
(* Expressions are records.  The ones with a name bind it.                 *)
(***************************************************************************)
EXTENDS Integers, Sequences, FiniteSets, SequencesExt, TLC

CONSTANT Trees   \* the expressions a program consists of

VARIABLES tree,       \* the expression that is transformed
          simplified, \* whether where dimensions are constants
          leftFirst,  \* which argument of an application is evaluated first:
                      \* C++ leaves it open
          scope,      \* the members of the SemanticTransform, and the counters
                      \* of its System
          output,     \* the tree it returned
          compiled    \* definitions of where clauses with their own output

scopeVars == <<tree, simplified, leftFirst, scope, output, compiled>>

Ident(x) == [op |-> "ident", text |-> x]
Inten(e) == [op |-> "inten", e |-> e]
Apply2(a, b) == [op |-> "app", a |-> a, b |-> b]
Lambda(x, e) == [op |-> "lambda", name |-> x, e |-> e]
Phi(x, e) == [op |-> "phi", name |-> x, e |-> e]
Base(x, e) == [op |-> "base", name |-> x, e |-> e]
\* At most one dimension, with its initialiser, and the definitions
WhereTree(dims, vars, e) == [op |-> "where", dims |-> dims, vars |-> vars, e |-> e]

NoFunction == [x \in {} |-> 0]
NewScope(var, dim) ==
  [rename |-> NoFunction, fn |-> NoFunction, cbn |-> {}, dimscope |-> {}, dims |-> <<>>,
   var |-> var, dim |-> dim, new |-> <<>>]

Drop(f, x) == [y \in DOMAIN f \ {x} |-> f[y]]
Unique(i) == ToString(i) \o "_uniqueid"

(***************************************************************************)
(* Scopes                                                                  *)
(***************************************************************************)
pushScope(s, x) ==
  LET stack == IF x \in DOMAIN s.rename THEN s.rename[x] ELSE <<>>
  IN [s EXCEPT !.var = @ + 1, !.rename = x :> Append(stack, Unique(s.var)) @@ @]

\* Mutant: leaving a scope forgets the name in the scopes around as well
PopWhole(s, x) == [s EXCEPT !.rename = Drop(@, x)]

popScope(s, x) ==
  CASE x \notin DOMAIN s.rename -> s
    [] Len(s.rename[x]) = 1 -> [s EXCEPT !.rename = Drop(@, x)]
    [] OTHER -> [s EXCEPT !.rename[x] = Front(@)]

getRenamed(s, x) == IF x \in DOMAIN s.rename THEN Last(s.rename[x]) ELSE x

makeScope(s) ==
  [s EXCEPT !.rename = [x \in DOMAIN @ |-> <<Last(@[x])>>], !.new = <<>>]

NextHiddenDim(s) == [s EXCEPT !.dim = @ + 1]
Parameter(s, u, d) == [s EXCEPT !.fn = u :> d @@ @, !.dims = Append(@, d)]
Rebuilt(s, e) == [scope |-> s, e |-> e]

pushAll(s, xs) == FoldLeft(pushScope, s, xs)
popAll(s, xs) == FoldLeft(popScope, s, xs)

(***************************************************************************)
(* The walk over the tree                                                  *)
(***************************************************************************)
RECURSIVE Transform(_, _)

TransformIdent(s, x) ==
  LET u == getRenamed(s, x)
  IN CASE u \notin DOMAIN s.fn -> [op |-> "ident", text |-> u]
       [] simplified /\ u \in s.dimscope -> [op |-> "dimension", dim |-> s.fn[u]]
       [] u \in s.cbn -> [op |-> "eval", dim |-> s.fn[u]]
       [] OTHER -> [op |-> "hash", dim |-> s.fn[u]]

IntenRebuilt(r) == Rebuilt(r.scope, [op |-> "inten", scope |-> r.scope.dims, e |-> r.e])

AppRebuilt(first, second) ==
  Rebuilt(second.scope,
          IF leftFirst THEN Apply2(first, second.e) ELSE Apply2(second.e, first))
AfterFirst(e, first) ==
  AppRebuilt(first.e, Transform(first.scope, IF leftFirst THEN e.b ELSE e.a))
TransformApp(s, e) == AfterFirst(e, Transform(s, IF leftFirst THEN e.a ELSE e.b))

Abstraction(e, u, d, dims, body) ==
  [op |-> e.op, name |-> u, dim |-> d, scope |-> dims, e |-> body]

\* The body, with the name u of the parameter on the stack of p
InParameter(p, u) == Parameter(NextHiddenDim(p), u, p.dim)
Outside(r, e, u, d, body) == Rebuilt(r, Abstraction(e, u, d, r.dims, body))

\* The name stays on the stack of m_rename
AfterLambda(e, u, d, body) ==
  Outside([body.scope EXCEPT !.dims = Front(@), !.fn = Drop(@, u)], e, u, d, body.e)
LambdaNamed(p, e, u) == AfterLambda(e, u, p.dim, Transform(InParameter(p, u), e.e))
TransformLambda(s, e) == LambdaNamed(pushScope(s, e.name), e, Unique(s.var))

\* The name stays on the stack of m_rename, and its dimension in m_fnScope: the
\* map that is erased from is a copy bound into the function object.
AfterBase(e, u, d, body) == Outside([body.scope EXCEPT !.dims = Front(@)], e, u, d, body.e)
BaseNamed(p, e, u) == AfterBase(e, u, p.dim, Transform(InParameter(p, u), e.e))
TransformBase(s, e) == BaseNamed(pushScope(s, e.name), e, Unique(s.var))

AfterPhi(e, u, d, body) ==
  Outside(popScope([body.scope EXCEPT !.dims = Front(@), !.fn = Drop(@, u), !.cbn = @ \ {u}], e.name),
          e, u, d, body.e)
PhiNamed(p, e, u) ==
  AfterPhi(e, u, p.dim, Transform([InParameter(p, u) EXCEPT !.cbn = @ \cup {u}], e.e))
TransformPhi(s, e) == PhiNamed(pushScope(s, e.name), e, Unique(s.var))

\* Dimensions, in the scope outside; their names, those of the definitions; the
\* body; and the names out of scope again.  The dimension of s is the one that
\* is declared.
DefinedNames(e) ==
  SetToSortSeq({v.name : v \in ToSet(e.vars)},
    LAMBDA a, b : \E i \in DOMAIN e.vars : e.vars[i].name = a /\
                    \A j \in 1..i : e.vars[j].name # b)
InDimension(s, x, d) ==
  LET u == Unique(s.var)
  IN [pushScope(s, x) EXCEPT !.fn = u :> d @@ @, !.dimscope = @ \cup {u},
                             !.dims = IF simplified THEN @ ELSE Append(@, d)]
InDefinitions(s, e) ==
  [s EXCEPT !.new = @ \o [i \in DOMAIN e.vars |->
     [name |-> getRenamed(s, e.vars[i].name), e |-> e.vars[i].e, scope |-> makeScope(s)]]]
OutOfDimension(s, x) ==
  LET gone == getRenamed(s, x)
  IN popScope([s EXCEPT !.fn = Drop(@, gone), !.dimscope = @ \ {gone},
                        !.dims = IF simplified THEN @ ELSE Front(@)], x)
WhereRebuilt(out, init, alloc, body) ==
  Rebuilt([out EXCEPT !.dim = @ + 2],     \* tagQ and psiQ
          [op |-> "where", init |-> init, alloc |-> alloc, tagQ |-> out.dim, e |-> body])
OutOfWhere(s, e, init, d, body) ==
  IF e.dims = <<>> THEN WhereRebuilt(s, init, <<>>, body)
  ELSE WhereRebuilt(OutOfDimension(s, e.dims[1].name), init, <<d>>, body)
AfterWhere(e, init, d, body) ==
  OutOfWhere(popAll(body.scope, DefinedNames(e)), e, init, d, body.e)
WhereBody(s, e, init, d) ==
  AfterWhere(e, init, d, Transform(InDefinitions(pushAll(s, DefinedNames(e)), e), e.e))
AfterInit(e, d, init) == WhereBody(InDimension(init.scope, e.dims[1].name, d), e, init.e, d)
TransformWhere(s, e) ==
  IF e.dims = <<>> THEN WhereBody(s, e, Ident(""), s.dim)
  ELSE AfterInit(e, s.dim, Transform(NextHiddenDim(s), e.dims[1].init))

Transform(s, e) ==
  CASE e.op = "ident" -> Rebuilt(s, TransformIdent(s, e.text))
    [] e.op = "inten" -> IntenRebuilt(Transform(s, e.e))
    [] e.op = "app" -> TransformApp(s, e)
    [] e.op = "lambda" -> TransformLambda(s, e)
    [] e.op = "base" -> TransformBase(s, e)
    [] e.op = "phi" -> TransformPhi(s, e)
    [] e.op = "where" -> TransformWhere(s, e)

(***************************************************************************)
(* A tree is transformed, then the definitions of its where clauses        *)
(***************************************************************************)
InitScope ==
  /\ tree \in Trees
  /\ simplified \in BOOLEAN
  /\ leftFirst \in BOOLEAN
  /\ scope = NewScope(0, 1)
  /\ output = [op |-> "none"]
  /\ compiled = <<>>

fixupTree ==
  /\ output.op = "none"
  /\ \E r \in {Transform(scope, tree)} : scope' = r.scope /\ output' = r.e
  /\ UNCHANGED <<tree, simplified, leftFirst, compiled>>

\* A new transform restores the scope saved with a definition
fixupDefinition ==
  /\ scope.new # <<>>
  /\ LET n == Head(scope.new)
     IN \E r \in {Transform([n.scope EXCEPT !.var = scope.var, !.dim = scope.dim], n.e)} :
          /\ compiled' = Append(compiled, [name |-> n.name, e |-> r.e])
          /\ scope' = [scope EXCEPT !.new = Tail(@) \o r.scope.new,
                                    !.var = r.scope.var, !.dim = r.scope.dim]
  /\ UNCHANGED <<tree, simplified, leftFirst, output>>

NextScope == fixupTree \/ fixupDefinition

SpecScope == InitScope /\ [][NextScope]_scopeVars

(***************************************************************************)
(* Lexical scoping: an environment and the dimensions around are passed    *)
(* down                                                                    *)
(***************************************************************************)
RECURSIVE Lexical(_, _, _, _), Bound(_), Occurs(_), NamesApart(_)

\* The environments inside a where clause: its definitions have distinct new
\* names, and those that have been transformed are lexical too.
Environments(e, out, env, dims) ==
  LET names == {v.name : v \in ToSet(e.vars)}
      inner(h) == [x \in names |-> Ident(h[x])] @@ env
  IN {inner(h) : h \in {f \in [names -> {Unique(i) : i \in 0..scope.var}] :
        /\ IsInjective(f)
        /\ \A x \in names, c \in ToSet(compiled) : c.name = f[x] =>
             \E w \in ToSet(e.vars) : w.name = x /\ Lexical(w.e, c.e, inner(f), dims)}}

\* out is e where every identifier has been replaced by what the innermost
\* binder of its name got, and every abstraction knows the dimensions around
Lexical(e, out, env, dims) ==
  CASE e.op # "ident" /\ out.op # e.op -> FALSE
    [] e.op = "ident" -> out = IF e.text \in DOMAIN env THEN env[e.text] ELSE e
    [] e.op = "inten" -> out.scope = dims /\ Lexical(e.e, out.e, env, dims)
    [] e.op = "app" -> Lexical(e.a, out.a, env, dims) /\ Lexical(e.b, out.b, env, dims)
    [] e.op \in {"lambda", "base", "phi"} ->
         /\ out.scope = dims
         /\ Lexical(e.e, out.e,
              e.name :> [op |-> IF e.op = "phi" THEN "eval" ELSE "hash", dim |-> out.dim] @@ env,
              Append(dims, out.dim))
    [] e.op = "where" /\ e.dims # <<>> ->
         /\ Lexical(e.dims[1].init, out.init, env, dims)
         /\ LET inDim == e.dims[1].name :> [op |-> IF simplified THEN "dimension" ELSE "hash",
                                            dim |-> out.alloc[1]] @@ env
                around == IF simplified THEN dims ELSE dims \o out.alloc
            IN \E inside \in Environments(e, out, inDim, around) : Lexical(e.e, out.e, inside, around)
    [] e.op = "where" ->
         \E inside \in Environments(e, out, env, dims) : Lexical(e.e, out.e, inside, dims)

\* The parts of a tree
Parts(e) ==
  CASE e.op = "ident" -> <<>>
    [] e.op = "app" -> <<e.a, e.b>>
    [] e.op = "where" -> <<e.e>> \o [i \in DOMAIN e.vars |-> e.vars[i].e]
                                \o [i \in DOMAIN e.dims |-> e.dims[i].init]
    [] OTHER -> <<e.e>>
Binds(e) ==
  CASE e.op \in {"lambda", "base", "phi"} -> {e.name}
    [] e.op = "where" -> {v.name : v \in ToSet(e.vars) \cup ToSet(e.dims)}
    [] OTHER -> {}
Bound(e) ==
  (IF e.op \in {"lambda", "base"} THEN {e.name} ELSE {}) \cup UNION {Bound(p) : p \in ToSet(Parts(e))}
Occurs(e) ==
  (IF e.op = "ident" THEN {e.text} ELSE Binds(e)) \cup UNION {Occurs(p) : p \in ToSet(Parts(e))}
\* The parameter of a lambda or a base function has a name of its own
NamesApart(e) ==
  LET parts == Parts(e)
  IN \A i \in DOMAIN parts :
       /\ NamesApart(parts[i])
       /\ Bound(parts[i]) \cap Binds(e) = {}
       /\ \A j \in DOMAIN parts \ {i} : Bound(parts[i]) \cap Occurs(parts[j]) = {}

Scoped == output.op # "none" => Lexical(tree, output, NoFunction, <<>>)

\* Every occurrence of an identifier becomes what its innermost binder stands
\* for, in the tree and in the definitions of its where clauses, which are
\* transformed later in the scope that was saved with them; and every
\* abstraction saves the hidden dimensions around it.  It needs what
\* semantic_transform.hpp asks of its input for the names of lambdas and base
\* functions; the names of call by name parameters, of where dimensions and
\* of definitions may shadow others.
ResolvesLexically == Scoped \/ ~NamesApart(tree)

\* The same of every tree: "5. restore the scope", semantic_transform.cpp, says
\* of a lambda that its scope ends with it.
RestoresScope == Scoped
=============================================================================
