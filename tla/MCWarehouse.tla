----------------------------- MODULE MCWarehouse -----------------------------
(***************************************************************************)
(* Small programs for the warehouse.                                       *)
(***************************************************************************)
EXTENDS WarehouseMeaning

Const(n)        == [op |-> "const", value |-> Intmp(n)]
Hash(d)         == [op |-> "hash", dim |-> d]
Ident(x)        == [op |-> "ident", name |-> x]
If(c, t, e)     == [op |-> "if", cond |-> c, then |-> t, else |-> e]
Bang(f, args)   == [op |-> "bang", fn |-> f, args |-> args]
At(b, d, t)     == [op |-> "at", body |-> b, dim |-> d, to |-> t]

\* Parameters are hidden dimensions; "around" are those of the binders around
Abs(by, params, binds, around, e) ==
  [op |-> "abstraction", by |-> by, params |-> params, binds |-> binds, scope |-> around, body |-> e]
Lambda(d, around, e) == Abs("value", <<d>>, {}, around, e)
Base(ds, around, e)  == Abs("base", ds, {}, around, e)
Inten(binds, around, e) == Abs("intension", <<>>, binds, around, e)
Apply1(f, e)    == [op |-> "apply", by |-> "value", of |-> <<f, e>>]
Call2(f, args)  == [op |-> "apply", by |-> "base", of |-> <<f>> \o args]
Force(e)        == [op |-> "apply", by |-> "intension", of |-> <<e>>]

IsZero(e) == Bang("iszero", <<e>>)
Pred(e)   == Bang("pred", <<e>>)
Plus(e, f) == Bang("plus", <<e, f>>)

\* The base functions the programs use; sums wrap so that values stay few
MCApply(f, args) ==
  CASE f = "iszero" -> Boolean(args[1].v = 0)
    [] f = "pred"   -> Intmp(IF args[1].v = 0 THEN 0 ELSE args[1].v - 1)
    [] f = "plus"   -> Intmp((args[1].v + args[2].v) % 3)

MCDim == {"a", "b", "time"}
MCHidden == {"p", "q"}
MCOrdinate == 0..1

\* Definitions of x, of which the last three never end in some contexts
XBodies ==
  { If(IsZero(Hash("a")), Hash("b"), Ident("y")),
    If(IsZero(Hash("a")), Const(1),
       Plus(At(Ident("x"), "a", Pred(Hash("a"))), Ident("y"))),
    Plus(Hash("b"), At(Ident("y"), "b", Const(1))),
    If(IsZero(Hash("time")), Const(1),
       At(Ident("x"), "time", Pred(Hash("time")))),
    If(IsZero(Ident("y")), At(Ident("x"), "b", Const(0)), Hash("b")),
    Plus(Ident("y"), Ident("z")) }

YBodies ==
  { Hash("b"),
    Plus(Hash("a"), Hash("time")),
    At(Ident("x"), "a", Const(0)),
    If(IsZero(At(Ident("x"), "b", Hash("a"))), Hash("b"), Ident("x")) }

\* Functions and intensions: applied, bound to a parameter and applied elsewhere,
\* given to a variable in the dimension of a parameter, refused
FunctionPrograms ==
  { [x |-> Apply1(Lambda("p", {}, Plus(Hash("p"), Ident("y"))), Hash("b")),
     y |-> Hash("a")],
    [x |-> Apply1(Ident("y"), Hash("b")),
     y |-> Apply1(Lambda("p", {}, Lambda("q", {"p"}, Plus(Hash("p"), Hash("q")))),
                  Hash("a"))],
    [x |-> Apply1(Lambda("p", {}, Plus(Ident("y"), At(Ident("y"), "b", Const(1)))),
                  Hash("a")),
     y |-> Plus(Hash("p"), Hash("b"))],
    [x |-> Apply1(Lambda("p", {}, At(Ident("y"), "a", Const(0))),
                  Inten({"a"}, {}, Plus(Hash("a"), Hash("b")))),
     y |-> Force(Hash("p"))],
    [x |-> Apply1(Lambda("p", {}, At(Force(Hash("p")), "a", Const(1))),
                  Inten({}, {}, Plus(Hash("a"), Ident("y")))),
     y |-> Hash("b")],
    [x |-> Plus(Call2(Base(<<"p", "q">>, {}, Plus(Hash("p"), Hash("time"))),
                      <<Hash("a"), Hash("b")>>),
                Ident("y")),
     y |-> Call2(Ident("w"), <<Hash("a")>>)],
    [x |-> Apply1(Lambda("p", {}, Call2(Base(<<"q">>, {"p"}, Plus(Hash("p"), Hash("q"))),
                                        <<Ident("y")>>)),
                  Hash("a")),
     y |-> If(IsZero(Hash("b")), Const(1), Apply1(Const(0), Hash("b")))],
    [x |-> Apply1(Ident("y"), Hash("a")),
     y |-> Lambda("p", {}, If(IsZero(Hash("p")), Hash("b"),
                              Apply1(Ident("y"), Pred(Hash("p")))))],
    [x |-> Call2(Base(<<"p">>, {}, Hash("a")), <<Ident("y")>>),
     y |-> Call2(Base(<<"p">>, {}, Hash("p")), <<Hash("a"), Hash("b")>>)] }

\* Two functions given to one variable
KeyPrograms ==
  { [x |-> Apply1(Lambda("p", {}, Ident("y")),
                  If(IsZero(Hash("a")), Lambda("q", {}, Const(1)),
                                        Lambda("q", {}, Const(0)))),
     y |-> Apply1(Hash("p"), Const(0))] }

\* Programs that use a variable which does not compile: at once, in some
\* contexts, behind a call, and behind a loop
MCBroken == {"fails"}
ThrowingPrograms ==
  {[x |-> ex, y |-> ey] :
     ex \in {If(IsZero(Hash("a")), Ident("fails"), Ident("y")),
            Plus(At(Ident("y"), "a", Const(0)), Hash("b"))},
     ey \in {Plus(Hash("b"), Ident("fails")),
            If(IsZero(Hash("b")), Ident("fails"), At(Ident("x"), "b", Const(0))),
            If(IsZero(Hash("b")), Hash("a"), Ident("x"))}}

MCPrograms ==
  {[x |-> ex, y |-> ey] : ex \in XBodies, ey \in YBodies}
    \cup FunctionPrograms \cup KeyPrograms \cup ThrowingPrograms

\* Programs that demand a later instant than the one they are asked in
AheadPrograms ==
  {[x |-> At(Ident("y"), "time", Const(1)), y |-> Hash("time")]}

\* Programs for many instants: levels below levels, the past, a loop, and calcs
\* left behind
InstantPrograms ==
  { [x |-> If(IsZero(Hash("a")), Hash("b"), Hash("time"))],
    [x |-> If(IsZero(Hash("time")), Const(1),
              At(Ident("x"), "time", Pred(Hash("time"))))],
    [x |-> Plus(Hash("a"), At(Ident("x"), "a", Const(0)))],
    [x |-> If(IsZero(Hash("a")), Ident("fails"), Hash("time"))] }

\* The expressions of all programs, with their parts
RECURSIVE Parts(_)
Parts(e) ==
  {e} \cup
  CASE e.op \in {"const", "hash", "ident"} -> {}
    [] e.op = "if" -> Parts(e.cond) \cup Parts(e.then) \cup Parts(e.else)
    [] e.op = "bang" -> UNION {Parts(e.args[i]) : i \in DOMAIN e.args}
    [] e.op = "at" -> Parts(e.to) \cup Parts(e.body)
    [] e.op = "abstraction" -> Parts(e.body)
    [] e.op = "apply" -> UNION {Parts(e.of[i]) : i \in DOMAIN e.of}

MCExpression ==
  UNION {Parts(eqns[x]) : eqns \in MCPrograms \cup AheadPrograms, x \in {"x", "y"}}
    \cup UNION {Parts(eqns["x"]) : eqns \in InstantPrograms}

=============================================================================
