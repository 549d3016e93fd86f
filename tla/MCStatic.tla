----------------------------- MODULE MCStatic -----------------------------
(***************************************************************************)
(* Small instances of what happens to a program between its text and its   *)
(* evaluation, for TLC: lines are split, declarations parsed, trees        *)
(* renamed, identifiers grouped, types constrained and inferred.            *)
(***************************************************************************)
EXTENDS LineTokens, ExprParser, ScopeRenaming, RecursionGroups, TypeRules, TLC

VARIABLE part   \* which of the six, chosen at the start

staticVars == <<tokenVars, parserVars, scopeVars, groupsVars, graphVars, typingVars, part>>

(***************************************************************************)
(* Texts: fragments in any order, and where clauses                        *)
(***************************************************************************)
MCFragments ==
  {<<";", ";">>, <<"x">>, <<"where">>, <<"end">>, <<"quote">>, <<"tick">>, <<"/", "/">>,
   <<"newline">>, <<" ">>, <<"backslash">>, <<"$", "$">>}
MCInside == {<<";", ";">>, <<"quote", "end", "quote">>, <<"tick", ";", ";", "tick">>,
             <<"/", "/", "end", "newline">>, <<"where", " ", "end">>,
             <<"quote", "backslash", "quote", ";", ";", "quote">>, <<" ", "x">>}

\* And some that are not plain
MCTexts ==
  {FlattenSeq(s) : s \in UNION {[1..n -> MCFragments] : n \in 0..3}
                         \cup [1..4 -> MCFragments \ {<<" ">>, <<"$", "$">>}]}
  \cup {<<"x", " ", "where", " ">> \o a \o <<" ">> \o b \o <<" ">> \o c
        \o <<" ", "end", ";", ";", "x", ";", ";">> : a, b, c \in MCInside}
  \cup {<<"/">>, <<"/", "x", ";", ";">>, <<"x", ";", " ", "/", " ", "x", ";", ";">>,
        <<"$", "x", "%", "%", ";", ";">>, <<"$">>, <<"x", ";">>, <<"x", "/">>}

(***************************************************************************)
(* Declarations                                                            *)
(***************************************************************************)
MCx == Leaf(Id("x"))
MCy == Leaf(Id("y"))
MCn == Leaf(T("integer", "1"))
MCOp(prec, assoc) == [prec |-> prec, assoc |-> assoc]
MCLow == MCOp(5, "LEFT")
MCOps == {MCLow, MCOp(5, "RIGHT"), MCOp(7, "LEFT"), MCOp(7, "NON")}

MCBinary1 == {Binary(o, MCx, MCn) : o \in MCOps}
MCBinary2 == MCBinary1 \cup {Binary(o, b, MCy) : o \in MCOps, b \in MCBinary1}
                       \cup {Binary(o, MCy, b) : o \in MCOps, b \in MCBinary1}
MCBinary3 == {Binary(o, b, MCy) : o \in MCOps, b \in MCBinary2}
             \cup {Binary(o, MCy, b) : o \in MCOps, b \in MCBinary2}
             \cup {Binary(o, a, b) : o \in MCOps, a, b \in MCBinary1}

MCEntryBy(l, by, r) == [by |-> by, l |-> l, r |-> r]
MCTuple == Tuple("tuple", <<MCEntryBy(MCx, "<-", MCn)>>)
MCRegion == Tuple("region", <<MCEntryBy(MCx, "is", MCn), MCEntryBy(MCy, ":", At(MCx, MCTuple)),
                              MCEntryBy(MCx, "imp", MCy)>>)

MCVar(e) == Decl("var", Id("x"), <<>>, Nil, Nil, e)
MCParameters == <<Id("x"), Mark("!"), Id("y"), Mark("."), Id("x")>>
MCWhere ==
  Where(<<Decl("dim", Id("x"), <<>>, Nil, Nil, Nil), Decl("dim", Id("y"), <<>>, Nil, Nil, MCn)>>,
        <<Decl("var", Id("y"), <<>>, MCRegion, MCx, Paren(MCx))>>,
        <<Decl("fun", Id("x"), MCParameters, MCRegion, MCy, PhiApp(MCx, MCy))>>,
        PhiApp(LambdaApp(MCx, MCy), MCn))

MCLambda(e) == Function("\\", <<>>, <<Id("x")>>, FALSE, e)
MCBase(binds, names, listed) == Function("\\_", binds, names, listed, MCx)
MCExprs ==
  {MCx, MCTuple, MCRegion, MCWhere, PhiApp(At(MCx, MCTuple), Unary("-", MCy)),
   BangApp(MCx, <<MCy>>, FALSE), BangApp(MCx, <<PhiApp(MCx, MCy)>>, TRUE),
   BangApp(MCx, <<MCn, Paren(MCy)>>, TRUE), If(MCx, MCy, <<>>, MCn),
   If(MCx, MCy, <<<<MCn, MCx>>, <<MCy, MCn>>>>, Binary(MCLow, MCx, MCy)),
   MCLambda(PhiApp(MCx, MCx)), Function("\\\\", <<MCx, MCy>>, <<Id("x")>>, FALSE, Paren(MCx)),
   MCBase(<<>>, <<Id("x"), Id("y")>>, TRUE), MCBase(<<MCx>>, <<>>, TRUE),
   MCBase(<<>>, <<Id("y")>>, TRUE), MakeInten(<<>>, MCx), MakeInten(<<MCx, MCn>>, EvalInten(MCy)),
   EvalInten(Unary("-", MCx)), Unary("-", Paren(MCx)),
   PhiApp(PhiApp(MCx, Unary("-", MCy)), MCLambda(Binary(MCLow, MCx, MCy)))}

MCWithWhere ==
  {Paren(MCWhere), MCLambda(MCWhere), Paren(Binary(MCLow, MCx, Paren(MCWhere))),
   Function("\\\\", <<MCx, MCy>>, <<Id("x")>>, FALSE, MCWhere)}

MCArg(nested, c) == [nested |-> nested, c |-> c]
MCData ==
  LET c(name, args) == Constructor(Id(name), args)
      none == c("y", <<>>)
  IN [op |-> "data",
      cs |-> <<c("x", <<MCArg(FALSE, none), MCArg(TRUE, c("x", <<MCArg(FALSE, none)>>))>>), none>>]

MCUuid == T("constant", "u")
MCOthers ==
  {Decl("fun", Id("x"), <<Id("x"), Mark("!"), Id("y")>>, MCTuple, MCx, MCy),
   Decl("dim", Id("x"), <<>>, Nil, Nil, Nil), Decl("dim", Id("x"), <<>>, Nil, Nil, MCx),
   Decl("host", Id("x"), <<>>, Nil, Nil, MCx),
   Decl("op", T("binary op", MCLow), <<>>, Nil, Nil, MCn),
   Decl("op", T("operator", "#"), <<>>, Nil, Nil, MCx),
   Decl("constructor", Id("x"), <<Id("x"), Id("y")>>, MCRegion, Nil, MCy),
   Decl("data", Id("x"), <<Id("y")>>, Nil, Nil, MCData),
   Decl("del", MCUuid, <<>>, Nil, Nil, Nil), Decl("repl", MCUuid, <<>>, Nil, Nil, MCVar(MCWhere)),
   Decl("repl", MCUuid, <<>>, Nil, Nil, Decl("op", T("prefix op", "-"), <<>>, Nil, Nil, MCx))}

MCSpoilt == MCOthers \cup {MCVar(e) : e \in MCExprs \cup MCBinary1}
MCDecls ==
  MCOthers \cup {MCVar(e) : e \in MCExprs \cup MCWithWhere \cup MCBinary3}
  \cup {Decl("var", Id("x"), <<>>, MCRegion, MCx, MCWhere),
        Decl("fun", Id("x"), <<>>, Nil, Nil, MCWhere), Decl("dim", Id("x"), <<>>, Nil, Nil, MCWhere),
        Decl("op", T("binary op", MCLow), <<>>, Nil, Nil, MCWhere)}
MCStrays ==
  {Id("x"), Mark("comma"), Mark("("), Mark(")"), Mark("end"), Mark("bad"), Mark("="),
   T("declid", "var"), T("postfix op", "+"), T("binary op", MCLow)}

(***************************************************************************)
(* Trees: two names for everything, binders two and three deep             *)
(***************************************************************************)
MCNames == {"x", "y"}
MCAbstractions(E) ==
  UNION {{Lambda(n, e), Phi(n, e), Base(n, e)} : n \in MCNames, e \in E}
MCBinding(n, e) == [name |-> n, e |-> e]
MCWheres(Inits, Defs, Bodies) ==
  {WhereTree(d, v, b) :
     d \in {<<>>} \cup {<<[name |-> "x", init |-> i]>> : i \in Inits},
     v \in {<<>>} \cup {<<MCBinding(n, e)>> : n \in MCNames, e \in Defs},
     b \in Bodies}
MCIdents == {Ident(n) : n \in MCNames}
MCFlat ==
  MCIdents \cup MCAbstractions(MCIdents) \cup {Inten(e) : e \in MCIdents}
  \cup {Apply2(a, b) : a, b \in MCIdents}
MCFlatWheres ==
  MCWheres(MCIdents, MCIdents, MCIdents)
  \cup {WhereTree(<<>>, <<MCBinding("x", Ident("y")), MCBinding("y", Lambda("z", Ident("x"))),
                          MCBinding("x", Ident("z"))>>, Ident("x"))}
\* A name that is bound again, and used after that
MCAfter ==
  {Apply2(a, b) : a \in MCAbstractions(MCIdents) \cup MCFlatWheres, b \in MCIdents}
  \cup {Apply2(b, a) : a \in MCAbstractions(MCIdents), b \in MCIdents}
MCTrees ==
  MCAbstractions(MCFlat \cup MCFlatWheres \cup MCAfter)
  \cup {Apply2(a, b) : a \in MCFlat \cup MCFlatWheres, b \in MCFlat}
  \cup MCWheres(MCIdents, MCFlat, MCFlat) \cup MCWheres({Ident("x")}, {Ident("x")}, MCAfter)
  \cup MCWheres({Ident("x")}, MCAfter, {Ident("x")})
  \cup MCWheres(MCIdents, {Lambda("z", w) : w \in MCFlatWheres}, {Phi("x", Ident("x"))})
  \cup MCWheres({Ident("x")}, {Phi("y", e) : e \in MCAbstractions({Ident("x")})}, MCFlatWheres)

(***************************************************************************)
(* Programs: three identifiers, or four none of which mentions itself      *)
(***************************************************************************)
MCMentions ==
  [ids : {{1}, {2, 3}}, free : [1..3 -> SUBSET (1..3)]]
  \cup [ids : {{1}, {2, 4}},
        free : {f \in [1..4 -> SUBSET (1..4)] : \A v \in 1..4 : v \notin f[v]}]

(***************************************************************************)
(* Constraints between four type variables                                 *)
(***************************************************************************)
MCTypeVar == 1..4
MCTypeOf ==
  [c \in {"0", "1", "true", "false", "d", "e", "z"} |->
     IF c \in {"0", "1"} THEN "int" ELSE IF c \in {"true", "false"} THEN "bool" ELSE "dimension"]
MCConstraints ==
  {Below(1, 2), Below(2, 1), Below(3, 1), Below(2, 3), Below(2, 4), Below(4, 3)}
  \cup {Lower(t, 1) : t \in {Con("0"), Con("true"), Atom("int")}}
  \cup {Lower(CBV({3}, {4}), 2), Lower(Con("1"), 2), Lower(Intension({2}), 3)}
  \cup {Upper(1, Con("0")), Upper(1, Union({"0", "true"}, {})), Upper(2, CBV({1}, {3})),
        Upper(3, Intension({4})), Upper(4, Atom("int"))}
  \cup {Lower(BaseFunction(<<{3}, {1}>>, {4}), 2), Upper(3, BaseFunction(<<{4}, {1}>>, {1})),
        Upper(2, BaseFunction(<<{4}>>, {1}))}
  \cup {OnlyIf("true", 2, 3, 4), OnlyIf("0", 1, 3, 2)}

(***************************************************************************)
(* Programs to infer.  A condition reads a dimension of its own, and a     *)
(* guarded body what is guarded at the type guarded for: see the README.   *)
(***************************************************************************)
MCHostType == "succ" :> <<"int", "int">> @@ "eq" :> <<"int", "int", "bool">>
MCHostGives ==
  "succ" :> (<<"0">> :> "1" @@ <<"1">> :> "0")
  @@ "eq" :> [a \in {"0", "1"} \X {"0", "1"} |-> IF a[1] = a[2] THEN "true" ELSE "false"]

MC0 == Const("0")
MCTrue == Const("true")
MCFalse == Const("false")
MCp == Param("p")
MCq == Param("q")
MCd == Query(Const("d"))
MCe == Query(Const("e"))
MCSucc(e) == Bang(HostFun("succ"), <<e>>)
MCEq(a, b) == Bang(HostFun("eq"), <<a, b>>)
MCIf(c, t, e) == Choose(c, t, <<>>, e)
MCIn(e, v, w) == Change(e, <<<<Const("d"), v>>, <<Const("e"), w>>>>)
MCRuns(E) == UNION {{MCIn(e, MC0, MCTrue), MCIn(e, MCTrue, MCFalse)} : e \in E}
MCUses(E) == E \cup {MCSucc(e) : e \in E}

\* Functions that a condition chooses, or chosen inside
MCBodies == {MC0, MCp, MCd, MCSucc(MCp), MCSucc(MCd), MCEq(MCp, MCd), MCIf(MCe, MCp, MCTrue),
             MCIf(MCe, MCd, MCp), MCIf(MCp, MC0, MCTrue),
             Choose(MCe, MC0, <<<<MCp, MCp>>>>, MCTrue)}
MCFunctions ==
  {Abstract("p", e) : e \in MCBodies}
  \cup {MCIf(MCe, Abstract("p", a), Abstract("p", b)) : a \in {MC0, MCp}, b \in {MCp, MCd, MCSucc(MCp)}}
MCApplied == {Apply1(f, a) : f \in MCFunctions, a \in {MC0, MCTrue, MCd}}
\* Functions that are given functions, base functions, intensions
MCOf == {MCp, MCq, MCEq(MCp, MCq), MCIf(MCq, MCp, MC0), Apply1(MCp, MCq), Force(MCp)}
MCGiven == {MC0, MCd, Delay(MCd), Abstract("q", MCq), Abstract("q", MCSucc(MCq))}
MCHigher ==
  {Apply1(Apply1(Abstract("p", Abstract("q", e)), a), b) : e \in MCOf, a \in MCGiven, b \in {MC0, MCTrue}}
  \cup {Bang(BaseOf(<<"p", "q">>, e), <<a, b>>) : e \in MCOf, a \in MCGiven, b \in {MC0, MCTrue}}
  \cup {Force(MCIf(MCe, a, Delay(MCd))) : a \in {Delay(MC0), MCTrue}}
\* Dimensions of where clauses
MCz == Query(Const("z"))
MCLocal ==
  {WhereDim(<<<<"z", v>>>>, e) : v \in {MC0, MCTrue, MCd},
     e \in {MCSucc(MCz), MCSucc(Param("z")), MCSucc(MCd), Change(MCSucc(MCz), <<<<Const("z"), MC0>>>>),
            Change(MCz, <<<<Const("z"), MCd>>>>), MCEq(MCz, Param("z"))}}

MCRule(guard, boolean, e) == [guard |-> guard, boolean |-> boolean, e |-> e]
MCGuard(by, of) == {[dim |-> "p", by |-> by, of |-> of]}
MCDef(x, e) == [x |-> x, e |-> Best(<<MCRule({}, <<>>, e)>>)]
MCRules(x, rules) == [x |-> x, e |-> Abstract("p", Best(rules))]
MCf == Refer("f")
MCg == Refer("g")
\* Functions of several rules, and two functions that call one another
MCByRules ==
  {<<MCRules("f", <<MCRule(MCGuard("imp", "int"), <<>>, a), MCRule(MCGuard("is", "true"), b, MC0), c>>)>> :
     a \in {MCSucc(MCp), MCd}, b \in {<<>>, <<MCe>>},
     c \in {MCRule(MCGuard("is", "0"), <<>>, MCTrue), MCRule({}, <<>>, MCIf(MCp, MCd, MC0))}}
MCMutual ==
  {<<MCDef("f", Abstract("p", MCIf(MCp, a, Apply1(MCg, b)))),
     MCDef("g", Abstract("p", MCIf(MCp, c, Apply1(MCf, d))))>> :
     a \in {MC0, MCd}, b \in {MCTrue, MCd}, c \in {MC0, MCTrue}, d \in {MCTrue, MCe}}
MCCalls == {MCSucc(Apply1(MCf, MC0)), MCSucc(Apply1(MCf, MCFalse)), Apply1(MCf, MCTrue),
            MCIf(Apply1(MCf, MCTrue), MC0, MCTrue)}
MCPrograms ==
  [groups : {<<>>}, main : MCRuns(MCUses(MCApplied) \cup MCHigher \cup MCLocal)]
  \cup [groups : {<<<<MCDef("f", e)>>>> : e \in MCFunctions} \cup {<<e>> : e \in MCByRules \cup MCMutual},
        main : MCRuns(MCCalls)]

(***************************************************************************)
(* The six together                                                        *)
(***************************************************************************)
NoLines ==
  /\ text = <<>> /\ m_current = 1 /\ m_peek = <<>> /\ m_currentChar = EndMark /\ m_line = <<>>
  /\ m_state = "SCANNING" /\ m_first = TRUE /\ m_whereDepth = 0 /\ m_readingIdent = FALSE
  /\ m_currentIdent = <<>> /\ at = "next" /\ split = <<>>
NoTree ==
  /\ tree = Ident("x") /\ simplified = FALSE /\ leftFirst = FALSE
  /\ scope = NewScope(0, 1) /\ output = Ident("x") /\ compiled = <<>>
NoGroups ==
  /\ ids = {} /\ free = <<>> /\ round = {} /\ met = {}
  /\ calls = <<>> /\ m_index = 0 /\ index = <<>> /\ lowlink = <<>> /\ m_S = <<>> /\ groups = <<>>
NoGraph == g = EmptyGraph(TypeVar) /\ added = {}
NoTyping ==
  /\ program = [groups |-> <<>>, main |-> MC0]
  /\ inferred = 0 /\ environment = <<>> /\ verdict = Verdict("none")

InitStatic ==
  /\ \/ part = "lines" /\ InitTokens /\ InitParser /\ NoTree /\ NoGroups /\ NoGraph
     \/ part = "parser" /\ NoLines /\ InitParser /\ NoTree /\ NoGroups /\ NoGraph
     \/ part = "scopes" /\ NoLines /\ InitParser /\ InitScope /\ NoGroups /\ NoGraph
     \/ part = "groups" /\ NoLines /\ InitParser /\ NoTree /\ InitGroups /\ NoGraph
     \/ part = "types" /\ NoLines /\ InitParser /\ NoTree /\ NoGroups /\ InitGraph
     \/ part = "typing" /\ NoLines /\ InitParser /\ NoTree /\ NoGroups /\ NoGraph
  /\ IF part = "typing" THEN InitTyping ELSE NoTyping

NextStatic ==
  /\ UNCHANGED part
  /\ \/ part = "lines" /\ NextTokens
        /\ UNCHANGED <<parserVars, scopeVars, groupsVars, graphVars, typingVars>>
     \/ part = "parser" /\ NextParser
        /\ UNCHANGED <<tokenVars, scopeVars, groupsVars, graphVars, typingVars>>
     \/ part = "scopes" /\ NextScope
        /\ UNCHANGED <<tokenVars, parserVars, groupsVars, graphVars, typingVars>>
     \/ part = "groups" /\ NextGroups
        /\ UNCHANGED <<tokenVars, parserVars, scopeVars, graphVars, typingVars>>
     \/ part = "types" /\ NextGraph
        /\ UNCHANGED <<tokenVars, parserVars, scopeVars, groupsVars, typingVars>>
     \/ part = "typing" /\ NextTyping
        /\ UNCHANGED <<tokenVars, parserVars, scopeVars, groupsVars, graphVars>>

SpecStatic == InitStatic /\ [][NextStatic]_staticVars
=============================================================================
