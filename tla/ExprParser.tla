----------------------------- MODULE ExprParser -----------------------------
(***************************************************************************)
(* The parser of declarations and expressions: recursive descent over the  *)
(* tokens of a text, where an operator's precedence and associativity come *)
(* with its token, and where the declarations that are understood depend   *)
(* on a stack of the parser that outlives the text, and its errors.        *)
(*                                                                         *)
(* A token is a record of its type and value.  A rule yields a result: it  *)
(* matched ("yes", with the tree), it did not ("no"), or it threw.         *)
(***************************************************************************)
EXTENDS Naturals, Sequences, FiniteSets, SequencesExt

CONSTANTS Declarations,   \* trees of the declarations to read
          Spoilt,         \* those of them that are also read with a mistake
          Strays          \* tokens put where they do not belong

VARIABLES meant,          \* the declaration that is written, if any
          tokens,         \* the tokens that are read
          m_which_decl,   \* the stack of known declarations
          read            \* what parse_decl said of them

parserVars == <<meant, tokens, m_which_decl, read>>

T(type, value) == [type |-> type, value |-> value]
Mark(type) == T(type, "")
Id(x) == T("id", x)
BinOp(prec, assoc) == T("binary op", [prec |-> prec, assoc |-> assoc])

TopDecls == {"host", "dim", "var", "assign", "in", "hd", "out", "data", "constructor",
             "fun", "op", "del", "repl"}
WhereDecls == {"dim", "var", "fun"}

NotRead == [status |-> "not read"]

(***************************************************************************)
(* Positions and results.  A token that cannot be built is the end of the  *)
(* input: nextToken catches what its value throws.                         *)
(***************************************************************************)
Token(p) ==
  IF p.at > Len(tokens) \/ tokens[p.at].type = "bad" THEN Mark("end of file") ELSE tokens[p.at]
Is(p, type) == Token(p).type = type
Next(p) == [p EXCEPT !.at = @ + 1]

Result(status, p, e) == [status |-> status, p |-> p, e |-> e]
Yes(p, e) == Result("yes", p, e)
No(p) == Result("no", p, "")
Throws(p) == Result("error", p, "")

Then(r, K(_, _)) == IF r.status = "yes" THEN K(r.p, r.e) ELSE r
expect(r) == IF r.status = "no" THEN Throws(r.p) ELSE r
expectToken(p, type) == IF Is(p, type) THEN Yes(Next(p), Token(p)) ELSE Throws(p)

(***************************************************************************)
(* Trees                                                                   *)
(***************************************************************************)
Nil == [op |-> "nil"]
Leaf(t) == [op |-> "leaf", token |-> t]
Paren(e) == [op |-> "paren", e |-> e]
Binary(by, l, r) == [op |-> "binary", by |-> by, l |-> l, r |-> r]
Unary(by, e) == [op |-> "unary", by |-> by, e |-> e]
At(l, r) == [op |-> "at", l |-> l, r |-> r]
LambdaApp(l, r) == [op |-> "lambda app", l |-> l, r |-> r]
\* One argument, and one parameter of a base function, may be a list or not
BangApp(l, es, listed) == [op |-> "bang app", l |-> l, es |-> es, listed |-> listed]
PhiApp(l, r) == [op |-> "phi app", l |-> l, r |-> r]
MakeInten(binds, e) == [op |-> "inten", binds |-> binds, e |-> e]
EvalInten(e) == [op |-> "eval", e |-> e]
If(cond, then, elsifs, else) ==
  [op |-> "if", cond |-> cond, then |-> then, elsifs |-> elsifs, else |-> else]
Function(type, binds, names, listed, e) ==
  [op |-> "function", type |-> type, binds |-> binds, names |-> names, listed |-> listed, e |-> e]
Tuple(kind, entries) == [op |-> kind, entries |-> entries]
Constructor(name, args) == [name |-> name, args |-> args]
Where(dims, vars, funs, e) ==
  [op |-> "where", dims |-> dims, vars |-> vars, funs |-> funs, e |-> e]

Decl(id, name, args, guard, boolean, e) ==
  [op |-> "decl", id |-> id, name |-> name, args |-> args, guard |-> guard,
   boolean |-> boolean, e |-> e]

\* Operators bind by precedence, whatever the order they are met in
Mixed == [op |-> "mixed"]
RECURSIVE insert_binary_operator(_, _, _)
insert_binary_operator(by, l, r) ==
  LET right == insert_binary_operator(by, l.r, r)
      add_right == IF right = Mixed THEN Mixed ELSE [l EXCEPT !.r = right]
  IN CASE l.op # "binary" -> Binary(by, l, r)
       [] l.by.prec > by.prec -> Binary(by, l, r)
       [] l.by.prec < by.prec -> add_right
       [] l.by.assoc # by.assoc \/ by.assoc = "NON" -> Mixed
       [] by.assoc = "LEFT" -> Binary(by, l, r)
       [] by.assoc = "RIGHT" -> add_right

(***************************************************************************)
(* Expressions                                                             *)
(***************************************************************************)
RECURSIVE rule(_, _), BinaryRest(_, _), AppRest(_, _), Elsifs(_, _), Names(_, _), List(_, _, _),
          Entries(_, _, _), Decls(_, _)

\* An expression is a where clause, and without one what is before it
parse_expr(p) == rule("where", p)

\* expr (, expr)*; an optional list may be empty, and end in a comma
List(p, es, optional) ==
  LET r == parse_expr(p)
  IN IF r.status = "no" THEN IF optional THEN Yes(p, es) ELSE Throws(p)
     ELSE Then(r, LAMBDA q, e :
            IF Is(q, "comma") THEN List(Next(q), Append(es, e), optional)
            ELSE Yes(q, Append(es, e)))

parse_bound_dims(p) ==
  IF ~Is(p, "{") THEN Yes(p, <<>>)
  ELSE Then(List(Next(p), <<>>, TRUE), LAMBDA q, es :
         Then(expectToken(q, "}"), LAMBDA s, t : Yes(s, es)))

Names(p, xs) ==
  IF ~Is(p, "id") THEN Yes(p, xs)
  ELSE LET more == Append(xs, Token(p))
       IN IF Is(Next(p), "comma") THEN Names(Next(Next(p)), more) ELSE Yes(Next(p), more)

Parameters(p, listed) ==
  IF listed
  THEN Then(Names(Next(p), <<>>), LAMBDA q, xs :
         Then(expectToken(q, ")"), LAMBDA s, t : Yes(s, xs)))
  ELSE Then(expectToken(p, "id"), LAMBDA q, x : Yes(q, <<x>>))

\* parse_function and parse_base_function
parse_function(p) ==
  LET type == Token(p).type
  IN Then(parse_bound_dims(Next(p)), LAMBDA q, binds :
       LET listed == type = "\\_" /\ Is(q, "(")
       IN Then(Parameters(q, listed), LAMBDA s, names :
            Then(expectToken(s, "->"), LAMBDA u, t :
              Then(expect(parse_expr(u)), LAMBDA v, e :
                Yes(v, Function(type, binds, names, listed, e))))))

\* A list of <- entries is a tuple, of is, imp and : entries a region.  An
\* entry with neither is read, and left out.
Entries(p, kind, entries) ==
  Then(expect(parse_expr(p)), LAMBDA q, l :
    LET type == Token(q).type
        is == CASE type = "<-" -> "tuple"
                [] type \in {"is", "imp", ":"} -> "region"
                [] OTHER -> kind
        entry == Then(expect(parse_expr(Next(q))), LAMBDA s, r :
                   Yes(s, Append(entries, [by |-> type, l |-> l, r |-> r])))
        this == IF type \in {"<-", "is", "imp", ":"} THEN entry ELSE Yes(q, entries)
    IN IF kind # "unknown" /\ is # kind THEN Throws(q)
       ELSE Then(this, LAMBDA s, all :
              IF Is(s, "comma") THEN Entries(Next(s), is, all)
              ELSE Then(expectToken(s, "]"), LAMBDA u, t :
                     Yes(u, Tuple(IF is = "region" THEN is ELSE "tuple", all)))))

parse_tuple(p) == IF Is(p, "[") THEN Entries(Next(p), "unknown", <<>>) ELSE No(p)

parse_primary_expr(p) ==
  LET type == Token(p).type
  IN CASE type \in {"integer", "true", "false", "dim", "id", "constant", "#", "now"} ->
            Yes(Next(p), Leaf(Token(p)))
       [] type = "[" -> expect(parse_tuple(p))
       [] type = "(" ->
            Then(expect(parse_expr(Next(p))), LAMBDA q, e :
              Then(expectToken(q, ")"), LAMBDA s, t : Yes(s, Paren(e))))
       [] type \in {"\\", "\\\\", "\\_"} -> parse_function(p)
       [] OTHER -> No(p)

Elsifs(p, es) ==
  IF ~Is(p, "elsif") THEN Yes(p, es)
  ELSE Then(expect(parse_expr(Next(p))), LAMBDA q, cond :
         Then(expectToken(q, "then"), LAMBDA s, t :
           Then(expect(parse_expr(s)), LAMBDA u, e : Elsifs(u, Append(es, <<cond, e>>)))))

parse_if_expr(p) ==
  IF ~Is(p, "if") THEN rule("primary", p)
  ELSE Then(expect(parse_expr(Next(p))), LAMBDA p1, cond :
         Then(expectToken(p1, "then"), LAMBDA p2, t2 :
           Then(expect(parse_expr(p2)), LAMBDA p3, then :
             Then(Elsifs(p3, <<>>), LAMBDA p4, elsifs :
               Then(expectToken(p4, "else"), LAMBDA p5, t5 :
                 Then(expect(parse_expr(p5)), LAMBDA p6, else :
                   Then(expectToken(p6, "fi"), LAMBDA p7, t7 :
                     Yes(p7, If(cond, then, elsifs, else)))))))))

\* The value of a postfix operator is asked for as a string, which it is not
parse_postfix_expr(p) ==
  Then(rule("if", p), LAMBDA q, e : IF Is(q, "postfix op") THEN Throws(q) ELSE Yes(q, e))

parse_prefix_expr(p) ==
  LET operand(q) == expect(rule("prefix", q))
  IN CASE Is(p, "prefix op") ->
            Then(operand(Next(p)), LAMBDA q, e : Yes(q, Unary(Token(p).value, e)))
       [] Is(p, "up") ->
            Then(parse_bound_dims(Next(p)), LAMBDA q, binds :
              Then(operand(q), LAMBDA s, e : Yes(s, MakeInten(binds, e))))
       [] Is(p, "down") -> Then(operand(Next(p)), LAMBDA q, e : Yes(q, EvalInten(e)))
       [] OTHER -> rule("postfix", p)

\* parse_token_app, and otherwise application by name
AppRest(p, l) ==
  LET operand == expect(rule("prefix", Next(p)))
  IN CASE Is(p, "@") -> Then(operand, LAMBDA q, r : AppRest(q, At(l, r)))
       [] Is(p, "!") -> Then(operand, LAMBDA q, r : AppRest(q, LambdaApp(l, r)))
       [] Is(p, ".") /\ ~Is(Next(p), "(") ->
            Then(operand, LAMBDA q, r : AppRest(q, BangApp(l, <<r>>, FALSE)))
       [] Is(p, ".") /\ Is(Next(p), "(") ->
            Then(List(Next(Next(p)), <<>>, FALSE), LAMBDA q, es :
              Then(expectToken(q, ")"), LAMBDA s, t : AppRest(s, BangApp(l, es, TRUE))))
       [] OTHER -> LET r == rule("prefix", p)
                   IN IF r.status = "no" THEN Yes(p, l)
                      ELSE Then(r, LAMBDA q, e : AppRest(q, PhiApp(l, e)))

parse_app_expr(p) == Then(rule("prefix", p), AppRest)

BinaryRest(p, l) ==
  IF ~Is(p, "binary op") THEN Yes(p, l)
  ELSE Then(expect(rule("app", Next(p))), LAMBDA q, r :
         LET e == insert_binary_operator(Token(p).value, l, r)
         IN IF e = Mixed THEN Throws(q) ELSE BinaryRest(q, e))

parse_binary_op(p) == Then(rule("app", p), BinaryRest)

\* A where clause has declarations of its own
PushWhere(p) == [p EXCEPT !.decls = Append(@, WhereDecls)]

\* Mutant: the stack is popped on the way out that does not throw only
PopWhereOnMatch(r) == IF r.status = "error" THEN r ELSE [r EXCEPT !.p.decls = Front(@)]

\* The stack is popped whether the declarations throw or not
PopWhere(r) == [r EXCEPT !.p.decls = Front(@)]

Decls(p, ds) ==
  LET r == rule("decl", p)
  IN IF r.status = "no" THEN Yes(p, ds) ELSE Then(r, LAMBDA q, d : Decls(q, Append(ds, d)))

parse_where(p) ==
  Then(rule("binary", p), LAMBDA q, e :
    IF ~Is(q, "where") THEN Yes(q, e)
    ELSE Then(PopWhere(Decls(PushWhere(Next(q)), <<>>)), LAMBDA s, ds :
           LET of(id) == SelectSeq(ds, LAMBDA d : d.id = id)
           IN Then(expectToken(s, "end"), LAMBDA u, t :
                Yes(u, Where(of("dim"), of("var"), of("fun"), e)))))

(***************************************************************************)
(* Declarations.  Their rules start after the word that chose them.        *)
(***************************************************************************)
Optional(p, has, r) == IF has THEN expect(r) ELSE Yes(p, Nil)
Guard(p) == Optional(p, Is(p, "["), parse_tuple(p))
Boolean(p) == Optional(p, Is(p, "|"), parse_expr(Next(p)))

RECURSIVE Arguments(_, _, _), Constructors(_, _), ConstructorRest(_, _)

\* Names, each marked by how it is called
Arguments(p, xs, marks) ==
  CASE Is(p, "id") -> Arguments(Next(p), Append(xs, Token(p)), marks)
    [] Token(p).type \in marks ->
         Then(expectToken(Next(p), "id"), LAMBDA q, x :
           Arguments(q, xs \o <<Token(p), x>>, marks))
    [] OTHER -> Yes(p, xs)

\* name [guard] | boolean separator expr
parse_equation_decl(p, id, separator) ==
  IF ~Is(p, "id") THEN No(p)
  ELSE Then(Guard(Next(p)), LAMBDA p1, guard :
         Then(Boolean(p1), LAMBDA p2, boolean :
           Then(expectToken(p2, separator), LAMBDA p3, t :
             Then(expect(parse_expr(p3)), LAMBDA p4, e :
               Yes(p4, Decl(id, Token(p), <<>>, guard, boolean, e))))))

parse_fun_decl(p) ==
  Then(expectToken(p, "id"), LAMBDA p1, name :
    Then(Arguments(p1, <<>>, {"!", "."}), LAMBDA p2, args :
      Then(Guard(p2), LAMBDA p3, guard :
        Then(Boolean(p3), LAMBDA p4, boolean :
          Then(expectToken(p4, "="), LAMBDA p5, t :
            Then(expect(parse_expr(p5)), LAMBDA p6, e :
              Yes(p6, Decl("fun", name, args, guard, boolean, e))))))))

parse_dim_decl(p) ==
  Then(expectToken(p, "id"), LAMBDA q, name :
    Then(Optional(q, Is(q, "<-"), parse_expr(Next(q))), LAMBDA s, init :
      Yes(s, Decl("dim", name, <<>>, Nil, Nil, init))))

parse_host_decl(p) ==
  Then(expectToken(p, "id"), LAMBDA q, name :
    Then(expectToken(q, "="), LAMBDA s, t :
      Then(expect(parse_expr(s)), LAMBDA u, e : Yes(u, Decl("host", name, <<>>, Nil, Nil, e)))))

\* The operator is read without looking it up
parse_op_decl(p) ==
  IF Token(p).type \notin {"operator", "binary op", "prefix op", "postfix op"} THEN Throws(p)
  ELSE Then(expectToken(Next(p), "="), LAMBDA q, x :
         Then(expect(parse_expr(q)), LAMBDA s, e :
           Yes(s, Decl("op", Token(p), <<>>, Nil, Nil, e))))

parse_cons_decl(p) ==
  Then(expectToken(p, "id"), LAMBDA p1, name :
    Then(Arguments(p1, <<>>, {}), LAMBDA p2, args :
      Then(Guard(p2), LAMBDA p3, guard :
        Then(expectToken(p3, "="), LAMBDA p4, t :
          Then(expectToken(p4, "id"), LAMBDA p5, type :
            Yes(p5, Decl("constructor", name, args, guard, Nil, Leaf(type))))))))

\* name (name | ( constructor ))*
ConstructorRest(p, c) ==
  LET with(nested, arg) == [c EXCEPT !.args = Append(@, [nested |-> nested, c |-> arg])]
  IN CASE Is(p, "id") -> ConstructorRest(Next(p), with(FALSE, Constructor(Token(p), <<>>)))
       [] Is(p, "(") ->
            Then(expectToken(Next(p), "id"), LAMBDA q, x :
              Then(ConstructorRest(q, Constructor(x, <<>>)), LAMBDA s, arg :
                Then(expectToken(s, ")"), LAMBDA u, t : ConstructorRest(u, with(TRUE, arg)))))
       [] OTHER -> Yes(p, c)

Constructors(p, cs) ==
  Then(expectToken(p, "id"), LAMBDA q, x :
    Then(ConstructorRest(q, Constructor(x, <<>>)), LAMBDA s, c :
      IF Is(s, "|") THEN Constructors(Next(s), Append(cs, c)) ELSE Yes(s, Append(cs, c))))

parse_data_decl(p) ==
  Then(expectToken(p, "id"), LAMBDA p1, name :
    Then(Arguments(p1, <<>>, {}), LAMBDA p2, args :
      Then(expectToken(p2, "="), LAMBDA p3, t :
        Then(Constructors(p3, <<>>), LAMBDA p4, cs :
          Yes(p4, Decl("data", name, args, Nil, Nil, [op |-> "data", cs |-> cs]))))))

parse_del_decl(p) ==
  Then(expectToken(p, "constant"), LAMBDA q, id : Yes(q, Decl("del", id, <<>>, Nil, Nil, Nil)))

parse_repl_decl(p) ==
  Then(expectToken(p, "constant"), LAMBDA q, id :
    Then(expect(rule("line", q)), LAMBDA s, d : Yes(s, Decl("repl", id, <<>>, Nil, Nil, d))))

\* The word hd is bound to the rule of in, which wants the word in
DeclRule(p, id) ==
  CASE id = "var" -> parse_equation_decl(p, id, "=")
    [] id = "fun" -> parse_fun_decl(p)
    [] id = "dim" -> parse_dim_decl(p)
    [] id = "host" -> parse_host_decl(p)
    [] id = "op" -> parse_op_decl(p)
    [] id = "constructor" -> parse_cons_decl(p)
    [] id = "data" -> parse_data_decl(p)
    [] id = "del" -> parse_del_decl(p)
    [] id = "repl" -> parse_repl_decl(p)
    [] id = "hd" -> No(p)

parse_line(p) ==
  CASE ~Is(p, "declid") -> No(p)
    [] Token(p).value \notin Last(p.decls) -> Throws(p)
    [] OTHER -> expect(DeclRule(Next(p), Token(p).value))

parse_decl(p) ==
  Then(rule("line", p), LAMBDA q, d : Then(expectToken(q, ";;"), LAMBDA s, t : Yes(s, d)))

\* The rules that others call, by name
rule(name, p) ==
  CASE name = "decl" -> parse_decl(p)
    [] name = "line" -> parse_line(p)
    [] name = "where" -> parse_where(p)
    [] name = "binary" -> parse_binary_op(p)
    [] name = "app" -> parse_app_expr(p)
    [] name = "prefix" -> parse_prefix_expr(p)
    [] name = "postfix" -> parse_postfix_expr(p)
    [] name = "if" -> parse_if_expr(p)
    [] name = "primary" -> parse_primary_expr(p)

(***************************************************************************)
(* The texts: what a declaration is written as, and the same with a stray  *)
(* token in it, or without one of its tokens                               *)
(***************************************************************************)
RECURSIVE Show(_), ShowDecl(_), ShowConstructor(_)

Commas(ss) ==
  FlattenSeq([i \in DOMAIN ss |-> IF i = 1 THEN ss[i] ELSE <<Mark("comma")>> \o ss[i]])
Shows(es) == Commas([i \in DOMAIN es |-> Show(es[i])])
Braces(binds) == IF binds = <<>> THEN <<>> ELSE <<Mark("{")>> \o Shows(binds) \o <<Mark("}")>>
Terminated(ds) == FlattenSeq([i \in DOMAIN ds |-> ShowDecl(ds[i]) \o <<Mark(";;")>>])

Show(e) ==
  CASE e.op = "leaf" -> <<e.token>>
    [] e.op = "paren" -> <<Mark("(")>> \o Show(e.e) \o <<Mark(")")>>
    [] e.op = "binary" -> Show(e.l) \o <<T("binary op", e.by)>> \o Show(e.r)
    [] e.op = "unary" -> <<T("prefix op", e.by)>> \o Show(e.e)
    [] e.op = "at" -> Show(e.l) \o <<Mark("@")>> \o Show(e.r)
    [] e.op = "lambda app" -> Show(e.l) \o <<Mark("!")>> \o Show(e.r)
    [] e.op = "bang app" /\ ~e.listed -> Show(e.l) \o <<Mark(".")>> \o Show(e.es[1])
    [] e.op = "bang app" ->
         Show(e.l) \o <<Mark("."), Mark("(")>> \o Shows(e.es) \o <<Mark(")")>>
    [] e.op = "phi app" -> Show(e.l) \o Show(e.r)
    [] e.op = "inten" -> <<Mark("up")>> \o Braces(e.binds) \o Show(e.e)
    [] e.op = "eval" -> <<Mark("down")>> \o Show(e.e)
    [] e.op = "if" ->
         <<Mark("if")>> \o Show(e.cond) \o <<Mark("then")>> \o Show(e.then)
         \o FlattenSeq([i \in DOMAIN e.elsifs |->
              <<Mark("elsif")>> \o Show(e.elsifs[i][1]) \o <<Mark("then")>> \o Show(e.elsifs[i][2])])
         \o <<Mark("else")>> \o Show(e.else) \o <<Mark("fi")>>
    [] e.op = "function" ->
         <<Mark(e.type)>> \o Braces(e.binds)
         \o (IF ~e.listed THEN e.names
             ELSE <<Mark("(")>> \o Commas([i \in DOMAIN e.names |-> <<e.names[i]>>])
                  \o <<Mark(")")>>)
         \o <<Mark("->")>> \o Show(e.e)
    [] e.op \in {"tuple", "region"} ->
         <<Mark("[")>> \o Commas([i \in DOMAIN e.entries |->
           Show(e.entries[i].l) \o <<Mark(e.entries[i].by)>> \o Show(e.entries[i].r)])
         \o <<Mark("]")>>
    [] e.op = "where" ->
         Show(e.e) \o <<Mark("where")>> \o Terminated(e.dims) \o Terminated(e.vars)
         \o Terminated(e.funs) \o <<Mark("end")>>

ShowConstructor(c) ==
  <<c.name>> \o FlattenSeq([i \in DOMAIN c.args |->
    IF c.args[i].nested THEN <<Mark("(")>> \o ShowConstructor(c.args[i].c) \o <<Mark(")")>>
    ELSE ShowConstructor(c.args[i].c)])
ShowConstructors(cs) ==
  FlattenSeq([i \in DOMAIN cs |->
    IF i = 1 THEN ShowConstructor(cs[i]) ELSE <<Mark("|")>> \o ShowConstructor(cs[i])])

ShowDecl(d) ==
  <<T("declid", d.id), d.name>> \o d.args
  \o (IF d.guard = Nil THEN <<>> ELSE Show(d.guard))
  \o (IF d.boolean = Nil THEN <<>> ELSE <<Mark("|")>> \o Show(d.boolean))
  \o (CASE d.id = "dim" /\ d.e # Nil -> <<Mark("<-")>> \o Show(d.e)
        [] d.id \in {"dim", "del"} -> <<>>
        [] d.id = "repl" -> ShowDecl(d.e)
        [] d.id = "data" -> <<Mark("=")>> \o ShowConstructors(d.e.cs)
        [] OTHER -> <<Mark("=")>> \o Show(d.e))

Written(d) == Terminated(<<d>>)

\* An entry whose separator is gone is left out, so separators stay
Separators == {"<-", "is", "imp", ":"}
Damaged(t) ==
  {RemoveAt(t, i) : i \in {j \in DOMAIN t : t[j].type \notin Separators}}
  \cup {InsertAt(t, i, s) : i \in 1..Len(t), s \in Strays}

(***************************************************************************)
(* One parser reads one text after another                                 *)
(***************************************************************************)
InitParser == meant = Nil /\ tokens = <<>> /\ m_which_decl = <<TopDecls>> /\ read = NotRead

NewText ==
  /\ tokens = <<>>
  /\ \/ meant' \in Declarations /\ tokens' = Written(meant')
     \/ meant' = Nil /\ \E d \in Spoilt : tokens' \in Damaged(Written(d))
  /\ UNCHANGED <<m_which_decl, read>>

Parse ==
  /\ tokens # <<>> /\ read = NotRead
  /\ LET r == rule("decl", [at |-> 1, decls |-> m_which_decl])
     IN /\ m_which_decl' = r.p.decls
        /\ read' = [status |-> r.status, at |-> r.p.at, tree |-> r.e]
  /\ UNCHANGED <<meant, tokens>>

Taken ==
  /\ read # NotRead
  /\ meant' = Nil /\ tokens' = <<>> /\ read' = NotRead
  /\ UNCHANGED m_which_decl

NextParser == NewText \/ Parse \/ Taken

SpecParser == InitParser /\ [][NextParser]_parserVars

(***************************************************************************)
(* Properties                                                              *)
(***************************************************************************)
RECURSIVE Open(_), Grouped(_), GroupedDecl(_)

Applies == {"at", "lambda app", "bang app", "phi app"}
Level(e) ==
  CASE e.op = "where" -> 0
    [] e.op = "binary" -> 1
    [] e.op \in Applies -> 2
    [] e.op \in {"unary", "inten", "eval"} -> 3
    [] OTHER -> 4
\* The body of a function goes on as far as it can, and to the end of its
\* where clause
Open(e) ==
  CASE e.op = "function" -> e.e.op # "where"
    [] e.op = "bang app" -> ~e.listed /\ Open(e.es[1])
    [] e.op \in Applies \cup {"binary"} -> Open(e.r)
    [] Level(e) = 3 -> Open(e.e)
    [] OTHER -> FALSE

\* An operator's operand has an operator that binds tighter, or the same on
\* the side that its associativity allows
Tighter(e, by, side) ==
  e.op = "binary" => e.by.prec > by.prec \/ (e.by = by /\ by.assoc = side)

Operands(e) ==
  CASE e.op \in {"binary", "at", "lambda app", "phi app"} -> <<e.l, e.r>>
    [] e.op = "bang app" -> <<e.l>> \o e.es
    [] e.op \in {"inten", "function"} -> e.binds \o <<e.e>>
    [] e.op \in {"paren", "unary", "eval", "where"} -> <<e.e>>
    [] e.op = "if" -> <<e.cond, e.then, e.else>> \o FlattenSeq(e.elsifs)
    [] e.op \in {"tuple", "region"} ->
         FlattenSeq([i \in DOMAIN e.entries |-> <<e.entries[i].l, e.entries[i].r>>])
    [] OTHER -> <<>>

Grouped(e) ==
  /\ e.op = "where" =>
       /\ Level(e.e) > 0 /\ ~Open(e.e)
       /\ \A d \in ToSet(e.dims \o e.vars \o e.funs) : GroupedDecl(d)
  /\ e.op = "binary" =>
       /\ Level(e.l) > 0 /\ ~Open(e.l) /\ Tighter(e.l, e.by, "LEFT")
       /\ Level(e.r) > 0 /\ Tighter(e.r, e.by, "RIGHT")
  /\ e.op \in Applies => Level(e.l) > 1 /\ ~Open(e.l)
  /\ e.op \in Applies \ {"bang app"} => Level(e.r) > 2
  /\ e.op = "bang app" => e.listed \/ Level(e.es[1]) > 2
  /\ Level(e) = 3 => Level(e.e) > 2
  /\ \A x \in ToSet(Operands(e)) : Grouped(x)

GroupedDecl(d) ==
  CASE d.id \in {"data", "constructor", "del"} -> TRUE
    [] d.id = "repl" -> GroupedDecl(d.e)
    [] OTHER -> \A e \in {d.guard, d.boolean, d.e} : Grouped(e)

\* A list in braces, and the names of a base function, may end in a comma,
\* and braces may be empty
Spare(t, i) ==
  \/ t[i].type = "comma" /\ i < Len(t) /\ t[i + 1].type \in {"}", ")"}
  \/ t[i].type = "{" /\ i < Len(t) /\ t[i + 1].type = "}"
  \/ t[i].type = "}" /\ i > 1 /\ t[i - 1].type = "{"
Lean(t) ==
  LET kept == SelectSeq([i \in DOMAIN t |-> i], LAMBDA i : ~Spare(t, i))
  IN [i \in DOMAIN kept |-> t[kept[i]]]

\* What the parser accepts is the whole text, and its tree is the one the
\* precedences and associativities ask for; and every declaration that can be
\* written is accepted, also by a parser that has thrown half way through
\* the where clause of an earlier one.  A text is one declaration for the
\* tree or it is refused: no token is lost, read twice, or read by the rules
\* of another place.  parse_decl, the stack m_which_decl and
\* insert_binary_operator are behind it.
ReadsBack ==
  read # NotRead =>
    /\ read.status = "yes" =>
         /\ Written(read.tree) = Lean(SubSeq(tokens, 1, read.at - 1))
         /\ GroupedDecl(read.tree)
    /\ meant # Nil /\ GroupedDecl(meant) => read.status = "yes" /\ read.tree = meant
    /\ m_which_decl = <<TopDecls>>
=============================================================================
