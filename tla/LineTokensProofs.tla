--------------------------- MODULE LineTokensProofs ---------------------------
(***************************************************************************)
(* The line tokenizer returns the lines that the text has by its own       *)
(* description, for any text that does not hit one of the oversights that  *)
(* Plain excludes.                                                         *)
(*                                                                         *)
(* The reference reads the text once, symbol by symbol, and keeps a place: *)
(* what it is in, how deep in where clauses, which lines it has cut. The   *)
(* invariant says of every loop of the code what the place of the          *)
(* reference is at the symbol that the loop is about to look at, and that  *)
(* the counters and the lines of the code are the ones of that place.      *)
(***************************************************************************)
EXTENDS LineTokens, SequenceTheorems, WellFoundedInduction, TLAPS

Modes == {"before", "code", "comment", "string", "escape", "raw"}
Places == [mode : Modes, last : Symbol, depth : Int, word : {" ", "where", "end", "x"},
           begun : Nat, lines : Seq(Seq(Symbol))]

\* What holds of the place m after i symbols of the text t
IsPlace(t, m, i) ==
  /\ m \in Places
  /\ m.mode # "before" => m.begun \in 1..i
  /\ m.mode = "before" => m.last \in {" ", "newline"}
  /\ m.word # " " => m.mode = "code" /\ i > 0 /\ is_ident(t[i])

\* The lines of m are the first ones of n
Extends(m, n) ==
  /\ Len(m.lines) <= Len(n.lines)
  /\ \A j \in 1..Len(m.lines) : n.lines[j] = m.lines[j]

(***************************************************************************)
(* The invariant: in each loop, the place of the reference                 *)
(***************************************************************************)
Line == [text : Seq(Symbol), thrown : {"none", "NewLineInString", "EndOfInput"},
         type : {"LINE", "EMPTY", "DOUBLE_DOLLAR", "DOUBLE_PERCENT"}]

\* The lines s are those of the place m
Returned(s, m) ==
  /\ Len(s) = Len(m.lines)
  /\ \A j \in 1..Len(s) : s[j].thrown # "EndOfInput" /\ s[j].text = m.lines[j]

\* The member variables for words tell what the place m does
Counted(m) ==
  /\ m_whereDepth = m.depth
  /\ m_readingIdent = (m.word # " ")
  /\ m_readingIdent => /\ m_currentIdent \in Seq(Symbol) \ {<<>>}
                       /\ (m_currentIdent = <<"where">>) = (m.word = "where")
                       /\ (m_currentIdent = <<"end">>) = (m.word = "end")

At(m) == Counted(m) /\ split \in Seq(Line) /\ Returned(split, m)

\* The p-th character is looked at
Looking(p) == m_current = p /\ p \in 1..Len(text) /\ m_peek = <<>> /\ m_currentChar = text[p] /\ ~m_first

\* Between two lines, after k characters
AtNext ==
  /\ at = "next" /\ m_peek = <<>>
  /\ \/ m_first /\ m_current = 1 /\ split = <<>> /\ At(Place)
     \/ /\ ~m_first /\ m_current \in 1..Len(text)
        /\ Scanned(text)[m_current].mode = "before" /\ At(Scanned(text)[m_current])
     \/ /\ m_current = Len(text) + 1 /\ split \in Seq(Line) \ {<<>>}
        /\ split[Len(split)].thrown = "EndOfInput"
        /\ Returned(SubSeq(split, 1, Len(split) - 1), Scanned(text)[Len(text)])

Skipping(p) ==
  LET m == Scanned(text)[p - 1]
  IN  m.mode = "before" /\ At(m) /\ m_line = <<>>
AtSkip == at = "skip" /\ Looking(m_current) /\ Skipping(m_current)

AtPeeked ==
  /\ at = "peeked" /\ ~m_first
  /\ m_current \in 2..Len(text) /\ m_currentChar = "/" /\ m_peek = <<"/">>
  /\ text[m_current - 1] = "/" /\ text[m_current] = "/"
  /\ Skipping(m_current - 1)

AtSkipComment ==
  LET m == Scanned(text)[m_current]
  IN  /\ at = "skip comment" /\ Looking(m_current) /\ m_line = <<>> /\ At(m)
      /\ IF m_currentChar = "newline" THEN m.mode = "before"
         ELSE m.mode = "comment" /\ text[m.begun] = "/"

\* What the loop a, at the p-th character of t, knows of the place m
Fits(a, t, m, p) ==
  /\ m.mode = IF a \in {"comment", "string", "escape", "raw"} THEN a ELSE "code"
  /\ t[m.begun] \notin {" ", "newline", "/"}
  /\ a # "loop" => m.word = " "
  /\ a = "mark" => p = m.begun /\ t[p] \in {"$", "%"}
  /\ a \in {"$", "%"} => p = m.begun + 1 /\ m.last = a
  /\ a = "loop" => /\ m.last \notin {";", "/"}
                   /\ p = m.begun => t[p] \notin {"$", "%"}
                   /\ p = m.begun + 1 => t[p] \notin {"$", "%"} \/ m.last # t[p]
  /\ a = "semi" => p > m.begun /\ m.last = ";"
  /\ a = "slash" => p > m.begun /\ m.last = "/"

LineLoops == {"mark", "$", "%", "loop", "semi", "slash", "comment", "string", "escape", "raw"}
Opening(t, p) == Opened(Scanned(t)[p - 1], p)
Reading(m, p) == Looking(p) /\ m_line = SubSeq(text, m.begun, p) /\ At(m)
AtLine ==
  /\ at \in LineLoops
  /\ Reading(Opening(text, m_current), m_current)
  /\ Fits(at, text, Opening(text, m_current), m_current)

Kept == AtNext \/ AtSkip \/ AtPeeked \/ AtSkipComment \/ AtLine

TokensInv == text \in Texts /\ (Plain(text) => Kept)

(***************************************************************************)
(* The places of a text                                                    *)
(***************************************************************************)
LEMMA LeastOfNat ==
  ASSUME NEW S \in SUBSET Nat, S # {}
  PROVE  \E n \in S : \A m \in S : n <= m
<1>1. PICK n \in S : \A m \in S : ~(<<m, n>> \in OpToRel(<, Nat))
  BY NatLessThanWellFounded, WFMin, Zenon
<1>2. \A m \in S : ~(m < n)
  BY <1>1 DEF OpToRel
<1> QED
  BY <1>2

\* The recursion has a solution
LEMMA ScansExist ==
  ASSUME NEW t, Len(t) \in Nat
  PROVE  \E s : s = [i \in 0..Len(t) |-> IF i = 0 THEN Place ELSE Scan(t, s[i - 1], i)]
<1> DEFINE Upto(k) == \E s : s = [i \in 0..k |-> IF i = 0 THEN Place ELSE Scan(t, s[i - 1], i)]
           Wrong == {k \in Nat : ~Upto(k)}
<1>1. Upto(0)
  <2>1. [i \in 0..0 |-> Place] = [i \in 0..0 |-> IF i = 0 THEN Place ELSE Scan(t, [j \in 0..0 |-> Place][i - 1], i)]
    OBVIOUS
  <2> QED
    BY <2>1
<1>2. ASSUME NEW k \in Nat, k # 0, Upto(k - 1)
      PROVE  Upto(k)
  <2>1. PICK s : s = [i \in 0..(k - 1) |-> IF i = 0 THEN Place ELSE Scan(t, s[i - 1], i)]
    BY <1>2
  <2> DEFINE u == [i \in 0..k |-> IF i = k THEN Scan(t, s[k - 1], k) ELSE s[i]]
             v == [i \in 0..k |-> IF i = 0 THEN Place ELSE Scan(t, u[i - 1], i)]
  <2>2. ASSUME NEW i \in 0..k
        PROVE  u[i] = v[i]
    <3>1. CASE i = k
      <4>1. k - 1 \in 0..k /\ k - 1 # k /\ u[k - 1] = s[k - 1]
        BY <1>2
      <4> QED
        BY <1>2, <3>1, <4>1
    <3>2. CASE i = 0
      <4>1. 0 \in 0..(k - 1) /\ s[0] = Place
        BY <1>2, <2>1
      <4> QED
        BY <1>2, <3>2, <4>1
    <3>3. CASE i # 0 /\ i # k
      <4>1. i \in 0..(k - 1) /\ i - 1 \in 0..k /\ i - 1 # k
        BY <1>2, <3>3
      <4>2. s[i] = Scan(t, s[i - 1], i)
        BY <2>1, <3>3, <4>1
      <4>3. u[i - 1] = s[i - 1] /\ u[i] = s[i]
        BY <3>3, <4>1
      <4> QED
        BY <3>3, <4>2, <4>3
    <3> QED
      BY <3>1, <3>2, <3>3
  <2>3. u = v
    <3> HIDE DEF v
    <3>1. v = [i \in 0..k |-> v[i]]
      BY DEF v
    <3>2. u = [i \in 0..k |-> u[i]]
      OBVIOUS
    <3> QED
      BY <2>2, <3>1, <3>2
  <2> QED
    BY <2>3
<1> HIDE DEF Upto
<1>3. Wrong = {}
  <2>1. SUFFICES ASSUME Wrong # {}
                 PROVE  FALSE
    OBVIOUS
  <2>2. PICK k \in Wrong : \A j \in Wrong : k <= j
    BY <2>1, LeastOfNat
  <2>3. k \in Nat /\ k # 0 /\ k - 1 \in Nat /\ ~(k <= k - 1)
    BY <1>1, <2>2
  <2> QED
    BY <1>2, <2>2, <2>3
<1> QED
  BY <1>3 DEF Upto

LEMMA ScannedIs ==
  ASSUME NEW t, Len(t) \in Nat
  PROVE  /\ Scanned(t)[0] = Place
         /\ \A i \in 1..Len(t) : Scanned(t)[i] = Scan(t, Scanned(t)[i - 1], i)
<1> DEFINE F(s) == [i \in 0..Len(t) |-> IF i = 0 THEN Place ELSE Scan(t, s[i - 1], i)]
           f == CHOOSE s : s = F(s)
<1>1. Scanned(t) = f
  BY Zenon DEF Scanned
<1>2. f = F(f)
  BY ScansExist, Zenon
<1> HIDE DEF f
<1>3. f[0] = Place
  BY <1>2
<1>4. \A i \in 1..Len(t) : f[i] = Scan(t, f[i - 1], i)
  BY <1>2
<1> QED
  BY <1>1, <1>3, <1>4

LEMMA NestingIs ==
  ASSUME NEW m \in Places, NEW c \in Symbol
  PROVE  /\ Nesting(m, c) \in Places
         /\ Nesting(m, c).mode = m.mode /\ Nesting(m, c).last = m.last
         /\ Nesting(m, c).begun = m.begun /\ Nesting(m, c).lines = m.lines
         /\ Nesting(m, c).word = WordWith(m.word, c)
         /\ Nesting(m, c).depth = IF is_ident(c) THEN m.depth ELSE m.depth + Nests(m.word)
         /\ ~is_ident(c) => Nesting(m, c).word = " "
         /\ is_ident(c) => Nesting(m, c).word \in {"where", "end", "x"}
<1> DEFINE w == WordWith(m.word, c)
           d == IF is_ident(c) THEN m.depth ELSE m.depth + Nests(m.word)
<1>1. m.depth \in Int /\ m.word \in {" ", "where", "end", "x"}
  BY DEF Places
<1>2. d \in Int
  <2>1. Nests(m.word) \in Int
    BY DEF Nests
  <2>2. \A x, y \in Int : x + y \in Int
    OBVIOUS
  <2>3. m.depth + Nests(m.word) \in Int
    BY <1>1, <2>1, <2>2, Zenon
  <2> QED
    BY <1>1, <2>3, Zenon
<1>3. /\ w \in {" ", "where", "end", "x"}
      /\ ~is_ident(c) => w = " "
      /\ is_ident(c) => w \in {"where", "end", "x"}
  BY <1>1 DEF is_ident, WordWith
<1>4. Nesting(m, c) = [m EXCEPT !.word = w, !.depth = d]
  BY Zenon DEF Nesting
<1> HIDE DEF w, d
<1>5. /\ Nesting(m, c) \in Places
      /\ Nesting(m, c).mode = m.mode /\ Nesting(m, c).last = m.last
      /\ Nesting(m, c).begun = m.begun /\ Nesting(m, c).lines = m.lines
      /\ Nesting(m, c).word = w /\ Nesting(m, c).depth = d
  BY <1>2, <1>3, <1>4 DEF Places
<1> QED
  BY <1>3, <1>5 DEF w, d

\* The i-th symbol, in the code of a line at m, ends it
Ends(t, m, i) ==
  \/ t[i] = ";" /\ m.last = ";" /\ Nesting(m, ";").depth = 0
  \/ t[i] \in {"$", "%"} /\ m.last = t[i] /\ i = m.begun + 1

LEMMA CutIs ==
  ASSUME NEW t \in Seq(Symbol), NEW i \in 1..Len(t), NEW m \in Places, m.begun \in 1..i
  PROVE  /\ SubSeq(t, m.begun, i) \in Seq(Symbol)
         /\ Cut(t, m, i) \in Places
         /\ Cut(t, m, i).mode = "before" /\ Cut(t, m, i).last = " " /\ Cut(t, m, i).word = " "
         /\ Cut(t, m, i).depth = m.depth /\ Cut(t, m, i).begun = m.begun
         /\ Cut(t, m, i).lines = Append(m.lines, SubSeq(t, m.begun, i))
<1>1. SubSeq(t, m.begun, i) \in Seq(Symbol)
  BY SubSeqProperties
<1>2. Append(m.lines, SubSeq(t, m.begun, i)) \in Seq(Seq(Symbol))
  BY <1>1, AppendProperties DEF Places
<1>3. " " \in Symbol /\ "before" \in Modes
  BY DEF Symbol, Modes
<1> QED
  BY <1>1, <1>2, <1>3 DEF Cut, Places

\* n is the place after the i-th symbol, read in the code of a line at m
CodeGives(t, m, i, n) ==
  /\ t[i] \in Symbol /\ n \in Places /\ n.begun = m.begun
  /\ n.depth = Nesting(m, t[i]).depth /\ n.word = Nesting(m, t[i]).word
  /\ Ends(t, m, i) => /\ n.mode = "before" /\ n.last = " "
                      /\ n.lines = Append(m.lines, SubSeq(t, m.begun, i))
  /\ ~Ends(t, m, i) =>
       /\ n.lines = m.lines
       /\ n.last = IF t[i] = ";" /\ m.last = ";" THEN " " ELSE t[i]
       /\ n.mode = IF t[i] = "quote" THEN "string" ELSE IF t[i] = "tick" THEN "raw"
                   ELSE IF t[i] = "/" /\ m.last = "/" THEN "comment" ELSE "code"

LEMMA CodeIs ==
  ASSUME NEW t \in Seq(Symbol), NEW i \in 1..Len(t), NEW m \in Places,
         m.begun \in 1..i, m.mode = "code"
  PROVE  CodeGives(t, m, i, Code(t, m, i))
<1> DEFINE c == t[i]
           n == Code(t, m, i)
           u == Nesting(m, c)
           v == [u EXCEPT !.last = c]
<1>1. c \in Symbol
  OBVIOUS
<1>2. u \in Places /\ u.mode = "code" /\ u.last = m.last /\ u.begun = m.begun /\ u.lines = m.lines
  BY <1>1, NestingIs
<1>3. ~is_ident(c) => u.word = " "
  BY <1>1, NestingIs
<1> HIDE DEF u
<1>4. /\ v \in Places /\ v.mode = "code" /\ v.last = c /\ v.begun = m.begun /\ v.lines = m.lines
      /\ v.depth = u.depth /\ v.word = u.word
  BY <1>1, <1>2 DEF Places
<1> HIDE DEF v
<1>5. n = CASE c = "quote" -> [v EXCEPT !.mode = "string"]
       [] c = "tick" -> [v EXCEPT !.mode = "raw"]
       [] c = "/" /\ m.last = "/" -> [v EXCEPT !.mode = "comment"]
       [] c = ";" /\ m.last = ";" -> IF v.depth = 0 THEN Cut(t, v, i) ELSE [v EXCEPT !.last = " "]
       [] c \in {"$", "%"} /\ m.last = c /\ i = m.begun + 1 -> Cut(t, v, i)
       [] OTHER -> v
  BY DEF Code, v, u
<1>6. Ends(t, m, i) <=> \/ c = ";" /\ m.last = ";" /\ v.depth = 0
                        \/ c \in {"$", "%"} /\ m.last = c /\ i = m.begun + 1
  BY <1>4 DEF Ends, u
<1>7. ASSUME NEW d \in Modes
      PROVE  LET k == [v EXCEPT !.mode = d]
             IN  /\ k \in Places /\ k.mode = d /\ k.last = c /\ k.begun = m.begun /\ k.lines = m.lines
                 /\ k.depth = u.depth /\ k.word = u.word
  BY <1>4 DEF Places
<1>8. CASE c \in {"quote", "tick"} \/ (c = "/" /\ m.last = "/")
  <2>1. ~Ends(t, m, i)
    BY <1>6, <1>8
  <2>2. "string" \in Modes /\ "raw" \in Modes /\ "comment" \in Modes
    BY DEF Modes
  <2>3. CASE c = "quote"
    <3>1. n = [v EXCEPT !.mode = "string"]
      BY <1>5, <2>3
    <3> QED
      BY <1>1, <1>7, <2>1, <2>2, <2>3, <3>1 DEF u, CodeGives
  <2>4. CASE c = "tick"
    <3>1. n = [v EXCEPT !.mode = "raw"]
      BY <1>5, <2>4
    <3> QED
      BY <1>1, <1>7, <2>1, <2>2, <2>4, <3>1 DEF u, CodeGives
  <2>5. CASE c = "/" /\ m.last = "/"
    <3>1. n = [v EXCEPT !.mode = "comment"]
      BY <1>5, <2>5
    <3> QED
      BY <1>1, <1>7, <2>1, <2>2, <2>5, <3>1 DEF u, CodeGives
  <2> QED
    BY <1>8, <2>3, <2>4, <2>5
<1>9. CASE Ends(t, m, i)
  <2>1. n = Cut(t, v, i)
    BY <1>5, <1>6, <1>9
  <2>2. ~is_ident(c)
    BY <1>6, <1>9 DEF is_ident
  <2>3. /\ Cut(t, v, i) \in Places
        /\ Cut(t, v, i).mode = "before" /\ Cut(t, v, i).last = " " /\ Cut(t, v, i).word = " "
        /\ Cut(t, v, i).depth = v.depth /\ Cut(t, v, i).begun = v.begun
        /\ Cut(t, v, i).lines = Append(v.lines, SubSeq(t, v.begun, i))
    <3>1. v \in Places /\ v.begun \in 1..i
      BY <1>4
    <3> QED
      BY <3>1, CutIs
  <2> QED
    BY <1>1, <1>3, <1>4, <1>9, <2>1, <2>2, <2>3 DEF u, CodeGives
<1>10. CASE c = ";" /\ m.last = ";" /\ v.depth # 0
  <2>1. n = [v EXCEPT !.last = " "] /\ ~Ends(t, m, i)
    BY <1>5, <1>6, <1>10
  <2>2. " " \in Symbol
    BY DEF Symbol
  <2>3. LET k == [v EXCEPT !.last = " "]
        IN  /\ k \in Places /\ k.mode = "code" /\ k.last = " " /\ k.begun = m.begun /\ k.lines = m.lines
            /\ k.depth = u.depth /\ k.word = u.word
    BY <1>4, <2>2 DEF Places
  <2> QED
    BY <1>1, <1>10, <2>1, <2>3 DEF u, CodeGives
<1>11. CASE /\ c \notin {"quote", "tick"} /\ ~(c = "/" /\ m.last = "/") /\ ~(c = ";" /\ m.last = ";")
            /\ ~Ends(t, m, i)
  <2>1. n = v
    BY <1>5, <1>6, <1>11
  <2> QED
    BY <1>1, <1>4, <1>11, <2>1 DEF u, CodeGives
<1> QED
  BY <1>6, <1>8, <1>9, <1>10, <1>11 DEF CodeGives

LEMMA OpenedIs ==
  ASSUME NEW t, NEW i \in Nat \ {0}, NEW m, IsPlace(t, m, i - 1),
         NEW o, o = Opened(m, i)
  PROVE  /\ o \in Places /\ o.begun \in 1..i
         /\ o.mode = IF m.mode = "before" THEN "code" ELSE m.mode
         /\ o.begun = IF m.mode = "before" THEN i ELSE m.begun
         /\ o.last = m.last /\ o.depth = m.depth /\ o.word = m.word /\ o.lines = m.lines
<1>1. m \in Places /\ "code" \in Modes /\ i \in Nat
  BY DEF IsPlace, Modes
<1>2. CASE m.mode = "before"
  <2>1. PICK d \in Modes : d = "code"
    BY <1>1
  <2>2. o = [m EXCEPT !.mode = d, !.begun = i]
    BY <1>2, <2>1 DEF Opened
  <2>3. /\ o \in Places /\ o.mode = d /\ o.begun = i
        /\ o.last = m.last /\ o.depth = m.depth /\ o.word = m.word /\ o.lines = m.lines
    BY <1>1, <2>2 DEF Places
  <2>4. i \in 1..i
    OBVIOUS
  <2> QED
    BY <1>2, <2>1, <2>3, <2>4
<1>3. CASE m.mode # "before"
  <2>1. o = m /\ m.begun \in 1..(i - 1)
    BY <1>3 DEF Opened, IsPlace
  <2> QED
    BY <1>1, <1>3, <2>1
<1> QED
  BY <1>2, <1>3

\* and outside of the code of a line
AsideGives(t, m, i, n) ==
  /\ n \in Places /\ n.begun = m.begun /\ n.depth = m.depth
  /\ n.word \in {m.word, " "}
  /\ n.lines = IF m.mode = "string" /\ t[i] = "newline" THEN Append(m.lines, SubSeq(t, m.begun, i)) ELSE m.lines
  /\ n.last \in {m.last, t[i], " "}
  /\ m.mode = "string" /\ t[i] = "newline" => n.mode = "before" /\ n.last = " "
  /\ m.mode = "comment" =>
       IF t[i] # "newline" THEN n.mode = "comment"
       ELSE n.mode = (IF t[m.begun] = "/" THEN "before" ELSE "code") /\ n.last = "newline"
  /\ m.mode = "raw" => IF t[i] = "tick" THEN n.mode = "code" /\ n.last = t[i] ELSE n.mode = "raw"
  /\ m.mode = "escape" => n.mode = "string"
  /\ m.mode = "string" /\ t[i] # "newline" =>
       IF t[i] = "quote" THEN n.mode = "code" /\ n.last = t[i]
       ELSE n.mode = IF t[i] = "backslash" THEN "escape" ELSE "string"

LEMMA AsideIs ==
  ASSUME NEW t \in Seq(Symbol), NEW i \in 1..Len(t), NEW m \in Places,
         m.begun \in 1..i, m.mode \in {"comment", "raw", "escape", "string"}
  PROVE  AsideGives(t, m, i, Scan(t, m, i))
<1> DEFINE c == t[i]
           n == Scan(t, m, i)
<1>1. c \in Symbol
  OBVIOUS
<1>2. ASSUME NEW d \in Modes, NEW p, p = [m EXCEPT !.last = c, !.mode = d]
      PROVE  /\ p \in Places /\ p.mode = d /\ p.last = c /\ p.begun = m.begun /\ p.lines = m.lines
             /\ p.depth = m.depth /\ p.word = m.word
  BY <1>1, <1>2 DEF Places
<1>3. ASSUME NEW d \in Modes, NEW p, p = [m EXCEPT !.mode = d, !.last = c]
      PROVE  /\ p \in Places /\ p.mode = d /\ p.last = c /\ p.begun = m.begun /\ p.lines = m.lines
             /\ p.depth = m.depth /\ p.word = m.word
  BY <1>1, <1>3 DEF Places
<1>4. ASSUME NEW d \in Modes, NEW p, p = [m EXCEPT !.mode = d]
      PROVE  /\ p \in Places /\ p.mode = d /\ p.last = m.last /\ p.begun = m.begun /\ p.lines = m.lines
             /\ p.depth = m.depth /\ p.word = m.word
  BY <1>4 DEF Places
<1>5. "before" \in Modes /\ "code" \in Modes /\ "string" \in Modes /\ "escape" \in Modes
  BY DEF Modes
<1>6. CASE m.mode = "comment"
  <2> DEFINE d == IF t[m.begun] = "/" THEN "before" ELSE "code"
  <2>1. d \in Modes
    BY <1>5
  <2>2. n = IF c # "newline" THEN m ELSE [m EXCEPT !.last = c, !.mode = d]
    BY <1>6 DEF Scan
  <2> HIDE DEF d
  <2>3. CASE c # "newline"
    BY <1>6, <2>2, <2>3 DEF AsideGives
  <2>4. CASE c = "newline"
    <3>1. n = [m EXCEPT !.last = c, !.mode = d]
      BY <2>2, <2>4
    <3>2. /\ n \in Places /\ n.mode = d /\ n.last = c /\ n.begun = m.begun /\ n.lines = m.lines
          /\ n.depth = m.depth /\ n.word = m.word
      BY <1>2, <2>1, <3>1
    <3> QED
      BY <1>6, <2>4, <3>2 DEF d, AsideGives
  <2> QED
    BY <2>3, <2>4
<1>7. CASE m.mode = "raw"
  <2>1. n = IF c = "tick" THEN [m EXCEPT !.mode = "code", !.last = c] ELSE m
    BY <1>7 DEF Scan
  <2>2. CASE c # "tick"
    BY <1>7, <2>1, <2>2 DEF AsideGives
  <2>3. CASE c = "tick"
    <3>0. PICK d \in Modes : d = "code"
      BY <1>5
    <3>1. n = [m EXCEPT !.mode = d, !.last = c]
      BY <2>1, <2>3, <3>0
    <3>2. /\ n \in Places /\ n.mode = "code" /\ n.last = c /\ n.begun = m.begun /\ n.lines = m.lines
          /\ n.depth = m.depth /\ n.word = m.word
      BY <1>3, <3>0, <3>1
    <3> QED
      BY <1>7, <2>3, <3>2 DEF AsideGives
  <2> QED
    BY <2>2, <2>3
<1>8. CASE m.mode = "escape"
  <2>1. n = [m EXCEPT !.mode = "string"]
    BY <1>8 DEF Scan
  <2>2. /\ n \in Places /\ n.mode = "string" /\ n.last = m.last /\ n.begun = m.begun /\ n.lines = m.lines
        /\ n.depth = m.depth /\ n.word = m.word
    BY <1>4, <1>5, <2>1
  <2> QED
    BY <1>8, <2>2 DEF AsideGives
<1>9. CASE m.mode = "string"
  <2>1. n = CASE c = "quote" -> [m EXCEPT !.mode = "code", !.last = c]
              [] c = "backslash" -> [m EXCEPT !.mode = "escape"]
              [] c = "newline" -> Cut(t, m, i)
              [] OTHER -> m
    BY <1>9 DEF Scan
  <2>2. CASE c = "quote"
    <3>0. PICK d \in Modes : d = "code"
      BY <1>5
    <3>1. n = [m EXCEPT !.mode = d, !.last = c]
      BY <2>1, <2>2, <3>0
    <3>2. /\ n \in Places /\ n.mode = "code" /\ n.last = c /\ n.begun = m.begun /\ n.lines = m.lines
          /\ n.depth = m.depth /\ n.word = m.word
      BY <1>3, <3>0, <3>1
    <3> QED
      BY <1>9, <2>2, <3>2 DEF AsideGives
  <2>3. CASE c = "backslash"
    <3>1. n = [m EXCEPT !.mode = "escape"]
      BY <2>1, <2>3
    <3>2. /\ n \in Places /\ n.mode = "escape" /\ n.last = m.last /\ n.begun = m.begun /\ n.lines = m.lines
          /\ n.depth = m.depth /\ n.word = m.word
      BY <1>4, <1>5, <3>1
    <3> QED
      BY <1>9, <2>3, <3>2 DEF AsideGives
  <2>4. CASE c = "newline"
    <3>1. n = Cut(t, m, i)
      BY <2>1, <2>4
    <3>2. /\ n \in Places /\ n.mode = "before" /\ n.last = " " /\ n.begun = m.begun
          /\ n.lines = Append(m.lines, SubSeq(t, m.begun, i)) /\ n.depth = m.depth /\ n.word = " "
      <4>1. /\ Cut(t, m, i) \in Places /\ Cut(t, m, i).mode = "before" /\ Cut(t, m, i).last = " "
            /\ Cut(t, m, i).begun = m.begun /\ Cut(t, m, i).lines = Append(m.lines, SubSeq(t, m.begun, i))
            /\ Cut(t, m, i).depth = m.depth /\ Cut(t, m, i).word = " "
        BY CutIs
      <4> QED
        BY <3>1, <4>1
    <3> QED
      BY <1>9, <2>4, <3>2 DEF AsideGives
  <2>5. CASE c \notin {"quote", "backslash", "newline"}
    <3>1. n = m
      BY <2>1, <2>5
    <3> QED
      BY <1>9, <2>5, <3>1 DEF AsideGives
  <2> QED
    BY <2>2, <2>3, <2>4, <2>5
<1> QED
  BY <1>6, <1>7, <1>8, <1>9 DEF AsideGives

LEMMA ScanKeeps ==
  ASSUME NEW t \in Seq(Symbol), NEW i \in 1..Len(t), NEW m, IsPlace(t, m, i - 1)
  PROVE  IsPlace(t, Scan(t, m, i), i) /\ Extends(m, Scan(t, m, i))
<1> DEFINE n == Scan(t, m, i)
<1>1. m \in Places /\ i \in Nat \ {0} /\ i - 1 \in Nat /\ t[i] \in Symbol
  <2>1. m \in Places
    BY DEF IsPlace
  <2>2. Len(t) \in Nat /\ t[i] \in Symbol
    OBVIOUS
  <2>3. i \in Nat \ {0} /\ i - 1 \in Nat
    BY <2>2
  <2> QED
    BY <2>1, <2>2, <2>3
<1>2. m.lines \in Seq(Seq(Symbol)) /\ Extends(m, m) /\ m.mode \in Modes
  <2>1. m.lines \in Seq(Seq(Symbol)) /\ m.mode \in Modes
    BY <1>1 DEF Places
  <2>2. Len(m.lines) \in Nat
    BY <2>1, LenProperties
  <2> QED
    BY <2>1, <2>2 DEF Extends
<1>3. ASSUME NEW l \in Seq(Symbol), n.lines = Append(m.lines, l)
      PROVE  Extends(m, n)
  BY <1>2, <1>3, AppendProperties DEF Extends
<1>4. ASSUME n.lines = m.lines
      PROVE  Extends(m, n)
  BY <1>2, <1>4 DEF Extends
<1>5. CASE m.mode = "before" /\ is_space(t[i])
  <2>1. n = m
    BY <1>5 DEF Scan
  <2> QED
    BY <1>1, <1>2, <1>5, <2>1 DEF IsPlace
<1>6. CASE m.mode = "code" \/ (m.mode = "before" /\ ~is_space(t[i]))
  <2> DEFINE o == Opened(m, i)
  <2>1. n = Code(t, o, i)
    BY <1>6, Zenon DEF Scan
  <2>2. /\ o \in Places /\ o.begun \in 1..i /\ o.mode = "code"
        /\ o.lines = m.lines
    BY <1>1, <1>6, OpenedIs
  <2> HIDE DEF o, n
  <2>3. /\ n \in Places /\ n.begun = o.begun
        /\ n.word = Nesting(o, t[i]).word
        /\ Ends(t, o, i) => /\ n.mode = "before" /\ n.last = " "
                            /\ n.lines = Append(m.lines, SubSeq(t, o.begun, i))
        /\ ~Ends(t, o, i) =>
             /\ n.lines = m.lines
             /\ n.mode = IF t[i] = "quote" THEN "string" ELSE IF t[i] = "tick" THEN "raw"
                         ELSE IF t[i] = "/" /\ o.last = "/" THEN "comment" ELSE "code"
    <3>1. CodeGives(t, o, i, n)
      BY <2>1, <2>2, CodeIs
    <3> QED
      BY <2>2, <3>1 DEF CodeGives
  <2>4. ~is_ident(t[i]) => n.word = " "
    BY <1>1, <2>2, <2>3, NestingIs
  <2>5. n.word # " " => n.mode = "code" /\ is_ident(t[i])
    BY <2>3, <2>4 DEF Ends, is_ident
  <2>6. IsPlace(t, n, i)
    <3>1. n \in Places /\ n.begun \in 1..i
      BY <2>2, <2>3
    <3>2. n.mode = "before" => n.last \in {" ", "newline"}
      BY <2>3
    <3>3. i > 0
      BY <1>1
    <3> QED
      BY <2>5, <3>1, <3>2, <3>3 DEF IsPlace
  <2>7. SubSeq(t, o.begun, i) \in Seq(Symbol)
    BY <2>2, CutIs
  <2> QED
    BY <1>3, <1>4, <2>3, <2>6, <2>7 DEF n
<1>7. CASE m.mode \in {"comment", "raw", "escape", "string"}
  <2>1. m.begun \in 1..i /\ m.word = " "
    <3>1. m.begun \in 1..(i - 1) /\ m.word = " "
      BY <1>7 DEF IsPlace
    <3>2. \A x \in 1..(i - 1) : x \in 1..i
      BY <1>1
    <3> QED
      BY <3>1, <3>2
  <2>2. /\ n \in Places /\ n.begun = m.begun /\ n.word = " "
        /\ n.lines = (IF m.mode = "string" /\ t[i] = "newline" THEN Append(m.lines, SubSeq(t, m.begun, i)) ELSE m.lines)
        /\ n.mode = "before" => n.last \in {" ", "newline"}
    <3>1. AsideGives(t, m, i, n)
      BY <1>1, <1>7, <2>1, AsideIs
    <3> HIDE DEF n
    <3>2. n.mode = "before" => n.last \in {" ", "newline"}
      BY <1>7, <3>1 DEF AsideGives
    <3> QED
      BY <2>1, <3>1, <3>2 DEF AsideGives
  <2>3. IsPlace(t, n, i)
    BY <1>1, <2>1, <2>2 DEF IsPlace
  <2>4. SubSeq(t, m.begun, i) \in Seq(Symbol)
    BY <1>1, <2>1, CutIs
  <2> HIDE DEF n
  <2> QED
    BY <1>3, <1>4, <2>2, <2>3, <2>4 DEF n
<1> QED
  BY <1>2, <1>5, <1>6, <1>7 DEF Modes

\* and in every place of the text
LEMMA PlacesKept ==
  ASSUME NEW t \in Seq(Symbol)
  PROVE  \A i \in 0..Len(t) : IsPlace(t, Scanned(t)[i], i)
<1> DEFINE Wrong == {i \in Nat : i \in 0..Len(t) /\ ~IsPlace(t, Scanned(t)[i], i)}
<1>1. SUFFICES ASSUME Wrong # {}
               PROVE  FALSE
  OBVIOUS
<1>2. PICK k \in Wrong : \A j \in Wrong : k <= j
  BY <1>1, LeastOfNat
<1>3. IsPlace(t, Place, 0)
  <2>1. " " \in Symbol /\ "before" \in Modes
    BY DEF Symbol, Modes
  <2>2. <<>> \in Seq(Seq(Symbol))
    OBVIOUS
  <2>3. Place \in Places
    <3>1. ASSUME NEW b \in Modes, NEW l \in Symbol, NEW e \in Seq(Seq(Symbol))
          PROVE  [mode |-> b, last |-> l, depth |-> 0, word |-> " ", begun |-> 1, lines |-> e] \in Places
      BY DEF Places
    <3> QED
      BY <2>1, <2>2, <3>1 DEF Place
  <2> QED
    BY <2>3 DEF IsPlace, Place
<1>4. k \in 1..Len(t) /\ k - 1 \in 0..Len(t) /\ ~(k <= k - 1)
  BY <1>2, <1>3, ScannedIs
<1>5. IsPlace(t, Scanned(t)[k - 1], k - 1)
  BY <1>2, <1>4
<1> QED
  BY <1>2, <1>4, <1>5, ScanKeeps, ScannedIs

LEMMA LinesExtend ==
  ASSUME NEW t \in Seq(Symbol), NEW i \in 0..Len(t)
  PROVE  Extends(Scanned(t)[i], Scanned(t)[Len(t)])
<1> DEFINE S(k) == Scanned(t)[k]
           Wrong == {d \in Nat : i + d \in 0..Len(t) /\ ~Extends(S(i), S(i + d))}
<1>0. \A k \in 0..Len(t) : Len(S(k).lines) \in Nat
  <2>1. \A k \in 0..Len(t) : S(k) \in Places
    BY PlacesKept DEF IsPlace
  <2>2. \A p \in Places : p.lines \in Seq(Seq(Symbol))
    BY DEF Places
  <2> QED
    BY <2>1, <2>2, LenProperties
<1>1. CASE Wrong = {}
  <2>1. Len(t) \in Nat
    OBVIOUS
  <2>2. Len(t) - i \in Nat /\ i + (Len(t) - i) = Len(t) /\ Len(t) \in 0..Len(t)
    BY <2>1
  <2>3. Len(t) - i \notin Wrong
    BY <1>1
  <2>4. Extends(S(i), S(i + (Len(t) - i)))
    BY <2>2, <2>3
  <2> QED
    BY <2>2, <2>4
<1>2. CASE Wrong # {}
  <2>1. PICK d \in Wrong : \A j \in Wrong : d <= j
    BY <1>2, LeastOfNat
  <2>2. Extends(S(i), S(i))
    BY <1>0 DEF Extends
  <2>3. d \in Nat /\ d # 0 /\ i + d \in 1..Len(t)
    BY <2>1, <2>2
  <2>4. d - 1 \in Nat /\ i + (d - 1) = (i + d) - 1 /\ (i + d) - 1 \in 0..Len(t) /\ ~(d <= d - 1)
    BY <2>3
  <2>5. Extends(S(i), S((i + d) - 1))
    BY <2>1, <2>4
  <2>6. Extends(S((i + d) - 1), S(i + d))
    BY <2>3, <2>4, PlacesKept, ScanKeeps, ScannedIs
  <2>7. Extends(S(i), S(i + d))
    <3> HIDE DEF S
    <3> QED
      BY <1>0, <2>3, <2>4, <2>5, <2>6 DEF Extends
  <2> QED
    BY <2>1, <2>7
<1> QED
  BY <1>1, <1>2

(***************************************************************************)
(* From one character of a line to the next                                *)
(***************************************************************************)
\* The place at which the p-th symbol is read
LEMMA OpeningIs ==
  ASSUME NEW t \in Seq(Symbol), NEW p \in 1..Len(t), NEW m, m = Opening(t, p)
  PROVE  /\ p \in Nat \ {0} /\ p - 1 \in 0..Len(t) /\ p \in 0..Len(t) /\ Len(t) \in Nat /\ t[p] \in Symbol
         /\ m \in Places /\ m.begun \in 1..p /\ m.depth \in Int /\ m.lines \in Seq(Seq(Symbol))
         /\ IsPlace(t, Scanned(t)[p - 1], p - 1) /\ IsPlace(t, Scanned(t)[p], p)
         /\ m.lines = Scanned(t)[p - 1].lines /\ m.last = Scanned(t)[p - 1].last
         /\ m.depth = Scanned(t)[p - 1].depth /\ m.word = Scanned(t)[p - 1].word
         /\ p # m.begun => Scanned(t)[p - 1] = m
         /\ Scanned(t)[p - 1].mode = "before" => m.mode = "code" /\ m.begun = p
<1>1. Len(t) \in Nat
  OBVIOUS
<1>2. p \in Nat \ {0} /\ p - 1 \in 0..Len(t) /\ p \in 0..Len(t) /\ t[p] \in Symbol
  BY <1>1
<1>3. IsPlace(t, Scanned(t)[p - 1], p - 1) /\ IsPlace(t, Scanned(t)[p], p)
  BY <1>2, PlacesKept
<1> DEFINE b == Scanned(t)[p - 1]
<1>4. /\ m \in Places /\ m.begun \in 1..p
      /\ m.mode = IF b.mode = "before" THEN "code" ELSE b.mode
      /\ m.begun = IF b.mode = "before" THEN p ELSE b.begun
      /\ m.last = b.last /\ m.depth = b.depth /\ m.word = b.word /\ m.lines = b.lines
  BY <1>2, <1>3, OpenedIs DEF Opening
<1>5. b.mode # "before" => m = b
  BY DEF Opening, Opened
<1>6. m.depth \in Int /\ m.lines \in Seq(Seq(Symbol))
  BY <1>4 DEF Places
<1> HIDE DEF b
<1>7. /\ b.mode = "before" => m.mode = "code" /\ m.begun = p
      /\ p # m.begun => b = m
  BY <1>4, <1>5
<1>8. m.lines = b.lines /\ m.last = b.last /\ m.depth = b.depth /\ m.word = b.word
  BY <1>4
<1> QED
  BY <1>1, <1>2, <1>3, <1>4, <1>6, <1>7, <1>8 DEF b

LEMMA CodeStep ==
  ASSUME NEW t \in Seq(Symbol), NEW p \in 1..Len(t), NEW m, m = Opening(t, p),
         m.mode = "code", ~is_space(t[m.begun])
  PROVE  CodeGives(t, m, p, Scanned(t)[p])
<1> DEFINE b == Scanned(t)[p - 1]
<1>1. Len(t) \in Nat /\ m \in Places /\ m.begun \in 1..p
  BY OpeningIs
<1>2. Scanned(t)[p] = Scan(t, b, p)
  BY <1>1, ScannedIs
<1>3. b.mode = "code" \/ (b.mode = "before" /\ ~is_space(t[p]))
  <2>1. b.mode = "before" => m.begun = p
    BY OpeningIs
  <2>2. b.mode # "before" => m = b
    BY DEF Opening, Opened
  <2> QED
    BY <2>1, <2>2
<1>4. Scan(t, b, p) = Code(t, m, p)
  BY <1>3, Zenon DEF Scan, Opening
<1> QED
  BY <1>1, <1>2, <1>4, CodeIs

LEMMA AsideStep ==
  ASSUME NEW t \in Seq(Symbol), NEW p \in 1..Len(t), NEW m, m = Opening(t, p),
         m.mode \in {"comment", "raw", "escape", "string"}
  PROVE  AsideGives(t, m, p, Scanned(t)[p])
<1> DEFINE b == Scanned(t)[p - 1]
<1>1. Len(t) \in Nat /\ m \in Places /\ m.begun \in 1..p
  BY OpeningIs
<1>2. Scanned(t)[p] = Scan(t, b, p)
  BY <1>1, ScannedIs
<1>3. m = b
  <2>1. b.mode # "before"
    BY OpeningIs
  <2> QED
    BY <2>1 DEF Opening, Opened
<1> QED
  BY <1>1, <1>2, <1>3, AsideIs

LEMMA AddZero == \A x \in Int : x + 0 = x
OBVIOUS

LEMMA PastIs ==
  ASSUME NEW p \in Nat, NEW x \in 1..p
  PROVE  /\ p + 1 # x /\ p + 1 > x /\ (p + 1 = x + 1 => p = x)
         /\ p > x => p # x /\ p - 1 > 0 /\ p + 1 # x + 1
         /\ p = x + 1 => p # x
OBVIOUS

LEMMA BeforeIs ==
  ASSUME NEW n \in Nat, NEW p \in 1..n, p - 1 > 0
  PROVE  p - 1 \in 1..(n - 1) /\ (p - 1) + 1 = p
OBVIOUS

\* The p-th symbol is of the line, and the loop a looks at the next one
Goes(t, m, p, a) ==
  LET n == Scanned(t)[p]
  IN  /\ n.mode # "before" /\ n.lines = m.lines /\ n.begun = m.begun
      /\ p < Len(t) => Fits(a, t, n, p + 1)

\* It is not of a word
Stays(t, m, p) ==
  LET n == Scanned(t)[p] IN n.word = " " /\ n.depth = m.depth

LEMMA CodeStays ==
  ASSUME NEW t \in Seq(Symbol), NEW p \in 1..Len(t), NEW m \in Places, m.word = " ", ~is_ident(t[p]),
         CodeGives(t, m, p, Scanned(t)[p])
  PROVE  Stays(t, m, p)
<1>1. t[p] \in Symbol /\ m.depth \in Int
  BY DEF CodeGives, Places
<1>2. Nesting(m, t[p]).word = " " /\ Nesting(m, t[p]).depth = m.depth + Nests(" ")
  <2>1. Nesting(m, t[p]).word = " " /\ Nesting(m, t[p]).depth = m.depth + Nests(m.word)
    BY <1>1, NestingIs
  <2> QED
    BY <2>1
<1>3. Nests(" ") = 0
  BY DEF Nests
<1>4. m.depth + 0 = m.depth
  BY <1>1, AddZero, Zenon
<1> QED
  BY <1>2, <1>3, <1>4 DEF CodeGives, Stays

LEMMA MarkGoes ==
  ASSUME NEW t \in Seq(Symbol), NEW p \in 1..Len(t), NEW m, m = Opening(t, p), Fits("mark", t, m, p)
  PROVE  t[p] \in {"$", "%"} /\ Goes(t, m, p, t[p]) /\ Stays(t, m, p)
<1>1. /\ p \in Nat /\ m \in Places /\ m.begun \in 1..p
      /\ IsPlace(t, Scanned(t)[p - 1], p - 1)
      /\ m.last = Scanned(t)[p - 1].last
      /\ p # m.begun => Scanned(t)[p - 1] = m
  BY OpeningIs
<1>2. /\ m.mode = "code" /\ m.word = " " /\ p = m.begun /\ t[p] \in {"$", "%"}
      /\ t[m.begun] \notin {" ", "newline", "/"}
  BY DEF Fits
<1>3. CodeGives(t, m, p, Scanned(t)[p])
  BY <1>2, CodeStep DEF is_space
<1>4. ~Ends(t, m, p)
  <2>1. Scanned(t)[p - 1].mode = "before"
    <3>1. SUFFICES ASSUME Scanned(t)[p - 1].mode # "before"
                   PROVE  FALSE
      OBVIOUS
    <3>2. m.begun \in 1..(p - 1)
      BY <1>1, <3>1 DEF IsPlace, Opening, Opened
    <3>3. \A x \in 1..(p - 1) : x # p
      BY <1>1
    <3> QED
      BY <1>2, <3>2, <3>3
  <2>2. m.last \in {" ", "newline"}
    BY <1>1, <2>1 DEF IsPlace
  <2> QED
    BY <1>2, <2>2 DEF Ends
<1>5. ~is_ident(t[p])
  BY <1>2 DEF is_ident
<1>6. Stays(t, m, p)
  BY <1>1, <1>2, <1>3, <1>5, CodeStays
<1>7. /\ Scanned(t)[p].mode = "code" /\ Scanned(t)[p].last = t[p] /\ Scanned(t)[p].lines = m.lines
      /\ Scanned(t)[p].begun = m.begun
  BY <1>2, <1>3, <1>4 DEF CodeGives
<1>8. Scanned(t)[p].word = " "
  BY <1>6 DEF Stays
<1>9. Fits(t[p], t, Scanned(t)[p], p + 1)
  BY <1>2, <1>7, <1>8 DEF Fits
<1> QED
  BY <1>2, <1>6, <1>7, <1>9 DEF Goes

\* In the code of a line
LEMMA LoopGoes ==
  ASSUME NEW t \in Seq(Symbol), NEW p \in 1..Len(t), NEW m, m = Opening(t, p), Fits("loop", t, m, p)
  PROVE  /\ Goes(t, m, p, CASE t[p] = ";" -> "semi" [] t[p] = "/" -> "slash" [] t[p] = "quote" -> "string"
                            [] t[p] = "tick" -> "raw" [] OTHER -> "loop")
         /\ Scanned(t)[p].word = Nesting(m, t[p]).word /\ Scanned(t)[p].depth = Nesting(m, t[p]).depth
<1> DEFINE n == Scanned(t)[p]
<1>1. p \in Nat /\ m \in Places /\ m.begun \in 1..p /\ t[p] \in Symbol
  BY OpeningIs
<1>2. /\ m.mode = "code" /\ t[m.begun] \notin {" ", "newline", "/"} /\ m.last \notin {";", "/"}
      /\ p = m.begun => t[p] \notin {"$", "%"}
      /\ p = m.begun + 1 => t[p] \notin {"$", "%"} \/ m.last # t[p]
  BY DEF Fits
<1>3. CodeGives(t, m, p, n)
  BY <1>2, CodeStep DEF is_space
<1>4. ~Ends(t, m, p)
  BY <1>1, <1>2 DEF Ends
<1> HIDE DEF n
<1>5. /\ n.lines = m.lines /\ n.last = t[p] /\ n.begun = m.begun
      /\ n.mode = IF t[p] = "quote" THEN "string" ELSE IF t[p] = "tick" THEN "raw" ELSE "code"
      /\ n.word = Nesting(m, t[p]).word /\ n.depth = Nesting(m, t[p]).depth
  BY <1>2, <1>3, <1>4 DEF CodeGives
<1>6. ~is_ident(t[p]) => n.word = " "
  BY <1>1, <1>5, NestingIs
<1>7. p + 1 # m.begun /\ p + 1 > m.begun /\ (p + 1 = m.begun + 1 => p = m.begun)
  BY <1>1, PastIs
<1>8. CASE t[p] = ";"
  BY <1>2, <1>5, <1>6, <1>7, <1>8 DEF Goes, Fits, is_ident, n
<1>9. CASE t[p] = "/"
  BY <1>2, <1>5, <1>6, <1>7, <1>9 DEF Goes, Fits, is_ident, n
<1>10. CASE t[p] = "quote"
  BY <1>2, <1>5, <1>6, <1>7, <1>10 DEF Goes, Fits, is_ident, n
<1>11. CASE t[p] = "tick"
  BY <1>2, <1>5, <1>6, <1>7, <1>11 DEF Goes, Fits, is_ident, n
<1>12. CASE t[p] \notin {";", "/", "quote", "tick"}
  <2>1. Fits("loop", t, n, p + 1)
    BY <1>2, <1>5, <1>7, <1>12 DEF Fits
  <2> QED
    BY <1>5, <1>12, <2>1 DEF Goes, n
<1> QED
  BY <1>8, <1>9, <1>10, <1>11, <1>12

\* After a ; or a /, in a plain text
LEMMA AfterIs ==
  ASSUME NEW t \in Seq(Symbol), NEW p \in 1..Len(t), NEW m, m = Opening(t, p),
         m.mode = "code", m.last \in {";", "/"}, p > m.begun, Plain(t)
  PROVE  t[p] = m.last \/ ~(is_ident(t[p]) \/ IsQuote(t[p]) \/ t[p] \in {";", "/"})
<1>1. p \in Nat /\ m.begun \in 1..p /\ Len(t) \in Nat /\ (p # m.begun => Scanned(t)[p - 1] = m)
  <2>1. p \in Nat /\ m.begun \in 1..p /\ Len(t) \in Nat
    BY OpeningIs
  <2>2. p # m.begun => Scanned(t)[p - 1] = m
    BY OpeningIs
  <2> QED
    BY <2>1, <2>2
<1>2. p - 1 > 0 /\ p # m.begun
  BY <1>1, PastIs
<1>3. p - 1 \in 1..(Len(t) - 1) /\ (p - 1) + 1 = p
  BY <1>1, <1>2, BeforeIs
<1>4. m = Scanned(t)[p - 1]
  BY <1>1, <1>2
<1> QED
  BY <1>3, <1>4 DEF Plain

LEMMA SemiGoes ==
  ASSUME NEW t \in Seq(Symbol), NEW p \in 1..Len(t), NEW m, m = Opening(t, p), Fits("semi", t, m, p),
         Plain(t), ~(t[p] = ";" /\ m.depth = 0)
  PROVE  Goes(t, m, p, "loop") /\ Stays(t, m, p)
<1> DEFINE n == Scanned(t)[p]
<1>1. p \in Nat /\ m \in Places /\ m.begun \in 1..p /\ t[p] \in Symbol /\ m.depth \in Int
  BY OpeningIs
<1>2. /\ m.mode = "code" /\ t[m.begun] \notin {" ", "newline", "/"} /\ m.last = ";" /\ p > m.begun
      /\ m.word = " "
  BY DEF Fits
<1>3. t[p] = ";" \/ ~(is_ident(t[p]) \/ IsQuote(t[p]) \/ t[p] \in {";", "/"})
  BY <1>2, AfterIs
<1>4. CodeGives(t, m, p, n)
  BY <1>2, CodeStep DEF is_space
<1>5. ~is_ident(t[p]) /\ ~IsQuote(t[p])
  BY <1>3 DEF is_ident, IsQuote
<1>6. Stays(t, m, p)
  BY <1>1, <1>2, <1>4, <1>5, CodeStays
<1>7. Nesting(m, ";").depth = m.depth
  <2>1. ";" \in Symbol /\ ~is_ident(";") /\ Nests(" ") = 0
    BY DEF Symbol, is_ident, Nests
  <2>3. Nesting(m, ";").depth = m.depth + Nests(m.word)
    BY <1>1, <2>1, NestingIs
  <2>4. m.depth + 0 = m.depth
    BY <1>1, AddZero, Zenon
  <2> QED
    BY <1>2, <2>1, <2>3, <2>4
<1>8. ~Ends(t, m, p)
  BY <1>2, <1>7 DEF Ends
<1>9. n.word = " "
  BY <1>6 DEF Stays
<1> HIDE DEF n
<1>10. n.mode = "code" /\ n.lines = m.lines /\ n.begun = m.begun /\ n.last \notin {";", "/"}
  BY <1>2, <1>3, <1>4, <1>5, <1>8 DEF CodeGives, IsQuote
<1>11. p + 1 # m.begun /\ p + 1 # m.begun + 1
  BY <1>1, <1>2, PastIs
<1>12. Fits("loop", t, n, p + 1)
  BY <1>2, <1>9, <1>10, <1>11 DEF Fits
<1> QED
  BY <1>6, <1>10, <1>12 DEF Goes, n

LEMMA SlashGoes ==
  ASSUME NEW t \in Seq(Symbol), NEW p \in 1..Len(t), NEW m, m = Opening(t, p), Fits("slash", t, m, p), Plain(t)
  PROVE  Goes(t, m, p, IF t[p] = "/" THEN "comment" ELSE "loop") /\ Stays(t, m, p)
<1> DEFINE n == Scanned(t)[p]
<1>1. p \in Nat /\ m \in Places /\ m.begun \in 1..p /\ t[p] \in Symbol
  BY OpeningIs
<1>2. /\ m.mode = "code" /\ t[m.begun] \notin {" ", "newline", "/"} /\ m.last = "/" /\ p > m.begun
      /\ m.word = " "
  BY DEF Fits
<1>3. t[p] = "/" \/ ~(is_ident(t[p]) \/ IsQuote(t[p]) \/ t[p] \in {";", "/"})
  BY <1>2, AfterIs
<1>4. CodeGives(t, m, p, n)
  BY <1>2, CodeStep DEF is_space
<1>5. ~is_ident(t[p]) /\ ~IsQuote(t[p])
  BY <1>3 DEF is_ident, IsQuote
<1>6. Stays(t, m, p)
  BY <1>1, <1>2, <1>4, <1>5, CodeStays
<1>8. ~Ends(t, m, p)
  BY <1>2 DEF Ends
<1>9. n.word = " "
  BY <1>6 DEF Stays
<1> HIDE DEF n
<1>10. /\ n.mode = (IF t[p] = "/" THEN "comment" ELSE "code") /\ n.lines = m.lines
       /\ n.begun = m.begun /\ n.last = t[p]
  BY <1>2, <1>3, <1>4, <1>5, <1>8 DEF CodeGives, IsQuote
<1>11. p + 1 # m.begun /\ p + 1 # m.begun + 1
  BY <1>1, <1>2, PastIs
<1>12. CASE t[p] = "/"
  BY <1>2, <1>6, <1>9, <1>10, <1>11, <1>12 DEF Goes, Fits, n
<1>13. CASE t[p] # "/"
  <2>1. Fits("loop", t, n, p + 1)
    BY <1>2, <1>3, <1>9, <1>10, <1>11, <1>13 DEF Fits
  <2> QED
    BY <1>6, <1>10, <1>13, <2>1 DEF Goes, n
<1> QED
  BY <1>12, <1>13

\* In a comment or a string
LEMMA AsideGoes ==
  ASSUME NEW t \in Seq(Symbol), NEW p \in 1..Len(t), NEW m, m = Opening(t, p),
         NEW a \in {"comment", "string", "escape", "raw"}, Fits(a, t, m, p), ~(a = "string" /\ t[p] = "newline")
  PROVE  /\ Stays(t, m, p)
         /\ Goes(t, m, p, CASE a = "comment" -> IF t[p] = "newline" THEN "loop" ELSE "comment"
                            [] a = "raw" -> IF t[p] = "tick" THEN "loop" ELSE "raw"
                            [] a = "escape" -> "string"
                            [] a = "string" -> IF t[p] = "quote" THEN "loop"
                                               ELSE IF t[p] = "backslash" THEN "escape" ELSE "string")
<1> DEFINE n == Scanned(t)[p]
<1>1. p \in Nat /\ m \in Places /\ m.begun \in 1..p /\ t[p] \in Symbol
  BY OpeningIs
<1>2. m.mode = a /\ t[m.begun] \notin {" ", "newline", "/"} /\ m.word = " "
  BY DEF Fits
<1>3. AsideGives(t, m, p, n)
  BY <1>2, AsideStep
<1>4. p + 1 # m.begun
  BY <1>1
<1> HIDE DEF n
<1>5. n.lines = m.lines /\ n.begun = m.begun /\ n.word = " " /\ n.depth = m.depth
  BY <1>2, <1>3 DEF AsideGives
<1>6. ASSUME NEW b \in {"comment", "string", "escape", "raw"}, n.mode = b
      PROVE  Goes(t, m, p, b)
  <2>1. Fits(b, t, n, p + 1)
    BY <1>2, <1>5, <1>6 DEF Fits
  <2> QED
    BY <1>5, <1>6, <2>1 DEF Goes, n
<1>7. ASSUME n.mode = "code", n.last \in {"newline", "tick", "quote"}
      PROVE  Goes(t, m, p, "loop")
  <2>1. p + 1 = m.begun + 1 => t[p + 1] \notin {"$", "%"} \/ n.last # t[p + 1]
    BY <1>7
  <2>2. Fits("loop", t, n, p + 1)
    BY <1>2, <1>4, <1>5, <1>7, <2>1 DEF Fits
  <2> QED
    BY <1>5, <1>7, <2>2 DEF Goes, n
<1>8. CASE a = "comment"
  BY <1>2, <1>3, <1>5, <1>6, <1>7, <1>8 DEF AsideGives, Stays, n
<1>9. CASE a = "raw"
  BY <1>2, <1>3, <1>5, <1>6, <1>7, <1>9 DEF AsideGives, Stays, n
<1>10. CASE a = "escape"
  BY <1>2, <1>3, <1>5, <1>6, <1>7, <1>10 DEF AsideGives, Stays, n
<1>11. CASE a = "string"
  BY <1>2, <1>3, <1>5, <1>6, <1>7, <1>11 DEF AsideGives, Stays, n
<1> QED
  BY <1>8, <1>9, <1>10, <1>11

(***************************************************************************)
(* Reading a character, and returning a line                               *)
(***************************************************************************)
LEMMA LineGrows ==
  ASSUME NEW t \in Seq(Symbol), NEW p \in 1..Len(t), NEW b \in 1..p
  PROVE  /\ SubSeq(t, b, p) \in Seq(Symbol)
         /\ p < Len(t) => Append(SubSeq(t, b, p), t[p + 1]) = SubSeq(t, b, p + 1)
         /\ SubSeq(t, p, p) = <<t[p]>>
<1>1. Len(t) \in Nat /\ p \in Nat /\ b \in Nat
  OBVIOUS
<1>2. SubSeq(t, b, p) \in Seq(Symbol) /\ Len(SubSeq(t, b, p)) = p - b + 1
        /\ \A i \in 1..(p - b + 1) : SubSeq(t, b, p)[i] = t[b + i - 1]
  BY <1>1, SubSeqProperties
<1>3. ASSUME p < Len(t)
      PROVE  Append(SubSeq(t, b, p), t[p + 1]) = SubSeq(t, b, p + 1)
  <2> DEFINE u == SubSeq(t, b, p)
             v == SubSeq(t, b, p + 1)
             w == Append(u, t[p + 1])
  <2>1. t[p + 1] \in Symbol
    BY <1>1, <1>3
  <2>2. v \in Seq(Symbol) /\ Len(v) = p + 1 - b + 1 /\ \A i \in 1..(p + 1 - b + 1) : v[i] = t[b + i - 1]
    <3>1. p + 1 \in 1..Len(t)
      BY <1>1, <1>3
    <3> QED
      BY <1>1, <3>1, SubSeqProperties
  <2>3. w \in Seq(Symbol) /\ Len(w) = Len(u) + 1 /\ w[Len(u) + 1] = t[p + 1]
          /\ \A i \in 1..Len(u) : w[i] = u[i]
    BY <1>2, <2>1, AppendProperties
  <2> HIDE DEF u, v, w
  <2>4. Len(w) = Len(v)
    BY <1>1, <1>2, <2>2, <2>3 DEF u
  <2>5. ASSUME NEW i \in 1..Len(v)
        PROVE  w[i] = v[i]
    <3>1. CASE i = Len(u) + 1
      BY <1>1, <1>2, <2>2, <2>3, <3>1 DEF u
    <3>2. CASE i \in 1..Len(u)
      BY <1>1, <1>2, <2>2, <2>3, <3>2 DEF u
    <3> QED
      BY <1>1, <1>2, <2>2, <3>1, <3>2 DEF u
  <2> QED
    BY <2>2, <2>3, <2>4, <2>5, SeqEqual DEF u, v, w
<1>4. SubSeq(t, p, p) = <<t[p]>>
  <2>1. t[p] \in Symbol /\ <<t[p]>> \in Seq(Symbol) /\ Len(<<t[p]>>) = 1 /\ <<t[p]>>[1] = t[p]
    OBVIOUS
  <2>2. SubSeq(t, p, p) \in Seq(Symbol) /\ Len(SubSeq(t, p, p)) = p - p + 1
          /\ \A i \in 1..(p - p + 1) : SubSeq(t, p, p)[i] = t[p + i - 1]
    BY <1>1, SubSeqProperties
  <2>3. p - p + 1 = 1 /\ p + 1 - 1 = p
    BY <1>1
  <2>4. Len(SubSeq(t, p, p)) = 1 /\ SubSeq(t, p, p)[1] = t[p]
    BY <2>2, <2>3
  <2>5. \A i \in 1..Len(SubSeq(t, p, p)) : SubSeq(t, p, p)[i] = <<t[p]>>[i]
    BY <2>1, <2>4
  <2> QED
    BY <2>1, <2>2, <2>4, <2>5, SeqEqual
<1> QED
  BY <1>2, <1>3, <1>4

\* A line is returned that is the one of the place n after those of m
LEMMA Returns ==
  ASSUME NEW s \in Seq(Line), NEW m \in Places, NEW n \in Places, Returned(s, m),
         NEW x \in Line, x.thrown # "EndOfInput", n.lines = Append(m.lines, x.text)
  PROVE  Append(s, x) \in Seq(Line) /\ Returned(Append(s, x), n)
<1>1. m.lines \in Seq(Seq(Symbol)) /\ x.text \in Seq(Symbol)
  BY DEF Places, Line
<1>2. /\ Len(n.lines) = Len(m.lines) + 1 /\ n.lines[Len(m.lines) + 1] = x.text
      /\ \A j \in 1..Len(m.lines) : n.lines[j] = m.lines[j]
  BY <1>1, AppendProperties
<1>3. /\ Append(s, x) \in Seq(Line)
      /\ Len(Append(s, x)) = Len(s) + 1 /\ Append(s, x)[Len(s) + 1] = x
      /\ \A j \in 1..Len(s) : Append(s, x)[j] = s[j]
  BY AppendProperties
<1>4. Len(s) \in Nat
  OBVIOUS
<1> QED
  BY <1>2, <1>3, <1>4 DEF Returned

\* and the exception at the end of the input
LEMMA Ended ==
  ASSUME NEW s \in Seq(Line), NEW m, NEW n, Returned(s, m), n.lines = m.lines,
         NEW x \in Line, x.thrown = "EndOfInput"
  PROVE  /\ Append(s, x) \in Seq(Line) \ {<<>>}
         /\ Append(s, x)[Len(Append(s, x))].thrown = "EndOfInput"
         /\ Returned(SubSeq(Append(s, x), 1, Len(Append(s, x)) - 1), n)
<1> DEFINE u == Append(s, x)
<1>1. Len(s) \in Nat
  OBVIOUS
<1>2. /\ u \in Seq(Line)
      /\ Len(u) = Len(s) + 1 /\ u[Len(s) + 1] = x
      /\ \A j \in 1..Len(s) : u[j] = s[j]
  BY AppendProperties
<1>3. u # <<>>
  BY AppendProperties
<1> HIDE DEF u
<1>4. Len(u) - 1 = Len(s)
  BY <1>1, <1>2
<1>5. /\ Len(SubSeq(u, 1, Len(s))) = Len(s)
      /\ \A j \in 1..Len(s) : SubSeq(u, 1, Len(s))[j] = s[j]
  <2>1. \A i \in 1..Len(s) : u[i] \in Line
    BY <1>1, <1>2
  <2>2. /\ Len(SubSeq(u, 1, Len(s))) = IF 1 <= Len(s) THEN Len(s) - 1 + 1 ELSE 0
        /\ \A j \in 1..(Len(s) - 1 + 1) : SubSeq(u, 1, Len(s))[j] = u[1 + j - 1]
    BY <1>1, <1>2, <2>1, SubSeqProperties
  <2> QED
    BY <1>1, <1>2, <2>2
<1>6. Returned(SubSeq(u, 1, Len(u) - 1), n)
  BY <1>4, <1>5 DEF Returned
<1>7. u[Len(u)].thrown = "EndOfInput"
  BY <1>1, <1>2
<1> QED
  BY <1>2, <1>3, <1>6, <1>7 DEF u

\* Either the next character is looked at, or the input ends
LEMMA Reads ==
  ASSUME text \in Seq(Symbol), NEW p, Looking(p), NEW a, nextCharCommon(a), UNCHANGED <<text, m_first>>
  PROVE  \/ p < Len(text) /\ at' = a /\ split' = split /\ Looking(p + 1)' /\ Upcoming = text[p + 1] /\ Upcoming # EndMark
         \/ /\ p = Len(text) /\ m_current' = Len(text) + 1 /\ m_peek' = <<>> /\ at' = "next" /\ Upcoming = EndMark
            /\ \E y \in {"LINE", "EMPTY"} :
                 split' = Append(split, [text |-> m_line', thrown |-> "EndOfInput", type |-> y])
<1>1. m_current = p /\ p \in 1..Len(text) /\ m_peek = <<>> /\ ~m_first /\ Len(text) \in Nat
  BY DEF Looking
<1>2. m_current' = p + 1
  BY <1>1 DEF nextCharCommon
<1>3. CASE p < Len(text)
  <2>1. p + 1 \in 1..Len(text) /\ text[p + 1] \in Symbol
    BY <1>1, <1>3
  <2>2. Upcoming = text[p + 1]
    BY <1>1, <1>3 DEF Upcoming
  <2>3. Upcoming # EndMark
    BY <2>1, <2>2 DEF Symbol, EndMark
  <2>4. m_currentChar' = Upcoming /\ m_peek' = m_peek /\ at' = a /\ split' = split
    BY <1>1, <2>3 DEF nextCharCommon
  <2>5. Looking(p + 1)'
    BY <1>1, <1>2, <2>1, <2>2, <2>4 DEF Looking
  <2> QED
    BY <1>3, <2>2, <2>3, <2>4, <2>5
<1>4. CASE ~(p < Len(text))
  <2>1. p = Len(text)
    BY <1>1, <1>4
  <2>2. Upcoming = EndMark
    BY <1>1, <1>4 DEF Upcoming
  <2>3. EndOfInput /\ m_peek' = m_peek
    BY <2>2 DEF nextCharCommon
  <2>4. PICK y \in {"LINE", "EMPTY"} :
          split' = Append(split, [text |-> m_line', thrown |-> "EndOfInput", type |-> y]) /\ at' = "next"
    BY <2>3 DEF EndOfInput, Emitted
  <2> QED
    BY <1>1, <1>2, <2>1, <2>2, <2>3, <2>4
<1> QED
  BY <1>3, <1>4

\* The input ends, at a place with the lines of m
LEMMA InputEnds ==
  ASSUME text \in Seq(Symbol), NEW m, At(m), Scanned(text)[Len(text)].lines = m.lines, text' = text,
         m_current' = Len(text) + 1, m_peek' = <<>>, at' = "next", m_line' \in Seq(Symbol),
         NEW y \in {"LINE", "EMPTY"},
         split' = Append(split, [text |-> m_line', thrown |-> "EndOfInput", type |-> y])
  PROVE  AtNext'
<1> DEFINE x == [text |-> m_line', thrown |-> "EndOfInput", type |-> y]
           n == Scanned(text)[Len(text)]
<1>1. x \in Line /\ x.thrown = "EndOfInput"
  BY DEF Line
<1>2. split \in Seq(Line) /\ Returned(split, m)
  BY DEF At
<1> HIDE DEF x, n
<1>3. split' = Append(split, x) /\ n.lines = m.lines
  BY DEF x, n
<1>4. /\ split' \in Seq(Line) \ {<<>>}
      /\ split'[Len(split')].thrown = "EndOfInput"
      /\ Returned(SubSeq(split', 1, Len(split') - 1), n)
  BY <1>1, <1>2, <1>3, Ended
<1>5. Scanned(text)' = Scanned(text) /\ Len(text)' = Len(text)
  OBVIOUS
<1> QED
  BY <1>4, <1>5 DEF AtNext, n, Returned

\* A character of a line is read by the loop a
LEMMA GoesOn ==
  ASSUME text \in Seq(Symbol), NEW p, NEW m, m = Opening(text, p), Reading(m, p), m_current = p,
         NEW n, n = Scanned(text)[p],
         NEW a \in LineLoops, Goes(text, m, p, a), nextChar(a), UNCHANGED <<text, m_first>>, Counted(n)'
  PROVE  Kept'
<1>1. Looking(p) /\ m_line = SubSeq(text, m.begun, p) /\ At(m) /\ p \in 1..Len(text) /\ Len(text) \in Nat
  BY DEF Reading, Looking
<1>2. m \in Places /\ m.begun \in 1..p /\ p \in Nat
  BY <1>1, OpeningIs
<1>3. n.mode # "before" /\ n.lines = m.lines /\ n.begun = m.begun /\ (p < Len(text) => Fits(a, text, n, p + 1))
  BY DEF Goes
<1>4. m_line' = (IF Upcoming = EndMark THEN m_line ELSE Append(m_line, Upcoming)) /\ nextCharCommon(a)
  BY DEF nextChar
<1>5. split \in Seq(Line) /\ Returned(split, m)
  BY <1>1 DEF At
<1>6. m_line \in Seq(Symbol)
  BY <1>1, <1>2, LineGrows
<1>7. CASE p < Len(text) /\ at' = a /\ split' = split /\ Looking(p + 1)' /\ Upcoming = text[p + 1] /\ Upcoming # EndMark
  <2>1. m_line' = SubSeq(text, m.begun, p + 1)
    BY <1>1, <1>2, <1>4, <1>7, LineGrows
  <2>2. Returned(split', n)
    BY <1>3, <1>5, <1>7 DEF Returned
  <2>3. At(n)'
    BY <1>5, <1>7, <2>2 DEF At, Returned
  <2>4. Reading(n, p + 1)'
    BY <1>3, <1>7, <2>1, <2>3 DEF Reading
  <2>5. Opening(text, p + 1) = n
    <3>1. (p + 1) - 1 = p
      BY <1>2
    <3> QED
      BY <1>3, <3>1 DEF Opening, Opened
  <2>6. m_current' = p + 1
    BY <1>7 DEF Looking
  <2>7. Opening(text, m_current)' = n
    BY <2>5, <2>6
  <2>8. Fits(at, text, n, m_current)'
    BY <1>3, <1>7, <2>6
  <2>9. Reading(Opening(text, m_current), m_current)' /\ Fits(at, text, Opening(text, m_current), m_current)'
    BY <2>4, <2>6, <2>7, <2>8
  <2> QED
    BY <1>7, <2>9 DEF Kept, AtLine
<1>8. CASE /\ p = Len(text) /\ m_current' = Len(text) + 1 /\ m_peek' = <<>> /\ at' = "next" /\ Upcoming = EndMark
           /\ \E y \in {"LINE", "EMPTY"} :
                split' = Append(split, [text |-> m_line', thrown |-> "EndOfInput", type |-> y])
  <2>1. m_line' \in Seq(Symbol)
    BY <1>4, <1>6, <1>8
  <2>2. Scanned(text)[Len(text)].lines = m.lines
    BY <1>3, <1>8
  <2> QED
    BY <1>1, <1>8, <2>1, <2>2, InputEnds DEF Kept
<1> QED
  BY <1>1, <1>4, <1>7, <1>8, Reads

\* The line ends with the p-th character
LEMMA LineEnds ==
  ASSUME text \in Seq(Symbol), NEW p, NEW m, m = Opening(text, p), Reading(m, p), m_current = p,
         NEW n, n = Scanned(text)[p], n.mode = "before", n.lines = Append(m.lines, SubSeq(text, m.begun, p)),
         m_line' = m_line, at' = "next", Counted(n)',
         NEW thrown \in {"none", "NewLineInString"}, NEW y \in {"LINE", "DOUBLE_DOLLAR", "DOUBLE_PERCENT"},
         split' = Append(split, [text |-> m_line', thrown |-> thrown, type |-> y]),
         UNCHANGED <<text, m_current, m_peek, m_currentChar, m_first>>
  PROVE  Kept'
<1> DEFINE x == [text |-> m_line', thrown |-> thrown, type |-> y]
<1>1. Looking(p) /\ m_line = SubSeq(text, m.begun, p) /\ At(m) /\ p \in 1..Len(text) /\ Len(text) \in Nat
  BY DEF Reading, Looking
<1>2. m \in Places /\ m.begun \in 1..p /\ n \in Places
  BY <1>1, OpeningIs DEF IsPlace
<1>3. split \in Seq(Line) /\ Returned(split, m)
  BY <1>1 DEF At
<1>4. x \in Line /\ x.thrown # "EndOfInput" /\ x.text = SubSeq(text, m.begun, p)
  <2>1. m_line' = SubSeq(text, m.begun, p) /\ m_line' \in Seq(Symbol)
    BY <1>1, <1>2, LineGrows
  <2> QED
    BY <2>1 DEF Line
<1> HIDE DEF x
<1>5. split' = Append(split, x) /\ n.lines = Append(m.lines, x.text)
  BY <1>4 DEF x
<1>6. split' \in Seq(Line) /\ Returned(split', n)
  BY <1>2, <1>3, <1>4, <1>5, Returns
<1>7. At(n)'
  BY <1>6 DEF At, Returned
<1>8. m_peek' = <<>> /\ ~m_first' /\ m_current' = p /\ p \in 1..Len(text')
  BY <1>1 DEF Looking
<1>9. Scanned(text)[m_current]' = n
  BY <1>8
<1>10. AtNext'
  BY <1>7, <1>8, <1>9 DEF AtNext
<1> QED
  BY <1>10 DEF Kept

LEMMA InLine ==
  ASSUME text \in Seq(Symbol), Kept, at \in LineLoops
  PROVE  \E p, m : /\ p \in 1..Len(text) /\ m = Opening(text, p) /\ m_current = p
                   /\ Reading(m, p) /\ Fits(at, text, m, p) /\ m_currentChar = text[p]
                   /\ Counted(m) /\ m \in Places
<1>1. AtLine
  BY DEF Kept, AtNext, AtSkip, AtPeeked, AtSkipComment, LineLoops
<1> DEFINE p == m_current
           m == Opening(text, p)
<1>2. Reading(m, p) /\ Fits(at, text, m, p)
  BY <1>1 DEF AtLine
<1>3. p \in 1..Len(text) /\ m_currentChar = text[p] /\ Counted(m)
  BY <1>2 DEF Reading, Looking, At
<1>4. m \in Places
  BY <1>3, OpeningIs
<1> QED
  BY <1>2, <1>3, <1>4

LEMMA CountStays ==
  ASSUME NEW m, NEW n, Counted(m), m.word = " ", n.word = " ", n.depth = m.depth, UNCHANGED wordVars
  PROVE  Counted(n)'
BY DEF Counted, wordVars

LEMMA ReadMarkKeeps ==
  ASSUME text \in Seq(Symbol), Kept, ReadMark
  PROVE  Kept'
<1>1. at = "mark" /\ nextChar(m_currentChar) /\ UNCHANGED <<text, m_first, wordVars>>
  BY DEF ReadMark
<1>2. PICK p, m : /\ p \in 1..Len(text) /\ m = Opening(text, p) /\ m_current = p
                  /\ Reading(m, p) /\ Fits("mark", text, m, p) /\ m_currentChar = text[p]
                  /\ Counted(m) /\ m \in Places
  BY <1>1, InLine DEF LineLoops
<1> DEFINE a == text[p]
           n == Scanned(text)[p]
<1>3. a \in {"$", "%"} /\ Goes(text, m, p, a) /\ Stays(text, m, p)
  BY <1>2, MarkGoes
<1>4. m.word = " "
  BY <1>2 DEF Fits
<1>5. Counted(n)'
  BY <1>1, <1>2, <1>3, <1>4, CountStays DEF Stays
<1> QED
  BY <1>1, <1>2, <1>3, <1>5, GoesOn DEF LineLoops

LEMMA AfterMarkKeeps ==
  ASSUME text \in Seq(Symbol), Kept, AfterMark
  PROVE  Kept'
<1>1. /\ at \in {"$", "%"} /\ m_line' = m_line
      /\ UNCHANGED <<text, m_current, m_peek, m_currentChar, m_state, m_first, wordVars>>
  BY DEF AfterMark, Emitted
<1>2. PICK p, m : /\ p \in 1..Len(text) /\ m = Opening(text, p) /\ m_current = p
                  /\ Reading(m, p) /\ Fits(at, text, m, p) /\ m_currentChar = text[p]
                  /\ Counted(m) /\ m \in Places
  BY <1>1, InLine DEF LineLoops
<1>3. PICK n : n = Scanned(text)[p]
  OBVIOUS
<1>4. /\ m.mode = "code" /\ text[m.begun] \notin {" ", "newline", "/"} /\ m.word = " " /\ p = m.begun + 1 /\ m.last = at
  BY <1>1, <1>2 DEF Fits
<1>5. CASE m_currentChar = at
  <2>1. PICK y \in {"LINE", "DOUBLE_DOLLAR", "DOUBLE_PERCENT"} :
          at' = "next" /\ split' = Append(split, [text |-> m_line', thrown |-> "none", type |-> y])
    BY <1>1, <1>5 DEF AfterMark, Emitted
  <2>2. CodeGives(text, m, p, n)
    BY <1>2, <1>3, <1>4, CodeStep DEF is_space
  <2>3. Ends(text, m, p) /\ ~is_ident(text[p])
    BY <1>1, <1>2, <1>4, <1>5 DEF Ends, is_ident
  <2>4. n.word = " " /\ n.depth = m.depth
    BY <1>2, <1>3, <1>4, <2>2, <2>3, CodeStays DEF Stays
  <2>5. n.mode = "before" /\ n.lines = Append(m.lines, SubSeq(text, m.begun, p))
    BY <2>2, <2>3 DEF CodeGives
  <2>6. Counted(n)'
    BY <1>1, <1>2, <1>4, <2>4, CountStays
  <2> QED
    BY <1>1, <1>2, <1>3, <2>1, <2>5, <2>6, LineEnds
<1>6. CASE m_currentChar # at
  <2>1. at' = "loop" /\ split' = split
    BY <1>1, <1>6 DEF AfterMark, Emitted
  <2>2. Fits("loop", text, m, p)
    <3>1. p # m.begun
      <4>1. p \in Nat /\ m.begun \in 1..p
        BY <1>2, OpeningIs
      <4> QED
        BY <1>4, <4>1, PastIs
    <3> QED
      BY <1>1, <1>2, <1>4, <1>6, <3>1 DEF Fits
  <2>3. Counted(m)'
    BY <1>1, <1>2 DEF Counted, wordVars
  <2>4. Reading(m, p)'
    BY <1>1, <1>2, <2>1, <2>3 DEF Reading, Looking, At, Returned
  <2>5. Opening(text, m_current)' = m /\ m_current' = p
    BY <1>1, <1>2
  <2>6. Reading(Opening(text, m_current), m_current)' /\ Fits(at, text, Opening(text, m_current), m_current)'
    BY <1>1, <2>1, <2>2, <2>4, <2>5
  <2> QED
    BY <2>1, <2>6 DEF Kept, AtLine, LineLoops
<1> QED
  BY <1>5, <1>6

\* The words of the code and their nesting, as the reference counts them
LEMMA WordCounts ==
  ASSUME text \in Seq(Symbol), Plain(text), NEW p \in 1..Len(text), NEW m, m = Opening(text, p),
         Counted(m), m_currentChar = text[p], Word, m.mode = "code",
         NEW n, n.word = Nesting(m, text[p]).word, n.depth = Nesting(m, text[p]).depth
  PROVE  Counted(n)'
<1> DEFINE c == text[p]
<1>1. /\ c \in Symbol /\ m \in Places /\ m.depth \in Int /\ Len(text) \in Nat /\ p \in Nat
      /\ IsPlace(text, Scanned(text)[p - 1], p - 1) /\ m.word = Scanned(text)[p - 1].word
  BY OpeningIs
<1>2. m.word # " " => ~IsQuote(c)
  <2>1. SUFFICES ASSUME m.word # " "
                 PROVE  ~IsQuote(c)
    OBVIOUS
  <2>2. Scanned(text)[p - 1].mode = "code" /\ p - 1 > 0 /\ is_ident(text[p - 1])
    BY <1>1, <2>1 DEF IsPlace
  <2>3. p - 1 \in 1..(Len(text) - 1) /\ (p - 1) + 1 = p
    BY <1>1, <2>2, BeforeIs
  <2> QED
    BY <2>2, <2>3 DEF Plain
<1>3. /\ m_whereDepth = m.depth
      /\ m_readingIdent = (m.word # " ")
      /\ m_readingIdent => /\ m_currentIdent \in Seq(Symbol) \ {<<>>}
                           /\ (m_currentIdent = <<"where">>) = (m.word = "where")
                           /\ (m_currentIdent = <<"end">>) = (m.word = "end")
  BY DEF Counted
<1>4. /\ n.word = WordWith(m.word, c)
      /\ n.depth = IF is_ident(c) THEN m.depth ELSE m.depth + Nests(m.word)
  BY <1>1, NestingIs
<1>5. m.word \in {" ", "where", "end", "x"}
  BY <1>1 DEF Places
<1> HIDE DEF c
<1>6. CASE is_ident(c)
  <2>1. /\ m_readingIdent' = TRUE /\ m_whereDepth' = m_whereDepth
        /\ m_currentIdent' = IF m_readingIdent THEN Append(m_currentIdent, c) ELSE <<c>>
    BY <1>6 DEF Word, c
  <2>2. c \in {"where", "end", "x"}
    BY <1>6 DEF is_ident
  <2>3. CASE m_readingIdent
    <3>1. n.word = "x"
      BY <1>3, <1>4, <1>6, <2>3 DEF WordWith
    <3>0. m_currentIdent \in Seq(Symbol) /\ m_currentIdent # <<>>
      BY <1>3, <2>3
    <3>2. /\ Append(m_currentIdent, c) \in Seq(Symbol) /\ Len(Append(m_currentIdent, c)) = Len(m_currentIdent) + 1
          /\ Len(m_currentIdent) \in Nat /\ Len(m_currentIdent) # 0
      <4>1. c \in Symbol
        BY <1>1
      <4>2. Append(m_currentIdent, c) \in Seq(Symbol) /\ Len(Append(m_currentIdent, c)) = Len(m_currentIdent) + 1
        BY <3>0, <4>1, AppendProperties
      <4>3. Len(m_currentIdent) \in Nat /\ Len(m_currentIdent) # 0
        BY <3>0, EmptySeq
      <4> QED
        BY <4>2, <4>3
    <3>3. Len(Append(m_currentIdent, c)) # 1 /\ Len(Append(m_currentIdent, c)) # 0
      BY <3>2
    <3>4. Len(<<"where">>) = 1 /\ Len(<<"end">>) = 1 /\ Len(<<>>) = 0
      OBVIOUS
    <3>5. Append(m_currentIdent, c) # <<"where">> /\ Append(m_currentIdent, c) # <<"end">> /\ Append(m_currentIdent, c) # <<>>
      BY <3>3, <3>4
    <3> QED
      BY <1>3, <1>4, <1>6, <2>1, <2>3, <3>1, <3>2, <3>5 DEF Counted
  <2>4. CASE ~m_readingIdent
    <3>1. n.word = c
      BY <1>3, <1>4, <1>6, <2>4 DEF WordWith
    <3>2. /\ <<c>> \in Seq(Symbol) /\ <<c>> # <<>>
          /\ (<<c>> = <<"where">>) = (c = "where") /\ (<<c>> = <<"end">>) = (c = "end")
      BY <1>1
    <3> QED
      BY <1>3, <1>4, <1>6, <2>1, <2>2, <2>4, <3>1, <3>2 DEF Counted
  <2> QED
    BY <2>3, <2>4
<1>7. CASE ~is_ident(c)
  <2>1. m_readingIdent' = FALSE
    BY <1>2, <1>3, <1>7 DEF Word, c
  <2>2. n.word = " "
    BY <1>4, <1>7 DEF WordWith
  <2>3. m_whereDepth' = IF m_readingIdent /\ m_currentIdent = <<"where">> THEN m_whereDepth + 1
                        ELSE IF m_readingIdent /\ m_currentIdent = <<"end">> THEN m_whereDepth - 1
                        ELSE m_whereDepth
    BY <1>2, <1>3, <1>7 DEF Word, c
  <2>4. n.depth = m.depth + Nests(m.word)
    BY <1>4, <1>7
  <2>5. CASE m.word = "where"
    <3>1. Nests(m.word) = 1
      BY <2>5 DEF Nests
    <3> QED
      BY <1>3, <2>1, <2>2, <2>3, <2>4, <2>5, <3>1 DEF Counted
  <2>6. CASE m.word = "end"
    <3>1. Nests(m.word) = -1
      BY <2>6 DEF Nests
    <3>2. \A x \in Int : x + -1 = x - 1
      OBVIOUS
    <3>3. n.depth = m.depth - 1
      BY <1>1, <2>4, <3>1, <3>2
    <3> QED
      BY <1>3, <2>1, <2>2, <2>3, <2>6, <3>3 DEF Counted
  <2>7. CASE m.word \in {" ", "x"}
    <3>1. Nests(m.word) = 0
      BY <2>7 DEF Nests
    <3>2. n.depth = m.depth
      BY <1>1, <2>4, <3>1, AddZero
    <3> QED
      BY <1>3, <2>1, <2>2, <2>3, <2>7, <3>2 DEF Counted
  <2> QED
    BY <1>5, <2>5, <2>6, <2>7
<1> QED
  BY <1>6, <1>7

LEMMA ReadOuterKeeps ==
  ASSUME text \in Seq(Symbol), Plain(text), Kept, ReadOuter
  PROVE  Kept'
<1>1. at = "loop" /\ Word /\ UNCHANGED <<text, m_first>>
  BY DEF ReadOuter
<1>2. PICK p, m : /\ p \in 1..Len(text) /\ m = Opening(text, p) /\ m_current = p
                  /\ Reading(m, p) /\ Fits("loop", text, m, p) /\ m_currentChar = text[p]
                  /\ Counted(m) /\ m \in Places
  BY <1>1, InLine DEF LineLoops
<1>3. PICK n : n = Scanned(text)[p]
  OBVIOUS
<1> DEFINE a == CASE text[p] = ";" -> "semi" [] text[p] = "/" -> "slash" [] text[p] = "quote" -> "string"
                  [] text[p] = "tick" -> "raw" [] OTHER -> "loop"
<1>4. Goes(text, m, p, a) /\ n.word = Nesting(m, text[p]).word /\ n.depth = Nesting(m, text[p]).depth
  BY <1>2, <1>3, LoopGoes
<1>5. m.mode = "code"
  BY <1>2 DEF Fits
<1>6. Counted(n)'
  BY <1>1, <1>2, <1>4, <1>5, WordCounts
<1>7. nextChar(a)
  <2>1. CASE text[p] = ";"
    BY <1>1, <1>2, <2>1 DEF ReadOuter, Case
  <2>2. CASE text[p] = "/"
    BY <1>1, <1>2, <2>2 DEF ReadOuter, Case
  <2>3. CASE text[p] = "quote"
    BY <1>1, <1>2, <2>3 DEF ReadOuter, Case
  <2>4. CASE text[p] = "tick"
    BY <1>1, <1>2, <2>4 DEF ReadOuter, Case
  <2>5. CASE text[p] \notin {";", "/", "quote", "tick"}
    BY <1>1, <1>2, <2>5 DEF ReadOuter, Case
  <2> QED
    BY <2>1, <2>2, <2>3, <2>4, <2>5
<1>8. a \in LineLoops
  BY DEF LineLoops
<1> HIDE DEF a
<1> QED
  BY <1>1, <1>2, <1>3, <1>4, <1>6, <1>7, <1>8, GoesOn

LEMMA AfterSemiKeeps ==
  ASSUME text \in Seq(Symbol), Plain(text), Kept, AfterSemi
  PROVE  Kept'
<1>1. at = "semi" /\ UNCHANGED <<text, m_first, wordVars>>
  BY DEF AfterSemi
<1>2. PICK p, m : /\ p \in 1..Len(text) /\ m = Opening(text, p) /\ m_current = p
                  /\ Reading(m, p) /\ Fits("semi", text, m, p) /\ m_currentChar = text[p]
                  /\ Counted(m) /\ m \in Places
  BY <1>1, InLine DEF LineLoops
<1>3. PICK n : n = Scanned(text)[p]
  OBVIOUS
<1>4. /\ m.mode = "code" /\ text[m.begun] \notin {" ", "newline", "/"} /\ m.word = " " /\ m.last = ";"
      /\ m_whereDepth = m.depth
  BY <1>2 DEF Fits, Counted
<1>5. CASE Done
  <2>1. /\ at' = "next" /\ m_line' = m_line
        /\ split' = Append(split, [text |-> m_line', thrown |-> "none", type |-> "LINE"])
        /\ UNCHANGED <<m_current, m_peek, m_currentChar>>
    BY <1>5 DEF AfterSemi, Emitted
  <2>2. CodeGives(text, m, p, n)
    BY <1>2, <1>3, <1>4, CodeStep DEF is_space
  <2>3. text[p] = ";" /\ m.depth = 0
    BY <1>2, <1>4, <1>5 DEF Done
  <2>4. ~is_ident(text[p])
    BY <2>3 DEF is_ident
  <2>5. Stays(text, m, p)
    BY <1>2, <1>3, <1>4, <2>2, <2>4, CodeStays
  <2>6. n.word = " " /\ n.depth = m.depth
    BY <1>3, <2>5 DEF Stays
  <2>7. Ends(text, m, p)
    BY <1>4, <2>2, <2>3, <2>6 DEF Ends, CodeGives
  <2>8. n.mode = "before" /\ n.lines = Append(m.lines, SubSeq(text, m.begun, p))
    BY <2>2, <2>7 DEF CodeGives
  <2>9. Counted(n)'
    BY <1>1, <1>2, <1>4, <2>6, CountStays
  <2> QED
    BY <1>1, <1>2, <1>3, <2>1, <2>8, <2>9, LineEnds
<1>6. CASE ~Done
  <2>1. nextChar("loop")
    BY <1>6 DEF AfterSemi
  <2>2. Goes(text, m, p, "loop") /\ Stays(text, m, p)
    BY <1>2, <1>4, <1>6, SemiGoes DEF Done
  <2>3. Counted(n)'
    BY <1>1, <1>2, <1>3, <1>4, <2>2, CountStays DEF Stays
  <2> QED
    BY <1>1, <1>2, <1>3, <2>1, <2>2, <2>3, GoesOn DEF LineLoops
<1> QED
  BY <1>5, <1>6

LEMMA InCommentKeeps ==
  ASSUME text \in Seq(Symbol), Plain(text), Kept, InComment
  PROVE  Kept'
<1>1. at \in {"slash", "comment"} /\ UNCHANGED <<text, m_first, wordVars>>
  BY DEF InComment, skipToNewline
<1>2. PICK p, m : /\ p \in 1..Len(text) /\ m = Opening(text, p) /\ m_current = p
                  /\ Reading(m, p) /\ Fits(at, text, m, p) /\ m_currentChar = text[p]
                  /\ Counted(m) /\ m \in Places
  BY <1>1, InLine DEF LineLoops
<1>3. PICK n : n = Scanned(text)[p]
  OBVIOUS
<1>4. m.word = " "
  BY <1>1, <1>2 DEF Fits
<1>5. CASE at = "slash"
  <2> DEFINE a == IF text[p] = "/" THEN "comment" ELSE "loop"
  <2>1. nextChar(a)
    BY <1>2, <1>5 DEF InComment, skipToNewline
  <2>2. Goes(text, m, p, a) /\ Stays(text, m, p)
    BY <1>2, <1>5, SlashGoes
  <2>3. Counted(n)'
    BY <1>1, <1>2, <1>3, <1>4, <2>2, CountStays DEF Stays
  <2>4. a \in LineLoops
    BY DEF LineLoops
  <2> HIDE DEF a
  <2> QED
    BY <1>1, <1>2, <1>3, <2>1, <2>2, <2>3, <2>4, GoesOn
<1>6. CASE at = "comment"
  <2> DEFINE a == IF text[p] = "newline" THEN "loop" ELSE "comment"
  <2>1. nextChar(a)
    BY <1>2, <1>6 DEF InComment, skipToNewline
  <2>2. Goes(text, m, p, a) /\ Stays(text, m, p)
    BY <1>2, <1>6, AsideGoes
  <2>3. Counted(n)'
    BY <1>1, <1>2, <1>3, <1>4, <2>2, CountStays DEF Stays
  <2>4. a \in LineLoops
    BY DEF LineLoops
  <2> HIDE DEF a
  <2> QED
    BY <1>1, <1>2, <1>3, <2>1, <2>2, <2>3, <2>4, GoesOn
<1> QED
  BY <1>1, <1>5, <1>6

LEMMA InterpretedStringKeeps ==
  ASSUME text \in Seq(Symbol), Plain(text), Kept, readInterpretedString
  PROVE  Kept'
<1>1. at \in {"string", "escape"} /\ UNCHANGED <<text, m_first, wordVars>>
  BY DEF readInterpretedString
<1>2. PICK p, m : /\ p \in 1..Len(text) /\ m = Opening(text, p) /\ m_current = p
                  /\ Reading(m, p) /\ Fits(at, text, m, p) /\ m_currentChar = text[p]
                  /\ Counted(m) /\ m \in Places
  BY <1>1, InLine DEF LineLoops
<1>3. PICK n : n = Scanned(text)[p]
  OBVIOUS
<1>4. m.word = " " /\ m.mode = at
  BY <1>1, <1>2 DEF Fits
<1>5. CASE at = "string" /\ text[p] = "newline"
  <2>1. /\ at' = "next" /\ m_line' = m_line
        /\ split' = Append(split, [text |-> m_line', thrown |-> "NewLineInString", type |-> "LINE"])
        /\ UNCHANGED <<m_current, m_peek, m_currentChar>>
    BY <1>2, <1>5 DEF readInterpretedString, Emitted
  <2>2. AsideGives(text, m, p, n)
    BY <1>1, <1>2, <1>3, <1>4, AsideStep
  <2>3. /\ n.mode = "before" /\ n.lines = Append(m.lines, SubSeq(text, m.begun, p))
        /\ n.word = " " /\ n.depth = m.depth
    BY <1>4, <1>5, <2>2 DEF AsideGives
  <2>4. Counted(n)'
    BY <1>1, <1>2, <1>4, <2>3, CountStays
  <2> QED
    BY <1>1, <1>2, <1>3, <2>1, <2>3, <2>4, LineEnds
<1>6. CASE ~(at = "string" /\ text[p] = "newline")
  <2> DEFINE a == IF at = "escape" THEN "string"
                  ELSE IF text[p] = "quote" THEN "loop" ELSE IF text[p] = "backslash" THEN "escape" ELSE "string"
  <2>1. nextChar(a)
    <3>1. CASE at = "escape"
      BY <3>1 DEF readInterpretedString
    <3>2. CASE at = "string"
      BY <1>2, <1>6, <3>2 DEF readInterpretedString
    <3> QED
      BY <1>1, <3>1, <3>2
  <2>2. Goes(text, m, p, a) /\ Stays(text, m, p)
    <3>1. CASE at = "escape"
      BY <1>2, <1>6, <3>1, AsideGoes
    <3>2. CASE at = "string"
      BY <1>2, <1>6, <3>2, AsideGoes
    <3> QED
      BY <1>1, <3>1, <3>2
  <2>3. Counted(n)'
    BY <1>1, <1>2, <1>3, <1>4, <2>2, CountStays DEF Stays
  <2>4. PICK b \in LineLoops : b = a
    BY DEF LineLoops
  <2> HIDE DEF a
  <2> QED
    BY <1>1, <1>2, <1>3, <2>1, <2>2, <2>3, <2>4, GoesOn
<1> QED
  BY <1>5, <1>6

LEMMA RawStringKeeps ==
  ASSUME text \in Seq(Symbol), Plain(text), Kept, readRawString
  PROVE  Kept'
<1>1. at = "raw" /\ UNCHANGED <<text, m_first, wordVars>>
  BY DEF readRawString
<1>2. PICK p, m : /\ p \in 1..Len(text) /\ m = Opening(text, p) /\ m_current = p
                  /\ Reading(m, p) /\ Fits(at, text, m, p) /\ m_currentChar = text[p]
                  /\ Counted(m) /\ m \in Places
  BY <1>1, InLine DEF LineLoops
<1>3. PICK n : n = Scanned(text)[p]
  OBVIOUS
<1>4. m.word = " "
  BY <1>1, <1>2 DEF Fits
<1> DEFINE a == IF text[p] = "tick" THEN "loop" ELSE "raw"
<1>5. nextChar(a)
  BY <1>2 DEF readRawString
<1>6. Goes(text, m, p, a) /\ Stays(text, m, p)
  BY <1>1, <1>2, AsideGoes
<1>7. Counted(n)'
  BY <1>1, <1>2, <1>3, <1>4, <1>6, CountStays DEF Stays
<1>8. a \in LineLoops
  BY DEF LineLoops
<1> HIDE DEF a
<1> QED
  BY <1>1, <1>2, <1>3, <1>5, <1>6, <1>7, <1>8, GoesOn

LEMMA LoopEndsNot ==
  ASSUME text \in Seq(Symbol), Kept
  PROVE  ~LoopEnds
<1>1. SUFFICES ASSUME at = "loop", AtEnd
               PROVE  FALSE
  BY DEF LoopEnds
<1>2. PICK p : p \in 1..Len(text) /\ m_current = p
  BY <1>1, InLine DEF LineLoops
<1>3. Len(text) \in Nat
  OBVIOUS
<1> QED
  BY <1>1, <1>2, <1>3 DEF AtEnd

(***************************************************************************)
(* Between the lines                                                       *)
(***************************************************************************)
\* A character is skipped, after which the reference is where it was
LEMMA SkipsOn ==
  ASSUME text \in Seq(Symbol), NEW p, m_current = p, Looking(p), m_line = <<>>,
         NEW m, m = Scanned(text)[p], m.mode = "before", At(m),
         nextCharDiscard("skip"), UNCHANGED <<text, m_first, wordVars>>
  PROVE  Kept'
<1>1. m_line' = <<>> /\ <<>> \in Seq(Symbol) /\ nextCharCommon("skip")
  BY DEF nextCharDiscard
<1>2. Len(text) \in Nat /\ p \in 1..Len(text)
  BY DEF Looking
<1>3. CASE p < Len(text) /\ at' = "skip" /\ split' = split /\ Looking(p + 1)'
  <2>1. At(m)'
    BY <1>3 DEF At, Counted, Returned, wordVars
  <2>2. m_current' = p + 1 /\ (p + 1) - 1 = p
    BY <1>2, <1>3 DEF Looking
  <2>3. Scanned(text)[m_current - 1]' = m
    BY <2>2
  <2>4. AtSkip'
    BY <1>1, <1>3, <2>1, <2>2, <2>3 DEF AtSkip, Skipping
  <2> QED
    BY <2>4 DEF Kept
<1>4. CASE /\ p = Len(text) /\ m_current' = Len(text) + 1 /\ m_peek' = <<>> /\ at' = "next"
           /\ \E y \in {"LINE", "EMPTY"} :
                split' = Append(split, [text |-> m_line', thrown |-> "EndOfInput", type |-> y])
  <2>1. Scanned(text)[Len(text)].lines = m.lines
    BY <1>4
  <2> QED
    BY <1>1, <1>4, <2>1, InputEnds DEF Kept
<1> QED
  BY <1>1, <1>3, <1>4, Reads

LEMMA SkipSpaceKeeps ==
  ASSUME text \in Seq(Symbol), Kept, SkipSpace
  PROVE  Kept'
<1>1. nextCharDiscard("skip") /\ UNCHANGED <<text, m_first, wordVars>>
  BY DEF SkipSpace
<1> DEFINE p == m_current
           m == Scanned(text)[p]
<1>2. CASE at = "skip" /\ is_space(m_currentChar)
  <2>1. Looking(p) /\ Skipping(p)
    BY <1>2 DEF Kept, AtNext, AtSkip, AtPeeked, AtSkipComment, AtLine, LineLoops
  <2>2. p \in 1..Len(text) /\ is_space(text[p]) /\ Len(text) \in Nat
    BY <1>2, <2>1 DEF Looking
  <2>3. m = Scanned(text)[p - 1]
    <3>1. m = Scan(text, Scanned(text)[p - 1], p)
      BY <2>2, ScannedIs
    <3> QED
      BY <2>1, <2>2, <3>1 DEF Scan, Skipping
  <2>4. m.mode = "before" /\ At(m) /\ m_line = <<>>
    BY <2>1, <2>3 DEF Skipping
  <2> QED
    BY <1>1, <2>1, <2>4, SkipsOn
<1>3. CASE at = "skip comment" /\ m_currentChar = "newline"
  <2>1. Looking(p) /\ m_line = <<>> /\ At(m) /\ m.mode = "before"
    BY <1>3 DEF Kept, AtNext, AtSkip, AtPeeked, AtSkipComment, AtLine, LineLoops
  <2> QED
    BY <1>1, <2>1, SkipsOn
<1> QED
  BY <1>2, <1>3 DEF SkipSpace

LEMMA PeekSlashKeeps ==
  ASSUME text \in Seq(Symbol), Plain(text), Kept, PeekSlash
  PROVE  Kept'
<1>1. /\ at = "skip" /\ m_currentChar = "/" /\ peek /\ at' = "peeked"
      /\ UNCHANGED <<text, m_line, m_first, wordVars, split>>
  BY DEF PeekSlash
<1> DEFINE p == m_current
<1>2. Looking(p) /\ Skipping(p)
  BY <1>1 DEF Kept, AtNext, AtSkip, AtPeeked, AtSkipComment, AtLine, LineLoops
<1>3. p \in 1..Len(text) /\ text[p] = "/" /\ Len(text) \in Nat /\ m_peek = <<>> /\ ~m_first
  BY <1>1, <1>2 DEF Looking
<1>4. p < Len(text) /\ text[p + 1] = "/"
  BY <1>2, <1>3 DEF Plain, Skipping
<1>5. m_current' = p + 1 /\ m_peek' = <<"/">> /\ m_currentChar' = "/"
  BY <1>1, <1>3, <1>4 DEF peek, AtEnd
<1>6. (p + 1) - 1 = p /\ p + 1 \in 2..Len(text)
  BY <1>3, <1>4
<1>7. PICK m : m = Scanned(text)[p - 1]
  OBVIOUS
<1>8. At(m)' /\ m.mode = "before" /\ m_line' = <<>>
  BY <1>1, <1>2, <1>7 DEF Skipping, At, Counted, Returned, wordVars
<1>9. m_current' - 1 = p
  BY <1>5, <1>6
<1>10. Scanned(text)[(m_current - 1) - 1]' = m
  BY <1>1, <1>7, <1>9
<1>11. Skipping(m_current - 1)'
  BY <1>8, <1>10 DEF Skipping
<1>12. AtPeeked'
  BY <1>1, <1>3, <1>4, <1>5, <1>6, <1>9, <1>11 DEF AtPeeked
<1> QED
  BY <1>12 DEF Kept

\* A comment before a line: m is the place in it
LEMMA CommentOn ==
  ASSUME text \in Seq(Symbol), NEW p \in 1..Len(text), NEW m, m = Scanned(text)[p],
         m.mode = "comment", text[m.begun] = "/", p < Len(text)
  PROVE  LET n == Scanned(text)[p + 1]
         IN  /\ n.lines = m.lines /\ n.depth = m.depth /\ n.word = m.word /\ m.word = " "
             /\ IF text[p + 1] = "newline" THEN n.mode = "before"
                ELSE n.mode = "comment" /\ text[n.begun] = "/"
<1> DEFINE n == Scanned(text)[p + 1]
<1>1. Len(text) \in Nat /\ p \in Nat /\ p + 1 \in 1..Len(text) /\ (p + 1) - 1 = p
  OBVIOUS
<1>2. p \in 0..Len(text)
  BY <1>1
<1>3. IsPlace(text, m, p)
  BY <1>2, PlacesKept
<1>4. m = Opening(text, p + 1)
  BY <1>1 DEF Opening, Opened
<1>5. AsideGives(text, m, p + 1, n)
  BY <1>1, <1>4, AsideStep
<1> HIDE DEF n
<1>6. m.word = " "
  BY <1>3 DEF IsPlace
<1>7. /\ n.lines = m.lines /\ n.depth = m.depth /\ n.word = " "
      /\ IF text[p + 1] = "newline" THEN n.mode = "before"
         ELSE n.mode = "comment" /\ text[n.begun] = "/"
  BY <1>5, <1>6 DEF AsideGives
<1> QED
  BY <1>6, <1>7 DEF n

\* The two slashes of a comment that begins before a line
LEMMA CommentBegins ==
  ASSUME text \in Seq(Symbol), NEW p \in 1..Len(text), p < Len(text), text[p] = "/", text[p + 1] = "/",
         NEW m, m = Scanned(text)[p - 1], m.mode = "before"
  PROVE  LET n == Scanned(text)[p + 1]
         IN  /\ n.lines = m.lines /\ n.depth = m.depth /\ n.word = m.word /\ m.word = " "
             /\ n.mode = "comment" /\ text[n.begun] = "/"
<1> DEFINE u == Scanned(text)[p]
           n == Scanned(text)[p + 1]
<1>1. Len(text) \in Nat /\ p \in Nat /\ p + 1 \in 1..Len(text) /\ (p + 1) - 1 = p
  OBVIOUS
<1>2. PICK o : o = Opening(text, p)
  OBVIOUS
<1>3. /\ o \in Places /\ o.lines = m.lines /\ o.last = m.last /\ o.depth = m.depth /\ o.word = m.word
      /\ o.mode = "code" /\ o.begun = p /\ IsPlace(text, m, p - 1)
  BY <1>2, OpeningIs
<1>4. m.word = " " /\ m.last \in {" ", "newline"}
  BY <1>3 DEF IsPlace
<1>5. CodeGives(text, o, p, u)
  BY <1>2, <1>3, CodeStep DEF is_space
<1>6. ~Ends(text, o, p)
  BY DEF Ends
<1>7. ~is_ident(text[p]) /\ ~is_ident(text[p + 1])
  BY DEF is_ident
<1>8. u.word = " " /\ u.depth = m.depth
  <2>1. o.word = " "
    BY <1>3, <1>4
  <2>2. Stays(text, o, p)
    BY <1>3, <1>5, <1>7, <2>1, CodeStays
  <2> QED
    BY <1>3, <2>2 DEF Stays
<1> HIDE DEF u, n
<1>9. u.lines = m.lines /\ u.last = "/" /\ u.mode = "code" /\ u.begun = p /\ u \in Places
  BY <1>3, <1>4, <1>5, <1>6 DEF CodeGives
<1>10. u = Opening(text, p + 1)
  BY <1>1, <1>9 DEF Opening, Opened, u
<1>11. CodeGives(text, u, p + 1, n)
  BY <1>1, <1>9, <1>10, CodeStep DEF is_space, n
<1>12. ~Ends(text, u, p + 1)
  BY DEF Ends
<1>13. n.word = " " /\ n.depth = u.depth
  BY <1>1, <1>7, <1>8, <1>9, <1>11, CodeStays DEF Stays, n
<1>14. n.lines = u.lines /\ n.mode = "comment" /\ n.begun = u.begun
  BY <1>9, <1>11, <1>12 DEF CodeGives
<1> QED
  BY <1>4, <1>8, <1>9, <1>13, <1>14 DEF n

LEMMA SkipCommentKeeps ==
  ASSUME text \in Seq(Symbol), Kept, SkipComment
  PROVE  Kept'
<1>1. m_line' = m_line /\ nextCharCommon("skip comment") /\ UNCHANGED <<text, m_first, wordVars>>
  BY DEF SkipComment, nextCharDiscard
<1>2. CASE at = "peeked"
  <2>0. PICK p : p = m_current - 1
    OBVIOUS
  <2>1. /\ ~m_first /\ m_current \in 2..Len(text) /\ m_peek = <<"/">>
        /\ text[m_current - 1] = "/" /\ text[m_current] = "/" /\ Skipping(m_current - 1)
    BY <1>2 DEF Kept, AtNext, AtSkip, AtPeeked, AtSkipComment, AtLine, LineLoops
  <2>2. p \in 1..Len(text) /\ p < Len(text) /\ p + 1 = m_current /\ m_current \in 1..Len(text)
    BY <2>0, <2>1
  <2>3. PICK m : m = Scanned(text)[p - 1]
    OBVIOUS
  <2>4. m.mode = "before" /\ At(m) /\ m_line = <<>>
    BY <2>0, <2>1, <2>3 DEF Skipping
  <2>5. PICK n : n = Scanned(text)[p + 1]
    OBVIOUS
  <2>6. /\ n.lines = m.lines /\ n.depth = m.depth /\ n.word = m.word /\ m.word = " "
        /\ n.mode = "comment" /\ text[n.begun] = "/"
    <3>1. text[p] = "/" /\ text[p + 1] = "/"
      BY <2>0, <2>1, <2>2
    <3> QED
      BY <2>2, <2>3, <2>4, <2>5, <3>1, CommentBegins
  <2>13. m_peek # <<>> /\ Head(m_peek) = "/" /\ Tail(m_peek) = <<>>
    BY <2>1
  <2>7. Upcoming = "/" /\ Upcoming # EndMark
    BY <2>13 DEF Upcoming, EndMark
  <2>8. m_current' = m_current /\ m_currentChar' = "/" /\ m_peek' = <<>> /\ at' = "skip comment" /\ split' = split
    BY <1>1, <2>7, <2>13 DEF nextCharCommon
  <2>9. At(n)'
    BY <1>1, <2>4, <2>6, <2>8 DEF At, Counted, Returned, wordVars
  <2>10. Scanned(text)[m_current]' = n
    BY <1>1, <2>2, <2>5, <2>8
  <2>11. Looking(m_current)'
    BY <1>1, <2>1, <2>2, <2>8 DEF Looking
  <2>12. AtSkipComment'
    BY <1>1, <2>4, <2>6, <2>8, <2>9, <2>10, <2>11 DEF AtSkipComment
  <2> QED
    BY <2>12 DEF Kept
<1>3. CASE at = "skip comment" /\ m_currentChar # "newline"
  <2>0. PICK p : p = m_current
    OBVIOUS
  <2>1. PICK m : m = Scanned(text)[p]
    OBVIOUS
  <2>2. Looking(p) /\ m_line = <<>> /\ At(m) /\ m.mode = "comment" /\ text[m.begun] = "/"
    BY <1>3, <2>0, <2>1 DEF Kept, AtNext, AtSkip, AtPeeked, AtSkipComment, AtLine, LineLoops
  <2>3. p \in 1..Len(text) /\ Len(text) \in Nat
    BY <2>2 DEF Looking
  <2>4. CASE p < Len(text) /\ at' = "skip comment" /\ split' = split /\ Looking(p + 1)'
    <3>1. PICK n : n = Scanned(text)[p + 1]
      OBVIOUS
    <3>2. /\ n.lines = m.lines /\ n.depth = m.depth /\ n.word = m.word
          /\ IF text[p + 1] = "newline" THEN n.mode = "before"
             ELSE n.mode = "comment" /\ text[n.begun] = "/"
      BY <2>1, <2>2, <2>3, <2>4, <3>1, CommentOn
    <3>3. At(n)'
      BY <1>1, <2>2, <2>4, <3>2 DEF At, Counted, Returned, wordVars
    <3>4. m_current' = p + 1 /\ m_currentChar' = text[p + 1]
      BY <1>1, <2>4 DEF Looking
    <3>5. Scanned(text)[m_current]' = n
      BY <1>1, <3>1, <3>4
    <3>6. AtSkipComment'
      BY <1>1, <2>2, <2>4, <3>2, <3>3, <3>4, <3>5 DEF AtSkipComment
    <3> QED
      BY <3>6 DEF Kept
  <2>5. CASE /\ p = Len(text) /\ m_current' = Len(text) + 1 /\ m_peek' = <<>> /\ at' = "next"
             /\ \E y \in {"LINE", "EMPTY"} :
                  split' = Append(split, [text |-> m_line', thrown |-> "EndOfInput", type |-> y])
    <3>1. Scanned(text)[Len(text)].lines = m.lines
      BY <2>1, <2>5
    <3>2. m_line' \in Seq(Symbol)
      <4>1. <<>> \in Seq(Symbol)
        OBVIOUS
      <4> QED
        BY <1>1, <2>2, <4>1
    <3> QED
      BY <1>1, <2>2, <2>5, <3>1, <3>2, InputEnds DEF Kept
  <2> QED
    BY <1>1, <2>2, <2>4, <2>5, Reads
<1> QED
  BY <1>2, <1>3 DEF SkipComment

LEMMA BeginLineKeeps ==
  ASSUME text \in Seq(Symbol), Kept, BeginLine
  PROVE  Kept'
<1>1. /\ at' = (IF m_currentChar \in {"$", "%"} THEN "mark" ELSE "loop")
      /\ UNCHANGED <<text, m_current, m_peek, m_currentChar, m_first, wordVars, split>>
  BY DEF BeginLine
<1>2. at = "skip"
  <2>1. SUFFICES ASSUME at = "peeked", m_peek[1] # "/"
                 PROVE  FALSE
    BY DEF BeginLine
  <2>2. m_peek = <<"/">>
    BY <2>1 DEF Kept, AtNext, AtSkip, AtPeeked, AtSkipComment, AtLine, LineLoops
  <2> QED
    BY <2>1, <2>2
<1>3. ~is_space(m_currentChar) /\ m_currentChar # "/" /\ m_line' = Append(m_line, m_currentChar)
  BY <1>2 DEF BeginLine
<1> DEFINE p == m_current
<1>4. Looking(p) /\ Skipping(p)
  BY <1>2 DEF Kept, AtNext, AtSkip, AtPeeked, AtSkipComment, AtLine, LineLoops
<1>5. p \in 1..Len(text) /\ m_currentChar = text[p]
  BY <1>4 DEF Looking
<1>6. PICK b : b = Scanned(text)[p - 1]
  OBVIOUS
<1>7. b.mode = "before" /\ At(b) /\ m_line = <<>>
  BY <1>4, <1>6 DEF Skipping
<1>8. PICK m : m = Opening(text, p)
  OBVIOUS
<1>9. /\ m.mode = "code" /\ m.begun = p /\ m.lines = b.lines /\ m.last = b.last
      /\ m.depth = b.depth /\ m.word = b.word /\ IsPlace(text, b, p - 1) /\ text[p] \in Symbol /\ p \in Nat
  BY <1>5, <1>6, <1>7, <1>8, OpeningIs
<1>10. b.word = " " /\ b.last \in {" ", "newline"}
  BY <1>7, <1>9 DEF IsPlace
<1>11. m_line' = SubSeq(text, m.begun, p)
  <2>1. SubSeq(text, p, p) = <<text[p]>>
    BY <1>5, <1>9, LineGrows
  <2>2. Append(<<>>, text[p]) = <<text[p]>>
    BY <1>9
  <2> QED
    BY <1>3, <1>5, <1>7, <1>9, <2>1, <2>2
<1>12. At(m)'
  BY <1>1, <1>7, <1>9 DEF At, Counted, Returned, wordVars
<1>13. Reading(m, p)'
  BY <1>1, <1>4, <1>9, <1>11, <1>12 DEF Reading, Looking
<1>14. p # p + 1
  BY <1>9
<1>15. CASE text[p] \in {"$", "%"}
  <2>1. Fits("mark", text, m, p)
    BY <1>3, <1>5, <1>9, <1>10, <1>15 DEF Fits, is_space
  <2>2. at' = "mark"
    BY <1>1, <1>5, <1>15
  <2>3. Opening(text, m_current)' = m /\ m_current' = p
    BY <1>1, <1>8
  <2>4. Reading(Opening(text, m_current), m_current)' /\ Fits(at, text, Opening(text, m_current), m_current)'
    BY <1>1, <1>13, <2>1, <2>2, <2>3
  <2> QED
    BY <2>2, <2>4 DEF Kept, AtLine, LineLoops
<1>16. CASE text[p] \notin {"$", "%"}
  <2>1. Fits("loop", text, m, p)
    BY <1>3, <1>5, <1>9, <1>10, <1>14, <1>16 DEF Fits, is_space
  <2>2. at' = "loop"
    BY <1>1, <1>5, <1>16
  <2>3. Opening(text, m_current)' = m /\ m_current' = p
    BY <1>1, <1>8
  <2>4. Reading(Opening(text, m_current), m_current)' /\ Fits(at, text, Opening(text, m_current), m_current)'
    BY <1>1, <1>13, <2>1, <2>2, <2>3
  <2> QED
    BY <2>2, <2>4 DEF Kept, AtLine, LineLoops
<1> QED
  BY <1>15, <1>16

\* The next line is asked for
LEMMA CallKeeps ==
  ASSUME text \in Seq(Symbol), Kept, Call
  PROVE  Kept'
<1>1. /\ at = "next" /\ (split = <<>> \/ ~AtEnd) /\ m_line' = <<>> /\ m_first' = FALSE
      /\ UNCHANGED <<text, wordVars>> /\ Len(text) \in Nat /\ m_line' \in Seq(Symbol)
  BY DEF Call
<1>2. AtNext
  BY <1>1 DEF Kept, AtNext, AtSkip, AtPeeked, AtSkipComment, AtLine, LineLoops
<1>3. CASE m_first /\ m_current = 1 /\ split = <<>> /\ At(Place)
  <2>1. Scanned(text)[0] = Place /\ m_peek = <<>>
    BY <1>1, <1>2, ScannedIs DEF AtNext
  <2>2. CASE AtEnd
    <3>1. Len(text) = 0 /\ m_current = Len(text) + 1
      BY <1>1, <1>3, <2>2 DEF AtEnd
    <3>2. EndOfInput /\ UNCHANGED <<m_current, m_peek>>
      BY <1>3, <2>2 DEF Call
    <3>3. PICK y \in {"LINE", "EMPTY"} :
            split' = Append(split, [text |-> m_line', thrown |-> "EndOfInput", type |-> y]) /\ at' = "next"
      BY <3>2 DEF EndOfInput, Emitted
    <3>4. Scanned(text)[Len(text)].lines = Place.lines
      BY <2>1, <3>1
    <3> QED
      BY <1>1, <1>3, <2>1, <3>1, <3>2, <3>3, <3>4, InputEnds DEF Kept
  <2>3. CASE ~AtEnd
    <3>1. 1 \in 1..Len(text)
      BY <1>1, <1>3, <2>3 DEF AtEnd
    <3>2. /\ m_currentChar' = text[1] /\ at' = "skip"
          /\ UNCHANGED <<m_current, m_peek, split>>
      BY <1>3, <2>3 DEF Call
    <3>3. At(Place)'
      BY <1>1, <1>3, <3>2 DEF At, Counted, Returned, wordVars
    <3>4. Scanned(text)[m_current - 1]' = Place
      BY <1>1, <1>3, <2>1, <3>2
    <3>5. Place.mode = "before"
      BY DEF Place
    <3>6. AtSkip'
      BY <1>1, <1>3, <2>1, <3>1, <3>2, <3>3, <3>4, <3>5 DEF AtSkip, Looking, Skipping
    <3> QED
      BY <3>6 DEF Kept
  <2> QED
    BY <2>2, <2>3
<1>4. CASE /\ ~m_first /\ m_current \in 1..Len(text)
           /\ Scanned(text)[m_current].mode = "before" /\ At(Scanned(text)[m_current])
  <2> DEFINE p == m_current
  <2>1. ~AtEnd /\ m_peek = <<>>
    BY <1>1, <1>2, <1>4 DEF AtEnd, AtNext
  <2>2. nextCharCommon("skip")
    BY <1>4, <2>1 DEF Call
  <2>3. PICK m : m = Scanned(text)[p]
    OBVIOUS
  <2>4. m_current' = p + 1
    BY <2>1, <2>2 DEF nextCharCommon
  <2>5. CASE p < Len(text)
    <3>1. p + 1 \in 1..Len(text) /\ text[p + 1] \in Symbol /\ (p + 1) - 1 = p
      BY <1>1, <1>4, <2>5
    <3>2. Upcoming = text[p + 1]
      BY <2>1, <2>5 DEF Upcoming
    <3>3. Upcoming # EndMark
      BY <3>1, <3>2 DEF Symbol, EndMark
    <3>4. m_currentChar' = text[p + 1] /\ m_peek' = <<>> /\ at' = "skip" /\ split' = split
      BY <2>1, <2>2, <3>2, <3>3 DEF nextCharCommon
    <3>5. At(m)' /\ m.mode = "before"
      BY <1>1, <1>4, <2>3, <3>4 DEF At, Counted, Returned, wordVars
    <3>6. Scanned(text)[m_current - 1]' = m
      BY <1>1, <2>3, <2>4, <3>1
    <3>7. AtSkip'
      BY <1>1, <2>4, <3>1, <3>4, <3>5, <3>6 DEF AtSkip, Looking, Skipping
    <3> QED
      BY <3>7 DEF Kept
  <2>6. CASE ~(p < Len(text))
    <3>1. p = Len(text)
      BY <1>1, <1>4, <2>6
    <3>2. Upcoming = EndMark
      BY <2>1, <2>6 DEF Upcoming
    <3>3. EndOfInput /\ m_peek' = <<>>
      BY <2>1, <2>2, <3>2 DEF nextCharCommon
    <3>4. PICK y \in {"LINE", "EMPTY"} :
            split' = Append(split, [text |-> m_line', thrown |-> "EndOfInput", type |-> y]) /\ at' = "next"
      BY <3>3 DEF EndOfInput, Emitted
    <3>5. At(m) /\ Scanned(text)[Len(text)].lines = m.lines
      BY <1>4, <2>3, <3>1
    <3> QED
      BY <1>1, <2>4, <3>1, <3>3, <3>4, <3>5, InputEnds DEF Kept
  <2> QED
    BY <2>5, <2>6
<1>5. CASE m_current = Len(text) + 1 /\ split \in Seq(Line) \ {<<>>}
  BY <1>1, <1>5 DEF AtEnd
<1> QED
  BY <1>2, <1>3, <1>4, <1>5 DEF AtNext

(***************************************************************************)
(* The theorem                                                             *)
(***************************************************************************)
LEMMA InitKept == InitTokens => TokensInv
<1> SUFFICES ASSUME InitTokens
             PROVE  TokensInv
  OBVIOUS
<1>1. Counted(Place)
  BY DEF InitTokens, Counted, Place
<1>2. Returned(<<>>, Place)
  BY DEF Returned, Place
<1>3. At(Place)
  BY <1>1, <1>2 DEF InitTokens, At
<1>4. AtNext
  BY <1>3 DEF InitTokens, AtNext
<1> QED
  BY <1>4 DEF TokensInv, Kept, InitTokens

LEMMA StepKept == TokensInv /\ [NextTokens]_tokenVars => TokensInv'
<1> SUFFICES ASSUME TokensInv, [NextTokens]_tokenVars
             PROVE  TokensInv'
  OBVIOUS
<1>1. text \in Texts /\ text \in Seq(Symbol)
  BY TextsAssumption DEF TokensInv
<1>2. text' = text
  BY DEF NextTokens, tokenVars, Call, SkipSpace, PeekSlash, SkipComment, BeginLine, ReadMark, AfterMark,
         ReadOuter, LoopEnds, AfterSemi, InComment, readInterpretedString, readRawString
<1>3. SUFFICES ASSUME Plain(text), Kept
               PROVE  Kept'
  BY <1>1, <1>2 DEF TokensInv
<1>4. CASE Call
  BY <1>1, <1>3, <1>4, CallKeeps
<1>5. CASE SkipSpace
  BY <1>1, <1>3, <1>5, SkipSpaceKeeps
<1>6. CASE PeekSlash
  BY <1>1, <1>3, <1>6, PeekSlashKeeps
<1>7. CASE SkipComment
  BY <1>1, <1>3, <1>7, SkipCommentKeeps
<1>8. CASE BeginLine
  BY <1>1, <1>3, <1>8, BeginLineKeeps
<1>9. CASE ReadMark
  BY <1>1, <1>3, <1>9, ReadMarkKeeps
<1>10. CASE AfterMark
  BY <1>1, <1>3, <1>10, AfterMarkKeeps
<1>11. CASE ReadOuter
  BY <1>1, <1>3, <1>11, ReadOuterKeeps
<1>12. CASE LoopEnds
  BY <1>1, <1>3, <1>12, LoopEndsNot
<1>13. CASE AfterSemi
  BY <1>1, <1>3, <1>13, AfterSemiKeeps
<1>14. CASE InComment
  BY <1>1, <1>3, <1>14, InCommentKeeps
<1>15. CASE readInterpretedString
  BY <1>1, <1>3, <1>15, InterpretedStringKeeps
<1>16. CASE readRawString
  BY <1>1, <1>3, <1>16, RawStringKeeps
<1>17. CASE UNCHANGED tokenVars
  <2>1. /\ text' = text /\ m_current' = m_current /\ m_peek' = m_peek /\ m_currentChar' = m_currentChar
        /\ m_line' = m_line /\ m_first' = m_first /\ m_whereDepth' = m_whereDepth
        /\ m_readingIdent' = m_readingIdent /\ m_currentIdent' = m_currentIdent /\ at' = at /\ split' = split
    BY <1>17 DEF tokenVars, wordVars
  <2>2. \A m : At(m)' <=> At(m)
    BY <2>1 DEF At, Counted, Returned
  <2>3. AtNext => AtNext'
    BY <2>1, <2>2 DEF AtNext, Returned
  <2>4. AtSkip => AtSkip'
    BY <2>1, <2>2 DEF AtSkip, Skipping, Looking
  <2>5. AtPeeked => AtPeeked'
    BY <2>1, <2>2 DEF AtPeeked, Skipping
  <2>6. AtSkipComment => AtSkipComment'
    BY <2>1, <2>2 DEF AtSkipComment, Looking
  <2>7. AtLine => AtLine'
    BY <2>1, <2>2 DEF AtLine, Reading, Looking
  <2> QED
    BY <1>3, <2>3, <2>4, <2>5, <2>6, <2>7 DEF Kept
<1> QED
  BY <1>4, <1>5, <1>6, <1>7, <1>8, <1>9, <1>10, <1>11, <1>12, <1>13, <1>14, <1>15, <1>16, <1>17 DEF NextTokens

\* What was returned is the lines of a place of the text
LEMMA Gathered ==
  ASSUME text \in Seq(Symbol), Kept
  PROVE  \/ /\ split \in Seq(Line) /\ ~(at = "next" /\ AtEnd /\ split # <<>>)
            /\ \E k \in 0..Len(text) : Returned(split, Scanned(text)[k])
         \/ /\ split \in Seq(Line) \ {<<>>}
            /\ split[Len(split)].thrown = "EndOfInput"
            /\ Returned(SubSeq(split, 1, Len(split) - 1), Scanned(text)[Len(text)])
<1>0. Len(text) \in Nat
  OBVIOUS
<1>1. ASSUME NEW k \in 0..Len(text), At(Scanned(text)[k]), ~(at = "next" /\ AtEnd /\ split # <<>>)
      PROVE  /\ split \in Seq(Line) /\ ~(at = "next" /\ AtEnd /\ split # <<>>)
             /\ \E j \in 0..Len(text) : Returned(split, Scanned(text)[j])
  BY <1>1 DEF At
<1>2. CASE AtNext
  <2>1. CASE m_first /\ m_current = 1 /\ split = <<>> /\ At(Place)
    <3>1. 0 \in 0..Len(text) /\ At(Scanned(text)[0])
      BY <1>0, <2>1, ScannedIs
    <3> QED
      BY <1>1, <2>1, <3>1
  <2>2. CASE ~m_first /\ m_current \in 1..Len(text) /\ At(Scanned(text)[m_current])
    <3>1. m_current \in 0..Len(text) /\ ~AtEnd
      BY <1>0, <2>2 DEF AtEnd
    <3> QED
      BY <1>1, <2>2, <3>1
  <2> QED
    BY <1>2, <2>1, <2>2 DEF AtNext
<1>3. CASE AtSkip
  <2>1. m_current \in 1..Len(text) /\ At(Scanned(text)[m_current - 1]) /\ at # "next"
    BY <1>3 DEF AtSkip, Looking, Skipping
  <2>2. m_current - 1 \in 0..Len(text)
    BY <1>0, <2>1
  <2> QED
    BY <1>1, <2>1, <2>2
<1>4. CASE AtPeeked
  <2>1. m_current \in 2..Len(text) /\ At(Scanned(text)[(m_current - 1) - 1]) /\ at # "next"
    BY <1>4 DEF AtPeeked, Skipping
  <2>2. (m_current - 1) - 1 \in 0..Len(text)
    BY <1>0, <2>1
  <2> QED
    BY <1>1, <2>1, <2>2
<1>5. CASE AtSkipComment
  <2>1. m_current \in 1..Len(text) /\ At(Scanned(text)[m_current]) /\ at # "next"
    BY <1>5 DEF AtSkipComment, Looking
  <2>2. m_current \in 0..Len(text)
    BY <1>0, <2>1
  <2> QED
    BY <1>1, <2>1, <2>2
<1>6. CASE AtLine
  <2>1. PICK p, m : /\ p \in 1..Len(text) /\ m = Opening(text, p) /\ m_current = p /\ Reading(m, p)
    BY <1>6, InLine DEF AtLine, Kept
  <2>2. At(m) /\ p - 1 \in 0..Len(text) /\ m.lines = Scanned(text)[p - 1].lines
    BY <2>1, OpeningIs DEF Reading
  <2>3. Returned(split, Scanned(text)[p - 1]) /\ split \in Seq(Line)
    BY <2>2 DEF At, Returned
  <2>4. at # "next"
    BY <1>6 DEF AtLine, LineLoops
  <2> QED
    BY <2>2, <2>3, <2>4
<1> QED
  BY <1>2, <1>3, <1>4, <1>5, <1>6 DEF Kept

LEMMA KeptSplits == TokensInv => SplitsAtOuter
<1> SUFFICES ASSUME TokensInv, Plain(text)
             PROVE  /\ \A i \in DOMAIN split :
                         IF Whole(i) THEN i \in DOMAIN Pieces(text) /\ split[i].text = Pieces(text)[i]
                         ELSE i = Len(split)
                    /\ at = "next" /\ AtEnd /\ split # <<>> =>
                         \A i \in DOMAIN Pieces(text) : i \in DOMAIN split /\ Whole(i)
  BY DEF SplitsAtOuter
<1>1. text \in Seq(Symbol) /\ Kept
  BY TextsAssumption DEF TokensInv
<1>2. Len(text) \in Nat /\ Len(text) \in 0..Len(text)
  BY <1>1
<1> DEFINE w == Scanned(text)[Len(text)]
<1>3. \A k \in 0..Len(text) : Scanned(text)[k].lines \in Seq(Seq(Symbol))
  <2>1. \A k \in 0..Len(text) : Scanned(text)[k] \in Places
    BY <1>1, PlacesKept DEF IsPlace
  <2>2. \A m \in Places : m.lines \in Seq(Seq(Symbol))
    BY DEF Places
  <2> QED
    BY <2>1, <2>2
<1>4. w.lines \in Seq(Seq(Symbol)) /\ Pieces(text) = w.lines
  BY <1>2, <1>3 DEF Pieces
<1> HIDE DEF w
<1>5. DOMAIN Pieces(text) = 1..Len(w.lines) /\ Len(w.lines) \in Nat
  BY <1>4
<1>6. CASE /\ split \in Seq(Line) /\ ~(at = "next" /\ AtEnd /\ split # <<>>)
           /\ \E k \in 0..Len(text) : Returned(split, Scanned(text)[k])
  <2>1. PICK k \in 0..Len(text) : Returned(split, Scanned(text)[k])
    BY <1>6
  <2> DEFINE m == Scanned(text)[k]
  <2>2. Extends(m, w)
    BY <1>1, LinesExtend DEF w
  <2>3. DOMAIN split = 1..Len(split) /\ Len(split) \in Nat
    BY <1>6
  <2>4. Len(split) = Len(m.lines)
          /\ \A j \in 1..Len(split) : split[j].thrown # "EndOfInput" /\ split[j].text = m.lines[j]
    BY <2>1 DEF Returned
  <2> HIDE DEF m
  <2>5. Len(m.lines) <= Len(w.lines) /\ \A j \in 1..Len(m.lines) : w.lines[j] = m.lines[j]
    BY <2>2 DEF Extends
  <2>6. ASSUME NEW i \in DOMAIN split
        PROVE  Whole(i) /\ i \in DOMAIN Pieces(text) /\ split[i].text = Pieces(text)[i]
    BY <1>4, <1>5, <2>3, <2>4, <2>5 DEF Whole
  <2> QED
    BY <1>6, <2>6
<1>7. CASE /\ split \in Seq(Line) \ {<<>>}
           /\ split[Len(split)].thrown = "EndOfInput"
           /\ Returned(SubSeq(split, 1, Len(split) - 1), w)
  <2> DEFINE n == Len(split)
             u == SubSeq(split, 1, n - 1)
  <2>1. n \in Nat /\ n # 0 /\ DOMAIN split = 1..n
    <3>1. split \in Seq(Line) /\ split # <<>>
      BY <1>7
    <3> QED
      BY <3>1, EmptySeq
  <2>2. Len(u) = n - 1 /\ \A j \in 1..(n - 1) : u[j] = split[j]
    <3>1. split \in Seq(Line)
      BY <1>7
    <3> HIDE DEF n
    <3>2. 1 \in 1..(n + 1) /\ n - 1 \in 0..n
      BY <2>1
    <3>3. /\ Len(u) = IF 1 <= n - 1 THEN n - 1 - 1 + 1 ELSE 0
          /\ \A j \in 1..(n - 1 - 1 + 1) : u[j] = split[1 + j - 1]
      BY <2>1, <3>1, <3>2, SubSeqProperties DEF n
    <3> QED
      BY <2>1, <3>3
  <2>3. /\ Len(u) = Len(w.lines)
        /\ \A j \in 1..Len(u) : u[j].thrown # "EndOfInput" /\ u[j].text = w.lines[j]
    BY <1>7 DEF Returned
  <2>4. split[n].thrown = "EndOfInput"
    BY <1>7
  <2> HIDE DEF n, u
  <2>5. DOMAIN Pieces(text) = 1..(n - 1)
    BY <1>5, <2>2, <2>3
  <2>6. \A j \in 1..(n - 1) : split[j].thrown # "EndOfInput" /\ split[j].text = Pieces(text)[j]
    BY <1>4, <2>2, <2>3
  <2>7. \A j \in 1..n : j = n \/ j \in 1..(n - 1)
    BY <2>1
  <2>8. \A j \in 1..(n - 1) : j \in 1..n
    BY <2>1
  <2> QED
    BY <2>1, <2>4, <2>5, <2>6, <2>7, <2>8 DEF Whole, n
<1> QED
  BY <1>1, <1>6, <1>7, Gathered DEF w

\* The lines of any plain text are its pieces up to each ;; at the outer level,
\* at every step of the tokenizer and when the input ends.
THEOREM LinesAreSplit == SpecTokens => []SplitsAtOuter
<1>1. InitTokens => TokensInv
  BY InitKept
<1>2. TokensInv /\ [NextTokens]_tokenVars => TokensInv'
  BY StepKept
<1>3. TokensInv => SplitsAtOuter
  BY KeptSplits
<1> QED
  BY <1>1, <1>2, <1>3, PTL DEF SpecTokens
===============================================================================
