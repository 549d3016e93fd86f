----------------------------- MODULE LineTokens -----------------------------
(***************************************************************************)
(* The line tokenizer of the text interface, which splits a text into      *)
(* declarations that end in ;; before any of it is parsed.  A step is a    *)
(* turn of a loop, with the character it reads.                            *)
(*                                                                         *)
(* A text is a sequence of symbols.  A symbol is a character, except that  *)
(* "where", "end" and "x" stand for all characters of a word; "tick" is    *)
(* the quote of raw strings.                                               *)
(***************************************************************************)
EXTENDS Integers, Sequences

CONSTANT Texts   \* the texts to split

Symbol == {"where", "end", "x", ";", "/", "quote", "tick", "backslash", "$", "%", " ", "newline"}
EndMark == "end of input"

ASSUME TextsAssumption == Texts \subseteq Seq(Symbol)

VARIABLES text,                                  \* the input
          m_current, m_peek, m_currentChar,      \* the members of LineTokenizer
          m_line, m_state, m_first,
          m_whereDepth, m_readingIdent, m_currentIdent,
          at,                                    \* the loop that is executed
          split                                  \* the lines next returned, first one first

wordVars == <<m_whereDepth, m_readingIdent, m_currentIdent>>
tokenVars == <<text, m_current, m_peek, m_currentChar, m_line, m_state, m_first, wordVars, at, split>>

is_space(c) == c \in {" ", "newline"}
is_ident(c) == c \in {"where", "end", "x"}
IsQuote(c) == c \in {"quote", "tick"}

InitTokens ==
  /\ text \in Texts
  /\ m_current = 1 /\ m_peek = <<>> /\ m_currentChar = EndMark
  /\ m_line = <<>> /\ m_state = "SCANNING" /\ m_first = TRUE
  /\ m_whereDepth = 0 /\ m_readingIdent = FALSE /\ m_currentIdent = <<>>
  /\ at = "next" /\ split = <<>>

(***************************************************************************)
(* Reading a character                                                     *)
(***************************************************************************)
AtEnd == m_current > Len(text)

\* next returns a line, or an exception ends it
Emitted(thrown, type) ==
  /\ split' = Append(split, [text |-> m_line', thrown |-> thrown, type |-> type])
  /\ at' = "next"
EndOfInput == Emitted("EndOfInput", IF m_state' = "SKIP_SPACE" THEN "EMPTY" ELSE "LINE")

Upcoming ==
  IF m_peek # <<>> THEN Head(m_peek)
  ELSE IF m_current < Len(text) THEN text[m_current + 1] ELSE EndMark

\* and goes on at "there"
nextCharCommon(there) ==
  /\ m_current' = IF m_peek = <<>> THEN m_current + 1 ELSE m_current
  /\ \/ /\ Upcoming = EndMark
        /\ EndOfInput /\ UNCHANGED <<m_peek, m_currentChar>>
     \/ /\ Upcoming # EndMark
        /\ m_currentChar' = Upcoming
        /\ m_peek' = IF m_peek = <<>> THEN m_peek ELSE Tail(m_peek)
        /\ at' = there /\ UNCHANGED split

nextCharDiscard(there) == m_line' = m_line /\ nextCharCommon(there)
nextChar(there) ==
  /\ m_line' = IF Upcoming = EndMark THEN m_line ELSE Append(m_line, Upcoming)
  /\ nextCharCommon(there)

\* Reads one character ahead: the position moves, the current character stays
peek ==
  /\ m_current' = IF AtEnd THEN m_current ELSE m_current + 1
  /\ m_peek' = Append(m_peek, IF m_current < Len(text) THEN text[m_current + 1] ELSE EndMark)
  /\ UNCHANGED m_currentChar

(***************************************************************************)
(* next and preLineSkip                                                    *)
(***************************************************************************)
Call ==
  /\ at = "next" /\ (split = <<>> \/ ~AtEnd)
  /\ m_state' = "SKIP_SPACE" /\ m_line' = <<>> /\ m_first' = FALSE
  /\ \/ AtEnd /\ EndOfInput /\ UNCHANGED <<m_current, m_peek, m_currentChar>>
     \/ /\ ~AtEnd /\ m_first
        /\ m_currentChar' = text[m_current] /\ at' = "skip"
        /\ UNCHANGED <<m_current, m_peek, split>>
     \/ ~AtEnd /\ ~m_first /\ nextCharCommon("skip")
  /\ UNCHANGED <<text, wordVars>>

SkipSpace ==
  /\ \/ at = "skip" /\ is_space(m_currentChar)
     \/ at = "skip comment" /\ m_currentChar = "newline"
  /\ UNCHANGED <<text, m_state, m_first, wordVars>>
  /\ nextCharDiscard("skip")

PeekSlash ==
  /\ at = "skip" /\ m_currentChar = "/"
  /\ peek /\ at' = "peeked"
  /\ UNCHANGED <<text, m_line, m_state, m_first, wordVars, split>>

SkipComment ==
  /\ \/ at = "peeked" /\ m_peek[1] = "/"
     \/ at = "skip comment" /\ m_currentChar # "newline"
  /\ UNCHANGED <<text, m_state, m_first, wordVars>>
  /\ nextCharDiscard("skip comment")

\* The character that ends the skipping is the first of the line: the one
\* that was read ahead when it is not the second of a comment's slashes.
BeginLine ==
  /\ \/ at = "skip" /\ ~is_space(m_currentChar) /\ m_currentChar # "/"
        /\ m_line' = Append(m_line, m_currentChar)
     \/ at = "peeked" /\ m_peek[1] # "/"
        /\ m_line' = Append(m_line, m_peek[1])
  /\ at' = IF m_currentChar \in {"$", "%"} THEN "mark" ELSE "loop"
  /\ UNCHANGED <<text, m_current, m_peek, m_currentChar, m_state, m_first, wordVars, split>>

(***************************************************************************)
(* readOuter                                                               *)
(***************************************************************************)
\* A line that begins with $$ or %% is that line
ReadMark ==
  /\ UNCHANGED <<text, m_state, m_first, wordVars>>
  /\ at = "mark" /\ nextChar(m_currentChar)
AfterMark ==
  /\ at \in {"$", "%"}
  /\ \/ /\ m_currentChar = at
        /\ m_line' = m_line
        /\ Emitted("none", IF at = "$" THEN "DOUBLE_DOLLAR" ELSE "DOUBLE_PERCENT")
     \/ /\ m_currentChar # at
        /\ at' = "loop" /\ UNCHANGED <<m_line, split>>
  /\ UNCHANGED <<text, m_current, m_peek, m_currentChar, m_state, m_first, wordVars>>

\* The words where and end, which nest
Word ==
  LET c == m_currentChar
      ended == m_readingIdent /\ ~is_ident(c) /\ ~IsQuote(c)
  IN  /\ m_readingIdent' = (is_ident(c) \/ (m_readingIdent /\ IsQuote(c)))
      /\ m_currentIdent' = IF ~is_ident(c) THEN m_currentIdent
                           ELSE IF m_readingIdent THEN Append(m_currentIdent, c) ELSE <<c>>
      /\ m_whereDepth' = IF ended /\ m_currentIdent = <<"where">> THEN m_whereDepth + 1
                         ELSE IF ended /\ m_currentIdent = <<"end">> THEN m_whereDepth - 1
                         ELSE m_whereDepth

\* The switch: where the next character is looked at, in what m_state
Case(c, there, state) ==
  m_currentChar = c /\ m_state' = state /\ nextChar(there)
ReadOuter ==
  /\ at = "loop" /\ ~AtEnd /\ Word
  /\ \/ Case(";", "semi", "SEMI")
     \/ Case("/", "slash", m_state)
     \/ Case("quote", "string", "INTERPRETED")
     \/ Case("tick", "raw", "RAW")
     \/ m_currentChar \notin {";", "/", "quote", "tick"} /\ Case(m_currentChar, "loop", m_state)
  /\ UNCHANGED <<text, m_first>>
LoopEnds ==
  /\ at = "loop" /\ AtEnd
  /\ m_line' = m_line /\ Emitted("none", "LINE")
  /\ UNCHANGED <<text, m_current, m_peek, m_currentChar, m_state, m_first, wordVars>>

\* Mutant: where clauses do not nest
DoneAnyDepth == m_currentChar = ";"

Done == m_currentChar = ";" /\ m_whereDepth = 0
AfterSemi ==
  /\ at = "semi"
  /\ \/ /\ Done
        /\ m_state' = "SCANNING" /\ m_line' = m_line /\ Emitted("none", "LINE")
        /\ UNCHANGED <<m_current, m_peek, m_currentChar>>
     \/ ~Done /\ m_state' = m_state /\ nextChar("loop")
  /\ UNCHANGED <<text, m_first, wordVars>>

skipToNewline ==
  at = "comment" /\ nextChar(IF m_currentChar = "newline" THEN "loop" ELSE "comment")
InComment ==
  /\ UNCHANGED <<text, m_state, m_first, wordVars>>
  /\ \/ at = "slash" /\ nextChar(IF m_currentChar = "/" THEN "comment" ELSE "loop")
     \/ skipToNewline

readInterpretedString ==
  /\ \/ /\ at = "string" /\ m_currentChar = "quote"
        /\ m_state' = "SCANNING" /\ nextChar("loop")
     \/ /\ at = "string" /\ m_currentChar = "backslash"
        /\ m_state' = m_state /\ nextChar("escape")
     \/ /\ at = "string" /\ m_currentChar = "newline"
        /\ m_line' = m_line /\ Emitted("NewLineInString", "LINE")
        /\ UNCHANGED <<m_current, m_peek, m_currentChar, m_state>>
     \/ /\ at = "string" /\ m_currentChar \notin {"quote", "backslash", "newline"}
        /\ m_state' = m_state /\ nextChar("string")
     \/ at = "escape" /\ m_state' = m_state /\ nextChar("string")
  /\ UNCHANGED <<text, m_first, wordVars>>

readRawString ==
  /\ at = "raw"
  /\ \/ m_currentChar = "tick" /\ m_state' = "SCANNING" /\ nextChar("loop")
     \/ m_currentChar # "tick" /\ m_state' = m_state /\ nextChar("raw")
  /\ UNCHANGED <<text, m_first, wordVars>>

NextTokens ==
  \/ Call \/ SkipSpace \/ PeekSlash \/ SkipComment \/ BeginLine
  \/ ReadMark \/ AfterMark \/ ReadOuter \/ LoopEnds
  \/ AfterSemi \/ InComment \/ readInterpretedString \/ readRawString

SpecTokens == InitTokens /\ [][NextTokens]_tokenVars

(***************************************************************************)
(* The reference: one pass over the text, one symbol at a time             *)
(***************************************************************************)
\* Where a symbol is: before a line, in its code, in a comment, a string
\* (after a backslash), a raw string; and how deep in where ... end.
Place == [mode |-> "before", last |-> " ", depth |-> 0, word |-> " ", begun |-> 1, lines |-> <<>>]

\* The line ends with the i-th symbol of the text t
Cut(t, m, i) ==
  [m EXCEPT !.lines = Append(@, SubSeq(t, m.begun, i)), !.mode = "before",
            !.last = " ", !.word = " "]

\* A word nests when the symbol c ends it
Nests(word) == CASE word = "where" -> 1 [] word = "end" -> -1 [] OTHER -> 0
WordWith(word, c) == IF ~is_ident(c) THEN " " ELSE IF word = " " THEN c ELSE "x"
Nesting(m, c) ==
  [m EXCEPT !.word = WordWith(@, c), !.depth = IF is_ident(c) THEN @ ELSE @ + Nests(m.word)]

Code(t, m, i) ==
  LET c == t[i]
      n == [Nesting(m, c) EXCEPT !.last = c]
  IN CASE c = "quote" -> [n EXCEPT !.mode = "string"]
       [] c = "tick" -> [n EXCEPT !.mode = "raw"]
       [] c = "/" /\ m.last = "/" -> [n EXCEPT !.mode = "comment"]
       [] c = ";" /\ m.last = ";" -> IF n.depth = 0 THEN Cut(t, n, i) ELSE [n EXCEPT !.last = " "]
       [] c \in {"$", "%"} /\ m.last = c /\ i = m.begun + 1 -> Cut(t, n, i)
       [] OTHER -> n

\* A line begins with the i-th symbol, unless it has begun
Opened(m, i) == IF m.mode = "before" THEN [m EXCEPT !.mode = "code", !.begun = i] ELSE m

Scan(t, m, i) ==
  LET c == t[i]
  IN CASE m.mode = "before" /\ is_space(c) -> m
       [] m.mode = "code" \/ (m.mode = "before" /\ ~is_space(c)) -> Code(t, Opened(m, i), i)
       [] m.mode = "comment" ->
            IF c # "newline" THEN m
            ELSE [m EXCEPT !.last = c, !.mode = IF t[m.begun] = "/" THEN "before" ELSE "code"]
       [] m.mode = "raw" -> IF c = "tick" THEN [m EXCEPT !.mode = "code", !.last = c] ELSE m
       [] m.mode = "escape" -> [m EXCEPT !.mode = "string"]
       [] m.mode = "string" ->
            CASE c = "quote" -> [m EXCEPT !.mode = "code", !.last = c]
              [] c = "backslash" -> [m EXCEPT !.mode = "escape"]
              [] c = "newline" -> Cut(t, m, i)
              [] OTHER -> m

\* After each number of symbols
Scanned(t) ==
  LET s[i \in 0..Len(t)] == IF i = 0 THEN Place ELSE Scan(t, s[i - 1], i) IN s

Pieces(t) == Scanned(t)[Len(t)].lines

\* Texts in which no symbol is overlooked: a quote or tick that follows a word
\* leaves the word open; what follows a single / or ; is taken with it; and a
\* line that begins with a single / loses it.
Plain(t) ==
  LET s == Scanned(t)
  IN  /\ \A i \in 1..(Len(t) - 1) : s[i].mode = "code" =>
            /\ is_ident(t[i]) => ~IsQuote(t[i + 1])
            /\ s[i].last \in {";", "/"} =>
                 t[i + 1] = s[i].last \/ ~(is_ident(t[i + 1]) \/ IsQuote(t[i + 1]) \/ t[i + 1] \in {";", "/"})
      /\ \A i \in 1..Len(t) :
            s[i - 1].mode = "before" /\ t[i] = "/" => i < Len(t) /\ t[i + 1] = "/"

\* The lines of a text are its pieces up to each ;; at the outer level: no
\* character is lost or read twice, a ;; in a comment, in a string, after an
\* escaped quote or between where and end ends nothing, and a comment before
\* a line is not of it.  "Reads a line up to the next ;; at the outer level of
\* nesting of various gizmos", line_tokenizer.hpp, against readOuter,
\* preLineSkip and the strings.
Whole(i) == split[i].thrown # "EndOfInput"
SplitsAtOuter ==
  Plain(text) =>
    /\ \A i \in DOMAIN split :
         IF Whole(i) THEN i \in DOMAIN Pieces(text) /\ split[i].text = Pieces(text)[i] ELSE i = Len(split)
    /\ at = "next" /\ AtEnd /\ split # <<>> =>
         \A i \in DOMAIN Pieces(text) : i \in DOMAIN split /\ Whole(i)
=============================================================================
