------------------------ MODULE ContextScopesProofs ------------------------
(***************************************************************************)
(* What the perturbers of a context do to it, for any dimensions, ordinates *)
(* and depth of scopes.                                                    *)
(*                                                                         *)
(* A context is a window of cells, but what it means is a stack for each   *)
(* dimension.  The first lemmas say what Grown, Perturbed and Restored do  *)
(* to the stacks; after that the window is not looked at again.            *)
(***************************************************************************)
EXTENDS ContextScopes, TLAPS

(***************************************************************************)
(* Contexts                                                                *)
(***************************************************************************)
Context == [min : Int, max : Int, cells : Seq(Cell), setDims : SUBSET Dim]

TopOf(stack) == IF stack = <<>> THEN All ELSE stack[Len(stack)]

\* The window fits the cells, and the first of a cell is the top of its stack
ContextOK(c) ==
  /\ c \in Context
  /\ c.min < 0 /\ c.max >= 0
  /\ Len(c.cells) = c.max - c.min - 1
  /\ \A i \in DOMAIN c.cells : c.cells[i].first = TopOf(c.cells[i].stack)

\* Nothing is set but dimensions: the cells between them are empty
OnlyDims(c) == \A d \in Int : d \notin Dim => StackOf(c, d) = <<>>

LEMMA CellInWindow ==
  ASSUME NEW c, ContextOK(c), NEW d \in Int
  PROVE  /\ InWindow(c, d) <=> CellIndex(c, d) \in DOMAIN c.cells
         /\ InWindow(c, d) => c.cells[CellIndex(c, d)] \in Cell
<1>1. /\ c.min \in Int /\ c.max \in Int /\ c.cells \in Seq(Cell)
      /\ Len(c.cells) = c.max - c.min - 1
  BY DEF ContextOK, Context
<1>2. DOMAIN c.cells = 1..(c.max - c.min - 1)
  BY <1>1
<1>3. InWindow(c, d) <=> CellIndex(c, d) \in DOMAIN c.cells
  BY <1>1, <1>2 DEF InWindow, CellIndex
<1> QED
  BY <1>1, <1>3

\* A stack is a sequence of ordinates, and what is looked up is its top
LEMMA LookupIsTop ==
  ASSUME NEW c, ContextOK(c), NEW d \in Int
  PROVE  StackOf(c, d) \in Seq(Ordinate) /\ Lookup(c, d) = TopOf(StackOf(c, d))
<1>1. CASE InWindow(c, d)
  BY <1>1, CellInWindow DEF ContextOK, StackOf, Lookup, Cell
<1>2. CASE ~InWindow(c, d)
  BY <1>2 DEF StackOf, Lookup, TopOf
<1> QED
  BY <1>1, <1>2

(***************************************************************************)
(* Growing the window keeps every stack                                    *)
(***************************************************************************)
LEMMA EmptyCellsAre ==
  ASSUME NEW n \in Nat
  PROVE  /\ EmptyCells(n) \in Seq(Cell) /\ Len(EmptyCells(n)) = n
         /\ \A i \in 1..n : EmptyCells(n)[i] = EmptyCell
         /\ EmptyCell \in Cell /\ EmptyCell.stack = <<>> /\ EmptyCell.first = All
<1>1. EmptyCell \in Cell /\ EmptyCell.stack = <<>> /\ EmptyCell.first = All
  BY DEF EmptyCell, Cell
<1> QED
  BY <1>1 DEF EmptyCells

\* r is s followed by t
Concatenation(r, s, t) ==
  /\ r \in Seq(Cell) /\ Len(r) = Len(s) + Len(t)
  /\ \A i \in 1..Len(s) : r[i] = s[i]
  /\ \A i \in 1..Len(t) : r[Len(s) + i] = t[i]

LEMMA Concatenated ==
  ASSUME NEW s \in Seq(Cell), NEW t \in Seq(Cell)
  PROVE  s \o t \in Seq(Cell) /\ Concatenation(s \o t, s, t)
BY DEF Concatenation

\* The context c with n cells before its own and m behind them
Widened(g, c, n, m) ==
  /\ g \in Context /\ g.setDims = c.setDims
  /\ g.min = c.min - n /\ g.max = c.max + m
  /\ g.cells = (EmptyCells(n) \o c.cells) \o EmptyCells(m)

LEMMA GrownIsWidened ==
  ASSUME NEW c, ContextOK(c), NEW d \in Int
  PROVE  \E n, m \in Nat : Widened(Grown(c, d), c, n, m) /\ InWindow(Grown(c, d), d)
<1> DEFINE g == Grown(c, d)
<1>1. /\ c \in Context /\ c.min \in Int /\ c.max \in Int /\ c.cells \in Seq(Cell)
      /\ c.setDims \in SUBSET Dim /\ c.min < c.max
  BY DEF ContextOK, Context
<1>2. ASSUME NEW n \in Nat, NEW m \in Nat
      PROVE  /\ EmptyCells(n) \o c.cells \in Seq(Cell)
             /\ (EmptyCells(n) \o c.cells) \o EmptyCells(m) \in Seq(Cell)
  BY <1>1, EmptyCellsAre, Concatenated
<1>3. EmptyCells(0) = <<>>
  BY DEF EmptyCells
<1>4. /\ (EmptyCells(0) \o c.cells) = c.cells
      /\ \A s \in Seq(Cell) : s \o EmptyCells(0) = s
  BY <1>1, <1>3
<1>5. CASE d >= c.max
  <2> DEFINE m == d - c.max + 1
             more == c.cells \o EmptyCells(m)
  <2>1. m \in Nat /\ d + 1 = c.max + m /\ d + 1 \in Int
    BY <1>1, <1>5
  <2>2. g = [c EXCEPT !.cells = more, !.max = d + 1]
    BY <1>5 DEF Grown
  <2>3. more \in Seq(Cell) /\ (EmptyCells(0) \o c.cells) \o EmptyCells(m) = more
    BY <1>1, <1>4, <2>1, EmptyCellsAre, Concatenated
  <2> HIDE DEF g, m, more
  <2>4. /\ g \in Context /\ g.setDims = c.setDims /\ g.min = c.min /\ g.max = d + 1
        /\ g.cells = more
    BY <1>1, <2>1, <2>2, <2>3 DEF Context
  <2>5. Widened(g, c, 0, m)
    BY <1>1, <2>1, <2>3, <2>4 DEF Widened
  <2>6. InWindow(g, d)
    BY <1>1, <1>5, <2>4 DEF InWindow
  <2> QED
    BY <2>1, <2>5, <2>6 DEF g
<1>6. CASE d <= c.min
  <2> DEFINE n == c.min - d + 1
             more == EmptyCells(n) \o c.cells
  <2>1. n \in Nat /\ d - 1 = c.min - n /\ d - 1 \in Int
    BY <1>1, <1>6
  <2>2. g = [c EXCEPT !.cells = more, !.min = d - 1]
    BY <1>1, <1>6 DEF Grown
  <2>3. more \in Seq(Cell)
    BY <1>1, <2>1, EmptyCellsAre, Concatenated
  <2>4. more \o EmptyCells(0) = more
    BY <1>4, <2>3
  <2> HIDE DEF g, n
  <2>5. /\ g \in Context /\ g.setDims = c.setDims /\ g.min = d - 1 /\ g.max = c.max
        /\ g.cells = more
    <3> HIDE DEF more
    <3> QED
      BY <1>1, <2>1, <2>2, <2>3 DEF Context
  <2>7. Widened(g, c, n, 0)
    BY <1>1, <2>1, <2>4, <2>5 DEF Widened
  <2>6. InWindow(g, d)
    BY <1>1, <1>6, <2>5 DEF InWindow
  <2> QED
    BY <2>1, <2>6, <2>7 DEF g
<1>7. CASE InWindow(c, d)
  <2>1. g = c
    BY <1>1, <1>7 DEF Grown, InWindow
  <2>2. Widened(g, c, 0, 0)
    BY <1>1, <1>4, <2>1 DEF Widened
  <2> QED
    BY <1>7, <2>1, <2>2
<1> QED
  BY <1>1, <1>5, <1>6, <1>7 DEF InWindow

LEMMA WidenedKeeps ==
  ASSUME NEW c, ContextOK(c), NEW n \in Nat, NEW m \in Nat, NEW g, Widened(g, c, n, m)
  PROVE  ContextOK(g) /\ \A e \in Int : StackOf(g, e) = StackOf(c, e)
<1> DEFINE l == Len(c.cells)
<1>1. /\ c.min \in Int /\ c.max \in Int /\ c.min < 0 /\ c.max >= 0
      /\ c.cells \in Seq(Cell) /\ l = c.max - c.min - 1
      /\ \A i \in 1..l : c.cells[i].first = TopOf(c.cells[i].stack)
  BY DEF ContextOK, Context
<1>2. l \in Nat
  BY <1>1
<1>3. /\ g.cells \in Seq(Cell) /\ Len(g.cells) = n + l + m
      /\ \A i \in 1..n : g.cells[i] = EmptyCell
      /\ \A i \in 1..l : g.cells[n + i] = c.cells[i]
      /\ \A i \in 1..m : g.cells[n + l + i] = EmptyCell
  <2> DEFINE front == EmptyCells(n) \o c.cells
  <2>1. /\ front \in Seq(Cell) /\ Len(front) = n + l
        /\ \A i \in 1..n : front[i] = EmptyCell
        /\ \A i \in 1..l : front[n + i] = c.cells[i]
    <3>1. EmptyCells(n) \in Seq(Cell) /\ Len(EmptyCells(n)) = n
      BY EmptyCellsAre
    <3>2. Concatenation(front, EmptyCells(n), c.cells)
      BY <1>1, <3>1, Concatenated
    <3> QED
      BY <3>1, <3>2, EmptyCellsAre DEF Concatenation
  <2>2. EmptyCells(m) \in Seq(Cell) /\ Len(EmptyCells(m)) = m
    BY EmptyCellsAre
  <2>3. g.cells = front \o EmptyCells(m)
    BY DEF Widened
  <2> HIDE DEF front
  <2>4. /\ g.cells \in Seq(Cell) /\ Len(g.cells) = (n + l) + m
        /\ \A i \in 1..(n + l) : g.cells[i] = front[i]
        /\ \A i \in 1..m : g.cells[(n + l) + i] = EmptyCells(m)[i]
    <3>1. Concatenation(g.cells, front, EmptyCells(m))
      BY <2>1, <2>2, <2>3, Concatenated
    <3> QED
      BY <3>1, <2>1, <2>2 DEF Concatenation
  <2>5. \A i \in 1..n : i \in 1..(n + l)
    BY <1>2
  <2>6. \A i \in 1..l : n + i \in 1..(n + l)
    BY <1>2
  <2> QED
    BY <2>1, <2>4, <2>5, <2>6, EmptyCellsAre
<1>4. g.min = c.min - n /\ g.max = c.max + m /\ g \in Context
  BY DEF Widened
<1> HIDE DEF l
<1>5. ContextOK(g)
  <2>1. ASSUME NEW i \in DOMAIN g.cells
        PROVE  g.cells[i].first = TopOf(g.cells[i].stack)
    <3>1. i \in 1..(n + l + m)
      BY <1>3, <1>2
    <3>2. \/ i \in 1..n
          \/ i - n \in 1..l /\ i = n + (i - n)
          \/ i - n - l \in 1..m /\ i = n + l + (i - n - l)
      BY <3>1, <1>2
    <3>3. g.cells[i] = EmptyCell \/ (i - n \in 1..l /\ g.cells[i] = c.cells[i - n])
      BY <3>2, <1>3
    <3>4. EmptyCell.first = TopOf(EmptyCell.stack)
      BY EmptyCellsAre DEF TopOf
    <3> QED
      BY <3>3, <3>4, <1>1
  <2>2. g.min < 0 /\ g.max >= 0 /\ n + l + m = g.max - g.min - 1
    BY <1>1, <1>4
  <2> QED
    BY <2>1, <2>2, <1>3, <1>4 DEF ContextOK
<1>6. ASSUME NEW e \in Int
      PROVE  StackOf(g, e) = StackOf(c, e)
  <2>1. CASE InWindow(c, e)
    <3>1. e - c.min \in 1..l /\ e - g.min = n + (e - c.min)
      BY <2>1, <1>1, <1>4 DEF InWindow
    <3>2. InWindow(g, e)
      BY <2>1, <1>1, <1>4 DEF InWindow
    <3> QED
      BY <3>1, <3>2, <2>1, <1>3 DEF StackOf, CellIndex
  <2>2. CASE ~InWindow(c, e) /\ InWindow(g, e)
    <3>1. /\ c.min - n < e /\ e < c.max + m
          /\ e <= c.min \/ e >= c.max
      BY <2>2, <1>1, <1>4 DEF InWindow
    <3>2. CASE e <= c.min
      <4>1. e - g.min \in 1..n
        BY <3>1, <3>2, <1>1, <1>4
      <4> QED
        BY <4>1, <1>3, <2>2, EmptyCellsAre DEF StackOf, CellIndex
    <3>3. CASE e >= c.max
      <4>1. e - c.max + 1 \in 1..m /\ e - g.min = n + l + (e - c.max + 1)
        BY <3>1, <3>3, <1>1, <1>4
      <4> QED
        BY <4>1, <1>3, <2>2, EmptyCellsAre DEF StackOf, CellIndex
    <3> QED
      BY <3>1, <3>2, <3>3
  <2>3. CASE ~InWindow(c, e) /\ ~InWindow(g, e)
    BY <2>3 DEF StackOf
  <2> QED
    BY <2>1, <2>2, <2>3
<1> QED
  BY <1>5, <1>6

(***************************************************************************)
(* Stacks                                                                  *)
(***************************************************************************)
Below(stack, n) == SubSeq(stack, 1, Len(stack) - n)

LEMMA SameSequence ==
  ASSUME NEW s \in Seq(Ordinate), NEW t \in Seq(Ordinate), Len(s) = Len(t),
         \A i \in 1..Len(s) : s[i] = t[i]
  PROVE  s = t
OBVIOUS

LEMMA BelowIs ==
  ASSUME NEW s \in Seq(Ordinate), NEW n \in Nat, n <= Len(s)
  PROVE  /\ Below(s, n) \in Seq(Ordinate) /\ Len(Below(s, n)) = Len(s) - n
         /\ \A i \in 1..(Len(s) - n) : Below(s, n)[i] = s[i]
BY DEF Below

LEMMA BelowNone ==
  ASSUME NEW s \in Seq(Ordinate)
  PROVE  Below(s, 0) = s
BY DEF Below

LEMMA BelowPushed ==
  ASSUME NEW s \in Seq(Ordinate), NEW n \in Nat, n <= Len(s), NEW o \in Ordinate
  PROVE  /\ Append(s, o) \in Seq(Ordinate) /\ n + 1 <= Len(Append(s, o))
         /\ Below(Append(s, o), n + 1) = Below(s, n)
         /\ TopOf(Append(s, o)) = o
<1> DEFINE t == Append(s, o)
           m == n + 1
<1>1. /\ t \in Seq(Ordinate) /\ Len(t) = Len(s) + 1
      /\ \A i \in 1..Len(s) : t[i] = s[i]
      /\ t[Len(s) + 1] = o
  OBVIOUS
<1>2. m \in Nat /\ m <= Len(t) /\ Len(t) - m = Len(s) - n
  BY <1>1
<1> HIDE DEF t, m
<1>3. /\ Below(t, m) \in Seq(Ordinate)
      /\ Len(Below(t, m)) = Len(s) - n
      /\ \A i \in 1..(Len(s) - n) : Below(t, m)[i] = t[i]
  BY <1>1, <1>2, BelowIs
<1>4. \A i \in 1..(Len(s) - n) : Below(t, m)[i] = Below(s, n)[i]
  <2>1. \A i \in 1..(Len(s) - n) : Below(s, n)[i] = s[i] /\ i \in 1..Len(s)
    BY BelowIs
  <2> QED
    BY <1>1, <1>3, <2>1
<1>5. Below(t, m) = Below(s, n)
  <2>1. Below(s, n) \in Seq(Ordinate) /\ Len(Below(s, n)) = Len(s) - n
    BY BelowIs
  <2> QED
    BY <1>3, <1>4, <2>1, SameSequence
<1>6. TopOf(t) = o
  BY <1>1 DEF TopOf
<1> QED
  BY <1>1, <1>2, <1>5, <1>6 DEF t, m

(***************************************************************************)
(* Context::perturb pushes on one stack                                    *)
(***************************************************************************)
LEMMA PerturbedIs ==
  ASSUME NEW c, ContextOK(c), NEW d \in Dim, NEW o \in Ordinate
  PROVE  LET p == Perturbed(c, d, o)
         IN  /\ ContextOK(p)
             /\ StackOf(p, d) = Append(StackOf(c, d), o)
             /\ \A e \in Int : e # d => StackOf(p, e) = StackOf(c, e)
<1> DEFINE g == Grown(c, d)
           i == CellIndex(g, d)
           p == Perturbed(c, d, o)
<1>1. d \in Int
  BY ContextAssumption
<1>2. /\ ContextOK(g) /\ InWindow(g, d)
      /\ \A e \in Int : StackOf(g, e) = StackOf(c, e)
  BY <1>1, GrownIsWidened, WidenedKeeps
<1>3. /\ i \in DOMAIN g.cells /\ g.cells[i] \in Cell
  BY <1>1, <1>2, CellInWindow
<1>4. p = [g EXCEPT !.cells = [g.cells EXCEPT ![i] = Pushed(g.cells[i], o)],
                    !.setDims = g.setDims \cup {d}]
  BY DEF Perturbed
<1> DEFINE cells == [g.cells EXCEPT ![i] = Pushed(g.cells[i], o)]
<1>5. /\ g \in Context /\ g.cells \in Seq(Cell) /\ g.min \in Int /\ g.max \in Int
      /\ g.setDims \in SUBSET Dim
  BY <1>2 DEF ContextOK, Context
<1> HIDE DEF g, i, p
<1>6. /\ Pushed(g.cells[i], o) \in Cell
      /\ Pushed(g.cells[i], o).stack = Append(g.cells[i].stack, o)
      /\ Pushed(g.cells[i], o).first = TopOf(Append(g.cells[i].stack, o))
  BY <1>3 DEF Pushed, Cell, TopOf
<1>7. cells \in Seq(Cell) /\ Len(cells) = Len(g.cells) /\ DOMAIN cells = DOMAIN g.cells
  BY <1>3, <1>5, <1>6
<1>8. \A j \in DOMAIN g.cells :
        cells[j] = IF j = i THEN Pushed(g.cells[i], o) ELSE g.cells[j]
  OBVIOUS
<1> HIDE DEF cells
<1>9. /\ p \in Context /\ p.cells = cells /\ p.min = g.min /\ p.max = g.max
  BY <1>4, <1>5, <1>7 DEF Context, cells
<1>10. ContextOK(p)
  BY <1>2, <1>6, <1>7, <1>8, <1>9 DEF ContextOK
<1>11. \A e \in Int : InWindow(p, e) <=> InWindow(g, e)
  BY <1>9 DEF InWindow
<1>12. StackOf(p, d) = Append(StackOf(g, d), o)
  BY <1>1, <1>2, <1>3, <1>6, <1>8, <1>9, <1>11 DEF StackOf, CellIndex, i
<1>13. ASSUME NEW e \in Int, e # d
       PROVE  StackOf(p, e) = StackOf(g, e)
  <2>1. CASE InWindow(g, e)
    <3>1. CellIndex(g, e) \in DOMAIN g.cells /\ CellIndex(p, e) = CellIndex(g, e)
      BY <1>2, <1>9, <2>1, CellInWindow DEF CellIndex
    <3>2. CellIndex(g, e) # i
      BY <1>1, <1>5, <1>13 DEF CellIndex, i
    <3> QED
      BY <1>8, <1>9, <1>11, <2>1, <3>1, <3>2 DEF StackOf
  <2>2. CASE ~InWindow(g, e)
    BY <1>11, <2>2 DEF StackOf
  <2> QED
    BY <2>1, <2>2
<1> QED
  BY <1>1, <1>2, <1>10, <1>12, <1>13 DEF p

(***************************************************************************)
(* Context::restore pops each stack as often as its dimension is listed    *)
(***************************************************************************)
LEMMA RestoredIs ==
  ASSUME NEW c, ContextOK(c), NEW times \in [Dim -> Nat],
         \A d \in Dim : times[d] <= Len(StackOf(c, d))
  PROVE  LET r == Restored(c, times)
         IN  /\ ContextOK(r)
             /\ \A d \in Dim : StackOf(r, d) = Below(StackOf(c, d), times[d])
             /\ \A d \in Int : d \notin Dim => StackOf(r, d) = StackOf(c, d)
<1> DEFINE here(i) == c.min + i
           cells == [i \in DOMAIN c.cells |->
                       IF here(i) \in Dim /\ times[here(i)] > 0
                       THEN Popped(c.cells[i], times[here(i)]) ELSE c.cells[i]]
           emptied == {d \in Dim : times[d] > 0 /\ Len(StackOf(c, d)) = times[d]}
           r == Restored(c, times)
<1>1. /\ c \in Context /\ c.cells \in Seq(Cell) /\ c.min \in Int /\ c.max \in Int
      /\ c.setDims \in SUBSET Dim /\ DOMAIN c.cells = 1..(c.max - c.min - 1)
      /\ Len(c.cells) \in Nat /\ DOMAIN c.cells = 1..Len(c.cells)
  BY DEF ContextOK, Context
<1>2. r = [c EXCEPT !.cells = cells, !.setDims = c.setDims \ emptied]
  BY DEF Restored
<1>3. ASSUME NEW i \in DOMAIN c.cells
      PROVE  /\ here(i) \in Int /\ InWindow(c, here(i)) /\ CellIndex(c, here(i)) = i
             /\ StackOf(c, here(i)) = c.cells[i].stack /\ c.cells[i] \in Cell
  <2>1. here(i) \in Int /\ InWindow(c, here(i)) /\ CellIndex(c, here(i)) = i
    BY <1>1 DEF InWindow, CellIndex
  <2> QED
    BY <1>1, <2>1 DEF StackOf
<1>4. ASSUME NEW i \in DOMAIN c.cells
      PROVE  /\ cells[i] \in Cell /\ cells[i].first = TopOf(cells[i].stack)
             /\ here(i) \in Dim => cells[i].stack = Below(c.cells[i].stack, times[here(i)])
             /\ here(i) \notin Dim => cells[i].stack = c.cells[i].stack
  <2>1. c.cells[i] \in Cell /\ c.cells[i].first = TopOf(c.cells[i].stack)
    BY <1>3 DEF ContextOK
  <2>2. CASE here(i) \in Dim /\ times[here(i)] > 0
    <3> DEFINE n == times[here(i)]
               stack == c.cells[i].stack
               left == Len(stack) - n
    <3>1. stack \in Seq(Ordinate) /\ n \in Nat /\ n <= Len(stack) /\ left \in Nat
      BY <1>3, <2>1, <2>2 DEF Cell
    <3>2. cells[i] = [first |-> IF left = 0 THEN All ELSE stack[left],
                      stack |-> Below(stack, n)]
      BY <2>2 DEF Popped, Below
    <3>3. Below(stack, n) \in Seq(Ordinate) /\ Len(Below(stack, n)) = left
          /\ \A j \in 1..left : Below(stack, n)[j] = stack[j]
      BY <3>1, BelowIs
    <3> HIDE DEF n, left, stack
    <3>4. cells[i].first = TopOf(Below(stack, n)) /\ cells[i].stack = Below(stack, n)
      BY <3>1, <3>2, <3>3 DEF TopOf
    <3>5. TopOf(Below(stack, n)) \in Ordinate \cup {All}
      BY <3>1, <3>3 DEF TopOf
    <3> QED
      BY <2>2, <3>2, <3>3, <3>4, <3>5 DEF Cell, n, stack
  <2>3. CASE here(i) \in Dim /\ ~(times[here(i)] > 0)
    <3>1. times[here(i)] = 0
      BY <2>3
    <3>2. cells[i] = c.cells[i]
      BY <2>3
    <3> QED
      BY <2>1, <2>3, <3>1, <3>2, BelowNone DEF Cell
  <2>4. CASE here(i) \notin Dim
    BY <2>1, <2>4
  <2> QED
    BY <2>2, <2>3, <2>4
<1>5. cells \in Seq(Cell) /\ Len(cells) = Len(c.cells) /\ DOMAIN cells = DOMAIN c.cells
  <2>1. cells \in [1..Len(c.cells) -> Cell]
    BY <1>1, <1>4
  <2>2. Len(c.cells) \in Nat /\ DOMAIN c.cells = 1..Len(c.cells)
    BY <1>1
  <2>3. ASSUME NEW S, NEW n \in Nat, NEW f \in [1..n -> S]
        PROVE  f \in Seq(S) /\ Len(f) = n /\ DOMAIN f = 1..n
    OBVIOUS
  <2> HIDE DEF cells
  <2> QED
    BY <2>1, <2>2, <2>3
<1>6. c.setDims \ emptied \in SUBSET Dim
  BY <1>1
<1> HIDE DEF cells, emptied, r
<1>7. r \in Context /\ r.cells = cells /\ r.min = c.min /\ r.max = c.max
  BY <1>1, <1>2, <1>5, <1>6 DEF Context
<1>8. ContextOK(r)
  BY <1>4, <1>5, <1>7 DEF ContextOK
<1>9. \A d \in Int : /\ InWindow(r, d) <=> InWindow(c, d)
                     /\ CellIndex(r, d) = CellIndex(c, d)
  BY <1>7 DEF InWindow, CellIndex
<1>10. ASSUME NEW d \in Int, InWindow(c, d)
       PROVE  /\ CellIndex(c, d) \in DOMAIN c.cells /\ here(CellIndex(c, d)) = d
              /\ StackOf(r, d) = cells[CellIndex(c, d)].stack
              /\ StackOf(c, d) = c.cells[CellIndex(c, d)].stack
  <2>1. CellIndex(c, d) \in DOMAIN c.cells
    BY <1>10, CellInWindow
  <2>2. here(CellIndex(c, d)) = d
    BY <1>1 DEF CellIndex
  <2>3. InWindow(r, d) /\ CellIndex(r, d) = CellIndex(c, d)
    BY <1>9, <1>10
  <2> QED
    BY <1>7, <1>10, <2>1, <2>2, <2>3 DEF StackOf
<1>11. ASSUME NEW d \in Dim
       PROVE  StackOf(r, d) = Below(StackOf(c, d), times[d])
  <2>1. d \in Int
    BY ContextAssumption
  <2>2. CASE InWindow(c, d)
    BY <1>4, <1>10, <2>1, <2>2
  <2>3. CASE ~InWindow(c, d)
    <3>1. StackOf(r, d) = <<>> /\ StackOf(c, d) = <<>>
      BY <1>9, <2>1, <2>3 DEF StackOf
    <3>2. times[d] = 0 /\ <<>> \in Seq(Ordinate)
      BY <3>1
    <3> QED
      BY <3>1, <3>2, BelowNone
  <2> QED
    BY <2>2, <2>3
<1>12. ASSUME NEW d \in Int, d \notin Dim
       PROVE  StackOf(r, d) = StackOf(c, d)
  <2>1. CASE InWindow(c, d)
    BY <1>4, <1>10, <1>12, <2>1
  <2>2. CASE ~InWindow(c, d)
    BY <1>9, <2>2 DEF StackOf
  <2> QED
    BY <2>1, <2>2
<1> QED
  BY <1>8, <1>11, <1>12 DEF r

(***************************************************************************)
(* operator<= looks at windows, and decides inclusion.                     *)
(***************************************************************************)
LEMMA HasEntryInWindow ==
  ASSUME NEW c, NEW d, HasEntry(c, d)
  PROVE  InWindow(c, d)
BY DEF HasEntry, StackOf

\* operator<= (Context) looks at the cells the two windows share, and only for
\* entries in the rest of the left one's: for contexts in which nothing but
\* dimensions is set, whatever their windows, that is inclusion
THEOREM InclusionByWindows ==
  ASSUME NEW c, ContextOK(c), OnlyDims(c), NEW other, ContextOK(other), OnlyDims(other)
  PROVE  LessEqMeans(c, other)
<1> DEFINE last == IF c.max < other.max THEN c.max ELSE other.max
           first == IF c.min < other.min THEN other.min ELSE c.min
           Agree(d) == HasEntry(other, d) /\ Lookup(c, d) = Lookup(other, d)
<1>1. /\ c.min \in Int /\ c.max \in Int /\ other.min \in Int /\ other.max \in Int
      /\ c.min < 0 /\ c.max >= 0 /\ other.min < 0 /\ other.max >= 0
  BY DEF ContextOK, Context
<1>2. /\ last \in Int /\ first \in Int /\ first < 0 /\ last >= 0
      /\ first >= c.min /\ first >= other.min /\ last <= c.max /\ last <= other.max
      /\ first = c.min \/ first = other.min
      /\ last = c.max \/ last = other.max
  BY <1>1
<1> HIDE DEF last, first
<1>3. LessEq(c, other) <=>
        /\ \A d \in c.min + 1 .. first : ~HasEntry(c, d)
        /\ \A d \in first + 1 .. last - 1 : HasEntry(c, d) => Agree(d)
        /\ \A d \in last .. c.max - 1 : ~HasEntry(c, d)
  BY DEF LessEq, last, first
<1>4. ASSUME LessEq(c, other), NEW d \in Dim, HasEntry(c, d)
      PROVE  Agree(d)
  <2>1. d \in Int /\ c.min < d /\ d < c.max
    BY <1>4, ContextAssumption, HasEntryInWindow DEF InWindow
  <2>2. d \in first + 1 .. last - 1
    <3>1. d \notin c.min + 1 .. first /\ d \notin last .. c.max - 1
      BY <1>3, <1>4
    <3> QED
      BY <1>1, <1>2, <2>1, <3>1
  <2> QED
    BY <1>3, <1>4, <2>2
<1>5. ASSUME \A d \in Dim : HasEntry(c, d) => Agree(d)
      PROVE  LessEq(c, other)
  <2>1. ASSUME NEW d \in Int, HasEntry(c, d)
        PROVE  d \in Dim /\ Agree(d)
    BY <1>5, <2>1 DEF OnlyDims, HasEntry
  <2>2. ASSUME NEW d \in Int, HasEntry(c, d)
        PROVE  first < d /\ d < last
    <3>1. /\ c.min < d /\ d < c.max
          /\ other.min < d /\ d < other.max
      BY <2>1, <2>2, HasEntryInWindow DEF InWindow
    <3> QED
      BY <1>2, <3>1
  <2>3. ASSUME NEW d \in c.min + 1 .. first
        PROVE  ~HasEntry(c, d)
    BY <1>1, <1>2, <2>2
  <2>4. ASSUME NEW d \in last .. c.max - 1
        PROVE  ~HasEntry(c, d)
    BY <1>1, <1>2, <2>2
  <2>5. ASSUME NEW d \in first + 1 .. last - 1, HasEntry(c, d)
        PROVE  Agree(d)
    BY <1>2, <2>1, <2>5
  <2> QED
    BY <1>3, <2>3, <2>4, <2>5
<1> QED
  BY <1>4, <1>5 DEF LessEqMeans

(***************************************************************************)
(* The inductive invariant                                                 *)
(***************************************************************************)
Ordinates == [Dim -> Ordinate \cup {All}]
ScopeType ==
  [kind : {"perturb", "rho"}, dims : [Dim -> Nat], inserted : SUBSET Dim, index : 0..MaxIndex,
   saw : [ordinates : Ordinates, delta : SUBSET Dim], had : [Dim -> Seq(Ordinate)]]

ScopesTyped == scopes \in Seq(ScopeType)

\* A RhoManager perturbs nothing
ManagersBare ==
  \A i \in DOMAIN scopes :
    scopes[i].kind = "rho" => scopes[i].dims = Never /\ scopes[i].inserted = {}

\* What was seen when a scope began is what the stacks it had say
SawWhatItHad ==
  \A i \in DOMAIN scopes : \A d \in Dim : scopes[i].saw.ordinates[d] = TopOf(scopes[i].had[d])

ScopesInv == ScopesTyped /\ ManagersBare /\ SawWhatItHad /\ ScopesNest

CInv == ContextTypeOK /\ OnlyDims(k) /\ ScopesInv

LEMMA ContextTypeIs ==
  ContextTypeOK <=> /\ ContextOK(k)
                    /\ rho \in Seq(0..MaxIndex) /\ delta \in SUBSET Dim
                    /\ instant \in 0..LastInstant
BY DEF ContextTypeOK, ContextOK, Context, TopOf

LEMMA SeenTyped ==
  ASSUME CInv
  PROVE  /\ StacksNow \in [Dim -> Seq(Ordinate)]
         /\ Seen(k, delta) \in [ordinates : Ordinates, delta : SUBSET Dim]
         /\ \A d \in Dim : Seen(k, delta).ordinates[d] = TopOf(StacksNow[d])
<1>1. ContextOK(k) /\ delta \in SUBSET Dim
  BY ContextTypeIs DEF CInv
<1>2. ASSUME NEW d \in Dim
      PROVE  /\ StackOf(k, d) \in Seq(Ordinate)
             /\ Lookup(k, d) = TopOf(StackOf(k, d))
             /\ TopOf(StackOf(k, d)) \in Ordinate \cup {All}
  <2>1. StackOf(k, d) \in Seq(Ordinate) /\ Lookup(k, d) = TopOf(StackOf(k, d))
    BY <1>1, LookupIsTop, ContextAssumption
  <2>2. TopOf(StackOf(k, d)) \in Ordinate \cup {All}
    BY <2>1 DEF TopOf
  <2> QED
    BY <2>1, <2>2
<1> QED
  BY <1>1, <1>2 DEF StacksNow, Seen, Ordinates

LEMMA UnderIs ==
  ASSUME NEW stacks, NEW times
  PROVE  Under(stacks, times) = [d \in Dim |-> Below(stacks[d], times[d])]
BY DEF Under, Below

LEMMA UnderNothing ==
  ASSUME NEW stacks \in [Dim -> Seq(Ordinate)]
  PROVE  /\ Under(stacks, Never) = stacks
         /\ \A d \in Dim : Never[d] <= Len(stacks[d])
<1>1. \A d \in Dim : Below(stacks[d], 0) = stacks[d] /\ 0 <= Len(stacks[d])
  BY BelowNone
<1>2. \A d \in Dim : Never[d] = 0
  BY DEF Never
<1>3. Under(stacks, Never) = [d \in Dim |-> stacks[d]]
  BY <1>1, <1>2, UnderIs
<1> QED
  BY <1>1, <1>2, <1>3

(***************************************************************************)
(* What the destructors of scope i have to find                            *)
(***************************************************************************)
Nested(i) ==
  /\ \A d \in Dim : scopes[i].dims[d] <= Len(After(i)[d])
  /\ Under(After(i), scopes[i].dims) = scopes[i].had
  /\ DeltaAfter(i) \ scopes[i].inserted = scopes[i].saw.delta

LEMMA NestIs == ScopesNest <=> \A i \in DOMAIN scopes : Nested(i)
BY DEF ScopesNest, Nested

LEMMA ScopeFields ==
  ASSUME ScopesTyped, NEW i \in DOMAIN scopes
  PROVE  /\ i \in Nat /\ i >= 1 /\ i <= Len(scopes) /\ Len(scopes) \in Nat
         /\ scopes[i] \in ScopeType
         /\ scopes[i].dims \in [Dim -> Nat] /\ scopes[i].inserted \in SUBSET Dim
         /\ scopes[i].index \in 0..MaxIndex
         /\ scopes[i].had \in [Dim -> Seq(Ordinate)]
         /\ scopes[i].saw \in [ordinates : Ordinates, delta : SUBSET Dim]
<1>1. /\ i \in Nat /\ i >= 1 /\ i <= Len(scopes) /\ Len(scopes) \in Nat
      /\ scopes[i] \in ScopeType
  BY DEF ScopesTyped
<1> QED
  BY <1>1 DEF ScopeType

\* The scopes sc but for the indices, which do not matter to them
OthersIndex(other, sc) ==
  /\ other \in Seq(ScopeType) /\ Len(other) = Len(sc)
  /\ \A i \in DOMAIN sc :
       /\ other[i].kind = sc[i].kind /\ other[i].dims = sc[i].dims
       /\ other[i].inserted = sc[i].inserted
       /\ other[i].had = sc[i].had /\ other[i].saw = sc[i].saw

\* A scope begins with what is there
LEMMA BeginKeeps ==
  ASSUME CInv, NEW kind \in {"perturb", "rho"}, NEW index \in 0..MaxIndex,
         NEW others, OthersIndex(others, scopes),
         scopes' = Append(others, Scope(kind, index)), k' = k, delta' = delta
  PROVE  ScopesInv'
<1> DEFINE n == Len(scopes)
           new == Scope(kind, index)
           Same(i) == /\ scopes'[i].kind = scopes[i].kind
                      /\ scopes'[i].dims = scopes[i].dims
                      /\ scopes'[i].inserted = scopes[i].inserted
                      /\ scopes'[i].had = scopes[i].had
                      /\ scopes'[i].saw = scopes[i].saw
<1>1. /\ new \in ScopeType /\ new.dims = Never /\ new.inserted = {}
      /\ new.had = StacksNow /\ new.saw = Seen(k, delta)
  <2>1. Never \in [Dim -> Nat]
    BY DEF Never
  <2>2. [d \in Dim |-> StackOf(k, d)] = StacksNow
    BY DEF StacksNow
  <2> QED
    BY <2>1, <2>2, SeenTyped DEF Scope, ScopeType
<1> HIDE DEF new
<1>2. n \in Nat /\ scopes \in Seq(ScopeType) /\ DOMAIN scopes = 1..n
  BY DEF CInv, ScopesInv, ScopesTyped
<1>3. /\ scopes' \in Seq(ScopeType) /\ Len(scopes') = n + 1
      /\ DOMAIN scopes' = 1..(n + 1)
      /\ \A i \in 1..n : Same(i)
      /\ scopes'[n + 1] = new
  <2>1. /\ others \in Seq(ScopeType) /\ Len(others) = n /\ scopes' = Append(others, new)
    BY DEF OthersIndex, new
  <2>2. /\ scopes' \in Seq(ScopeType) /\ Len(scopes') = n + 1
        /\ DOMAIN scopes' = 1..(n + 1)
        /\ \A i \in 1..n : scopes'[i] = others[i]
        /\ scopes'[n + 1] = new
    <3>1. n \in Nat /\ new \in ScopeType
      BY <1>1, <1>2
    <3> HIDE DEF n, Same, new
    <3> DEFINE T == ScopeType
    <3> HIDE DEF T
    <3>2. others \in Seq(T) /\ Len(others) = n /\ new \in T
      BY <2>1, <3>1 DEF T
    <3>3. /\ Append(others, new) \in Seq(T) /\ Len(Append(others, new)) = n + 1
          /\ DOMAIN Append(others, new) = 1..(n + 1)
          /\ \A i \in 1..n : Append(others, new)[i] = others[i]
          /\ Append(others, new)[n + 1] = new
      BY <3>1, <3>2
    <3> QED
      BY <2>1, <3>3 DEF T
  <2>3. \A i \in 1..n : Same(i)
    BY <1>2, <2>2 DEF OthersIndex
  <2> QED
    BY <2>2, <2>3
<1> HIDE DEF n
<1>4. ScopesTyped'
  BY <1>3 DEF ScopesTyped
<1>5. ASSUME NEW i \in DOMAIN scopes'
      PROVE  (i \in DOMAIN scopes /\ i # n + 1 /\ Same(i))
             \/ (i = n + 1 /\ scopes'[i] = new)
  BY <1>2, <1>3
<1> HIDE DEF Same
<1>6. ManagersBare'
  BY <1>1, <1>5 DEF CInv, ScopesInv, ManagersBare, Same
<1>7. SawWhatItHad'
  BY <1>1, <1>5, SeenTyped DEF CInv, ScopesInv, SawWhatItHad, Same
<1>8. StacksNow' = StacksNow
  BY DEF StacksNow
<1>9. ASSUME NEW i \in DOMAIN scopes
      PROVE  After(i)' = After(i) /\ DeltaAfter(i)' = DeltaAfter(i)
  <2>1. i \in 1..n /\ i # n + 1 /\ n = Len(scopes)
    BY <1>2 DEF n
  <2>2. CASE i = n
    <3>1. After(i)' = new.had /\ DeltaAfter(i)' = new.saw.delta
      BY <1>3, <2>1, <2>2 DEF After, DeltaAfter
    <3>2. After(i) = StacksNow /\ DeltaAfter(i) = delta
      BY <2>1, <2>2 DEF After, DeltaAfter
    <3> QED
      BY <1>1, <3>1, <3>2 DEF Seen
  <2>3. CASE i # n
    <3>1. i + 1 \in 1..n
      BY <1>2, <2>1, <2>3
    <3> QED
      BY <1>3, <2>1, <2>3, <3>1 DEF After, DeltaAfter, Same
  <2> QED
    BY <2>2, <2>3
<1>10. ASSUME NEW i \in DOMAIN scopes'
       PROVE  Nested(i)'
  <2>1. CASE i \in DOMAIN scopes /\ Same(i)
    <3>1. Nested(i)
      BY <2>1, NestIs DEF CInv, ScopesInv
    <3> QED
      BY <2>1, <3>1, <1>9 DEF Nested, Same
  <2>2. CASE i = n + 1 /\ scopes'[i] = new
    <3>1. After(i)' = StacksNow /\ DeltaAfter(i)' = delta
      BY <1>3, <1>8, <2>2 DEF After, DeltaAfter
    <3>2. /\ \A d \in Dim : Never[d] <= Len(StacksNow[d])
          /\ Under(StacksNow, Never) = StacksNow
      BY SeenTyped, UnderNothing
    <3> QED
      BY <1>1, <2>2, <3>1, <3>2 DEF Nested, Seen
  <2> QED
    BY <1>5, <2>1, <2>2
<1>11. ScopesNest'
  BY <1>10, NestIs DEF ScopesNest, Nested
<1> QED
  BY <1>4, <1>6, <1>7, <1>11 DEF ScopesInv

LEMMA SameIndex == CInv => OthersIndex(scopes, scopes)
BY DEF CInv, ScopesInv, ScopesTyped, OthersIndex

\* A scope that ends has to leave what it found
LEMMA EndKeeps ==
  ASSUME CInv, scopes # <<>>, End, StacksNow' = Top.had, delta' = Top.saw.delta
  PROVE  ScopesInv'
<1> DEFINE n == Len(scopes)
<1>1. n \in Nat /\ n >= 1 /\ scopes \in Seq(ScopeType) /\ DOMAIN scopes = 1..n
  BY DEF CInv, ScopesInv, ScopesTyped
<1>2. /\ scopes' \in Seq(ScopeType) /\ Len(scopes') = n - 1
      /\ DOMAIN scopes' = 1..(n - 1)
      /\ \A i \in 1..(n - 1) : scopes'[i] = scopes[i]
  BY <1>1 DEF End
<1>3. ASSUME NEW i \in DOMAIN scopes'
      PROVE  /\ i \in DOMAIN scopes /\ i # n /\ i + 1 \in DOMAIN scopes
             /\ scopes'[i] = scopes[i]
             /\ i # n - 1 => i + 1 \in 1..(n - 1)
  BY <1>1, <1>2
<1>4. ScopesTyped' /\ ManagersBare' /\ SawWhatItHad'
  BY <1>2, <1>3 DEF CInv, ScopesInv, ScopesTyped, ManagersBare, SawWhatItHad
<1>5. ASSUME NEW i \in DOMAIN scopes'
      PROVE  After(i)' = After(i) /\ DeltaAfter(i)' = DeltaAfter(i)
  <2>1. After(i) = scopes[i + 1].had /\ DeltaAfter(i) = scopes[i + 1].saw.delta
    BY <1>3 DEF After, DeltaAfter
  <2>2. CASE i = n - 1
    <3>1. After(i)' = StacksNow' /\ DeltaAfter(i)' = delta'
      BY <1>2, <2>2 DEF After, DeltaAfter
    <3>2. scopes[i + 1] = Top
      BY <1>1, <2>2 DEF Top
    <3> QED
      BY <2>1, <3>1, <3>2
  <2>3. CASE i # n - 1
    <3>1. /\ After(i)' = scopes'[i + 1].had /\ DeltaAfter(i)' = scopes'[i + 1].saw.delta
      BY <1>2, <2>3 DEF After, DeltaAfter
    <3> QED
      BY <1>2, <1>3, <2>1, <2>3, <3>1
  <2> QED
    BY <2>2, <2>3
<1>6. ASSUME NEW i \in DOMAIN scopes'
      PROVE  Nested(i)'
  <2>1. Nested(i)
    BY <1>3, NestIs DEF CInv, ScopesInv
  <2> QED
    BY <1>3, <1>5, <2>1 DEF Nested
<1>7. ScopesNest'
  BY <1>6 DEF ScopesNest, Nested
<1> QED
  BY <1>4, <1>7 DEF ScopesInv

\* Only the innermost scope has changed, in what it has perturbed or its index
LEMMA InnermostKeeps ==
  ASSUME CInv, NEW top \in ScopeType, scopes # <<>>,
         scopes' = [scopes EXCEPT ![Len(scopes)] = top],
         top.had = Top.had, top.saw = Top.saw,
         top.kind = "rho" => top.dims = Never /\ top.inserted = {},
         \A d \in Dim : top.dims[d] <= Len(StacksNow'[d]),
         Under(StacksNow', top.dims) = top.had,
         delta' \ top.inserted = top.saw.delta
  PROVE  ScopesInv'
<1> DEFINE n == Len(scopes)
<1>1. n \in Nat /\ n >= 1 /\ scopes \in Seq(ScopeType) /\ DOMAIN scopes = 1..n
  BY DEF CInv, ScopesInv, ScopesTyped
<1>2. /\ scopes' \in Seq(ScopeType) /\ Len(scopes') = n /\ DOMAIN scopes' = 1..n
      /\ scopes'[n] = top
      /\ \A i \in 1..n : i # n => scopes'[i] = scopes[i]
  <2>1. scopes' = [scopes EXCEPT ![n] = top]
    OBVIOUS
  <2>2. n \in 1..n
    BY <1>1
  <2> HIDE DEF n
  <2>3. \A i \in 1..n : scopes[i] \in ScopeType
    BY <1>1
  <2>4. scopes' \in [1..n -> ScopeType]
    BY <1>1, <2>1, <2>3
  <2>5. scopes' \in Seq(ScopeType) /\ Len(scopes') = n
    BY <1>1, <2>4
  <2> QED
    BY <1>1, <2>1, <2>2, <2>4, <2>5
<1>3. \A i \in DOMAIN scopes : scopes'[i].had = scopes[i].had /\ scopes'[i].saw = scopes[i].saw
  BY <1>1, <1>2 DEF Top
<1>4. ScopesTyped' /\ ManagersBare' /\ SawWhatItHad'
  <2>1. ScopesTyped'
    BY <1>2 DEF ScopesTyped
  <2>2. ASSUME NEW i \in DOMAIN scopes', scopes'[i].kind = "rho"
        PROVE  scopes'[i].dims = Never /\ scopes'[i].inserted = {}
    <3>1. CASE i = n
      BY <1>2, <2>2, <3>1
    <3>2. CASE i # n
      BY <1>1, <1>2, <2>2, <3>2 DEF CInv, ScopesInv, ManagersBare
    <3> QED
      BY <3>1, <3>2
  <2>3. ManagersBare'
    BY <2>2 DEF ManagersBare
  <2>4. ASSUME NEW i \in DOMAIN scopes', NEW d \in Dim
        PROVE  scopes'[i].saw.ordinates[d] = TopOf(scopes'[i].had[d])
    <3>1. i \in DOMAIN scopes
      BY <1>1, <1>2
    <3>2. scopes[i].saw.ordinates[d] = TopOf(scopes[i].had[d])
      BY <3>1 DEF CInv, ScopesInv, SawWhatItHad
    <3>3. scopes'[i].saw = scopes[i].saw /\ scopes'[i].had = scopes[i].had
      BY <1>3, <3>1
    <3> QED
      BY <3>2, <3>3
  <2>5. SawWhatItHad'
    BY <2>4 DEF SawWhatItHad
  <2> QED
    BY <2>1, <2>3, <2>5
<1>5. ASSUME NEW i \in DOMAIN scopes, i # n
      PROVE  After(i)' = After(i) /\ DeltaAfter(i)' = DeltaAfter(i)
  <2>1. i + 1 \in DOMAIN scopes
    BY <1>1, <1>5
  <2> QED
    BY <1>2, <1>3, <1>5, <2>1 DEF After, DeltaAfter
<1>6. ASSUME NEW i \in DOMAIN scopes'
      PROVE  Nested(i)'
  <2>1. CASE i = n
    <3>1. After(i)' = StacksNow' /\ DeltaAfter(i)' = delta' /\ scopes'[i] = top
      BY <1>2, <2>1 DEF After, DeltaAfter
    <3> QED
      BY <3>1 DEF Nested
  <2>2. CASE i # n
    <3>1. Nested(i) /\ i \in DOMAIN scopes /\ scopes'[i] = scopes[i]
      BY <1>1, <1>2, <2>2, NestIs DEF CInv, ScopesInv
    <3> QED
      BY <1>5, <2>2, <3>1 DEF Nested
  <2> QED
    BY <2>1, <2>2
<1>7. ScopesNest'
  BY <1>6 DEF ScopesNest, Nested
<1> QED
  BY <1>4, <1>7 DEF ScopesInv

\* A scope further out has another index
LEMMA IndexKeeps ==
  ASSUME CInv, NEW j \in DOMAIN scopes, NEW index \in 0..MaxIndex,
         scopes' = [scopes EXCEPT ![j].index = index], k' = k, delta' = delta
  PROVE  ScopesInv'
<1>1. /\ scopes \in Seq(ScopeType) /\ DOMAIN scopes = 1..Len(scopes) /\ Len(scopes) \in Nat
  BY DEF CInv, ScopesInv, ScopesTyped
<1>2. ASSUME NEW i \in DOMAIN scopes
      PROVE  /\ scopes'[i] \in ScopeType
             /\ scopes'[i].kind = scopes[i].kind /\ scopes'[i].dims = scopes[i].dims
             /\ scopes'[i].inserted = scopes[i].inserted
             /\ scopes'[i].had = scopes[i].had /\ scopes'[i].saw = scopes[i].saw
  <2>1. scopes[i] \in ScopeType
    BY <1>1
  <2>2. scopes'[i] = IF i = j THEN [scopes[i] EXCEPT !.index = index] ELSE scopes[i]
    OBVIOUS
  <2> QED
    BY <2>1, <2>2 DEF ScopeType
<1>3. /\ DOMAIN scopes' = DOMAIN scopes /\ Len(scopes') = Len(scopes)
      /\ scopes' \in Seq(ScopeType)
  <2>1. scopes' \in [1..Len(scopes) -> ScopeType]
    BY <1>1, <1>2
  <2> QED
    BY <1>1, <2>1
<1>4. ScopesTyped' /\ ManagersBare' /\ SawWhatItHad'
  BY <1>2, <1>3 DEF CInv, ScopesInv, ScopesTyped, ManagersBare, SawWhatItHad
<1>5. ASSUME NEW i \in DOMAIN scopes
      PROVE  After(i)' = After(i) /\ DeltaAfter(i)' = DeltaAfter(i)
  <2>1. i # Len(scopes) => i + 1 \in DOMAIN scopes
    BY <1>1
  <2> QED
    BY <1>2, <1>3, <2>1 DEF After, DeltaAfter, StacksNow
<1>6. ASSUME NEW i \in DOMAIN scopes'
      PROVE  Nested(i)'
  <2>1. Nested(i) /\ i \in DOMAIN scopes
    BY <1>3, NestIs DEF CInv, ScopesInv
  <2> QED
    BY <1>2, <1>5, <2>1 DEF Nested
<1>7. ScopesNest'
  BY <1>6 DEF ScopesNest, Nested
<1> QED
  BY <1>4, <1>7 DEF ScopesInv

(***************************************************************************)
(* The actions                                                             *)
(***************************************************************************)
LEMMA OpenPerturberKeeps ==
  ASSUME CInv, OpenPerturber
  PROVE  CInv'
<1>1. ContextTypeOK' /\ OnlyDims(k)'
  BY ContextTypeIs DEF CInv, OpenPerturber, ContextTypeOK, OnlyDims
<1>2. 0 \in 0..MaxIndex
  BY ContextAssumption
<1>3. ScopesInv'
  BY <1>2, BeginKeeps, SameIndex DEF OpenPerturber, Begin
<1> QED
  BY <1>1, <1>3 DEF CInv

LEMMA OpenRhoKeeps ==
  ASSUME CInv, NEW start \in 0..MaxIndex, OpenRho(start)
  PROVE  CInv'
<1>1. rho' \in Seq(0..MaxIndex)
  <2>1. rho \in Seq(0..MaxIndex) /\ <<start>> \in Seq(0..MaxIndex)
    BY DEF CInv, ContextTypeOK
  <2> QED
    BY <2>1 DEF OpenRho
<1>2. ContextTypeOK' /\ OnlyDims(k)'
  BY <1>1 DEF CInv, OpenRho, ContextTypeOK, OnlyDims
<1>3. ScopesInv'
  BY BeginKeeps, SameIndex DEF OpenRho, Begin
<1> QED
  BY <1>2, <1>3 DEF CInv

LEMMA PerturbKeeps ==
  ASSUME CInv, NEW d \in Dim, NEW o \in Ordinate, NEW cached \in BOOLEAN,
         Perturb(d, o, cached)
  PROVE  CInv'
<1> DEFINE n == Len(scopes)
           more == IF cached /\ d \notin delta THEN Top.inserted \cup {d} ELSE Top.inserted
           top == [Top EXCEPT !.dims = [Top.dims EXCEPT ![d] = @ + 1], !.inserted = more]
<1>1. /\ ContextOK(k) /\ rho \in Seq(0..MaxIndex) /\ delta \in SUBSET Dim
      /\ instant \in 0..LastInstant /\ OnlyDims(k) /\ d \in Int
  BY ContextTypeIs, ContextAssumption DEF CInv
<1>2. /\ ContextOK(k') /\ StackOf(k', d) = Append(StackOf(k, d), o)
      /\ \A e \in Int : e # d => StackOf(k', e) = StackOf(k, e)
  BY <1>1, PerturbedIs DEF Perturb
<1>3. delta' = (IF cached THEN delta \cup {d} ELSE delta) /\ delta' \in SUBSET Dim
  BY <1>1 DEF Perturb
<1>4. ContextTypeOK'
  BY <1>1, <1>2, <1>3, ContextTypeIs DEF Perturb, ContextTypeOK, ContextOK, Context, TopOf
<1>5. OnlyDims(k)'
  BY <1>1, <1>2 DEF OnlyDims
<1>6. /\ scopes # <<>> /\ Top.kind = "perturb" /\ n \in DOMAIN scopes /\ Top = scopes[n]
      /\ ScopesTyped /\ n \in Nat
  <2>1. scopes \in Seq(ScopeType)
    BY DEF CInv, ScopesInv, ScopesTyped
  <2> QED
    BY <2>1 DEF Perturb, TopIs, Top, ScopesTyped
<1>7. /\ Top \in ScopeType /\ Top.dims \in [Dim -> Nat] /\ Top.inserted \in SUBSET Dim
  BY <1>6, ScopeFields
<1>8. /\ top \in ScopeType /\ top.had = Top.had /\ top.saw = Top.saw /\ top.kind = "perturb"
      /\ top.dims = [Top.dims EXCEPT ![d] = @ + 1] /\ top.inserted = more
  <2>1. /\ [Top.dims EXCEPT ![d] = @ + 1] \in [Dim -> Nat] /\ more \in SUBSET Dim
    BY <1>7
  <2> HIDE DEF more
  <2>2. Top \in ScopeType => top \in ScopeType
    BY <2>1 DEF ScopeType
  <2> QED
    BY <1>6, <1>7, <2>2 DEF ScopeType
<1>9. scopes' = [scopes EXCEPT ![Len(scopes)] = top]
  BY <1>6 DEF Perturb, Top
<1> HIDE DEF top
<1>10. Nested(n) /\ After(n) = StacksNow /\ DeltaAfter(n) = delta
  BY <1>6, NestIs DEF CInv, ScopesInv, After, DeltaAfter
<1>11. ASSUME NEW e \in Dim
       PROVE  /\ top.dims[e] <= Len(StackOf(k', e))
              /\ Below(StackOf(k', e), top.dims[e]) = Top.had[e]
  <2>1. /\ e \in Int /\ StackOf(k, e) \in Seq(Ordinate)
    BY <1>1, LookupIsTop, ContextAssumption
  <2>2. /\ Top.dims[e] <= Len(StackOf(k, e)) /\ Top.dims[e] \in Nat
        /\ Below(StackOf(k, e), Top.dims[e]) = Top.had[e]
    BY <1>6, <1>7, <1>10, UnderIs DEF Nested, StacksNow
  <2>3. CASE e = d
    <3>1. top.dims[e] = Top.dims[e] + 1
      BY <1>7, <1>8, <2>3
    <3> QED
      <4> DEFINE s == StackOf(k, e)
                 m == Top.dims[e]
      <4>1. s \in Seq(Ordinate) /\ m \in Nat /\ m <= Len(s)
        BY <2>1, <2>2
      <4>2. m + 1 <= Len(Append(s, o)) /\ Below(Append(s, o), m + 1) = Below(s, m)
        <5> HIDE DEF s, m
        <5> QED
          BY <4>1, BelowPushed
      <4> QED
        BY <1>2, <2>2, <2>3, <3>1, <4>2
  <2>4. CASE e # d
    <3>1. top.dims[e] = Top.dims[e]
      BY <1>7, <1>8, <2>4
    <3> QED
      BY <1>2, <2>1, <2>2, <2>4, <3>1
  <2> QED
    BY <2>3, <2>4
<1>12. \A e \in Dim : top.dims[e] <= Len(StacksNow'[e])
  BY <1>11 DEF StacksNow
<1>13. Under(StacksNow', top.dims) = top.had
  <2>1. Top.had \in [Dim -> Seq(Ordinate)]
    BY <1>6, ScopeFields
  <2>2. Under(StacksNow', top.dims) = [e \in Dim |-> Below(StackOf(k', e), top.dims[e])]
    BY UnderIs DEF StacksNow
  <2> QED
    BY <1>8, <1>11, <2>1, <2>2
<1>14. delta' \ top.inserted = top.saw.delta
  <2>1. delta \ Top.inserted = Top.saw.delta
    BY <1>6, <1>10 DEF Nested
  <2>2. delta' \ more = delta \ Top.inserted
    <3>1. CASE d \in delta
      BY <1>3, <3>1
    <3>2. CASE d \notin delta
      BY <1>3, <3>2
    <3> QED
      BY <3>1, <3>2
  <2> QED
    BY <1>8, <2>1, <2>2
<1>15. ScopesInv'
  BY <1>6, <1>8, <1>9, <1>12, <1>13, <1>14, InnermostKeeps
<1> QED
  BY <1>4, <1>5, <1>15 DEF CInv

\* The dimensions the innermost scope has perturbed are in the stacks, so that
\* restoring them is defined and finds what was there
LEMMA TopRestores ==
  ASSUME CInv, scopes # <<>>
  PROVE  /\ Len(scopes) \in DOMAIN scopes /\ Top = scopes[Len(scopes)]
         /\ Top.dims \in [Dim -> Nat] /\ Top.had \in [Dim -> Seq(Ordinate)]
         /\ \A d \in Dim : Top.dims[d] <= Len(StackOf(k, d))
         /\ Under(StacksNow, Top.dims) = Top.had
         /\ delta \ Top.inserted = Top.saw.delta
<1>1. Len(scopes) \in DOMAIN scopes /\ ScopesTyped
  <2>1. scopes \in Seq(ScopeType)
    BY DEF CInv, ScopesInv, ScopesTyped
  <2> QED
    BY <2>1 DEF ScopesTyped
<1>2. Nested(Len(scopes)) /\ After(Len(scopes)) = StacksNow /\ DeltaAfter(Len(scopes)) = delta
  BY <1>1, NestIs DEF CInv, ScopesInv, After, DeltaAfter
<1>3. Top.dims \in [Dim -> Nat] /\ Top.had \in [Dim -> Seq(Ordinate)]
  BY <1>1, ScopeFields DEF Top
<1> QED
  BY <1>1, <1>2, <1>3 DEF Nested, Top, StacksNow

LEMMA ClosePerturberKeeps ==
  ASSUME CInv, ClosePerturber
  PROVE  CInv' /\ StacksNow' = Top.had /\ delta' = Top.saw.delta
<1>1. /\ ContextOK(k) /\ rho \in Seq(0..MaxIndex) /\ delta \in SUBSET Dim
      /\ instant \in 0..LastInstant /\ OnlyDims(k) /\ scopes # <<>>
  BY ContextTypeIs DEF CInv, ClosePerturber, TopIs
<1>2. /\ ContextOK(k')
      /\ \A d \in Dim : StackOf(k', d) = Below(StackOf(k, d), Top.dims[d])
      /\ \A d \in Int : d \notin Dim => StackOf(k', d) = StackOf(k, d)
  <2>1. k' = Restored(k, Top.dims)
    BY DEF ClosePerturber
  <2> QED
    BY <1>1, <2>1, TopRestores, RestoredIs
<1>3. ContextTypeOK'
  <2>1. rho' = rho /\ delta' \in SUBSET Dim /\ instant' = instant
    BY <1>1 DEF ClosePerturber
  <2> QED
    BY <1>1, <1>2, <2>1 DEF ContextTypeOK, ContextOK, Context, TopOf
<1>4. OnlyDims(k)'
  BY <1>1, <1>2 DEF OnlyDims
<1>5. StacksNow' = Top.had
  <2>1. StacksNow' = [d \in Dim |-> Below(StacksNow[d], Top.dims[d])]
    BY <1>2 DEF StacksNow
  <2> QED
    BY <1>1, <2>1, TopRestores, UnderIs
<1>6. delta' = Top.saw.delta
  BY <1>1, TopRestores DEF ClosePerturber
<1>7. ScopesInv'
  BY <1>1, <1>5, <1>6, EndKeeps DEF ClosePerturber
<1> QED
  BY <1>3, <1>4, <1>5, <1>6, <1>7 DEF CInv

LEMMA CloseRhoKeeps ==
  ASSUME CInv, CloseRho
  PROVE  CInv' /\ StacksNow' = Top.had /\ delta' = Top.saw.delta
<1>1. scopes # <<>> /\ Top.kind = "rho" /\ StacksNow' = StacksNow /\ delta' = delta
  BY DEF CloseRho, TopIs, StacksNow
<1>2. Top.dims = Never /\ Top.inserted = {}
  BY <1>1, TopRestores DEF CInv, ScopesInv, ManagersBare
<1>3. StacksNow = Top.had /\ delta = Top.saw.delta
  BY <1>1, <1>2, TopRestores, SeenTyped, UnderNothing
<1>4. rho' \in Seq(0..MaxIndex)
  <2>1. rho \in Seq(0..MaxIndex)
    BY DEF CInv, ContextTypeOK
  <2> DEFINE S == 0..MaxIndex
  <2> HIDE DEF S
  <2>2. ASSUME NEW s \in Seq(S)
        PROVE  SubSeq(s, 1, Len(s) - 1) \in Seq(S)
    OBVIOUS
  <2>3. SubSeq(rho, 1, Len(rho) - 1) \in Seq(S)
    BY <2>1, <2>2 DEF S
  <2> QED
    BY <2>3 DEF CloseRho, S
<1>5. ContextTypeOK' /\ OnlyDims(k)'
  BY <1>4 DEF CInv, CloseRho, ContextTypeOK, OnlyDims
<1>6. ScopesInv'
  BY <1>1, <1>3, EndKeeps DEF CloseRho
<1> QED
  BY <1>1, <1>3, <1>5, <1>6 DEF CInv

LEMMA ChangeTopKeeps ==
  ASSUME CInv, NEW index \in 0..MaxIndex, ChangeTop(index)
  PROVE  CInv'
<1> DEFINE j == Innermost(Managers)
<1>1. scopes' = [scopes EXCEPT ![j].index = index] /\ k' = k /\ delta' = delta
  BY DEF ChangeTop
<1>2. scopes \in Seq(ScopeType)
  BY DEF CInv, ScopesInv, ScopesTyped
<1> HIDE DEF j
<1>3. rho' \in Seq(0..MaxIndex)
  <2>1. rho \in Seq(0..MaxIndex)
    BY DEF CInv, ContextTypeOK
  <2> DEFINE S == 0..MaxIndex
  <2> HIDE DEF S
  <2>2. ASSUME NEW s \in Seq(S), NEW i \in S
        PROVE  [s EXCEPT ![Len(s)] = i] \in Seq(S)
    <3>1. /\ Len(s) \in Nat /\ s \in [1..Len(s) -> S]
      OBVIOUS
    <3>2. [s EXCEPT ![Len(s)] = i] \in [1..Len(s) -> S]
      BY <3>1
    <3> QED
      BY <3>1, <3>2
  <2> QED
    BY <2>1, <2>2 DEF ChangeTop, S
<1>4. ContextTypeOK' /\ OnlyDims(k)'
  BY <1>3 DEF CInv, ChangeTop, ContextTypeOK, OnlyDims
<1>5. CASE j \in DOMAIN scopes
  BY <1>1, <1>4, <1>5, IndexKeeps DEF CInv
<1>6. CASE j \notin DOMAIN scopes
  <2>1. scopes' = scopes /\ k' = k /\ delta' = delta
    BY <1>1, <1>2, <1>6
  <2>2. ScopesInv'
    BY <2>1 DEF CInv, ScopesInv, ScopesTyped, ManagersBare, SawWhatItHad,
                      ScopesNest, After, DeltaAfter, StacksNow
  <2> QED
    BY <1>4, <2>2 DEF CInv
<1> QED
  BY <1>5, <1>6

\* A new context has only the time
LEMMA RenewedIs ==
  ASSUME NEW c, ContextOK(c), NEW o \in Ordinate
  PROVE  LET r == Perturbed([EmptyContext EXCEPT !.setDims = c.setDims], TimeDim, o)
         IN  /\ ContextOK(r)
             /\ StackOf(r, TimeDim) = <<o>>
             /\ \A d \in Int : d # TimeDim => StackOf(r, d) = <<>>
<1> DEFINE e == [EmptyContext EXCEPT !.setDims = c.setDims]
<1>1. e.min = -1 /\ e.max = 0 /\ e.cells = <<>> /\ e \in Context
  <2>1. c.setDims \in SUBSET Dim
    BY DEF ContextOK, Context
  <2>2. e = [min |-> -1, max |-> 0, cells |-> <<>>, setDims |-> c.setDims]
    BY DEF EmptyContext
  <2>3. <<>> \in Seq(Cell)
    OBVIOUS
  <2> HIDE DEF e
  <2> QED
    BY <2>1, <2>2, <2>3 DEF Context
<1> HIDE DEF e
<1>2. ContextOK(e)
  BY <1>1 DEF ContextOK
<1>3. \A d \in Int : StackOf(e, d) = <<>>
  BY <1>1 DEF StackOf, InWindow
<1>4. TimeDim \in Dim /\ TimeDim \in Int
  BY ContextAssumption
<1>5. Append(<<>>, o) = <<o>>
  OBVIOUS
<1>6. LET r == Perturbed(e, TimeDim, o)
      IN  /\ ContextOK(r)
          /\ StackOf(r, TimeDim) = Append(StackOf(e, TimeDim), o)
          /\ \A d \in Int : d # TimeDim => StackOf(r, d) = StackOf(e, d)
  BY <1>2, <1>4, PerturbedIs
<1> QED
  BY <1>3, <1>4, <1>5, <1>6 DEF e

LEMMA NextInstantKeeps ==
  ASSUME CInv, NEW o \in Ordinate, NextInstant(o)
  PROVE  CInv'
<1>1. /\ ContextOK(k) /\ rho \in Seq(0..MaxIndex) /\ delta \in SUBSET Dim
      /\ instant \in 0..LastInstant
  BY ContextTypeIs DEF CInv
<1>2. /\ ContextOK(k')
      /\ \A d \in Int : d # TimeDim => StackOf(k', d) = <<>>
  BY <1>1, RenewedIs DEF NextInstant
<1>3. instant' \in 0..LastInstant
  BY <1>1, ContextAssumption DEF NextInstant
<1>4. ContextTypeOK'
  BY <1>1, <1>2, <1>3 DEF NextInstant, ContextTypeOK, ContextOK, Context, TopOf
<1>5. OnlyDims(k)'
  BY <1>2, ContextAssumption DEF OnlyDims
<1>6. ScopesInv'
  <2>1. scopes = <<>> /\ scopes' = <<>>
    BY DEF NextInstant
  <2>2. scopes' \in Seq(ScopeType) /\ \A i \in DOMAIN scopes' : FALSE
    BY <2>1
  <2> QED
    BY <2>2 DEF ScopesInv, ScopesTyped, ManagersBare, SawWhatItHad, ScopesNest
<1> QED
  BY <1>4, <1>5, <1>6 DEF CInv

LEMMA ContextInit == InitContext => CInv
<1> SUFFICES ASSUME InitContext
             PROVE  CInv
  OBVIOUS
<1>1. ContextTypeOK
  <2>1. k \in Context
    BY DEF InitContext, EmptyContext, Context
  <2> QED
    BY <2>1, ContextAssumption DEF InitContext, EmptyContext, ContextTypeOK, Context
<1>2. OnlyDims(k)
  BY DEF InitContext, EmptyContext, OnlyDims, StackOf, InWindow
<1>3. ScopesInv
  <2>1. scopes \in Seq(ScopeType) /\ \A i \in DOMAIN scopes : FALSE
    BY DEF InitContext
  <2> QED
    BY <2>1 DEF ScopesInv, ScopesTyped, ManagersBare, SawWhatItHad, ScopesNest
<1> QED
  BY <1>1, <1>2, <1>3 DEF CInv

LEMMA ContextStep == CInv /\ [NextContext]_contextVars => CInv'
<1> SUFFICES ASSUME CInv, [NextContext]_contextVars
             PROVE  CInv'
  OBVIOUS
<1>1. CASE OpenPerturber
  BY <1>1, OpenPerturberKeeps
<1>2. ASSUME NEW d \in Named, NEW o \in Plain, NEW cached \in BOOLEAN, Perturb(d, o, cached)
      PROVE  CInv'
  BY <1>2, ContextAssumption, PerturbKeeps
<1>3. CASE ClosePerturber
  BY <1>3, ClosePerturberKeeps
<1>4. ASSUME NEW i \in 0..MaxIndex, OpenRho(i)
      PROVE  CInv'
  BY <1>4, OpenRhoKeeps
<1>5. ASSUME NEW i \in 0..MaxIndex, ChangeTop(i)
      PROVE  CInv'
  BY <1>5, ChangeTopKeeps
<1>6. CASE CloseRho
  BY <1>6, CloseRhoKeeps
<1>7. ASSUME NEW o \in Plain, NextInstant(o)
      PROVE  CInv'
  BY <1>7, ContextAssumption, NextInstantKeeps
<1>8. CASE UNCHANGED contextVars
  BY <1>8 DEF contextVars, CInv, ContextTypeOK, OnlyDims, ScopesInv, ScopesTyped,
              ManagersBare, SawWhatItHad, ScopesNest, After, DeltaAfter, StacksNow
<1> QED
  BY <1>1, <1>2, <1>3, <1>4, <1>5, <1>6, <1>7, <1>8 DEF NextContext

LEMMA ContextInvariant == SpecContext => []CInv
BY ContextInit, ContextStep, PTL DEF SpecContext

(***************************************************************************)
(* Theorems                                                                *)
(***************************************************************************)
\* The window of a context always fits its cells, and the ordinate a cell keeps
\* beside its stack is the stack's top, through perturb, restore and reset
THEOREM ContextTyped == SpecContext => []ContextTypeOK
<1>1. CInv => ContextTypeOK
  BY DEF CInv
<1> QED
  BY <1>1, ContextInvariant, PTL

\* What a perturber has to give back is always there under what it and the
\* perturbers in it have pushed, so that their destructors, run in the reverse
\* order, restore the context and the delta
THEOREM ScopesAlwaysNest == SpecContext => []ScopesNest
<1>1. CInv => ScopesNest
  BY DEF CInv, ScopesInv
<1> QED
  BY <1>1, ContextInvariant, PTL

(***************************************************************************)
(* Dynamic scoping                                                         *)
(***************************************************************************)
SawType == [ordinates : Ordinates, delta : SUBSET Dim]
Saved == [i \in DOMAIN scopes |-> scopes[i].saw]

LEMMA SeenIs ==
  ASSUME NEW c, ContextOK(c), NEW del
  PROVE  Seen(c, del) = [ordinates |-> [d \in Dim |-> TopOf(StackOf(c, d))], delta |-> del]
<1>1. \A d \in Dim : Lookup(c, d) = TopOf(StackOf(c, d))
  BY LookupIsTop, ContextAssumption
<1> QED
  BY <1>1 DEF Seen

LEMMA SavedTyped ==
  ASSUME ScopesTyped
  PROVE  /\ Saved \in Seq(SawType) /\ Len(Saved) = Len(scopes) /\ Len(scopes) \in Nat
         /\ DOMAIN Saved = 1..Len(scopes) /\ DOMAIN scopes = 1..Len(scopes)
         /\ \A i \in 1..Len(scopes) : Saved[i] = scopes[i].saw /\ scopes[i].saw \in SawType
<1>1. scopes \in Seq(ScopeType) /\ Len(scopes) \in Nat /\ DOMAIN scopes = 1..Len(scopes)
  BY DEF ScopesTyped
<1>2. \A i \in DOMAIN scopes : scopes[i].saw \in SawType
  BY ScopeFields DEF SawType
<1> DEFINE n == Len(scopes)
<1>3. Saved = [i \in 1..n |-> scopes[i].saw]
  BY <1>1 DEF Saved
<1> HIDE DEF n
<1>4. Saved \in [1..n -> SawType] /\ n \in Nat
  BY <1>1, <1>2, <1>3 DEF n
<1>5. Saved \in Seq(SawType) /\ Len(Saved) = n
  BY <1>4
<1> QED
  BY <1>1, <1>2, <1>3, <1>5 DEF n

LEMMA SameSaved ==
  ASSUME NEW s \in Seq(SawType), NEW t \in Seq(SawType), Len(s) = Len(t),
         \A i \in 1..Len(s) : s[i] = t[i]
  PROVE  s = t
OBVIOUS

LEMMA BeginEnters ==
  ASSUME CInv, CInv', NEW kind \in {"perturb", "rho"}, NEW index,
         scopes' = Append(scopes, Scope(kind, index)), k' = k, delta' = delta
  PROVE  Scoping!Enter
<1>1. ScopesTyped /\ ScopesTyped' /\ scopes \in Seq(ScopeType)
  BY DEF CInv, ScopesInv, ScopesTyped
<1>2. Seen(k, delta) \in SawType /\ Scope(kind, index).saw = Seen(k, delta)
  BY SeenTyped DEF SawType, Scope
<1> DEFINE new == Scope(kind, index)
           n == Len(scopes)
           more == Append(Saved, Seen(k, delta))
<1>3. /\ Saved \in Seq(SawType) /\ Len(Saved) = n /\ n \in Nat
      /\ \A i \in 1..n : Saved[i] = scopes[i].saw
  BY <1>1, SavedTyped
<1> HIDE DEF new
<1>4. /\ Len(scopes') = n + 1 /\ DOMAIN scopes' = 1..(n + 1)
      /\ \A i \in 1..n : scopes'[i] = scopes[i]
      /\ scopes'[n + 1] = new
  BY <1>1 DEF new
<1>5. /\ more \in Seq(SawType) /\ Len(more) = n + 1 /\ DOMAIN more = 1..(n + 1)
      /\ \A i \in 1..n : more[i] = scopes[i].saw
      /\ more[n + 1] = Seen(k, delta)
  BY <1>2, <1>3
<1>6. Saved' = [i \in 1..(n + 1) |-> scopes'[i].saw]
  BY <1>4 DEF Saved
<1>7. \A i \in 1..(n + 1) : more[i] = scopes'[i].saw
  <2>1. ASSUME NEW i \in 1..(n + 1)
        PROVE  i \in 1..n \/ i = n + 1
    BY <1>3
  <2> QED
    BY <1>2, <1>4, <1>5, <2>1 DEF new
<1> HIDE DEF more, n
<1>8. more = [i \in 1..(n + 1) |-> more[i]]
  BY <1>5
<1>9. Saved' = more
  BY <1>6, <1>7, <1>8
<1>10. Saved' = Append(Saved, Seen(k, delta)) /\ Seen(k, delta)' = Seen(k, delta)
  BY <1>9 DEF more, Seen, Lookup, InWindow, CellIndex
<1> QED
  BY <1>10 DEF Scoping!Enter, Saved

LEMMA EndLeaves ==
  ASSUME CInv, CInv', scopes # <<>>, End, StacksNow' = Top.had, delta' = Top.saw.delta
  PROVE  Scoping!Leave
<1> DEFINE n == Len(scopes)
<1>1. /\ ScopesTyped /\ n \in Nat /\ n >= 1 /\ scopes \in Seq(ScopeType)
      /\ DOMAIN scopes = 1..n /\ n \in DOMAIN scopes
  BY DEF CInv, ScopesInv, ScopesTyped
<1>2. /\ Saved \in Seq(SawType) /\ Len(Saved) = n
      /\ \A i \in 1..n : Saved[i] = scopes[i].saw
  BY <1>1, SavedTyped
<1>3. Saved # <<>> /\ Saved[Len(Saved)] = Top.saw
  BY <1>1, <1>2 DEF Top
<1>4. Seen(k, delta)' = Top.saw
  <2>1. ContextOK(k')
    BY DEF CInv, ContextTypeOK, ContextOK, Context, TopOf
  <2>2. Seen(k', delta') =
          [ordinates |-> [d \in Dim |-> TopOf(StackOf(k', d))], delta |-> delta']
    BY <2>1, SeenIs
  <2>3. \A d \in Dim : StackOf(k', d) = Top.had[d]
    BY DEF StacksNow
  <2>4. \A d \in Dim : Top.saw.ordinates[d] = TopOf(Top.had[d])
    BY <1>1 DEF CInv, ScopesInv, SawWhatItHad, Top
  <2>5. Top.saw \in [ordinates : Ordinates, delta : SUBSET Dim]
    BY <1>1, ScopeFields DEF Top
  <2>6. Top.saw = [ordinates |-> [d \in Dim |-> TopOf(Top.had[d])], delta |-> Top.saw.delta]
    BY <2>4, <2>5 DEF Ordinates
  <2>7. [d \in Dim |-> TopOf(StackOf(k', d))] = [d \in Dim |-> TopOf(Top.had[d])]
    BY <2>3
  <2> QED
    BY <2>2, <2>6, <2>7
<1>5. Saved' = SubSeq(Saved, 1, Len(Saved) - 1)
  <2> DEFINE less == SubSeq(Saved, 1, n - 1)
  <2>1. /\ Len(scopes') = n - 1 /\ DOMAIN scopes' = 1..(n - 1)
        /\ \A i \in 1..(n - 1) : scopes'[i] = scopes[i]
    BY <1>1 DEF End
  <2>2. /\ DOMAIN less = 1..(n - 1) /\ less = [i \in 1..(n - 1) |-> less[i]]
        /\ \A i \in 1..(n - 1) : less[i] = Saved[i]
    BY <1>1, <1>2
  <2>3. Saved' = [i \in 1..(n - 1) |-> scopes'[i].saw]
    BY <2>1 DEF Saved
  <2>4. \A i \in 1..(n - 1) : less[i] = scopes'[i].saw
    BY <1>1, <1>2, <2>1, <2>2
  <2>5. Saved' = less
    <3> HIDE DEF less
    <3> QED
      BY <2>2, <2>3, <2>4
  <2> QED
    BY <1>2, <2>5
<1> QED
  BY <1>3, <1>4, <1>5 DEF Scoping!Leave, Saved

\* What a scope saw stays what it was while it lives
LEMMA SavedKept ==
  ASSUME DOMAIN scopes' = DOMAIN scopes,
         \A i \in DOMAIN scopes : scopes'[i].saw = scopes[i].saw
  PROVE  Saved' = Saved
BY DEF Saved

LEMMA PerturbBinds ==
  ASSUME CInv, CInv', NEW d \in Dim, NEW o \in Ordinate, NEW cached \in BOOLEAN,
         Perturb(d, o, cached)
  PROVE  Scoping!Bind(d, o)
<1>1. ContextOK(k) /\ ContextOK(k') /\ d \in Int /\ delta \in SUBSET Dim
  BY ContextAssumption DEF CInv, ContextTypeOK, ContextOK, Context, TopOf
<1>2. /\ StackOf(k', d) = Append(StackOf(k, d), o)
      /\ \A e \in Int : e # d => StackOf(k', e) = StackOf(k, e)
  BY <1>1, PerturbedIs DEF Perturb
<1>3. StackOf(k, d) \in Seq(Ordinate)
  BY <1>1, LookupIsTop
<1>4. TopOf(StackOf(k', d)) = o
  <2> DEFINE s == StackOf(k, d)
  <2> HIDE DEF s
  <2>1. ASSUME s \in Seq(Ordinate)
        PROVE  TopOf(Append(s, o)) = o
    BY <2>1 DEF TopOf
  <2> QED
    BY <1>2, <1>3, <2>1 DEF s
<1>5. Seen(k', delta').ordinates = [Seen(k, delta).ordinates EXCEPT ![d] = o]
  <2>1. Seen(k, delta).ordinates = [e \in Dim |-> TopOf(StackOf(k, e))]
    <3>1. \A e \in Dim : Lookup(k, e) = TopOf(StackOf(k, e))
      BY <1>1, LookupIsTop, ContextAssumption
    <3> QED
      BY <3>1 DEF Seen
  <2>2. Seen(k', delta').ordinates = [e \in Dim |-> TopOf(StackOf(k', e))]
    <3>1. \A e \in Dim : Lookup(k', e) = TopOf(StackOf(k', e))
      BY <1>1, LookupIsTop, ContextAssumption
    <3> QED
      BY <3>1 DEF Seen
  <2>3. \A e \in Dim : e # d => StackOf(k', e) = StackOf(k, e)
    BY <1>2, ContextAssumption
  <2> QED
    BY <1>4, <2>1, <2>2, <2>3
<1>6. Seen(k', delta') = [ordinates |-> Seen(k', delta').ordinates, delta |-> delta']
  BY DEF Seen
<1>7. delta' \in {delta, delta \cup {d}} /\ Seen(k, delta).delta = delta
  BY DEF Perturb, Seen
<1>8. Seen(k, delta)' \in {[ordinates |-> [Seen(k, delta).ordinates EXCEPT ![d] = o], delta |-> del] :
                              del \in {Seen(k, delta).delta, Seen(k, delta).delta \cup {d}}}
  BY <1>5, <1>6, <1>7
<1>9. Saved # <<>> /\ Saved' = Saved
  <2>1. ScopesTyped /\ ScopesTyped' /\ scopes # <<>>
    BY DEF CInv, ScopesInv, Perturb, TopIs
  <2>2. Len(Saved) = Len(scopes) /\ Saved \in Seq(SawType) /\ Len(scopes) \in Nat
    BY <2>1, SavedTyped
  <2>3. Len(scopes) # 0
    BY <2>1 DEF ScopesTyped
  <2>4. /\ DOMAIN scopes' = DOMAIN scopes
        /\ \A i \in DOMAIN scopes : scopes'[i].saw = scopes[i].saw
    <3>1. scopes \in Seq(ScopeType)
      BY <2>1 DEF ScopesTyped
    <3> QED
      BY <3>1 DEF Perturb, ScopeType
  <2> QED
    BY <2>2, <2>3, <2>4, SavedKept
<1> QED
  BY <1>8, <1>9 DEF Scoping!Bind, Saved

LEMMA NextInstantRenews ==
  ASSUME CInv, NEW o \in Ordinate, NextInstant(o)
  PROVE  Scoping!Renew(o)
<1>1. ContextOK(k) /\ TimeDim \in Dim
  BY ContextTypeIs, ContextAssumption DEF CInv
<1>2. /\ ContextOK(k') /\ StackOf(k', TimeDim) = <<o>>
      /\ \A d \in Int : d # TimeDim => StackOf(k', d) = <<>>
  BY <1>1, RenewedIs DEF NextInstant
<1>3. \A d \in Dim : TopOf(StackOf(k', d)) = IF d = TimeDim THEN o ELSE All
  <2>1. TopOf(<<o>>) = o /\ TopOf(<<>>) = All
    BY DEF TopOf
  <2> QED
    BY <1>2, <2>1, ContextAssumption
<1>4. [d \in Dim |-> TopOf(StackOf(k', d))] = [Scoping!Unset EXCEPT ![TimeDim] = o]
  BY <1>1, <1>3 DEF Scoping!Unset
<1>5. Seen(k', delta') = [ordinates |-> [Scoping!Unset EXCEPT ![TimeDim] = o], delta |-> delta]
  <2>1. delta' = delta
    BY DEF NextInstant
  <2> QED
    BY <1>2, <1>4, <2>1, SeenIs
<1>6. Seen(k, delta)' = [Seen(k, delta) EXCEPT !.ordinates = [Scoping!Unset EXCEPT ![TimeDim] = o]]
  <2> DEFINE fresh == [Scoping!Unset EXCEPT ![TimeDim] = o]
  <2> HIDE DEF fresh
  <2>1. ASSUME NEW was
        PROVE  LET seen == [ordinates |-> was, delta |-> delta]
               IN  [seen EXCEPT !.ordinates = fresh] = [ordinates |-> fresh, delta |-> delta]
    OBVIOUS
  <2> QED
    BY <1>5, <2>1 DEF fresh, Seen
<1>7. Saved = <<>> /\ Saved' = Saved
  <2>1. scopes = <<>> /\ scopes' = <<>>
    BY DEF NextInstant
  <2> QED
    BY <2>1 DEF Saved
<1> QED
  BY <1>6, <1>7 DEF Scoping!Renew, Saved

LEMMA ChangeTopStutters ==
  ASSUME CInv, NEW index \in 0..MaxIndex, ChangeTop(index)
  PROVE  UNCHANGED Scoping!bindingVars
<1> DEFINE j == Innermost(Managers)
<1>1. scopes' = [scopes EXCEPT ![j].index = index] /\ k' = k /\ delta' = delta
  BY DEF ChangeTop
<1>2. scopes \in Seq(ScopeType)
  BY DEF CInv, ScopesInv, ScopesTyped
<1> HIDE DEF j
<1>3. /\ DOMAIN scopes' = DOMAIN scopes
      /\ \A i \in DOMAIN scopes : scopes'[i].saw = scopes[i].saw
  BY <1>1, <1>2 DEF ScopeType
<1>4. Saved' = Saved /\ Seen(k, delta)' = Seen(k, delta)
  BY <1>1, <1>3, SavedKept
<1> QED
  BY <1>4 DEF Scoping!bindingVars, Saved

LEMMA ScopingInit == InitContext => Scoping!Init
<1> SUFFICES ASSUME InitContext
             PROVE  Scoping!Init
  OBVIOUS
<1>1. Seen(k, delta) = [ordinates |-> Scoping!Unset, delta |-> {}]
  <2>1. \A d \in Int : Lookup(k, d) = All
    BY DEF InitContext, EmptyContext, Lookup, InWindow
  <2> QED
    BY <2>1, ContextAssumption DEF Seen, Scoping!Unset, InitContext
<1>2. Saved = <<>>
  BY DEF InitContext, Saved
<1> QED
  BY <1>1, <1>2 DEF Scoping!Init, Saved

LEMMA ScopingStep ==
  CInv /\ CInv' /\ [NextContext]_contextVars => [Scoping!Next]_(Scoping!bindingVars)
<1> SUFFICES ASSUME CInv, CInv', [NextContext]_contextVars
             PROVE  Scoping!Next \/ UNCHANGED Scoping!bindingVars
  BY DEF Scoping!bindingVars
<1>1. CASE OpenPerturber
  <2>1. Scoping!Enter
    BY <1>1, BeginEnters DEF OpenPerturber, Begin
  <2> QED
    BY <2>1 DEF Scoping!Next
<1>2. ASSUME NEW d \in Named, NEW o \in Plain, NEW cached \in BOOLEAN, Perturb(d, o, cached)
      PROVE  Scoping!Next
  <2>1. d \in Dim /\ o \in Ordinate
    BY ContextAssumption
  <2>2. Scoping!Bind(d, o)
    BY <1>2, <2>1, PerturbBinds
  <2> QED
    BY <2>1, <2>2 DEF Scoping!Next
<1>3. CASE ClosePerturber
  <2>1. scopes # <<>> /\ End /\ StacksNow' = Top.had /\ delta' = Top.saw.delta
    BY <1>3, ClosePerturberKeeps DEF ClosePerturber, TopIs
  <2>2. Scoping!Leave
    BY <2>1, EndLeaves
  <2> QED
    BY <2>2 DEF Scoping!Next
<1>4. ASSUME NEW i \in 0..MaxIndex, OpenRho(i)
      PROVE  Scoping!Next
  <2>1. Scoping!Enter
    BY <1>4, BeginEnters DEF OpenRho, Begin
  <2> QED
    BY <2>1 DEF Scoping!Next
<1>5. ASSUME NEW i \in 0..MaxIndex, ChangeTop(i)
      PROVE  UNCHANGED Scoping!bindingVars
  BY <1>5, ChangeTopStutters
<1>6. CASE CloseRho
  <2>1. scopes # <<>> /\ End /\ StacksNow' = Top.had /\ delta' = Top.saw.delta
    BY <1>6, CloseRhoKeeps DEF CloseRho, TopIs
  <2>2. Scoping!Leave
    BY <2>1, EndLeaves
  <2> QED
    BY <2>2 DEF Scoping!Next
<1>7. ASSUME NEW o \in Plain, NextInstant(o)
      PROVE  Scoping!Next
  <2>1. o \in Ordinate
    BY ContextAssumption
  <2>2. Scoping!Renew(o)
    BY <1>7, <2>1, NextInstantRenews
  <2> QED
    BY <2>1, <2>2 DEF Scoping!Next
<1>8. CASE UNCHANGED contextVars
  BY <1>8 DEF contextVars, Scoping!bindingVars
<1> QED
  BY <1>1, <1>2, <1>3, <1>4, <1>5, <1>6, <1>7, <1>8 DEF NextContext

\* Perturbers give dynamic scoping: between a constructor and its destructor
\* each perturb binds one dimension, and the destructor brings back the
\* ordinates and the delta an evaluation saw before, whatever was perturbed in
\* between; rho and the window are not seen
THEOREM PerturbersScope == SpecContext => ImplementsScoping
<1>1. SpecContext => []CInv
  BY ContextInvariant
<1> QED
  BY <1>1, ScopingInit, ScopingStep, PTL DEF SpecContext, ImplementsScoping, Scoping!Spec

LEMMA OthersAreContexts ==
  ASSUME NEW other \in Others
  PROVE  ContextOK(other) /\ OnlyDims(other)
<1>1. PICK d \in Named \cup {TimeDim}, e \in Named, o \in Plain :
        other = Perturbed(Perturbed(EmptyContext, d, o), e, o)
  BY DEF Others
<1>2. d \in Dim /\ e \in Dim /\ o \in Ordinate
  BY ContextAssumption
<1>3. ContextOK(EmptyContext) /\ \A x \in Int : StackOf(EmptyContext, x) = <<>>
  <2>1. EmptyContext \in Context
    BY DEF EmptyContext, Context
  <2> QED
    BY <2>1 DEF EmptyContext, ContextOK, StackOf, InWindow
<1> DEFINE c == Perturbed(EmptyContext, d, o)
<1>4. ContextOK(c) /\ \A x \in Int : x # d => StackOf(c, x) = <<>>
  BY <1>2, <1>3, PerturbedIs
<1> HIDE DEF c
<1>5. /\ ContextOK(Perturbed(c, e, o))
      /\ \A x \in Int : x # e => StackOf(Perturbed(c, e, o), x) = StackOf(c, x)
  BY <1>2, <1>4, PerturbedIs
<1>6. OnlyDims(Perturbed(c, e, o))
  BY <1>2, <1>4, <1>5 DEF OnlyDims
<1> QED
  BY <1>1, <1>5, <1>6 DEF c

\* So between the context of any evaluation, perturbed and restored as it may
\* be, and the contexts assignments hold, operator<= decides inclusion both ways
THEOREM InclusionAlwaysDecided == SpecContext => []InclusionDecided
<1>1. CInv => InclusionDecided
  BY ContextTypeIs, OthersAreContexts, InclusionByWindows DEF CInv, InclusionDecided
<1> QED
  BY <1>1, ContextInvariant, PTL
=============================================================================
