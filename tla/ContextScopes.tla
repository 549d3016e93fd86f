--------------------------- MODULE ContextScopes ---------------------------
(***************************************************************************)
(* The context of an evaluation (tl/context.hpp, libs/context.cpp): one    *)
(* stack of ordinates per dimension, in a window of dimensions that grows  *)
(* at both ends, perturbed and restored by objects on the C++ stack.  A    *)
(* scope is such an object: a ContextPerturber, together with the          *)
(* DeltaPerturber a cached workshop declares next to it, or a RhoManager.  *)
(* Scopes end in the reverse order of their beginning, also when an        *)
(* exception unwinds them.                                                 *)
(***************************************************************************)
EXTENDS Integers, Sequences

CONSTANTS Dim,         \* dimension indices, negative as a rule
          TimeDim,     \* DIM_TIME
          Named,       \* those a program perturbs
          Ordinate,    \* what dimensions are set to
          Plain,       \* those of a program
          All,         \* the special a dimension has when it is not set
          MaxScopes,   \* bound: scopes alive at once
          MaxPerturb,  \* bound: perturbations of one perturber
          MaxIndex,    \* bound: positions a workshop numbers for rho
          LastInstant  \* bound: instants

ASSUME ContextAssumption ==
  /\ Dim \subseteq Int
  /\ Named \subseteq Dim /\ TimeDim \in Dim
  /\ Plain \subseteq Ordinate
  /\ All \notin Ordinate
  /\ MaxScopes \in Nat /\ MaxPerturb \in Nat /\ MaxIndex \in Nat
  /\ LastInstant \in Nat

VARIABLES k,        \* the Context: min, max, cells, setDims
          rho,      \* its m_rho
          delta,    \* the Delta passed along with it
          scopes,   \* the scopes alive, innermost last
          instant

contextVars == <<k, rho, delta, scopes, instant>>

Cell == [first : Ordinate \cup {All}, stack : Seq(Ordinate)]

EmptyCell == [first |-> All, stack |-> <<>>]
EmptyContext == [min |-> -1, max |-> 0, cells |-> <<>>, setDims |-> {}]

(***************************************************************************)
(* Context                                                                 *)
(***************************************************************************)
InWindow(c, d) == c.min < d /\ d < c.max

\* makeIndex, from one
CellIndex(c, d) == d - c.min

Lookup(c, d) == IF InWindow(c, d) THEN c.cells[CellIndex(c, d)].first ELSE All

StackOf(c, d) == IF InWindow(c, d) THEN c.cells[CellIndex(c, d)].stack ELSE <<>>

HasEntry(c, d) == StackOf(c, d) # <<>>

EmptyCells(n) == [i \in 1..n |-> EmptyCell]

\* The window is widened to hold d: at the back first, else at the front
Grown(c, d) ==
  IF d >= c.max
  THEN [c EXCEPT !.cells = @ \o EmptyCells(d - c.max + 1), !.max = d + 1]
  ELSE IF d <= c.min
  THEN [c EXCEPT !.cells = EmptyCells(c.min - d + 1) \o @, !.min = d - 1]
  ELSE c

Pushed(cell, o) == [first |-> o, stack |-> Append(cell.stack, o)]

\* Context::perturb of one dimension
Perturbed(c, d, o) ==
  LET g == Grown(c, d)
  IN  [g EXCEPT !.cells[CellIndex(g, d)] = Pushed(@, o),
                !.setDims = @ \cup {d}]

\* Mutant: the value stays the one that was on top
PoppedKeepingValue(cell, n) ==
  LET left == Len(cell.stack) - n
  IN  [first |-> cell.first, stack |-> SubSeq(cell.stack, 1, left)]

\* n ordinates off a stack, whose new top becomes the value
Popped(cell, n) ==
  LET left == Len(cell.stack) - n
  IN  [first |-> IF left = 0 THEN All ELSE cell.stack[left],
       stack |-> SubSeq(cell.stack, 1, left)]

\* Context::restore of a list of dimensions, in which d occurs times[d] times
Restored(c, times) ==
  LET here(i) == c.min + i
      cells == [i \in DOMAIN c.cells |->
                  IF here(i) \in Dim /\ times[here(i)] > 0
                  THEN Popped(c.cells[i], times[here(i)]) ELSE c.cells[i]]
      emptied == {d \in Dim : times[d] > 0 /\ Len(StackOf(c, d)) = times[d]}
  IN  [c EXCEPT !.cells = cells, !.setDims = @ \ emptied]

\* Mutant: nothing is looked for below the other's window
LessEqAbove(c, other) ==
  LET last == IF c.max < other.max THEN c.max ELSE other.max
      first == IF c.min < other.min THEN other.min ELSE c.min
  IN  /\ \A d \in first + 1 .. last - 1 :
           HasEntry(c, d) => /\ HasEntry(other, d)
                             /\ Lookup(c, d) = Lookup(other, d)
      /\ \A d \in last .. c.max - 1 : ~HasEntry(c, d)

\* operator<=: a window that sticks out of the other's must be empty there, and
\* what is set in the part they share must be equal
LessEq(c, other) ==
  LET last == IF c.max < other.max THEN c.max ELSE other.max
      first == IF c.min < other.min THEN other.min ELSE c.min
  IN  /\ \A d \in c.min + 1 .. first : ~HasEntry(c, d)
      /\ \A d \in first + 1 .. last - 1 :
           HasEntry(c, d) => /\ HasEntry(other, d)
                             /\ Lookup(c, d) = Lookup(other, d)
      /\ \A d \in last .. c.max - 1 : ~HasEntry(c, d)

(***************************************************************************)
(* Scopes                                                                  *)
(***************************************************************************)
\* What an evaluation can see: the ordinate of every dimension and which
\* dimensions delta has
Seen(c, del) == [ordinates |-> [d \in Dim |-> Lookup(c, d)], delta |-> del]

Never == [d \in Dim |-> 0]

\* "dims" is m_dims, whose order does not matter, as a bag; "inserted" the
\* dimensions DeltaPerturber found missing; "index" what the workshop that owns
\* a RhoManager last set; "saw" and "had" what was seen, and the stacks, when the
\* scope began, kept for the properties only
Scope(kind, index) ==
  [kind |-> kind, dims |-> Never, inserted |-> {}, index |-> index,
   saw |-> Seen(k, delta), had |-> [d \in Dim |-> StackOf(k, d)]]

Top == scopes[Len(scopes)]
TopIs(kind) == scopes # <<>> /\ Top.kind = kind

Begin(kind, index) ==
  /\ Len(scopes) < MaxScopes
  /\ scopes' = Append(scopes, Scope(kind, index))

End == scopes' = SubSeq(scopes, 1, Len(scopes) - 1)

(***************************************************************************)
(* Actions                                                                 *)
(***************************************************************************)
\* The constructors of ContextPerturber and DeltaPerturber
OpenPerturber ==
  /\ Begin("perturb", 0)
  /\ UNCHANGED <<k, rho, delta, instant>>

\* Mutant: a dimension perturbed twice is restored once
PerturbOnce(d, o, cached) ==
  /\ TopIs("perturb")
  /\ Len(StackOf(k, d)) < MaxPerturb
  /\ k' = Perturbed(k, d, o)
  /\ delta' = IF cached THEN delta \cup {d} ELSE delta
  /\ scopes' = [scopes EXCEPT ![Len(scopes)].dims[d] = 1,
                              ![Len(scopes)].inserted =
                                 IF cached /\ d \notin delta THEN @ \cup {d} ELSE @]
  /\ UNCHANGED <<rho, instant>>

\* ContextPerturber::perturb of one dimension, beside DeltaPerturber::perturb
\* in a cached workshop.  The other forms of perturb are this one in a loop.
Perturb(d, o, cached) ==
  /\ TopIs("perturb")
  /\ Len(StackOf(k, d)) < MaxPerturb
  /\ k' = Perturbed(k, d, o)
  /\ delta' = IF cached THEN delta \cup {d} ELSE delta
  /\ scopes' = [scopes EXCEPT ![Len(scopes)].dims[d] = @ + 1,
                              ![Len(scopes)].inserted =
                                 IF cached /\ d \notin delta THEN @ \cup {d} ELSE @]
  /\ UNCHANGED <<rho, instant>>

\* Mutant: delta loses every dimension of the scope, also those it had before
ClosePerturberAll ==
  /\ TopIs("perturb")
  /\ k' = Restored(k, Top.dims)
  /\ delta' = delta \ {d \in Dim : Top.dims[d] > 0}
  /\ End
  /\ UNCHANGED <<rho, instant>>

\* Their destructors
ClosePerturber ==
  /\ TopIs("perturb")
  /\ k' = Restored(k, Top.dims)
  /\ delta' = delta \ Top.inserted
  /\ End
  /\ UNCHANGED <<rho, instant>>

\* RhoManager, with the start its workshop gives
OpenRho(start) ==
  /\ Begin("rho", start)
  /\ rho' = <<start>> \o rho
  /\ UNCHANGED <<k, delta, instant>>

Managers == {j \in DOMAIN scopes : scopes[j].kind = "rho"}
Innermost(js) == CHOOSE j \in js : \A i \in js : i <= j

\* RhoManager::changeTop, by the workshop that runs
ChangeTop(index) ==
  /\ Managers # {}
  /\ rho' = [rho EXCEPT ![Len(rho)] = index]
  /\ scopes' = [scopes EXCEPT ![Innermost(Managers)].index = index]
  /\ UNCHANGED <<k, delta, instant>>

CloseRho ==
  /\ TopIs("rho")
  /\ rho' = SubSeq(rho, 1, Len(rho) - 1)
  /\ End
  /\ UNCHANGED <<k, delta, instant>>

\* System::setDefaultContext: reset, which leaves m_setDims and m_rho as they
\* are, and the time of the new instant
NextInstant(o) ==
  /\ scopes = <<>>
  /\ instant < LastInstant
  /\ instant' = instant + 1
  /\ k' = Perturbed([EmptyContext EXCEPT !.setDims = k.setDims], TimeDim, o)
  /\ UNCHANGED <<rho, delta, scopes>>

InitContext ==
  /\ k = EmptyContext
  /\ rho = <<>>
  /\ delta = {}
  /\ scopes = <<>>
  /\ instant = 0

NextContext ==
  \/ OpenPerturber
  \/ \E d \in Named, o \in Plain, cached \in BOOLEAN : Perturb(d, o, cached)
  \/ ClosePerturber
  \/ \E i \in 0..MaxIndex : OpenRho(i)
  \/ \E i \in 0..MaxIndex : ChangeTop(i)
  \/ CloseRho
  \/ \E o \in Plain : NextInstant(o)

SpecContext == InitContext /\ [][NextContext]_contextVars

(***************************************************************************)
(* Properties                                                              *)
(***************************************************************************)
\* Types; the window fits the cells, and the cached first ordinate of a cell
\* is the top of its stack, or the special if the stack is empty.
ContextTypeOK ==
  /\ k \in [min : Int, max : Int, cells : Seq(Cell), setDims : SUBSET Dim]
  /\ k.min < 0 /\ k.max >= 0
  /\ Len(k.cells) = k.max - k.min - 1
  /\ \A i \in DOMAIN k.cells :
       LET cell == k.cells[i]
       IN  cell.first = IF cell.stack = <<>> THEN All ELSE cell.stack[Len(cell.stack)]
  /\ rho \in Seq(0..MaxIndex)
  /\ delta \in SUBSET Dim
  /\ instant \in 0..LastInstant

\* operator<= by windows is inclusion: whatever is set here is set to the same
\* in the other context
LessEqMeans(c, other) ==
  LessEq(c, other) <=>
    \A d \in Dim : HasEntry(c, d) =>
      HasEntry(other, d) /\ Lookup(c, d) = Lookup(other, d)

\* Contexts to compare with, such as assignments hold
Others ==
  {Perturbed(Perturbed(EmptyContext, d, o), e, o) :
     d \in Named \cup {TimeDim}, e \in Named, o \in Plain}

\* operator<= decides inclusion, in both directions, between the context of an
\* evaluation, whatever window its perturbations have left, and another
InclusionDecided ==
  \A other \in Others : LessEqMeans(k, other) /\ LessEqMeans(other, k)

\* What a scope must give back: the stacks it found, under what it and the
\* scopes in it have pushed
Under(stacks, times) ==
  [d \in Dim |-> SubSeq(stacks[d], 1, Len(stacks[d]) - times[d])]

\* Every perturbation alive belongs to one scope: taking away what the scopes
\* pushed, from the innermost out, finds the stacks and the delta each began
\* with, so that destructors in any unwinding give back what was there.
StacksNow == [d \in Dim |-> StackOf(k, d)]
After(i) == IF i = Len(scopes) THEN StacksNow ELSE scopes[i + 1].had
DeltaAfter(i) == IF i = Len(scopes) THEN delta ELSE scopes[i + 1].saw.delta

ScopesNest ==
  \A i \in DOMAIN scopes :
    /\ \A d \in Dim : scopes[i].dims[d] <= Len(After(i)[d])
    /\ Under(After(i), scopes[i].dims) = scopes[i].had
    /\ DeltaAfter(i) \ scopes[i].inserted = scopes[i].saw.delta

\* The abstract specification: names are bound and rebound, and leaving a
\* scope brings back what was seen on entering it, whatever was bound inside.
Scoping == INSTANCE ScopedBindings WITH
  seen <- Seen(k, delta),
  saved <- [i \in DOMAIN scopes |-> scopes[i].saw]

ImplementsScoping == Scoping!Spec
=============================================================================
