--------------------------- MODULE RecursionGroups ---------------------------
(***************************************************************************)
(* The order in which the types of identifiers are inferred: the           *)
(* strongly connected components of what mentions what, found by one       *)
(* depth first search, a component before those that depend on it.         *)
(*                                                                         *)
(* Identifiers are numbers, in the order of their names.  The search is    *)
(* recursive: calls is its C++ stack, a frame for each call with the       *)
(* vertex and the edges its loop has left.                                 *)
(***************************************************************************)
EXTENDS Integers, Sequences, SequencesExt

CONSTANT Mentions   \* programs: the identifiers to infer, and what each mentions

ASSUME MentionsAssumption ==
  \A p \in Mentions :
    /\ DOMAIN p.free \subseteq Nat /\ p.ids \subseteq DOMAIN p.free
    /\ p.free \in [DOMAIN p.free -> SUBSET DOMAIN p.free]

VARIABLES ids,      \* the identifiers inference is asked for
          free,     \* the free variables of each identifier's tree
          round,    \* currentRound
          met,      \* the identifiers freeVariables has, the vertices
          calls,    \* the calls of StrongConnect::operator() in progress
          m_index,  \* m_index, m_nodes and m_S of the StrongConnect
          index, lowlink,
          m_S,
          groups    \* m_result: the groups, in the order their types are inferred

groupsVars == <<ids, free, round, met, calls, m_index, index, lowlink, m_S, groups>>
nodeVars == <<m_index, index, lowlink, m_S, groups>>

Unvisited == -1

InitGroups ==
  /\ \E p \in Mentions : ids = p.ids /\ free = p.free
  /\ round = ids /\ met = {}
  /\ calls = <<>> /\ m_index = 0 /\ m_S = <<>> /\ groups = <<>>
  /\ index = [v \in DOMAIN free |-> Unvisited]
  /\ lowlink = [v \in DOMAIN free |-> Unvisited]

(***************************************************************************)
(* The vertices                                                            *)
(***************************************************************************)
\* One turn of the loop.  The code has some of a round again in the next one,
\* which does nothing: their free variables have been looked at.
FindFree ==
  /\ round # {}
  /\ met' = met \cup round
  /\ round' = (UNION {free[x] : x \in round}) \ met'
  /\ UNCHANGED <<ids, free, calls, nodeVars>>

Least(S) == CHOOSE x \in S : \A y \in S : x <= y

\* The numbers updateIndex gives: the variables one after the other, each
\* before those it mentions
FirstUse(v) == Least({x \in met : v = x \/ v \in free[x]})
Before(v, w) ==
  \/ FirstUse(v) < FirstUse(w)
  \/ FirstUse(v) = FirstUse(w) /\ w # FirstUse(w) /\ (v = FirstUse(v) \/ v < w)

(***************************************************************************)
(* StrongConnect                                                           *)
(***************************************************************************)
Unseen == {v \in met : index[v] = Unvisited}

\* The call of v begins: its frame goes on those in cs
Begin(cs, v) ==
  /\ calls' = Append(cs, [v |-> v, edges |-> free[v]])
  /\ index' = [index EXCEPT ![v] = m_index]
  /\ lowlink' = [lowlink EXCEPT ![v] = m_index]
  /\ m_index' = m_index + 1
  /\ m_S' = Append(m_S, v)
  /\ UNCHANGED <<ids, free, round, met, groups>>

\* generate_strongly_connected: the next vertex that was not visited
Start ==
  /\ round = {} /\ calls = <<>> /\ Unseen # {}
  /\ Begin(calls, CHOOSE v \in Unseen : \A w \in Unseen : w = v \/ Before(v, w))

Running == calls # <<>>
Frame == Last(calls)

\* v is lowered to the lowlink of w
LoweredTo(v, w) ==
  [lowlink EXCEPT ![v] = IF lowlink[w] < @ THEN lowlink[w] ELSE @]

\* The loop takes its next edge, to w
TakeEdge(w) ==
  /\ Running /\ Frame.edges # {} /\ w = Least(Frame.edges)
Rest(w) == [Frame EXCEPT !.edges = @ \ {w}]

VisitNew(w) ==
  /\ TakeEdge(w) /\ index[w] = Unvisited
  /\ Begin(Append(Front(calls), Rest(w)), w)

Looked(w) == calls' = Append(Front(calls), Rest(w))

VisitOnStack(w) ==
  /\ TakeEdge(w) /\ index[w] # Unvisited /\ Contains(m_S, w)
  /\ Looked(w) /\ lowlink' = LoweredTo(Frame.v, w)
  /\ UNCHANGED <<ids, free, round, met, m_index, index, m_S, groups>>

VisitDone(w) ==
  /\ TakeEdge(w) /\ index[w] # Unvisited /\ ~Contains(m_S, w)
  /\ Looked(w)
  /\ UNCHANGED <<ids, free, round, met, nodeVars>>

PlaceOf(v) == CHOOSE i \in DOMAIN m_S : m_S[i] = v
\* Mutant: the root of a component stays on the stack
PopKeepingRoot(v) ==
  /\ groups' = Append(groups, ToSet(SubSeq(m_S, PlaceOf(v), Len(m_S))))
  /\ m_S' = SubSeq(m_S, 1, PlaceOf(v))

\* The vertices above v on the stack, and v, are a component
PopTo(v) ==
  /\ groups' = Append(groups, ToSet(SubSeq(m_S, PlaceOf(v), Len(m_S))))
  /\ m_S' = SubSeq(m_S, 1, PlaceOf(v) - 1)

\* The call of v returns, to the loop of the call below it if there is one
Return(v) ==
  /\ calls' = Front(calls)
  /\ lowlink' = IF Len(calls) = 1 THEN lowlink ELSE LoweredTo(calls[Len(calls) - 1].v, v)
  /\ UNCHANGED <<ids, free, round, met, m_index, index>>

FinishRoot(v) ==
  /\ Running /\ Frame.edges = {} /\ v = Frame.v
  /\ lowlink[v] = index[v] /\ PopTo(v) /\ Return(v)

FinishOther(v) ==
  /\ Running /\ Frame.edges = {} /\ v = Frame.v
  /\ lowlink[v] # index[v] /\ UNCHANGED <<m_S, groups>> /\ Return(v)

NextGroups ==
  \/ FindFree \/ Start
  \/ \E w \in met : VisitNew(w) \/ VisitOnStack(w) \/ VisitDone(w)
  \/ \E v \in met : FinishRoot(v) \/ FinishOther(v)

SpecGroups == InitGroups /\ [][NextGroups]_groupsVars

(***************************************************************************)
(* The reference: reachability                                             *)
(***************************************************************************)
\* A set that has with each identifier those it mentions
Closed(S) == \A x \in S : free[x] \subseteq S
\* What the identifiers of S depend on, themselves included
Reach(S) ==
  {y \in DOMAIN free : \A T \in SUBSET DOMAIN free : S \subseteq T /\ Closed(T) => y \in T}
DependsOn(x, y) == y \in Reach({x})

AllGrouped == round = {} /\ calls = <<>> /\ Unseen = {}
GroupOf(x) == CHOOSE i \in DOMAIN groups : x \in groups[i]

\* Every identifier that inference can meet is in one group, with those that
\* it depends on and that depend on it, and what it depends on otherwise is in
\* an earlier group: an identifier's type is known before it is used, or the
\* two are inferred together.  infer_system relies on it, generate_recurse_groups
\* and StrongConnect give it.
GroupsInOrder ==
  AllGrouped =>
    /\ UNION ToSet(groups) = Reach(ids)
    /\ \A i, j \in DOMAIN groups : i # j => groups[i] \cap groups[j] = {}
    /\ \A x \in Reach(ids) : \A y \in Reach({x}) :
         /\ GroupOf(y) = GroupOf(x) <=> x \in Reach({y})
         /\ GroupOf(y) <= GroupOf(x)
=============================================================================
