------------------------ MODULE RecursionGroupsProofs ------------------------
(***************************************************************************)
(* The groups of identifiers that StrongConnect finds are the strongly     *)
(* connected components of what mentions what, each before those that      *)
(* depend on it, for any program.                                          *)
(*                                                                         *)
(* The invariant has what is known of the vertices at every step of the    *)
(* depth first search: those that are in groups, whose edges lead to       *)
(* earlier groups only; those on the stack, in the order of their index;   *)
(* and among these the ones whose calls are in progress, which the others  *)
(* above them on the stack can be reached from.                            *)
(***************************************************************************)
EXTENDS RecursionGroups, TLAPS, WellFoundedInduction

Identifier == DOMAIN free

LEMMA LeastIn ==
  ASSUME NEW S \in SUBSET Nat, S # {}
  PROVE  Least(S) \in S /\ \A y \in S : Least(S) <= y
<1>1. PICK n \in S : \A m \in S : ~(<<m, n>> \in OpToRel(<, Nat))
  BY NatLessThanWellFounded, WFMin, Zenon
<1>2. \A m \in S : ~(m < n)
  BY <1>1 DEF OpToRel
<1>3. \A m \in S : n <= m
  BY <1>2
<1> QED
  BY <1>3 DEF Least

(***************************************************************************)
(* Reachability                                                            *)
(***************************************************************************)
IsGraph == free \in [Identifier -> SUBSET Identifier]

LEMMA DependsOnItself ==
  ASSUME NEW x \in Identifier
  PROVE  DependsOn(x, x)
BY DEF DependsOn, Reach, Identifier

LEMMA DependsOnMentioned ==
  ASSUME IsGraph, NEW x \in Identifier, NEW y \in free[x]
  PROVE  DependsOn(x, y)
BY DEF DependsOn, Reach, Closed, IsGraph, Identifier

LEMMA DependsOnward ==
  ASSUME IsGraph, NEW x, NEW y, NEW z, DependsOn(x, y), DependsOn(y, z)
  PROVE  DependsOn(x, z)
BY DEF DependsOn, Reach

LEMMA DependsInside ==
  ASSUME NEW S \in SUBSET Identifier, Closed(S), NEW x \in S, NEW y, DependsOn(x, y)
  PROVE  y \in S
BY DEF DependsOn, Reach, Identifier

LEMMA ReachStays ==
  ASSUME free' = free, ids' = ids
  PROVE  /\ \A x, y : DependsOn(x, y)' <=> DependsOn(x, y)
         /\ Reach(ids)' = Reach(ids)
BY DEF DependsOn, Reach, Closed

(***************************************************************************)
(* The invariant                                                           *)
(***************************************************************************)
OnStack == ToSet(m_S)
InGroups == UNION ToSet(groups)
Visited(x) == index[x] # Unvisited
Computing == {calls[i].v : i \in DOMAIN calls}

Call == [v : Identifier, edges : SUBSET Identifier]

GroupsTyped ==
  /\ IsGraph /\ Identifier \subseteq Nat
  /\ ids \subseteq Identifier /\ round \subseteq Identifier /\ met \subseteq Identifier
  /\ calls \in Seq(Call) /\ m_index \in Nat
  /\ index \in [Identifier -> Int] /\ lowlink \in [Identifier -> Int]
  /\ m_S \in Seq(Identifier) /\ groups \in Seq(SUBSET Identifier)

\* What has been met, and what it mentions, is all that will be
RoundsKept ==
  /\ ids \subseteq met \cup round
  /\ \A x \in met : free[x] \subseteq met \cup round
  /\ met \cup round \subseteq Reach(ids)
  /\ round # {} =>
       /\ calls = <<>> /\ m_S = <<>> /\ groups = <<>>
       /\ \A x \in Identifier : ~Visited(x)

\* A vertex that was visited is on the stack, in the order of the indices, or
\* in a group
NodesKept ==
  /\ \A x \in Identifier : Visited(x) => x \in met /\ index[x] \in 0..(m_index - 1)
  /\ \A x, y \in Identifier : Visited(x) /\ index[x] = index[y] => x = y
  /\ \A x \in Identifier : Visited(x) <=> x \in OnStack \/ x \in InGroups
  /\ OnStack \cap InGroups = {}
  /\ \A i, j \in DOMAIN m_S : i < j => index[m_S[i]] < index[m_S[j]]

\* The calls are those of vertices on the stack, each made by the one before
CallsKept ==
  /\ \A i \in DOMAIN calls : calls[i].v \in OnStack /\ calls[i].edges \subseteq free[calls[i].v]
  /\ \A i, j \in DOMAIN calls : i < j => index[calls[i].v] < index[calls[j].v]
  /\ \A i, j \in DOMAIN calls : j = i + 1 => calls[j].v \in free[calls[i].v] \ calls[i].edges
  /\ \A x \in OnStack : calls # <<>> /\ index[calls[1].v] <= index[x]

\* What is above the vertex of a call on the stack can be reached from it
ReachKept ==
  \A i \in DOMAIN calls : \A x \in OnStack :
    index[calls[i].v] <= index[x] => DependsOn(calls[i].v, x)

\* x is the vertex of the i-th call, or of calls it made that have returned
UnderCall(i, x) ==
  /\ index[calls[i].v] <= index[x]
  /\ \A j \in DOMAIN calls : j = i + 1 => index[x] < index[calls[j].v]

\* A lowlink is the index of a vertex on the stack that can be reached
LowKept ==
  /\ \A x \in OnStack : lowlink[x] <= index[x]
  /\ \A x \in OnStack : \E u \in OnStack : index[u] = lowlink[x] /\ DependsOn(x, u)
  /\ \A i \in DOMAIN calls : \A x \in OnStack :
       UnderCall(i, x) => lowlink[calls[i].v] <= lowlink[x]
  /\ \A x \in OnStack \ Computing : lowlink[x] < index[x]

\* An edge that was taken leads to a vertex in a group, or to one on the stack
\* that is not below the lowlink; or its call has not returned
Taken(x, y) == Visited(y) /\ (y \in OnStack => lowlink[x] <= index[y])
EdgesKept ==
  /\ \A x \in OnStack \ Computing : \A y \in free[x] : Taken(x, y)
  /\ \A i \in DOMAIN calls : \A y \in free[calls[i].v] \ calls[i].edges :
       \/ Taken(calls[i].v, y)
       \/ \E j \in DOMAIN calls : j = i + 1 /\ y = calls[j].v

\* The groups are components, and their edges lead to groups that are there
UpTo(i) == UNION {groups[j] : j \in 1..i}
GroupsKept ==
  /\ \A i \in DOMAIN groups : \A x, y \in groups[i] : DependsOn(x, y)
  /\ \A i \in DOMAIN groups : \A x \in groups[i] : free[x] \subseteq UpTo(i)
  /\ \A i, j \in DOMAIN groups : i # j => groups[i] \cap groups[j] = {}

GroupsInv ==
  /\ GroupsTyped /\ RoundsKept /\ NodesKept /\ CallsKept
  /\ ReachKept /\ LowKept /\ EdgesKept /\ GroupsKept

(***************************************************************************)
(* The end                                                                 *)
(***************************************************************************)
LEMMA InGroupsIs ==
  ASSUME GroupsTyped
  PROVE  /\ InGroups = {x \in Identifier : \E i \in DOMAIN groups : x \in groups[i]}
         /\ \A i \in DOMAIN groups : UpTo(i) \subseteq Identifier
         /\ \A i \in DOMAIN groups : \A x : x \in UpTo(i) <=>
              \E j \in DOMAIN groups : j <= i /\ x \in groups[j]
<1>1. DOMAIN groups = 1..Len(groups) /\ Len(groups) \in Nat
  BY DEF GroupsTyped
<1>2. \A i \in DOMAIN groups : groups[i] \subseteq Identifier
  BY DEF GroupsTyped
<1> QED
  BY <1>1, <1>2 DEF InGroups, ToSet, UpTo

LEMMA GroupsAtEnd ==
  ASSUME GroupsInv
  PROVE  GroupsInOrder
<1> USE DEF GroupsInv
<1> SUFFICES ASSUME AllGrouped
             PROVE  /\ UNION ToSet(groups) = Reach(ids)
                    /\ \A i, j \in DOMAIN groups : i # j => groups[i] \cap groups[j] = {}
                    /\ \A x \in Reach(ids) : \A y \in Reach({x}) :
                         /\ GroupOf(y) = GroupOf(x) <=> x \in Reach({y})
                         /\ GroupOf(y) <= GroupOf(x)
  BY DEF GroupsInOrder
<1>1. round = {} /\ calls = <<>> /\ \A x \in met : Visited(x)
  BY DEF AllGrouped, Unseen, Visited
<1>2. OnStack = {}
  BY <1>1 DEF CallsKept
<1>3. InGroups = met
  BY <1>1, <1>2, InGroupsIs DEF NodesKept, GroupsTyped
<1>4. met = Reach(ids)
  <2>1. Closed(met) /\ ids \subseteq met /\ met \in SUBSET DOMAIN free
    BY <1>1 DEF RoundsKept, Closed, GroupsTyped, Identifier
  <2>2. Reach(ids) \subseteq met
    BY <2>1 DEF Reach
  <2> QED
    BY <2>2 DEF RoundsKept
<1>5. \A i \in DOMAIN groups : Closed(UpTo(i))
  <2> SUFFICES ASSUME NEW i \in DOMAIN groups, NEW x \in UpTo(i)
               PROVE  free[x] \subseteq UpTo(i)
    BY DEF Closed
  <2>1. PICK j \in DOMAIN groups : j <= i /\ x \in groups[j]
    BY InGroupsIs
  <2>2. free[x] \subseteq UpTo(j)
    BY <2>1 DEF GroupsKept
  <2>3. \A k \in DOMAIN groups : k <= j => k <= i
    BY <2>1 DEF GroupsTyped
  <2> QED
    BY <2>2, <2>3, InGroupsIs
<1>6. \A x, i : i \in DOMAIN groups /\ x \in groups[i] => GroupOf(x) = i
  BY DEF GroupOf, GroupsKept
<1>7. ASSUME NEW x \in met, NEW y, DependsOn(x, y)
      PROVE  y \in met /\ GroupOf(x) \in Nat /\ GroupOf(y) \in Nat /\ GroupOf(y) <= GroupOf(x)
  <2>1. PICK i \in DOMAIN groups : x \in groups[i]
    BY <1>3, InGroupsIs
  <2>2. i \in Nat /\ x \in UpTo(i) /\ UpTo(i) \in SUBSET Identifier
    <3>1. i \in Nat /\ i <= i
      BY DEF GroupsTyped
    <3> QED
      BY <2>1, <3>1, InGroupsIs
  <2>3. y \in UpTo(i)
    BY <1>5, <1>7, <2>2, DependsInside
  <2>4. PICK j \in DOMAIN groups : j <= i /\ y \in groups[j]
    BY <2>3, InGroupsIs
  <2>5. j \in Nat
    BY DEF GroupsTyped
  <2>6. y \in InGroups
    BY <2>4, InGroupsIs DEF GroupsTyped
  <2> QED
    BY <1>3, <1>6, <2>1, <2>2, <2>4, <2>5, <2>6
<1>8. ASSUME NEW x \in met, NEW y \in met, GroupOf(x) = GroupOf(y)
      PROVE  DependsOn(y, x)
  <2>1. PICK i \in DOMAIN groups : x \in groups[i]
    BY <1>3, InGroupsIs
  <2>2. PICK j \in DOMAIN groups : y \in groups[j]
    BY <1>3, InGroupsIs
  <2>3. i = j
    BY <1>6, <1>8, <2>1, <2>2
  <2> QED
    BY <2>1, <2>2, <2>3 DEF GroupsKept
<1>9. ASSUME NEW x \in Reach(ids), NEW y \in Reach({x})
      PROVE  /\ GroupOf(y) = GroupOf(x) <=> x \in Reach({y})
             /\ GroupOf(y) <= GroupOf(x)
  <2>1. x \in met /\ DependsOn(x, y)
    BY <1>4 DEF DependsOn
  <2>2. y \in met /\ GroupOf(x) \in Nat /\ GroupOf(y) \in Nat /\ GroupOf(y) <= GroupOf(x)
    BY <1>7, <2>1
  <2>3. DependsOn(y, x) => GroupOf(x) <= GroupOf(y)
    BY <1>7, <2>2
  <2>4. GroupOf(x) = GroupOf(y) => DependsOn(y, x)
    BY <1>8, <2>1, <2>2
  <2> QED
    BY <2>2, <2>3, <2>4 DEF DependsOn
<1> QED
  BY <1>3, <1>4, <1>9 DEF GroupsKept, InGroups
(***************************************************************************)
(* The rounds                                                              *)
(***************************************************************************)
LEMMA GroupsStart ==
  ASSUME InitGroups
  PROVE  GroupsInv
<1>1. PICK p \in Mentions : ids = p.ids /\ free = p.free
  BY DEF InitGroups
<1>2. GroupsTyped
  BY <1>1, MentionsAssumption DEF InitGroups, GroupsTyped, IsGraph, Identifier, Unvisited
<1>3. ids \subseteq Reach(ids)
  BY <1>2 DEF Reach, GroupsTyped, Identifier
<1>4. RoundsKept
  BY <1>3 DEF InitGroups, RoundsKept, Visited, Identifier
<1>5. OnStack = {} /\ InGroups = {} /\ Computing = {}
  BY DEF InitGroups, OnStack, InGroups, Computing, ToSet
<1>6. NodesKept
  BY <1>5 DEF InitGroups, NodesKept, Visited, Identifier
<1>7. CallsKept /\ ReachKept /\ LowKept /\ EdgesKept
  BY <1>5 DEF InitGroups, CallsKept, ReachKept, LowKept, EdgesKept
<1>8. GroupsKept
  BY DEF InitGroups, GroupsKept
<1> QED
  BY <1>2, <1>4, <1>6, <1>7, <1>8 DEF GroupsInv

LEMMA FindFreeKeeps ==
  ASSUME GroupsInv, FindFree
  PROVE  GroupsInv'
<1> USE DEF GroupsInv
<1>1. free' = free /\ ids' = ids /\ Identifier' = Identifier /\ IsGraph
  BY DEF FindFree, Identifier, GroupsTyped
<1>2. calls = <<>> /\ m_S = <<>> /\ groups = <<>> /\ \A x \in Identifier : ~Visited(x)
  BY DEF RoundsKept, FindFree
<1>3. calls' = <<>> /\ m_S' = <<>> /\ groups' = <<>> /\ index' = index /\ lowlink' = lowlink
      /\ m_index' = m_index /\ \A x \in Identifier : ~Visited(x)'
  BY <1>1, <1>2 DEF FindFree, nodeVars, Visited
<1>4. GroupsTyped'
  <2>1. met' \subseteq Identifier /\ round' \subseteq Identifier
    BY DEF FindFree, GroupsTyped, IsGraph
  <2> QED
    BY <1>1, <1>2, <1>3, <2>1 DEF GroupsTyped, IsGraph, Call
<1>5. RoundsKept'
  <2>1. \A x \in Reach(ids) : free[x] \subseteq Reach(ids)
    BY <1>1 DEF Reach, Closed, IsGraph, Identifier
  <2>2. met' \cup round' \subseteq Reach(ids)
    BY <2>1 DEF FindFree, RoundsKept
  <2>3. /\ ids' \subseteq met' \cup round'
        /\ \A x \in met' : free'[x] \subseteq met' \cup round'
    <3>1. met' = met \cup round /\ round' = (UNION {free[x] : x \in round}) \ met'
      BY DEF FindFree
    <3>2. \A x \in round : \A y \in free[x] : y \in met' \cup round'
      <4> SUFFICES ASSUME NEW x \in round, NEW y \in free[x], y \notin met'
                   PROVE  y \in round'
        OBVIOUS
      <4> DEFINE U == UNION {free[z] : z \in round}
      <4>1. y \in U
        OBVIOUS
      <4>2. round' = U \ met'
        BY <3>1
      <4> HIDE DEF U
      <4> QED
        BY <4>1, <4>2
    <3>3. \A x \in met : free[x] \subseteq met'
      BY <3>1 DEF RoundsKept
    <3> QED
      BY <1>1, <3>1, <3>2, <3>3 DEF RoundsKept
  <2> QED
    BY <1>1, <1>3, <2>2, <2>3, ReachStays DEF RoundsKept
<1>6. OnStack' = {} /\ InGroups' = {} /\ Computing' = {}
  BY <1>3 DEF OnStack, InGroups, Computing, ToSet
<1>7. NodesKept'
  BY <1>1, <1>3, <1>6 DEF NodesKept
<1>8. CallsKept' /\ ReachKept' /\ LowKept' /\ EdgesKept'
  BY <1>3, <1>6 DEF CallsKept, ReachKept, LowKept, EdgesKept
<1>9. GroupsKept'
  BY <1>3 DEF GroupsKept
<1> QED
  BY <1>4, <1>5, <1>7, <1>8, <1>9
(***************************************************************************)
(* A call begins                                                           *)
(***************************************************************************)
LEMMA Appended ==
  ASSUME NEW S, NEW s \in Seq(S), NEW e \in S
  PROVE  /\ Append(s, e) \in Seq(S) /\ Len(Append(s, e)) = Len(s) + 1
         /\ Append(s, e)[Len(s) + 1] = e
         /\ \A i \in 1..Len(s) : Append(s, e)[i] = s[i]
         /\ DOMAIN Append(s, e) = 1..(Len(s) + 1) /\ DOMAIN s = 1..Len(s) /\ Len(s) \in Nat
         /\ ToSet(Append(s, e)) = ToSet(s) \cup {e}
<1>1. /\ Append(s, e) \in Seq(S) /\ Len(Append(s, e)) = Len(s) + 1
      /\ Append(s, e)[Len(s) + 1] = e
      /\ \A i \in 1..Len(s) : Append(s, e)[i] = s[i]
      /\ DOMAIN Append(s, e) = 1..(Len(s) + 1) /\ DOMAIN s = 1..Len(s) /\ Len(s) \in Nat
  OBVIOUS
<1>2. 1..(Len(s) + 1) = 1..Len(s) \cup {Len(s) + 1}
  BY <1>1
<1>3. ToSet(Append(s, e)) = ToSet(s) \cup {e}
  BY <1>1, <1>2 DEF ToSet
<1> QED
  BY <1>1, <1>3

\* The frames in cs are those of the calls in progress, the last of which has
\* taken its edge to v
Calling(cs, v) ==
  /\ cs \in Seq(Call) /\ Len(cs) = Len(calls)
  /\ \A i \in 1..Len(calls) :
       /\ cs[i].v = calls[i].v /\ cs[i].edges \subseteq calls[i].edges
       /\ \A y \in calls[i].edges \ cs[i].edges : i = Len(calls) /\ y = v
       /\ i = Len(calls) => v \in free[calls[i].v] \ cs[i].edges

LEMMA BeginKeeps ==
  ASSUME GroupsInv, round = {}, NEW v \in met, ~Visited(v), NEW cs, Calling(cs, v), Begin(cs, v)
  PROVE  GroupsInv'
<1> USE DEF GroupsInv
<1> DEFINE n == Len(calls)
           frame == [v |-> v, edges |-> free[v]]
<1>1. /\ free' = free /\ ids' = ids /\ met' = met /\ round' = {} /\ groups' = groups
      /\ Identifier' = Identifier /\ Call' = Call /\ IsGraph /\ v \in Identifier
  BY DEF Begin, Identifier, Call, GroupsTyped
<1>2. /\ calls' \in Seq(Call) /\ n \in Nat /\ DOMAIN calls = 1..n /\ DOMAIN calls' = 1..(n + 1)
      /\ calls'[n + 1] = frame /\ \A i \in 1..n : calls'[i] = cs[i]
      /\ Len(calls') = n + 1 /\ 1..(n + 1) = 1..n \cup {n + 1}
  <2>1. frame \in Call
    BY <1>1 DEF Call, IsGraph
  <2>2. n \in Nat /\ DOMAIN calls = 1..n /\ Len(cs) = n /\ cs \in Seq(Call) /\ calls' = Append(cs, frame)
    BY DEF GroupsTyped, Calling, Begin
  <2> QED
    BY <2>1, <2>2, Appended
<1>3. /\ m_S' \in Seq(Identifier) /\ DOMAIN m_S = 1..Len(m_S) /\ DOMAIN m_S' = 1..(Len(m_S) + 1)
      /\ m_S'[Len(m_S) + 1] = v /\ \A i \in 1..Len(m_S) : m_S'[i] = m_S[i]
      /\ OnStack' = OnStack \cup {v} /\ Len(m_S) \in Nat
  BY <1>1, Appended DEF GroupsTyped, Begin, OnStack
<1>4. /\ index' \in [Identifier -> Int] /\ lowlink' \in [Identifier -> Int]
      /\ index'[v] = m_index /\ lowlink'[v] = m_index /\ m_index \in Nat /\ m_index' = m_index + 1
      /\ \A x \in Identifier \ {v} : index'[x] = index[x] /\ lowlink'[x] = lowlink[x]
  BY <1>1 DEF Begin, GroupsTyped
<1>5. /\ InGroups' = InGroups /\ v \notin OnStack /\ v \notin InGroups
      /\ OnStack \subseteq Identifier /\ InGroups \subseteq Identifier
      /\ \A x \in OnStack : index[x] < m_index
      /\ \A x \in Identifier : Visited(x)' <=> Visited(x) \/ x = v
  <2>1. OnStack \subseteq Identifier
    BY <1>3 DEF OnStack, ToSet, GroupsTyped
  <2>2. InGroups \subseteq Identifier
    BY InGroupsIs
  <2>3. \A x \in Identifier : Visited(x)' <=> Visited(x) \/ x = v
    BY <1>1, <1>4 DEF Visited, Unvisited
  <2>4. InGroups' = InGroups
    BY <1>1 DEF InGroups
  <2>5. v \notin OnStack /\ v \notin InGroups
    BY <1>1 DEF NodesKept
  <2>6. \A x \in OnStack : index[x] < m_index
    BY <1>4, <2>1 DEF NodesKept, GroupsTyped
  <2> QED
    BY <2>1, <2>2, <2>3, <2>4, <2>5, <2>6
<1>6. /\ \A i \in 1..n : calls[i].v \in OnStack /\ calls'[i].v = calls[i].v
      /\ Computing' = Computing \cup {v}
  <2>1. \A i \in 1..n : calls[i].v \in OnStack /\ calls'[i].v = calls[i].v
    BY <1>2 DEF CallsKept, Calling
  <2>2. Computing' = Computing \cup {v}
    BY <1>2, <2>1 DEF Computing
  <2> QED
    BY <2>1, <2>2
<1> HIDE DEF n, frame
<1>7. GroupsTyped'
  BY <1>1, <1>2, <1>3, <1>4 DEF GroupsTyped, IsGraph
<1>8. RoundsKept'
  BY <1>1, ReachStays DEF RoundsKept
<1>9. NodesKept'
  <2>1. \A x \in Identifier : Visited(x)' => x \in met /\ index'[x] \in 0..(m_index' - 1)
    BY <1>1, <1>4, <1>5 DEF NodesKept
  <2>2. \A x, y \in Identifier : Visited(x)' /\ index'[x] = index'[y] => x = y
    <3>1. \A x \in Identifier \ {v} : index'[x] # m_index
      BY <1>4, <1>5 DEF NodesKept, Visited, Unvisited
    <3> QED
      BY <1>1, <1>4, <1>5, <3>1 DEF NodesKept
  <2>3. \A x \in Identifier : Visited(x)' <=> x \in OnStack' \/ x \in InGroups'
    BY <1>1, <1>3, <1>5 DEF NodesKept
  <2>4. OnStack' \cap InGroups' = {}
    BY <1>3, <1>5 DEF NodesKept
  <2>5. \A i, j \in DOMAIN m_S' : i < j => index'[m_S'[i]] < index'[m_S'[j]]
    <3>1. \A i \in 1..Len(m_S) : m_S[i] \in OnStack
      BY <1>3 DEF OnStack, ToSet
    <3>2. \A i \in 1..Len(m_S) : index'[m_S'[i]] = index[m_S[i]] /\ index[m_S[i]] < m_index
      BY <1>3, <1>4, <1>5, <3>1
    <3>3. \A i, j \in 1..Len(m_S) : i < j => index[m_S[i]] < index[m_S[j]]
      BY <1>3 DEF NodesKept
    <3>4. \A i, j \in 1..(Len(m_S) + 1) : i < j =>
            i \in 1..Len(m_S) /\ (j \in 1..Len(m_S) \/ j = Len(m_S) + 1)
      BY <1>3
    <3> SUFFICES ASSUME NEW i \in 1..(Len(m_S) + 1), NEW j \in 1..(Len(m_S) + 1), i < j
                 PROVE  index'[m_S'[i]] < index'[m_S'[j]]
      BY <1>3
    <3>5. i \in 1..Len(m_S) /\ (j \in 1..Len(m_S) \/ j = Len(m_S) + 1)
      BY <3>4
    <3>6. CASE j \in 1..Len(m_S)
      BY <3>2, <3>3, <3>5, <3>6
    <3>7. CASE j = Len(m_S) + 1
      BY <1>3, <1>4, <3>2, <3>5, <3>7
    <3> QED
      BY <3>5, <3>6, <3>7
  <2> QED
    BY <1>1, <2>1, <2>2, <2>3, <2>4, <2>5 DEF NodesKept
<1>10. CallsKept'
  <2>1. \A i \in 1..(n + 1) : calls'[i].v \in OnStack' /\ calls'[i].edges \subseteq free[calls'[i].v]
    <3>1. \A i \in 1..n : cs[i].v = calls[i].v /\ cs[i].edges \subseteq calls[i].edges
      BY DEF Calling, n
    <3>2. \A i \in 1..n : calls[i].edges \subseteq free[calls[i].v]
      BY <1>2 DEF CallsKept
    <3>3. calls'[n + 1].v = v /\ calls'[n + 1].edges = free[v]
      BY <1>2 DEF frame
    <3>4. \A i \in 1..n : calls'[i].v \in OnStack' /\ calls'[i].edges \subseteq free[calls'[i].v]
      BY <1>2, <1>3, <1>6, <3>1, <3>2
    <3> QED
      BY <1>2, <1>3, <3>3, <3>4
  <2>2. \A i, j \in 1..(n + 1) : i < j => index'[calls'[i].v] < index'[calls'[j].v]
    <3>1. \A i \in 1..n : index'[calls'[i].v] = index[calls[i].v] /\ index[calls[i].v] < m_index
      BY <1>4, <1>5, <1>6
    <3>2. calls'[n + 1].v = v
      BY <1>2 DEF frame
    <3>3. \A i, j \in 1..n : i < j => index[calls[i].v] < index[calls[j].v]
      BY <1>2 DEF CallsKept
    <3>4. \A i, j \in 1..(n + 1) : i < j => i \in 1..n /\ (j \in 1..n \/ j = n + 1)
      BY <1>2
    <3> QED
      BY <1>4, <3>1, <3>2, <3>3, <3>4
  <2>3. \A i, j \in 1..(n + 1) : j = i + 1 => calls'[j].v \in free[calls'[i].v] \ calls'[i].edges
    <3>1. calls'[n + 1].v = v
      BY <1>2 DEF frame
    <3>2. n \in 1..n => v \in free[calls[n].v] \ cs[n].edges
      BY DEF Calling, n
    <3>3. \A i \in 1..n : cs[i].edges \subseteq calls[i].edges
      BY DEF Calling, n
    <3>4. ASSUME NEW i \in 1..n, NEW j \in 1..n, j = i + 1
          PROVE  calls'[j].v \in free[calls'[i].v] \ calls'[i].edges
      BY <1>2, <1>6, <3>3, <3>4 DEF CallsKept
    <3>5. n \in 1..n => calls'[n + 1].v \in free[calls'[n].v] \ calls'[n].edges
      BY <1>2, <1>6, <3>1, <3>2
    <3>6. \A i, j \in 1..(n + 1) : j = i + 1 => i \in 1..n /\ (j \in 1..n \/ i = n)
      BY <1>2
    <3> QED
      BY <3>4, <3>5, <3>6
  <2>4. \A x \in OnStack' : calls' # <<>> /\ index'[calls'[1].v] <= index'[x]
    <3>1. calls' # <<>> /\ 1 \in 1..(n + 1)
      BY <1>2
    <3>2. CASE n = 0
      <4>1. OnStack = {} /\ calls'[1].v = v
        BY <1>2, <3>2 DEF CallsKept, n, frame
      <4> QED
        BY <1>3, <1>4, <3>1, <4>1
    <3>3. CASE n # 0
      <4>1. 1 \in 1..n
        BY <1>2, <3>3
      <4>2. calls'[1].v = calls[1].v /\ calls[1].v \in OnStack
        BY <1>6, <4>1
      <4>3. index'[calls'[1].v] = index[calls[1].v] /\ index[calls[1].v] < m_index
        BY <1>4, <1>5, <4>2
      <4>4. \A x \in OnStack : index'[x] = index[x]
        BY <1>4, <1>5
      <4> QED
        <5>1. \A x \in OnStack : index[calls[1].v] <= index[x]
          BY DEF CallsKept
        <5>2. index[calls[1].v] \in Int
          BY <1>5, <4>2 DEF GroupsTyped
        <5>3. index'[calls'[1].v] <= index'[v]
          BY <1>4, <4>3, <5>2
        <5>4. \A x \in OnStack : index'[calls'[1].v] <= index'[x]
          BY <4>3, <4>4, <5>1
        <5> QED
          BY <1>3, <3>1, <5>3, <5>4
    <3> QED
      BY <3>2, <3>3
  <2> QED
    BY <1>1, <1>2, <2>1, <2>2, <2>3, <2>4 DEF CallsKept
<1>11. \A x, y : DependsOn(x, y)' <=> DependsOn(x, y)
  BY <1>1, ReachStays
<1>12. ReachKept'
  <2> SUFFICES ASSUME NEW i \in 1..(n + 1), NEW x \in OnStack', index'[calls'[i].v] <= index'[x]
               PROVE  DependsOn(calls'[i].v, x)
    BY <1>2, <1>11 DEF ReachKept
  <2>1. calls'[n + 1].v = v /\ DependsOn(v, v)
    BY <1>1, <1>2, DependsOnItself DEF frame
  <2>2. CASE i = n + 1
    <3>1. x \in OnStack => index'[x] = index[x] /\ index[x] < m_index /\ index[x] \in Int
      BY <1>4, <1>5 DEF GroupsTyped
    <3>2. index'[v] = m_index /\ m_index \in Int /\ index'[v] <= index'[x]
      BY <1>4, <2>1, <2>2
    <3>3. x = v
      BY <1>3, <3>1, <3>2
    <3> QED
      BY <2>1, <2>2, <3>3
  <2>3. CASE i \in 1..n /\ x = v
    <3>1. n \in 1..n /\ v \in free[calls[n].v] /\ calls[n].v \in OnStack /\ calls'[i].v = calls[i].v
      BY <1>2, <1>6, <2>3 DEF Calling, n
    <3>2. DependsOn(calls[n].v, v)
      BY <1>1, <1>5, <3>1, DependsOnMentioned
    <3>3. index[calls[i].v] <= index[calls[n].v]
      <4>1. i = n \/ i < n
        BY <1>2, <2>3
      <4>2. index[calls[n].v] \in Int
        BY <1>5, <3>1 DEF GroupsTyped
      <4>3. i < n => index[calls[i].v] < index[calls[n].v]
        BY <1>2, <2>3, <3>1 DEF CallsKept
      <4>4. index[calls[i].v] \in Int
        BY <1>5, <1>6, <2>3 DEF GroupsTyped
      <4> QED
        BY <4>1, <4>2, <4>3, <4>4
    <3>4. DependsOn(calls[i].v, calls[n].v)
      BY <1>2, <2>3, <3>1, <3>3 DEF ReachKept
    <3> QED
      BY <1>1, <2>3, <3>1, <3>2, <3>4, DependsOnward
  <2>4. CASE i \in 1..n /\ x # v
    <3>1. x \in OnStack /\ calls'[i].v = calls[i].v /\ calls[i].v \in OnStack
      BY <1>3, <1>6, <2>4
    <3>2. index'[x] = index[x] /\ index'[calls[i].v] = index[calls[i].v]
      BY <1>4, <1>5, <3>1
    <3> QED
      BY <1>2, <2>4, <3>1, <3>2 DEF ReachKept
  <2> QED
    BY <1>2, <2>2, <2>3, <2>4
<1>13. \A x \in OnStack : index'[x] = index[x] /\ lowlink'[x] = lowlink[x]
  BY <1>4, <1>5
<1>14. LowKept'
  <2>1. \A x \in OnStack' : lowlink'[x] <= index'[x]
    BY <1>3, <1>4, <1>13 DEF LowKept
  <2>2. \A x \in OnStack' : \E u \in OnStack' : index'[u] = lowlink'[x] /\ DependsOn(x, u)
    BY <1>1, <1>3, <1>4, <1>13, DependsOnItself DEF LowKept
  <2>3. ASSUME NEW i \in 1..(n + 1), NEW x \in OnStack', UnderCall(i, x)'
        PROVE  lowlink'[calls'[i].v] <= lowlink'[x]
    <3>1. CASE i = n + 1
      <4>1. calls'[i].v = v
        BY <1>2, <3>1 DEF frame
      <4>2. x = v
        <5>1. index'[v] <= index'[x]
          BY <2>3, <4>1 DEF UnderCall
        <5>2. x \in OnStack \cup {v} /\ index'[v] = m_index
          BY <1>3, <1>4
        <5>3. x \in OnStack => index'[x] = index[x] /\ index[x] < m_index /\ index[x] \in Int
          BY <1>5, <1>13 DEF GroupsTyped
        <5>4. m_index \in Int
          BY DEF GroupsTyped
        <5> QED
          BY <5>1, <5>2, <5>3, <5>4
      <4> QED
        BY <1>4, <4>1, <4>2
    <3>2. CASE i \in 1..n
      <4>1. calls'[i].v = calls[i].v /\ calls[i].v \in OnStack
        BY <1>6, <3>2
      <4>2. i + 1 \in 1..(n + 1)
        BY <1>2, <3>2
      <4>3. index'[x] < index'[calls'[i + 1].v]
        BY <1>2, <2>3, <4>2 DEF UnderCall
      <4>4. x # v
        <5>1. CASE i = n
          <6>1. calls'[i + 1].v = v
            BY <1>2, <5>1 DEF frame
          <6> QED
            BY <1>4, <4>3, <6>1
        <5>2. CASE i # n
          <6>1. i + 1 \in 1..n
            BY <1>2, <3>2, <5>2
          <6>2. calls'[i + 1].v \in OnStack
            BY <1>6, <6>1
          <6>3. index'[calls'[i + 1].v] < m_index
            BY <1>5, <1>13, <6>2
          <6>4. index'[calls'[i + 1].v] \in Int
            BY <1>4, <1>5, <6>2
          <6> QED
            BY <1>4, <4>3, <6>3, <6>4
        <5> QED
          BY <5>1, <5>2
      <4>5. x \in OnStack
        BY <1>3, <4>4
      <4>6. UnderCall(i, x)
        <5>1. index[calls[i].v] <= index[x]
          BY <1>13, <2>3, <4>1, <4>5 DEF UnderCall
        <5>2. ASSUME NEW j \in 1..n, j = i + 1
              PROVE  index[x] < index[calls[j].v]
          <6>1. calls'[j].v = calls[j].v /\ calls[j].v \in OnStack
            BY <1>6
          <6> QED
            BY <1>13, <4>3, <4>5, <5>2, <6>1
        <5> QED
          BY <1>2, <5>1, <5>2 DEF UnderCall
      <4>7. lowlink[calls[i].v] <= lowlink[x]
        BY <1>2, <3>2, <4>5, <4>6 DEF LowKept
      <4> QED
        BY <1>13, <4>1, <4>5, <4>7
    <3> QED
      BY <1>2, <3>1, <3>2
  <2>4. \A x \in OnStack' \ Computing' : lowlink'[x] < index'[x]
    BY <1>3, <1>6, <1>13 DEF LowKept
  <2> QED
    BY <1>2, <1>11, <2>1, <2>2, <2>3, <2>4 DEF LowKept
<1>15. \A x \in OnStack, y \in Identifier : Taken(x, y) => Taken(x, y)'
  BY <1>3, <1>5, <1>13 DEF Taken
<1>16. EdgesKept'
  <2>1. \A x \in OnStack : free[x] \subseteq Identifier
    BY <1>1, <1>5 DEF IsGraph
  <2>2. \A x \in OnStack' \ Computing' : \A y \in free[x] : Taken(x, y)'
    BY <1>3, <1>6, <1>15, <2>1 DEF EdgesKept
  <2>3. ASSUME NEW i \in 1..(n + 1), NEW y \in free[calls'[i].v] \ calls'[i].edges
        PROVE  \/ Taken(calls[i].v, y)'
               \/ \E j \in 1..(n + 1) : j = i + 1 /\ y = calls'[j].v
    <3>1. i # n + 1
      BY <1>2 DEF frame
    <3>2. i \in 1..n /\ i + 1 \in 1..(n + 1)
      BY <1>2, <3>1
    <3>3. calls'[i].v = calls[i].v /\ calls'[i] = cs[i] /\ calls[i].v \in OnStack
      BY <1>2, <1>6, <3>2
    <3>4. CASE y \in calls[i].edges
      <4>1. i = n /\ y = v
        BY <3>2, <3>3, <3>4 DEF Calling, n
      <4> QED
        BY <1>2, <3>2, <4>1 DEF frame
    <3>5. CASE y \notin calls[i].edges
      <4>1. y \in free[calls[i].v] \ calls[i].edges /\ y \in Identifier
        BY <2>1, <3>3, <3>5
      <4>2. CASE Taken(calls[i].v, y)
        BY <1>15, <3>3, <4>1, <4>2
      <4>3. CASE \E j \in 1..n : j = i + 1 /\ y = calls[j].v
        BY <1>2, <1>6, <4>3
      <4> QED
        BY <1>2, <3>2, <4>1, <4>2, <4>3 DEF EdgesKept
    <3> QED
      BY <3>4, <3>5
  <2> QED
    BY <1>1, <1>2, <2>2, <2>3 DEF EdgesKept
<1>17. GroupsKept'
  BY <1>1, <1>11 DEF GroupsKept, UpTo
<1> QED
  BY <1>7, <1>8, <1>9, <1>10, <1>12, <1>14, <1>16, <1>17
(***************************************************************************)
(* The loop over the edges of a vertex                                     *)
(***************************************************************************)
LEMMA TopIs ==
  ASSUME GroupsInv, Running
  PROVE  LET n == Len(calls)
         IN  /\ n \in Nat /\ n # 0 /\ n \in 1..n /\ DOMAIN calls = 1..n /\ Frame = calls[n]
             /\ Frame \in Call /\ Frame.v \in OnStack /\ Frame.edges \subseteq free[Frame.v]
             /\ Len(Front(calls)) = n - 1 /\ Front(calls) \in Seq(Call)
             /\ \A i \in 1..(n - 1) : Front(calls)[i] = calls[i]
             /\ round = {}
<1> DEFINE n == Len(calls)
<1>1. n \in Nat /\ n # 0 /\ DOMAIN calls = 1..n /\ calls \in Seq(Call)
  BY DEF GroupsInv, GroupsTyped, Running
<1>2. n \in 1..n /\ Frame = calls[n] /\ Frame \in Call
  BY <1>1 DEF Frame, Last
<1>3. Frame.v \in OnStack /\ Frame.edges \subseteq free[Frame.v]
  BY <1>1, <1>2 DEF GroupsInv, CallsKept
<1>4. /\ Len(Front(calls)) = n - 1 /\ Front(calls) \in Seq(Call)
      /\ \A i \in 1..(n - 1) : Front(calls)[i] = calls[i]
  BY <1>1 DEF Front
<1>5. round = {}
  BY DEF GroupsInv, RoundsKept, Running
<1> QED
  BY <1>1, <1>2, <1>3, <1>4, <1>5

LEMMA EdgeIs ==
  ASSUME GroupsInv, NEW w, TakeEdge(w)
  PROVE  LET n == Len(calls)
             cs == Append(Front(calls), Rest(w))
         IN  /\ w \in Frame.edges /\ w \in met /\ w \in Identifier
             /\ cs \in Seq(Call) /\ Len(cs) = n /\ DOMAIN cs = 1..n
             /\ cs[n] = Rest(w) /\ Rest(w).v = Frame.v /\ Rest(w).edges = Frame.edges \ {w}
             /\ \A i \in 1..(n - 1) : cs[i] = calls[i]
<1> DEFINE n == Len(calls)
           cs == Append(Front(calls), Rest(w))
<1>1. Running
  BY DEF TakeEdge
<1>2. /\ n \in Nat /\ n # 0 /\ Frame \in Call /\ Frame.v \in OnStack
      /\ Frame.edges \subseteq free[Frame.v] /\ round = {}
      /\ Len(Front(calls)) = n - 1 /\ Front(calls) \in Seq(Call)
      /\ \A i \in 1..(n - 1) : Front(calls)[i] = calls[i]
  BY <1>1, TopIs
<1>3. Frame.edges \subseteq Identifier /\ Frame.v \in Identifier
  BY <1>2 DEF Call
<1>4. w \in Frame.edges
  <2>1. Frame.edges \subseteq Nat /\ Frame.edges # {}
    BY <1>3 DEF TakeEdge, GroupsInv, GroupsTyped
  <2> QED
    BY <2>1, LeastIn DEF TakeEdge
<1>5. w \in met
  <2>1. Visited(Frame.v)
    BY <1>2, <1>3 DEF GroupsInv, NodesKept
  <2>2. Frame.v \in met
    BY <1>3, <2>1 DEF GroupsInv, NodesKept
  <2> QED
    BY <1>2, <1>4, <2>2 DEF GroupsInv, RoundsKept
<1>6. Rest(w) \in Call /\ Rest(w).v = Frame.v /\ Rest(w).edges = Frame.edges \ {w}
  BY <1>2 DEF Rest, Call
<1>7. /\ cs \in Seq(Call) /\ Len(cs) = n /\ DOMAIN cs = 1..n /\ cs[n] = Rest(w)
      /\ \A i \in 1..(n - 1) : cs[i] = calls[i]
  <2>1. (n - 1) + 1 = n
    BY <1>2
  <2> HIDE DEF n
  <2> QED
    BY <1>2, <1>6, <2>1, Appended
<1> QED
  BY <1>3, <1>4, <1>5, <1>6, <1>7

LEMMA VisitNewKeeps ==
  ASSUME GroupsInv, NEW w, VisitNew(w)
  PROVE  GroupsInv'
<1> DEFINE n == Len(calls)
           cs == Append(Front(calls), Rest(w))
<1>1. TakeEdge(w) /\ Running /\ Begin(cs, w) /\ ~Visited(w)
  BY DEF VisitNew, TakeEdge, Visited
<1>2. /\ n \in Nat /\ n # 0 /\ Frame = calls[n] /\ round = {}
      /\ Frame.edges \subseteq free[Frame.v]
  BY <1>1, TopIs
<1>3. /\ w \in Frame.edges /\ w \in met
      /\ cs \in Seq(Call) /\ Len(cs) = n /\ cs[n] = Rest(w)
      /\ Rest(w).v = Frame.v /\ Rest(w).edges = Frame.edges \ {w}
      /\ \A i \in 1..(n - 1) : cs[i] = calls[i]
  BY <1>1, EdgeIs
<1> HIDE DEF cs
<1>4. \A i \in 1..n : i # n => i \in 1..(n - 1)
  BY <1>2
<1>5. Calling(cs, w)
  <2> HIDE DEF n
  <2>1. ASSUME NEW i \in 1..n, i # n
        PROVE  /\ cs[i].v = calls[i].v /\ cs[i].edges \subseteq calls[i].edges
               /\ \A y \in calls[i].edges \ cs[i].edges : i = n /\ y = w
               /\ i = n => w \in free[calls[i].v] \ cs[i].edges
    BY <1>3, <1>4, <2>1
  <2>2. /\ cs[n].v = calls[n].v /\ cs[n].edges \subseteq calls[n].edges
        /\ \A y \in calls[n].edges \ cs[n].edges : y = w
        /\ w \in free[calls[n].v] \ cs[n].edges
    BY <1>2, <1>3
  <2> QED
    BY <1>3, <2>1, <2>2 DEF Calling, n
<1> QED
  BY <1>1, <1>2, <1>3, <1>5, BeginKeeps

LEMMA StartKeeps ==
  ASSUME GroupsInv, Start
  PROVE  GroupsInv'
<1> DEFINE v == CHOOSE v \in Unseen : \A w \in Unseen : w = v \/ Before(v, w)
<1>1. v \in Unseen
  <2>1. Unseen \subseteq Nat /\ met \subseteq Nat /\ Unseen \subseteq met /\ Unseen # {}
    BY DEF GroupsInv, GroupsTyped, Unseen, Start
  <2> DEFINE Uses(w) == {x \in met : w = x \/ w \in free[x]}
             Firsts == {FirstUse(w) : w \in Unseen}
  <2>2. \A w \in Unseen : FirstUse(w) \in Uses(w) /\ FirstUse(w) \in Nat
    <3> SUFFICES ASSUME NEW w \in Unseen
                 PROVE  FirstUse(w) \in Uses(w) /\ FirstUse(w) \in Nat
      OBVIOUS
    <3>1. Uses(w) \in SUBSET Nat /\ Uses(w) # {}
      BY <2>1
    <3> HIDE DEF Uses
    <3>2. Least(Uses(w)) \in Uses(w)
      BY <3>1, LeastIn
    <3> QED
      BY <3>1, <3>2 DEF FirstUse, Uses
  <2>3. Firsts \in SUBSET Nat /\ Firsts # {}
    BY <2>1, <2>2
  <2>4. PICK m \in Firsts : \A y \in Firsts : m <= y
    BY <2>3, LeastIn
  <2> DEFINE M == {w \in Unseen : FirstUse(w) = m}
  <2>5. M \in SUBSET Nat /\ M # {} /\ M \subseteq Unseen
    BY <2>1, <2>4
  <2>6. PICK k \in M : \A y \in M : k <= y
    BY <2>5, LeastIn
  <2>7. \A w \in Unseen : m <= FirstUse(w) /\ m \in Nat
    BY <2>3, <2>4
  <2>8. \E u \in Unseen : \A w \in Unseen : w = u \/ Before(u, w)
    <3>1. CASE m \in M
      <4>1. FirstUse(m) = m /\ m \in Unseen
        BY <3>1
      <4>2. ASSUME NEW w \in Unseen, w # m
            PROVE  Before(m, w)
        BY <2>2, <2>7, <4>1, <4>2 DEF Before
      <4> QED
        BY <4>1, <4>2
    <3>2. CASE m \notin M
      <4>1. FirstUse(k) = m /\ k \in Unseen
        BY <2>6
      <4>2. ASSUME NEW w \in Unseen, w # k
            PROVE  Before(k, w)
        <5>1. CASE FirstUse(w) # m
          BY <2>2, <2>7, <4>1, <5>1 DEF Before
        <5>2. CASE FirstUse(w) = m
          <6>1. w \in M /\ w # m
            BY <3>2, <5>2
          <6>2. k < w
            BY <2>1, <2>6, <4>1, <4>2, <6>1
          <6> QED
            BY <4>1, <5>2, <6>1, <6>2 DEF Before
        <5> QED
          BY <5>1, <5>2
      <4> QED
        BY <4>1, <4>2
    <3> QED
      BY <3>1, <3>2
  <2> QED
    BY <2>8
<1>2. Begin(calls, v) /\ calls = <<>> /\ round = {}
  BY DEF Start
<1> HIDE DEF v
<1>3. v \in met /\ ~Visited(v)
  BY <1>1 DEF Unseen, Visited
<1>4. Calling(calls, v)
  BY <1>2 DEF Calling, GroupsInv, GroupsTyped
<1> QED
  BY <1>2, <1>3, <1>4, BeginKeeps
\* The lowlink of v after it has been lowered to that of w
LEMMA LoweredToIs ==
  ASSUME lowlink \in [Identifier -> Int], NEW v \in Identifier, NEW w \in Identifier
  PROVE  /\ LoweredTo(v, w) \in [Identifier -> Int]
         /\ LoweredTo(v, w)[v] <= lowlink[v] /\ LoweredTo(v, w)[v] <= lowlink[w]
         /\ LoweredTo(v, w)[v] \in {lowlink[v], lowlink[w]}
         /\ \A x \in Identifier \ {v} : LoweredTo(v, w)[x] = lowlink[x]
BY DEF LoweredTo

\* An edge to a vertex that was visited
LEMMA LookKeeps ==
  ASSUME GroupsInv, NEW w, TakeEdge(w), Looked(w), Visited(w),
         UNCHANGED <<ids, free, round, met, m_index, index, m_S, groups>>,
         IF w \in OnStack THEN lowlink' = LoweredTo(Frame.v, w) ELSE lowlink' = lowlink
  PROVE  GroupsInv'
<1> USE DEF GroupsInv
<1> DEFINE n == Len(calls)
           cs == Append(Front(calls), Rest(w))
           v == Frame.v
<1>1. /\ free' = free /\ ids' = ids /\ met' = met /\ round' = round /\ groups' = groups
      /\ Identifier' = Identifier /\ Call' = Call /\ IsGraph /\ calls' = cs
      /\ m_index' = m_index /\ index' = index /\ m_S' = m_S
  BY DEF Looked, Identifier, Call, GroupsTyped
<1>2. /\ n \in Nat /\ n # 0 /\ n \in 1..n /\ Frame = calls[n] /\ round = {} /\ DOMAIN calls = 1..n
      /\ Frame.edges \subseteq free[v] /\ v \in OnStack
  BY TopIs DEF TakeEdge
<1>3. /\ w \in Frame.edges /\ w \in met /\ w \in Identifier
      /\ cs \in Seq(Call) /\ Len(cs) = n /\ DOMAIN cs = 1..n /\ cs[n] = Rest(w)
      /\ Rest(w).v = v /\ Rest(w).edges = Frame.edges \ {w}
      /\ \A i \in 1..(n - 1) : cs[i] = calls[i]
  BY EdgeIs
<1> HIDE DEF cs
<1>4. \A i \in 1..n : i # n => i \in 1..(n - 1)
  BY <1>2
<1>5. OnStack \subseteq Identifier /\ OnStack' = OnStack /\ InGroups' = InGroups
  BY <1>1 DEF OnStack, ToSet, GroupsTyped, InGroups
<1> HIDE DEF n, v
<1>6. /\ calls' \in Seq(Call) /\ DOMAIN calls' = 1..n
      /\ \A i \in 1..n : calls'[i].v = calls[i].v /\ calls'[i].edges \subseteq calls[i].edges
      /\ \A i \in 1..n : \A y \in calls[i].edges \ calls'[i].edges : i = n /\ y = w
      /\ calls[n].v = v
  <2>1. \A i \in 1..n : i # n => calls'[i] = calls[i]
    BY <1>1, <1>3, <1>4
  <2>2. calls[n].v = v
    BY <1>2 DEF v
  <2> QED
    BY <1>1, <1>2, <1>3, <2>1, <2>2
<1>7. Computing' = Computing
  BY <1>2, <1>6 DEF Computing
<1>8. \A x \in Identifier : Visited(x)' <=> Visited(x)
  BY <1>1 DEF Visited
<1>9. \A x, y : DependsOn(x, y)' <=> DependsOn(x, y)
  BY <1>1, ReachStays
<1>10. /\ lowlink' \in [Identifier -> Int] /\ lowlink'[v] <= lowlink[v]
       /\ \A x \in Identifier \ {v} : lowlink'[x] = lowlink[x]
       /\ w \in OnStack => lowlink'[v] <= lowlink[w]
       /\ lowlink'[v] = lowlink[v] \/ (w \in OnStack /\ lowlink'[v] = lowlink[w])
  <2>1. v \in Identifier /\ lowlink \in [Identifier -> Int] /\ lowlink[v] \in Int
    BY <1>2, <1>5 DEF GroupsTyped
  <2>2. CASE w \in OnStack
    BY <1>3, <2>1, <2>2, LoweredToIs DEF v
  <2>3. CASE w \notin OnStack
    BY <2>1, <2>3
  <2> QED
    BY <2>2, <2>3
<1>11. \A x \in OnStack : /\ lowlink[x] \in Int /\ lowlink'[x] \in Int /\ index[x] \in Int
                          /\ lowlink'[x] <= lowlink[x]
  BY <1>5, <1>10 DEF GroupsTyped
<1>12. \A i \in 1..n : calls[i].v \in OnStack
  BY <1>2 DEF CallsKept
<1>13. GroupsTyped'
  BY <1>1, <1>6, <1>10 DEF GroupsTyped, IsGraph
<1>14. RoundsKept'
  BY <1>1, <1>2, ReachStays DEF RoundsKept
<1>15. NodesKept'
  BY <1>1, <1>5, <1>8 DEF NodesKept
<1>16. CallsKept'
  <2>1. \A i \in 1..n : calls[i].v \in OnStack /\ calls[i].edges \subseteq free[calls[i].v]
    BY <1>2 DEF CallsKept
  <2>2. \A i, j \in 1..n : i < j => index[calls[i].v] < index[calls[j].v]
    BY <1>2 DEF CallsKept
  <2>3. \A i, j \in 1..n : j = i + 1 => calls[j].v \in free[calls[i].v] \ calls[i].edges
    BY <1>2 DEF CallsKept
  <2>4. calls' # <<>> /\ 1 \in 1..n
    BY <1>2, <1>6
  <2>5. \A x \in OnStack : index[calls[1].v] <= index[x]
    BY DEF CallsKept
  <2>6. \A i, j \in 1..n : j = i + 1 => calls'[j].v \in free[calls'[i].v] \ calls'[i].edges
    BY <1>6, <2>3
  <2> QED
    BY <1>1, <1>5, <1>6, <2>1, <2>2, <2>4, <2>5, <2>6 DEF CallsKept
<1>17. ReachKept'
  <2>1. \A i \in 1..n : \A x \in OnStack : index[calls[i].v] <= index[x] => DependsOn(calls[i].v, x)
    BY <1>2 DEF ReachKept
  <2> QED
    BY <1>1, <1>5, <1>6, <1>9, <2>1 DEF ReachKept
<1>18. DependsOn(v, w)
  BY <1>1, <1>2, <1>3, <1>5, DependsOnMentioned
<1>19. LowKept'
  <2>1. \A x \in OnStack : lowlink'[x] <= index[x]
    BY <1>11 DEF LowKept
  <2>2. \A x \in OnStack : \E u \in OnStack : index[u] = lowlink'[x] /\ DependsOn(x, u)
    <3>1. ASSUME NEW x \in OnStack, lowlink'[x] = lowlink[x]
          PROVE  \E u \in OnStack : index[u] = lowlink'[x] /\ DependsOn(x, u)
      BY <3>1 DEF LowKept
    <3>2. ASSUME w \in OnStack, lowlink'[v] = lowlink[w]
          PROVE  \E u \in OnStack : index[u] = lowlink'[v] /\ DependsOn(v, u)
      <4>1. PICK u \in OnStack : index[u] = lowlink[w] /\ DependsOn(w, u)
        BY <3>2 DEF LowKept
      <4>2. DependsOn(v, u)
        BY <1>1, <1>18, <4>1, DependsOnward
      <4> QED
        BY <3>2, <4>1, <4>2
    <3> QED
      BY <1>5, <1>10, <3>1, <3>2
  <2>3. ASSUME NEW i \in 1..n, NEW x \in OnStack, UnderCall(i, x)
        PROVE  lowlink'[calls[i].v] <= lowlink'[x]
    <3>1. lowlink[calls[i].v] <= lowlink[x]
      BY <1>2, <2>3 DEF LowKept
    <3>2. calls[i].v \in OnStack
      BY <1>12
    <3>3. CASE x # v
      <4>1. lowlink'[x] = lowlink[x]
        BY <1>5, <1>10, <3>3
      <4> QED
        BY <1>11, <3>1, <3>2, <4>1
    <3>4. CASE x = v
      <4>1. i = n
        <5> SUFFICES ASSUME i # n
                     PROVE  FALSE
          OBVIOUS
        <5>1. i + 1 \in 1..n
          BY <1>2
        <5>2. index[v] < index[calls[i + 1].v]
          BY <1>2, <2>3, <3>4, <5>1 DEF UnderCall
        <5>3. i + 1 = n \/ i + 1 < n
          BY <1>2, <5>1
        <5>4. index[calls[i + 1].v] \in Int /\ index[v] \in Int
          BY <1>2, <1>11, <1>12, <5>1
        <5>5. i + 1 < n => index[calls[i + 1].v] < index[calls[n].v]
          BY <1>2, <5>1 DEF CallsKept
        <5> QED
          BY <1>6, <5>2, <5>3, <5>4, <5>5
      <4> QED
        BY <1>6, <1>11, <1>12, <3>4, <4>1
    <3> QED
      BY <3>3, <3>4
  <2>4. \A x \in OnStack \ Computing : lowlink'[x] < index[x]
    BY <1>11 DEF LowKept
  <2>5. \A i \in 1..n : \A x : UnderCall(i, x)' => UnderCall(i, x)
    BY <1>1, <1>2, <1>6 DEF UnderCall
  <2> QED
    BY <1>1, <1>5, <1>6, <1>7, <1>9, <2>1, <2>2, <2>3, <2>4, <2>5 DEF LowKept
<1>20. \A x \in OnStack, y \in Identifier : Taken(x, y) => Taken(x, y)'
  <2> SUFFICES ASSUME NEW x \in OnStack, NEW y \in Identifier, Taken(x, y), y \in OnStack
               PROVE  lowlink'[x] <= index[y]
    BY <1>1, <1>5, <1>8 DEF Taken
  <2> QED
    BY <1>11 DEF Taken
<1>21. Visited(w)' /\ (w \in OnStack => lowlink'[v] <= index[w])
  <2>1. w \in OnStack => lowlink'[v] <= lowlink[w] /\ lowlink[w] <= index[w]
    BY <1>10 DEF LowKept
  <2> QED
    BY <1>2, <1>3, <1>8, <1>11, <2>1
<1>22. EdgesKept'
  <2>1. \A x \in OnStack : free[x] \subseteq Identifier
    BY <1>1, <1>5 DEF IsGraph
  <2>2. \A x \in OnStack \ Computing : \A y \in free[x] : Taken(x, y)'
    BY <1>20, <2>1 DEF EdgesKept
  <2>3. ASSUME NEW i \in 1..n, NEW y \in free[calls[i].v] \ calls'[i].edges
        PROVE  \/ Taken(calls[i].v, y)'
               \/ \E j \in 1..n : j = i + 1 /\ y = calls[j].v
    <3>1. calls[i].v \in OnStack /\ calls'[i].v = calls[i].v /\ y \in Identifier
      BY <1>6, <1>12, <2>1
    <3>2. CASE y \in calls[i].edges
      <4>1. i = n /\ y = w
        BY <1>6, <3>2
      <4>2. calls'[n].v = v
        BY <1>2, <1>6
      <4>3. Taken(calls[i].v, w)'
        BY <1>1, <1>5, <1>21, <4>1, <4>2 DEF Taken
      <4> QED
        BY <4>1, <4>3
    <3>3. CASE y \notin calls[i].edges
      <4>1. Taken(calls[i].v, y) => Taken(calls[i].v, y)'
        BY <1>20, <3>1 DEF Taken
      <4> QED
        BY <1>2, <3>3, <4>1 DEF EdgesKept
    <3> QED
      BY <3>2, <3>3
  <2> QED
    BY <1>1, <1>5, <1>6, <1>7, <2>2, <2>3 DEF EdgesKept
<1>23. GroupsKept'
  BY <1>1, <1>9 DEF GroupsKept, UpTo
<1> QED
  BY <1>13, <1>14, <1>15, <1>16, <1>17, <1>19, <1>22, <1>23
(***************************************************************************)
(* A call returns                                                          *)
(***************************************************************************)
LEMMA ReturnIs ==
  ASSUME GroupsInv, Running, NEW v, v = Frame.v, Return(v)
  PROVE  LET n == Len(calls)
         IN  /\ calls' \in Seq(Call) /\ DOMAIN calls' = 1..(n - 1) /\ Len(calls') = n - 1
             /\ \A i \in 1..(n - 1) : calls'[i] = calls[i] /\ calls[i].v # v
             /\ Computing = Computing' \cup {v} /\ v \notin Computing'
             /\ n \in Nat /\ n # 0 /\ DOMAIN calls = 1..n /\ calls[n].v = v
             /\ v \in OnStack /\ v \in Identifier
             /\ \A i \in 1..n : calls[i].v \in OnStack
<1> DEFINE n == Len(calls)
<1>1. /\ n \in Nat /\ n # 0 /\ n \in 1..n /\ DOMAIN calls = 1..n /\ Frame = calls[n]
      /\ Frame.v \in OnStack /\ Frame \in Call
      /\ Len(Front(calls)) = n - 1 /\ Front(calls) \in Seq(Call)
      /\ \A i \in 1..(n - 1) : Front(calls)[i] = calls[i]
  BY TopIs
<1>2. calls' = Front(calls)
  BY DEF Return
<1>4. calls[n].v = v
  BY <1>1
<1> HIDE DEF n
<1>3. calls' \in Seq(Call) /\ DOMAIN calls' = 1..(n - 1) /\ Len(calls') = n - 1
  <2>1. calls' \in Seq(Call) /\ Len(calls') = n - 1
    BY <1>1, <1>2
  <2>2. DOMAIN calls' = 1..Len(calls')
    BY <2>1
  <2> QED
    BY <2>1, <2>2
<1>5. \A i \in 1..n : calls[i].v \in OnStack
  BY <1>1 DEF GroupsInv, CallsKept
<1>6. OnStack \subseteq Identifier
  BY DEF GroupsInv, GroupsTyped, OnStack, ToSet
<1>7. \A i \in 1..(n - 1) : i \in 1..n /\ i < n
  BY <1>1
<1>8. \A i \in 1..(n - 1) : calls[i].v # v
  <2> SUFFICES ASSUME NEW i \in 1..(n - 1), calls[i].v = v
               PROVE  FALSE
    OBVIOUS
  <2>1. index[calls[i].v] < index[calls[n].v]
    BY <1>1, <1>7 DEF GroupsInv, CallsKept
  <2>2. index[v] \in Int
    BY <1>1, <1>6 DEF GroupsInv, GroupsTyped
  <2> QED
    BY <1>4, <2>1, <2>2
<1>9. Computing' = {calls[i].v : i \in 1..(n - 1)}
  BY <1>1, <1>2, <1>3 DEF Computing
<1>10. Computing = {calls[i].v : i \in 1..n} /\ 1..n = 1..(n - 1) \cup {n}
  BY <1>1 DEF Computing
<1>11. Computing = Computing' \cup {v} /\ v \notin Computing'
  BY <1>4, <1>8, <1>9, <1>10
<1>12. v \in OnStack /\ v \in Identifier
  BY <1>1, <1>6
<1>13. \A i \in 1..(n - 1) : calls'[i] = calls[i]
  BY <1>1, <1>2
<1> QED
  BY <1>1, <1>3, <1>4, <1>5, <1>8, <1>11, <1>12, <1>13 DEF n

\* v is not the root of its component: the call that made its call is lowered
LEMMA FinishOtherKeeps ==
  ASSUME GroupsInv, NEW v, FinishOther(v)
  PROVE  GroupsInv'
<1> USE DEF GroupsInv
<1> DEFINE n == Len(calls)
<1>1. /\ free' = free /\ ids' = ids /\ met' = met /\ round' = round /\ groups' = groups
      /\ Identifier' = Identifier /\ Call' = Call /\ IsGraph
      /\ m_index' = m_index /\ index' = index /\ m_S' = m_S
      /\ Running /\ v = Frame.v /\ Return(v) /\ Frame.edges = {} /\ lowlink[v] # index[v]
  BY DEF FinishOther, Return, Identifier, Call, GroupsTyped
<1>2. /\ calls' \in Seq(Call) /\ DOMAIN calls' = 1..(n - 1) /\ Len(calls') = n - 1
      /\ \A i \in 1..(n - 1) : calls'[i] = calls[i] /\ calls[i].v # v
      /\ Computing = Computing' \cup {v} /\ v \notin Computing'
      /\ n \in Nat /\ n # 0 /\ DOMAIN calls = 1..n /\ calls[n].v = v
      /\ v \in OnStack /\ v \in Identifier
      /\ \A i \in 1..n : calls[i].v \in OnStack
  BY <1>1, ReturnIs
<1>3. Frame = calls[n] /\ round = {}
  BY <1>1, TopIs
<1>4. OnStack \subseteq Identifier /\ OnStack' = OnStack /\ InGroups' = InGroups
  BY <1>1 DEF OnStack, ToSet, GroupsTyped, InGroups
<1>5. \A x \in OnStack : lowlink[x] \in Int /\ index[x] \in Int
  BY <1>4 DEF GroupsTyped
<1>6. lowlink[v] < index[v]
  BY <1>1, <1>2, <1>5 DEF LowKept
<1>7. n # 1
  <2> SUFFICES ASSUME n = 1
               PROVE  FALSE
    OBVIOUS
  <2>1. PICK u \in OnStack : index[u] = lowlink[v]
    BY <1>2 DEF LowKept
  <2>2. index[calls[1].v] <= index[u]
    BY DEF CallsKept
  <2>3. calls[1].v = v
    BY <1>2
  <2> QED
    BY <1>2, <1>5, <1>6, <2>1, <2>2, <2>3
<1> DEFINE p == calls[n - 1].v
<1>8. n - 1 \in 1..n /\ n - 1 \in 1..(n - 1) /\ p \in OnStack /\ p # v /\ lowlink' = LoweredTo(p, v)
  BY <1>1, <1>2, <1>7 DEF Return
<1> HIDE DEF n, p
<1>9. /\ lowlink' \in [Identifier -> Int] /\ lowlink'[p] <= lowlink[p] /\ lowlink'[p] <= lowlink[v]
      /\ lowlink'[p] \in {lowlink[p], lowlink[v]}
      /\ \A x \in Identifier \ {p} : lowlink'[x] = lowlink[x]
  <2>1. p \in Identifier /\ v \in Identifier /\ lowlink \in [Identifier -> Int]
    BY <1>2, <1>4, <1>8 DEF GroupsTyped
  <2>2. lowlink' = LoweredTo(p, v)
    BY <1>8
  <2> QED
    BY <2>1, <2>2, LoweredToIs
<1>10. \A x \in OnStack : lowlink'[x] \in Int /\ lowlink'[x] <= lowlink[x] /\ (x # p => lowlink'[x] = lowlink[x])
  BY <1>4, <1>5, <1>8, <1>9
<1>11. \A x \in Identifier : Visited(x)' <=> Visited(x)
  BY <1>1 DEF Visited
<1>12. \A x, y : DependsOn(x, y)' <=> DependsOn(x, y)
  BY <1>1, ReachStays
<1>13. \A i \in 1..(n - 1) : i \in 1..n
  BY <1>2
<1>14. v \in free[p]
  <2>1. n - 1 \in 1..n /\ n \in 1..n /\ n = (n - 1) + 1
    BY <1>2, <1>8
  <2> QED
    BY <1>2, <2>1 DEF CallsKept, p
<1>15. GroupsTyped'
  BY <1>1, <1>2, <1>9 DEF GroupsTyped, IsGraph
<1>16. RoundsKept'
  BY <1>1, <1>3, ReachStays DEF RoundsKept
<1>17. NodesKept'
  BY <1>1, <1>4, <1>11 DEF NodesKept
<1>18. CallsKept'
  <2>1. \A i \in 1..(n - 1) : calls'[i].v \in OnStack' /\ calls'[i].edges \subseteq free[calls'[i].v]
    BY <1>2, <1>4, <1>13 DEF CallsKept
  <2>2. \A i, j \in 1..(n - 1) : i < j => index[calls'[i].v] < index[calls'[j].v]
    BY <1>2, <1>13 DEF CallsKept
  <2>3. \A i, j \in 1..(n - 1) : j = i + 1 => calls'[j].v \in free[calls'[i].v] \ calls'[i].edges
    BY <1>2, <1>13 DEF CallsKept
  <2>4. calls' # <<>> /\ 1 \in 1..(n - 1) /\ calls'[1].v = calls[1].v
    BY <1>2, <1>7
  <2>5. \A x \in OnStack : index[calls[1].v] <= index[x]
    BY DEF CallsKept
  <2> QED
    BY <1>1, <1>2, <1>4, <2>1, <2>2, <2>3, <2>4, <2>5 DEF CallsKept
<1>19. ReachKept'
  <2>1. \A i \in 1..n : \A x \in OnStack : index[calls[i].v] <= index[x] => DependsOn(calls[i].v, x)
    BY <1>2 DEF ReachKept
  <2> QED
    BY <1>1, <1>2, <1>4, <1>12, <1>13, <2>1 DEF ReachKept
<1>20. LowKept'
  <2>1. \A x \in OnStack : lowlink'[x] <= index[x]
    BY <1>5, <1>10 DEF LowKept
  <2>2. \A x \in OnStack : \E u \in OnStack : index[u] = lowlink'[x] /\ DependsOn(x, u)
    <3>1. ASSUME NEW x \in OnStack, lowlink'[x] = lowlink[x]
          PROVE  \E u \in OnStack : index[u] = lowlink'[x] /\ DependsOn(x, u)
      BY <3>1 DEF LowKept
    <3>2. ASSUME lowlink'[p] = lowlink[v]
          PROVE  \E u \in OnStack : index[u] = lowlink'[p] /\ DependsOn(p, u)
      <4>1. PICK u \in OnStack : index[u] = lowlink[v] /\ DependsOn(v, u)
        BY <1>2 DEF LowKept
      <4>2. DependsOn(p, v)
        BY <1>1, <1>4, <1>8, <1>14, DependsOnMentioned
      <4>3. DependsOn(p, u)
        BY <1>1, <4>1, <4>2, DependsOnward
      <4> QED
        BY <3>2, <4>1, <4>3
    <3> QED
      BY <1>8, <1>9, <1>10, <3>1, <3>2
  <2>3. ASSUME NEW i \in 1..(n - 1), NEW x \in OnStack, UnderCall(i, x)'
        PROVE  lowlink'[calls[i].v] <= lowlink'[x]
    <3>1. calls[i].v \in OnStack /\ i \in 1..n /\ calls'[i].v = calls[i].v
      BY <1>2, <1>13
    <3>2. index[calls[i].v] <= index[x]
      BY <1>1, <2>3, <3>1 DEF UnderCall
    <3>3. CASE i # n - 1
      <4>1. i + 1 \in 1..(n - 1) /\ i + 1 \in 1..n
        BY <1>2, <3>3
      <4>2. index[x] < index[calls[i + 1].v]
        BY <1>1, <1>2, <2>3, <4>1 DEF UnderCall
      <4>3. UnderCall(i, x)
        BY <3>2, <4>2 DEF UnderCall
      <4>4. lowlink[calls[i].v] <= lowlink[x]
        BY <1>2, <3>1, <4>3 DEF LowKept
      <4>5. x # p
        <5> SUFFICES ASSUME x = p
                     PROVE  FALSE
          OBVIOUS
        <5>1. i + 1 = n - 1 \/ i + 1 < n - 1
          BY <1>2, <4>1
        <5>2. i + 1 < n - 1 => index[calls[i + 1].v] < index[p]
          BY <1>2, <1>8, <4>1 DEF CallsKept, p
        <5>3. index[p] \in Int /\ index[calls[i + 1].v] \in Int
          BY <1>2, <1>5, <1>8, <4>1
        <5> QED
          BY <4>2, <5>1, <5>2, <5>3 DEF p
      <4> QED
        BY <1>5, <1>10, <3>1, <4>4, <4>5
    <3>4. CASE i = n - 1
      <4>1. calls[i].v = p
        BY <3>4 DEF p
      <4>2. CASE x = p
        BY <1>8, <1>10, <4>1, <4>2
      <4>3. CASE x # p /\ index[x] < index[v]
        <5>1. UnderCall(i, x)
          <6>1. \A j \in DOMAIN calls : j = i + 1 => calls[j].v = v
            BY <1>2, <3>4
          <6> QED
            BY <3>2, <4>3, <6>1 DEF UnderCall
        <5>2. lowlink[p] <= lowlink[x]
          BY <1>2, <3>1, <4>1, <5>1 DEF LowKept
        <5> QED
          BY <1>5, <1>8, <1>10, <4>1, <4>3, <5>2
      <4>4. CASE x # p /\ ~(index[x] < index[v])
        <5>1. UnderCall(n, x)
          <6>1. index[calls[n].v] <= index[x]
            BY <1>2, <1>5, <4>4
          <6>2. \A j \in DOMAIN calls : j # n + 1
            BY <1>2
          <6> QED
            BY <6>1, <6>2 DEF UnderCall
        <5>2. lowlink[v] <= lowlink[x]
          BY <1>2, <5>1 DEF LowKept
        <5> QED
          BY <1>2, <1>5, <1>8, <1>9, <1>10, <4>1, <4>4, <5>2
      <4> QED
        BY <4>2, <4>3, <4>4
    <3> QED
      BY <3>3, <3>4
  <2>4. \A x \in OnStack \ Computing' : lowlink'[x] < index[x]
    <3>1. \A x \in OnStack \ Computing : lowlink[x] < index[x]
      BY DEF LowKept
    <3> QED
      BY <1>2, <1>5, <1>6, <1>10, <3>1
  <2> QED
    BY <1>1, <1>2, <1>4, <1>12, <2>1, <2>2, <2>3, <2>4 DEF LowKept
<1>21. \A x \in OnStack, y \in Identifier : Taken(x, y) => Taken(x, y)'
  <2> SUFFICES ASSUME NEW x \in OnStack, NEW y \in Identifier, Taken(x, y), y \in OnStack
               PROVE  lowlink'[x] <= index[y]
    BY <1>1, <1>4, <1>11 DEF Taken
  <2> QED
    BY <1>5, <1>10 DEF Taken
<1>22. EdgesKept'
  <2>1. \A x \in OnStack : free[x] \subseteq Identifier
    BY <1>1, <1>4 DEF IsGraph
  <2>2. \A y \in free[v] : Taken(v, y)
    <3> SUFFICES ASSUME NEW y \in free[v]
                 PROVE  Taken(v, y)
      OBVIOUS
    <3>1. n \in 1..n /\ y \in free[calls[n].v] \ calls[n].edges /\ \A j \in 1..n : j # n + 1
      BY <1>1, <1>2, <1>3
    <3> QED
      BY <1>2, <3>1 DEF EdgesKept
  <2>3. \A x \in OnStack \ Computing' : \A y \in free[x] : Taken(x, y)'
    <3>1. \A x \in OnStack \ Computing : \A y \in free[x] : Taken(x, y)
      BY DEF EdgesKept
    <3>2. \A x \in OnStack \ Computing' : \A y \in free[x] : Taken(x, y)
      BY <1>2, <2>2, <3>1
    <3> QED
      BY <1>21, <2>1, <3>2
  <2>4. ASSUME NEW i \in 1..(n - 1), NEW y \in free[calls[i].v] \ calls[i].edges
        PROVE  \/ Taken(calls[i].v, y)'
               \/ \E j \in 1..(n - 1) : j = i + 1 /\ y = calls[j].v
    <3>1. calls[i].v \in OnStack /\ calls'[i].v = calls[i].v /\ y \in Identifier /\ i \in 1..n
      BY <1>2, <1>13, <2>1
    <3>2. CASE Taken(calls[i].v, y)
      BY <1>21, <3>1, <3>2 DEF Taken
    <3>3. CASE \E j \in 1..n : j = i + 1 /\ y = calls[j].v
      <4>1. CASE i = n - 1
        <5>1. y = v /\ calls[i].v = p
          BY <1>2, <3>3, <4>1 DEF p
        <5>2. Visited(v)
          BY <1>2 DEF NodesKept
        <5>3. lowlink'[p] <= index[v]
          BY <1>2, <1>5, <1>6, <1>8, <1>9, <1>10
        <5> QED
          BY <1>1, <1>2, <1>11, <3>1, <5>1, <5>2, <5>3 DEF Taken
      <4>2. CASE i # n - 1
        <5>1. i + 1 \in 1..(n - 1)
          BY <1>2, <4>2
        <5> QED
          BY <3>3, <5>1
      <4> QED
        BY <4>1, <4>2
    <3> QED
      BY <1>2, <3>1, <3>2, <3>3 DEF EdgesKept
  <2> QED
    BY <1>1, <1>2, <1>4, <2>3, <2>4 DEF EdgesKept
<1>23. GroupsKept'
  BY <1>1, <1>12 DEF GroupsKept, UpTo
<1> QED
  BY <1>15, <1>16, <1>17, <1>18, <1>19, <1>20, <1>22, <1>23
\* The root of a component leaves the stack with what is above it
LEMMA PopToIs ==
  ASSUME GroupsInv, NEW v \in OnStack, PopTo(v)
  PROVE  /\ groups' = Append(groups, {x \in OnStack : index[v] <= index[x]})
         /\ m_S' \in Seq(Identifier)
         /\ OnStack' = {x \in OnStack : index[x] < index[v]}
         /\ \A i, j \in DOMAIN m_S' : i < j => index[m_S'[i]] < index[m_S'[j]]
<1> DEFINE k == PlaceOf(v)
           m == Len(m_S)
<1>1. /\ m_S \in Seq(Identifier) /\ m \in Nat /\ DOMAIN m_S = 1..m
      /\ index \in [Identifier -> Int]
      /\ OnStack = {m_S[i] : i \in 1..m}
  BY DEF GroupsInv, GroupsTyped, OnStack, ToSet
<1>2. k \in 1..m /\ m_S[k] = v
  BY <1>1 DEF PlaceOf
<1>3. groups' = Append(groups, ToSet(SubSeq(m_S, k, m))) /\ m_S' = SubSeq(m_S, 1, k - 1)
  BY DEF PopTo
<1> HIDE DEF k, m
<1>4. \A i, j \in 1..m : i < j => index[m_S[i]] < index[m_S[j]]
  BY <1>1 DEF GroupsInv, NodesKept
<1>5. \A i \in 1..m : m_S[i] \in Identifier /\ index[m_S[i]] \in Int
  BY <1>1
<1>6. \A i \in 1..m : index[v] <= index[m_S[i]] <=> k <= i
  <2> SUFFICES ASSUME NEW i \in 1..m
               PROVE  index[v] <= index[m_S[i]] <=> k <= i
    OBVIOUS
  <2>1. i \in Int /\ k \in Int
    BY <1>1, <1>2
  <2>2. k < i => index[m_S[k]] < index[m_S[i]]
    BY <1>2, <1>4
  <2>3. i < k => index[m_S[i]] < index[m_S[k]]
    BY <1>2, <1>4
  <2>4. index[m_S[k]] \in Int /\ index[m_S[i]] \in Int
    BY <1>2, <1>5
  <2> QED
    BY <1>2, <2>1, <2>2, <2>3, <2>4
<1>7. /\ m_S' \in Seq(Identifier) /\ DOMAIN m_S' = 1..(k - 1)
      /\ \A i \in 1..(k - 1) : m_S'[i] = m_S[i] /\ i \in 1..m
  BY <1>1, <1>2, <1>3 DEF m
<1>8. ToSet(m_S') = {m_S[i] : i \in 1..(k - 1)}
  BY <1>7 DEF ToSet
<1>9. ToSet(SubSeq(m_S, k, m)) = {m_S[i] : i \in k..m}
  <2> DEFINE t == SubSeq(m_S, k, m)
  <2>1. DOMAIN t = 1..(m - k + 1) /\ \A i \in 1..(m - k + 1) : t[i] = m_S[k + i - 1]
    BY <1>1, <1>2 DEF m
  <2> HIDE DEF t
  <2>2. \A i \in 1..(m - k + 1) : k + i - 1 \in k..m
    BY <1>1, <1>2
  <2>3. \A i \in k..m : i - k + 1 \in 1..(m - k + 1) /\ k + (i - k + 1) - 1 = i
    BY <1>1, <1>2
  <2>4. \A i \in k..m : t[i - k + 1] = m_S[i]
    BY <2>1, <2>3
  <2>5. ToSet(t) = {t[i] : i \in 1..(m - k + 1)}
    BY <2>1 DEF ToSet
  <2>6. ToSet(t) \subseteq {m_S[i] : i \in k..m}
    BY <2>1, <2>2, <2>5
  <2>7. {m_S[i] : i \in k..m} \subseteq ToSet(t)
    BY <2>3, <2>4, <2>5
  <2> QED
    BY <2>6, <2>7 DEF t
<1>10. OnStack' = {x \in OnStack : index[x] < index[v]}
  <2>1. \A i \in 1..m : i \in 1..(k - 1) <=> ~(k <= i)
    BY <1>1, <1>2
  <2>2. \A i \in 1..m : index[m_S[i]] < index[v] <=> i \in 1..(k - 1)
    BY <1>2, <1>5, <1>6, <2>1
  <2>3. OnStack' = {m_S[i] : i \in 1..(k - 1)}
    BY <1>8 DEF OnStack
  <2> QED
    BY <1>1, <1>7, <2>2, <2>3
<1>11. {m_S[i] : i \in k..m} = {x \in OnStack : index[v] <= index[x]}
  <2>1. \A i : i \in k..m <=> i \in 1..m /\ k <= i
    BY <1>1, <1>2
  <2> QED
    BY <1>1, <1>6, <2>1
<1>12. \A i, j \in 1..(k - 1) : i < j => index[m_S'[i]] < index[m_S'[j]]
  BY <1>4, <1>7
<1> QED
  BY <1>3, <1>7, <1>9, <1>10, <1>11, <1>12

LEMMA FinishRootKeeps ==
  ASSUME GroupsInv, NEW v, FinishRoot(v)
  PROVE  GroupsInv'
<1> USE DEF GroupsInv
<1> DEFINE n == Len(calls)
           G == {x \in OnStack : index[v] <= index[x]}
<1>1. /\ free' = free /\ ids' = ids /\ met' = met /\ round' = round
      /\ Identifier' = Identifier /\ Call' = Call /\ IsGraph
      /\ m_index' = m_index /\ index' = index
      /\ Running /\ v = Frame.v /\ Return(v) /\ PopTo(v) /\ Frame.edges = {} /\ lowlink[v] = index[v]
  BY DEF FinishRoot, Return, Identifier, Call, GroupsTyped
<1>2. /\ calls' \in Seq(Call) /\ DOMAIN calls' = 1..(n - 1) /\ Len(calls') = n - 1
      /\ \A i \in 1..(n - 1) : calls'[i] = calls[i] /\ calls[i].v # v
      /\ Computing = Computing' \cup {v} /\ v \notin Computing'
      /\ n \in Nat /\ n # 0 /\ DOMAIN calls = 1..n /\ calls[n].v = v
      /\ v \in OnStack /\ v \in Identifier
      /\ \A i \in 1..n : calls[i].v \in OnStack
  BY <1>1, ReturnIs
<1>3. Frame = calls[n] /\ round = {}
  BY <1>1, TopIs
<1>4. OnStack \subseteq Identifier
  BY DEF OnStack, ToSet, GroupsTyped
<1>5. \A x \in OnStack : lowlink[x] \in Int /\ index[x] \in Nat
  BY <1>4 DEF GroupsTyped, NodesKept
<1>6. /\ groups' = Append(groups, G) /\ m_S' \in Seq(Identifier)
      /\ OnStack' = {x \in OnStack : index[x] < index[v]}
      /\ \A i, j \in DOMAIN m_S' : i < j => index[m_S'[i]] < index[m_S'[j]]
  BY <1>1, <1>2, PopToIs
<1>7. \A x \in OnStack : x \in G \/ x \in OnStack'
  BY <1>2, <1>5, <1>6
<1>8. OnStack' \cap G = {} /\ G \subseteq OnStack /\ OnStack' \subseteq OnStack /\ v \in G
  BY <1>2, <1>5, <1>6
<1>9. \A i \in 1..(n - 1) : i \in 1..n /\ i < n
  BY <1>2
<1>10. \A i \in 1..(n - 1) : calls[i].v \in OnStack'
  <2> SUFFICES ASSUME NEW i \in 1..(n - 1)
               PROVE  calls[i].v \in OnStack'
    OBVIOUS
  <2>1. n \in 1..n
    BY <1>2
  <2>2. index[calls[i].v] < index[calls[n].v]
    BY <1>2, <1>9, <2>1 DEF CallsKept
  <2> QED
    BY <1>2, <1>6, <1>9, <2>2
<1> HIDE DEF n, G
<1>11. /\ groups' \in Seq(SUBSET Identifier) /\ Len(groups') = Len(groups) + 1
       /\ groups'[Len(groups) + 1] = G
       /\ \A i \in 1..Len(groups) : groups'[i] = groups[i]
       /\ DOMAIN groups' = 1..(Len(groups) + 1) /\ DOMAIN groups = 1..Len(groups)
       /\ Len(groups) \in Nat /\ ToSet(groups') = ToSet(groups) \cup {G}
  <2>1. G \in SUBSET Identifier /\ groups \in Seq(SUBSET Identifier)
    BY <1>4, <1>8 DEF GroupsTyped
  <2> QED
    BY <1>6, <2>1, Appended
<1>12. InGroups' = InGroups \cup G
  BY <1>11 DEF InGroups
<1>13. lowlink' = lowlink
  <2>1. CASE n = 1
    BY <1>1, <2>1 DEF Return, n
  <2>2. CASE n # 1
    <3>1. n - 1 \in 1..(n - 1) /\ n - 1 \in 1..n
      BY <1>2, <2>2
    <3> DEFINE p == calls[n - 1].v
    <3>2. lowlink' = LoweredTo(p, v)
      BY <1>1, <2>2 DEF Return, n
    <3>3. p \in OnStack /\ index[p] < index[v]
      BY <1>6, <1>10, <3>1
    <3>4. ~(lowlink[v] < lowlink[p])
      <4>1. lowlink[p] <= index[p]
        BY <3>3 DEF LowKept
      <4> HIDE DEF p
      <4>2. lowlink[p] \in Int /\ index[p] \in Int /\ index[v] \in Int
        BY <1>2, <1>5, <3>3
      <4> QED
        BY <1>1, <3>3, <4>1, <4>2
    <3> HIDE DEF p
    <3>5. LoweredTo(p, v) = [lowlink EXCEPT ![p] = lowlink[p]]
      BY <3>4 DEF LoweredTo
    <3> QED
      BY <3>2, <3>5 DEF GroupsTyped
  <2> QED
    BY <2>1, <2>2
<1>14. \A x \in Identifier : Visited(x)' <=> Visited(x)
  BY <1>1 DEF Visited
<1>15. \A x, y : DependsOn(x, y)' <=> DependsOn(x, y)
  BY <1>1, ReachStays
<1>16. \A x \in OnStack : free[x] \subseteq Identifier
  BY <1>1, <1>4 DEF IsGraph
<1>17. \A y \in free[v] : Taken(v, y)
  <2> SUFFICES ASSUME NEW y \in free[v]
               PROVE  Taken(v, y)
    OBVIOUS
  <2>1. n \in 1..n /\ y \in free[calls[n].v] \ calls[n].edges /\ \A j \in 1..n : j # n + 1
    BY <1>1, <1>2, <1>3
  <2> QED
    BY <1>2, <2>1 DEF EdgesKept
<1>18. \A x \in G : index[v] <= lowlink[x]
  <2> SUFFICES ASSUME NEW x \in G
               PROVE  index[v] <= lowlink[x]
    OBVIOUS
  <2>1. index[calls[n].v] <= index[x]
    BY <1>2 DEF G
  <2>2. \A j \in DOMAIN calls : j # n + 1
    BY <1>2
  <2>3. UnderCall(n, x) /\ n \in DOMAIN calls
    BY <1>2, <2>1, <2>2 DEF UnderCall
  <2>4. lowlink[calls[n].v] <= lowlink[x]
    BY <1>8, <2>3 DEF LowKept
  <2> QED
    BY <1>1, <1>2, <2>4
<1>19. G \cap Computing' = {}
  <2>1. Computing' = {calls[i].v : i \in 1..(n - 1)}
    BY <1>2 DEF Computing
  <2> QED
    BY <1>8, <1>10, <2>1
<1>20. \A x \in G : \A y \in free[x] : y \in G \/ y \in InGroups
  <2> SUFFICES ASSUME NEW x \in G, NEW y \in free[x], y \notin InGroups
               PROVE  y \in G
    OBVIOUS
  <2>1. Taken(x, y)
    <3>1. CASE x = v
      BY <1>17, <3>1
    <3>2. CASE x # v
      <4>1. x \in OnStack \ Computing
        BY <1>2, <1>8, <1>19, <3>2
      <4> QED
        BY <4>1 DEF EdgesKept
    <3> QED
      BY <3>1, <3>2
  <2>2. y \in Identifier /\ Visited(y)
    BY <1>8, <1>16, <2>1 DEF Taken
  <2>3. y \in OnStack
    BY <2>2 DEF NodesKept
  <2>4. index[v] <= lowlink[x] /\ lowlink[x] <= index[y] /\ x \in OnStack
    BY <1>8, <1>18, <2>1, <2>3 DEF Taken
  <2>5. index[v] <= index[y]
    BY <1>2, <1>5, <2>3, <2>4
  <2> QED
    BY <2>3, <2>5 DEF G
<1>21. \A x \in G : DependsOn(v, x)
  <2> SUFFICES ASSUME NEW x \in G
               PROVE  DependsOn(v, x)
    OBVIOUS
  <2>1. n \in DOMAIN calls /\ index[calls[n].v] <= index[x] /\ x \in OnStack
    BY <1>2 DEF G
  <2> QED
    BY <1>2, <2>1 DEF ReachKept
<1>22. \A x \in G : DependsOn(x, v)
  <2> DEFINE Bad == {x \in G : ~DependsOn(x, v)}
             Places == {index[x] : x \in Bad}
  <2> SUFFICES ASSUME Bad # {}
               PROVE  FALSE
    OBVIOUS
  <2>1. Places \in SUBSET Nat /\ Places # {}
    BY <1>5, <1>8
  <2>2. PICK m \in Places : \A y \in Places : m <= y
    BY <2>1, LeastIn
  <2>3. PICK x \in Bad : \A y \in Bad : index[x] <= index[y]
    BY <2>2
  <2> HIDE DEF Places
  <2>4. x # v
    BY <1>2, DependsOnItself
  <2>5. x \in OnStack \ Computing
    BY <1>2, <1>8, <1>19, <2>4
  <2>6. lowlink[x] < index[x]
    BY <2>5 DEF LowKept
  <2>7. PICK u \in OnStack : index[u] = lowlink[x] /\ DependsOn(x, u)
    BY <2>5 DEF LowKept
  <2>8. u \in G
    BY <1>18, <2>7 DEF G
  <2>9. index[u] < index[x]
    BY <2>6, <2>7
  <2>10. u \notin Bad
    <3> SUFFICES ASSUME u \in Bad
                 PROVE  FALSE
      OBVIOUS
    <3>1. index[x] <= index[u]
      BY <2>3
    <3> HIDE DEF Bad
    <3>2. index[x] \in Int /\ index[u] \in Int
      BY <1>5, <2>5, <2>7
    <3> QED
      BY <2>9, <3>1, <3>2
  <2>11. DependsOn(u, v)
    BY <2>8, <2>10
  <2> QED
    BY <1>1, <2>7, <2>11, DependsOnward
<1>23. \A x \in OnStack : calls' # <<>> \/ x \in G
  <2> SUFFICES ASSUME NEW x \in OnStack, calls' = <<>>
               PROVE  x \in G
    OBVIOUS
  <2>1. n = 1
    BY <1>2
  <2>2. index[calls[1].v] <= index[x]
    BY DEF CallsKept
  <2> QED
    BY <1>2, <2>1, <2>2 DEF G
<1>24. GroupsTyped'
  BY <1>1, <1>2, <1>6, <1>11, <1>13 DEF GroupsTyped, IsGraph
<1>25. RoundsKept'
  BY <1>1, <1>3, ReachStays DEF RoundsKept
<1>26. NodesKept'
  <2>1. \A x \in Identifier : Visited(x) => x \in met /\ index[x] \in 0..(m_index - 1)
    BY DEF NodesKept
  <2>2. \A x, y \in Identifier : Visited(x) /\ index[x] = index[y] => x = y
    BY DEF NodesKept
  <2>3. \A x \in Identifier : Visited(x) <=> x \in OnStack' \/ x \in InGroups'
    BY <1>7, <1>8, <1>12 DEF NodesKept
  <2>4. OnStack' \cap InGroups' = {}
    BY <1>8, <1>12 DEF NodesKept
  <2> QED
    BY <1>1, <1>6, <1>14, <2>1, <2>2, <2>3, <2>4 DEF NodesKept
<1>27. CallsKept'
  <2>1. \A i \in 1..(n - 1) : calls'[i].v \in OnStack' /\ calls'[i].edges \subseteq free[calls'[i].v]
    BY <1>2, <1>9, <1>10 DEF CallsKept
  <2>2. \A i, j \in 1..(n - 1) : i < j => index[calls'[i].v] < index[calls'[j].v]
    BY <1>2, <1>9 DEF CallsKept
  <2>3. \A i, j \in 1..(n - 1) : j = i + 1 => calls'[j].v \in free[calls'[i].v] \ calls'[i].edges
    BY <1>2, <1>9 DEF CallsKept
  <2>4. \A x \in OnStack' : calls' # <<>> /\ index[calls'[1].v] <= index[x]
    <3> SUFFICES ASSUME NEW x \in OnStack'
                 PROVE  calls' # <<>> /\ index[calls'[1].v] <= index[x]
      OBVIOUS
    <3>1. calls' # <<>> /\ x \in OnStack
      BY <1>8, <1>23
    <3>2. 1 \in 1..(n - 1)
      <4>1. n # 1
        BY <1>2, <3>1
      <4> QED
        BY <1>2, <4>1
    <3>3. calls'[1].v = calls[1].v
      BY <1>2, <3>2
    <3> QED
      BY <3>1, <3>3 DEF CallsKept
  <2> QED
    BY <1>1, <1>2, <2>1, <2>2, <2>3, <2>4 DEF CallsKept
<1>28. ReachKept'
  <2>1. \A i \in 1..n : \A x \in OnStack : index[calls[i].v] <= index[x] => DependsOn(calls[i].v, x)
    BY <1>2 DEF ReachKept
  <2> QED
    BY <1>1, <1>2, <1>8, <1>9, <1>15, <2>1 DEF ReachKept
<1>29. LowKept'
  <2>1. \A x \in OnStack' : lowlink[x] <= index[x]
    BY <1>8 DEF LowKept
  <2>2. \A x \in OnStack' : \E u \in OnStack' : index[u] = lowlink[x] /\ DependsOn(x, u)
    <3> SUFFICES ASSUME NEW x \in OnStack'
                 PROVE  \E u \in OnStack' : index[u] = lowlink[x] /\ DependsOn(x, u)
      OBVIOUS
    <3>1. x \in OnStack /\ index[x] < index[v]
      BY <1>6
    <3>2. PICK u \in OnStack : index[u] = lowlink[x] /\ DependsOn(x, u)
      BY <3>1 DEF LowKept
    <3>3. index[u] < index[v]
      <4>1. lowlink[x] <= index[x]
        BY <3>1 DEF LowKept
      <4> QED
        BY <1>2, <1>5, <3>1, <3>2, <4>1
    <3> QED
      BY <1>6, <3>2, <3>3
  <2>3. ASSUME NEW i \in 1..(n - 1), NEW x \in OnStack', UnderCall(i, x)'
        PROVE  lowlink[calls[i].v] <= lowlink[x]
    <3>1. index[calls[i].v] <= index[x]
      BY <1>1, <1>2, <2>3 DEF UnderCall
    <3>2. ASSUME NEW j \in 1..n, j = i + 1
          PROVE  index[x] < index[calls[j].v]
      <4>1. CASE j = n
        BY <1>2, <1>6, <4>1
      <4>2. CASE j # n
        <5>1. j \in 1..(n - 1)
          BY <1>2, <4>2
        <5> QED
          BY <1>1, <1>2, <2>3, <3>2, <5>1 DEF UnderCall
      <4> QED
        BY <4>1, <4>2
    <3>3. UnderCall(i, x)
      BY <1>2, <3>1, <3>2 DEF UnderCall
    <3> QED
      BY <1>2, <1>8, <1>9, <3>3 DEF LowKept
  <2>4. \A x \in OnStack' \ Computing' : lowlink[x] < index[x]
    BY <1>2, <1>8 DEF LowKept
  <2> QED
    BY <1>1, <1>2, <1>13, <1>15, <2>1, <2>2, <2>3, <2>4 DEF LowKept
<1>30. \A x, y \in Identifier : Taken(x, y) => Taken(x, y)'
  BY <1>1, <1>8, <1>13, <1>14 DEF Taken
<1>31. EdgesKept'
  <2>1. \A x \in OnStack' \ Computing' : \A y \in free[x] : Taken(x, y)'
    <3> SUFFICES ASSUME NEW x \in OnStack' \ Computing', NEW y \in free[x]
                 PROVE  Taken(x, y)'
      OBVIOUS
    <3>1. x \in OnStack \ Computing /\ x \in Identifier /\ y \in Identifier
      BY <1>2, <1>4, <1>8, <1>16
    <3>2. Taken(x, y)
      BY <3>1 DEF EdgesKept
    <3> QED
      BY <1>30, <3>1, <3>2
  <2>2. ASSUME NEW i \in 1..(n - 1), NEW y \in free[calls[i].v] \ calls[i].edges
        PROVE  \/ Taken(calls[i].v, y)'
               \/ \E j \in 1..(n - 1) : j = i + 1 /\ y = calls[j].v
    <3>1. calls[i].v \in OnStack /\ calls[i].v \in Identifier /\ y \in Identifier /\ i \in 1..n
      BY <1>2, <1>4, <1>9, <1>16
    <3>2. CASE Taken(calls[i].v, y)
      BY <1>2, <1>30, <3>1, <3>2 DEF Taken
    <3>3. CASE \E j \in 1..n : j = i + 1 /\ y = calls[j].v
      <4>1. CASE i = n - 1
        <5>1. y = v
          BY <1>2, <3>3, <4>1
        <5>2. Visited(v)
          BY <1>2 DEF NodesKept
        <5>3. v \notin OnStack'
          BY <1>8
        <5> QED
          BY <1>2, <1>14, <5>1, <5>2, <5>3 DEF Taken
      <4>2. CASE i # n - 1
        <5>1. i + 1 \in 1..(n - 1)
          BY <1>2, <4>2
        <5> QED
          BY <3>3, <5>1
      <4> QED
        BY <4>1, <4>2
    <3> QED
      BY <1>2, <3>1, <3>2, <3>3 DEF EdgesKept
  <2> QED
    BY <1>1, <1>2, <2>1, <2>2 DEF EdgesKept
<1>32. GroupsKept'
  <2> DEFINE m == Len(groups)
  <2>1. \A i \in 1..(m + 1) : i # m + 1 => i \in 1..m
    BY <1>11
  <2>2. ASSUME NEW i \in 1..(m + 1), NEW x \in groups'[i], NEW y \in groups'[i]
        PROVE  DependsOn(x, y)
    <3>1. CASE i = m + 1
      <4>1. DependsOn(x, v) /\ DependsOn(v, y)
        BY <1>11, <1>21, <1>22, <2>2, <3>1
      <4> QED
        BY <1>1, <4>1, DependsOnward
    <3>2. CASE i # m + 1
      <4>1. groups'[i] = groups[i] /\ i \in DOMAIN groups
        BY <1>11, <2>1, <3>2
      <4> QED
        BY <2>2, <4>1 DEF GroupsKept
    <3> QED
      BY <3>1, <3>2
  <2>3. \A i \in 1..m : UpTo(i)' = UpTo(i)
    <3> SUFFICES ASSUME NEW i \in 1..m
                 PROVE  UpTo(i)' = UpTo(i)
      OBVIOUS
    <3>1. \A j \in 1..i : groups'[j] = groups[j]
      BY <1>11
    <3> QED
      BY <3>1 DEF UpTo
  <2>4. InGroups \cup G \subseteq UNION {groups'[j] : j \in 1..(m + 1)}
    <3>1. \A x \in InGroups : \E j \in 1..m : x \in groups[j]
      BY <1>11, InGroupsIs
    <3>2. \A j \in 1..m : groups'[j] = groups[j] /\ j \in 1..(m + 1)
      BY <1>11
    <3>3. m + 1 \in 1..(m + 1) /\ groups'[m + 1] = G
      BY <1>11
    <3> HIDE DEF m
    <3> QED
      BY <3>1, <3>2, <3>3
  <2>5. ASSUME NEW i \in 1..(m + 1), NEW x \in groups'[i]
        PROVE  free[x] \subseteq UNION {groups'[j] : j \in 1..i}
    <3>1. CASE i = m + 1
      BY <1>11, <1>20, <2>4, <2>5, <3>1
    <3>2. CASE i # m + 1
      <4>1. groups'[i] = groups[i] /\ i \in DOMAIN groups /\ i \in 1..m
        BY <1>11, <2>1, <3>2
      <4>2. free[x] \subseteq UpTo(i)
        BY <2>5, <4>1 DEF GroupsKept
      <4>3. UpTo(i)' = UpTo(i)
        BY <2>3, <4>1
      <4> QED
        BY <4>2, <4>3 DEF UpTo
    <3> QED
      BY <3>1, <3>2
  <2>6. \A i \in 1..m : groups[i] \cap G = {}
    <3>1. \A i \in DOMAIN groups : groups[i] \subseteq InGroups
      BY DEF InGroups, ToSet
    <3>2. InGroups \cap G = {}
      BY <1>8 DEF NodesKept
    <3> QED
      BY <1>11, <3>1, <3>2
  <2>7. ASSUME NEW i \in 1..(m + 1), NEW j \in 1..(m + 1), i # j
        PROVE  groups'[i] \cap groups'[j] = {}
    <3>1. CASE i # m + 1 /\ j # m + 1
      BY <1>11, <2>1, <2>7, <3>1 DEF GroupsKept
    <3>2. CASE i = m + 1
      BY <1>11, <2>1, <2>6, <2>7, <3>2
    <3>3. CASE j = m + 1
      BY <1>11, <2>1, <2>6, <2>7, <3>3
    <3> QED
      BY <3>1, <3>2, <3>3
  <2> QED
    BY <1>1, <1>11, <1>15, <2>2, <2>5, <2>7 DEF GroupsKept, UpTo
<1> QED
  BY <1>24, <1>25, <1>26, <1>27, <1>28, <1>29, <1>31, <1>32

(***************************************************************************)
(* The theorems                                                            *)
(***************************************************************************)
LEMMA GroupsStepKeeps ==
  ASSUME GroupsInv, [NextGroups]_groupsVars
  PROVE  GroupsInv'
<1>1. CASE FindFree
  BY <1>1, FindFreeKeeps
<1>2. CASE Start
  BY <1>2, StartKeeps
<1>3. ASSUME NEW w \in met, VisitNew(w)
      PROVE  GroupsInv'
  BY <1>3, VisitNewKeeps
<1>4. \A w : Contains(m_S, w) <=> w \in OnStack
  BY DEF Contains, OnStack, ToSet
<1>5. ASSUME NEW w \in met, VisitOnStack(w)
      PROVE  GroupsInv'
  BY <1>4, <1>5, LookKeeps DEF VisitOnStack, Visited
<1>6. ASSUME NEW w \in met, VisitDone(w)
      PROVE  GroupsInv'
  BY <1>4, <1>6, LookKeeps DEF VisitDone, Visited, nodeVars
<1>7. ASSUME NEW v \in met, FinishRoot(v)
      PROVE  GroupsInv'
  BY <1>7, FinishRootKeeps
<1>8. ASSUME NEW v \in met, FinishOther(v)
      PROVE  GroupsInv'
  BY <1>8, FinishOtherKeeps
<1>9. CASE UNCHANGED groupsVars
  <2>1. /\ free' = free /\ ids' = ids /\ round' = round /\ met' = met /\ calls' = calls
        /\ m_index' = m_index /\ index' = index /\ lowlink' = lowlink /\ m_S' = m_S /\ groups' = groups
    BY <1>9 DEF groupsVars
  <2>2. GroupsTyped' /\ NodesKept' /\ CallsKept'
    BY <2>1 DEF GroupsInv, GroupsTyped, NodesKept, CallsKept, IsGraph, Identifier, Call, Visited,
                OnStack, InGroups
  <2>3. \A x, y : DependsOn(x, y)' <=> DependsOn(x, y)
    BY <2>1, ReachStays
  <2>4. RoundsKept'
    BY <2>1, ReachStays DEF GroupsInv, RoundsKept, Identifier, Visited
  <2>5. ReachKept' /\ LowKept' /\ EdgesKept' /\ GroupsKept'
    BY <2>1, <2>3 DEF GroupsInv, ReachKept, LowKept, EdgesKept, GroupsKept, UnderCall, Taken, UpTo,
                      OnStack, Computing, Visited
  <2> QED
    BY <2>2, <2>4, <2>5 DEF GroupsInv
<1> QED
  BY <1>1, <1>2, <1>3, <1>5, <1>6, <1>7, <1>8, <1>9 DEF NextGroups

\* Whatever a program mentions, the groups whose types are inferred together
\* are the strongly connected components of what the identifiers asked for
\* depend on, each in the list before those that depend on it: what
\* infer_system takes for granted of generate_recurse_groups, and the depth
\* first search of StrongConnect gives.
THEOREM GroupsAreInOrder == SpecGroups => []GroupsInOrder
<1>1. InitGroups => GroupsInv
  BY GroupsStart
<1>2. GroupsInv /\ [NextGroups]_groupsVars => GroupsInv'
  BY GroupsStepKeeps
<1>3. GroupsInv => GroupsInOrder
  BY GroupsAtEnd
<1> QED
  BY <1>1, <1>2, <1>3, PTL DEF SpecGroups
=============================================================================
