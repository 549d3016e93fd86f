---------------------------- MODULE SystemProofs ----------------------------
(***************************************************************************)
(* The system around the definition groups, for any number of names, host  *)
(* functions, uuids, instants, lines, expressions and ranges: the tables   *)
(* of the registry agree with one another, under the main loop too; what   *)
(* is printed for an expression is its value in the instant it was asked   *)
(* in; and a demand enumerates its contexts once each.                     *)
(*                                                                         *)
(* An operation on an object leaves every definition where it is, but for  *)
(* the end of at most one, and puts at most one behind the others of the   *)
(* object: Changes says so position by position, AddTo, SendDel and        *)
(* SendRepl are shown to be such a change, and each part of the inductive  *)
(* invariant RInv is shown to survive any change of the kind.              *)
(*                                                                         *)
(* The contexts of a demand are ordered as the digits of an odometer order *)
(* them, the first digit going fastest; counting goes from a context to    *)
(* the next one of that order, so what has been put is always what comes   *)
(* before.                                                                 *)
(***************************************************************************)
EXTENDS TextInstants, DemandEnumeration, TLAPS, WellFoundedInduction

(***************************************************************************)
(* The inductive invariant                                                 *)
(***************************************************************************)
Host == {NoHost} \cup ((Name \X Nat) \X HostObject)
DefinitionType == [uuid : Nat, start : Nat, end : Int, host : Host]

\* The tables are functions, and a group is a sequence of definitions
TablesTyped ==
  /\ defs \in [DOMAIN defs -> Seq(DefinitionType)]
  /\ baseCounter \in [DOMAIN baseCounter -> Nat]

\* A uuid is sent to an object that is there
ObjectsMade == \A u \in DOMAIN objects : objects[u] \in DOMAIN defs

RInv ==
  /\ TablesTyped /\ RegistryTypeOK /\ ObjectsMade
  /\ UUIDsOwned /\ OneOpen /\ FirstWins

(***************************************************************************)
(* What an operation does to the definitions, position by position         *)
(***************************************************************************)
Placed(p, i) == p \in DOMAIN defs /\ i \in DOMAIN defs[p]
PlacedNext(p, i) == p \in DOMAIN defs' /\ i \in DOMAIN defs'[p]

\* Definition d is put at position n of o, all others stay as they are
OneMore(o, n, d) ==
  /\ DOMAIN defs' = DOMAIN defs \cup {o}
  /\ ~Placed(o, n)
  /\ o \in DOMAIN defs => n # 1
  /\ o \notin DOMAIN defs => n = 1
  /\ PlacedNext(o, n) /\ defs'[o][n] = d
  /\ \A p, i : Placed(p, i) => PlacedNext(p, i) /\ defs'[p][i] = defs[p][i]
  /\ \A p, i : PlacedNext(p, i) => Placed(p, i) \/ (p = o /\ i = n)

LEMMA NewDefinitionTyped ==
  ASSUME NEW u \in Nat, NEW t \in Nat, NEW host \in Host
  PROVE  Definition(u, t, host) \in DefinitionType
BY DEF Definition, DefinitionType, Open

(***************************************************************************)
(* AddTo appends one definition, to a group that is there or to a new one. *)
(***************************************************************************)
LEMMA AddToPlaces ==
  ASSUME TablesTyped, RegistryTypeOK,
         NEW o, NEW name, NEW host \in Host, NEW known \in BOOLEAN,
         AddTo(o, name, host, known)
  PROVE  /\ defs' \in [DOMAIN defs' -> Seq(DefinitionType)]
         /\ \E n \in Nat : OneMore(o, n, Definition(lastUUID + 1, time, host))
<1> DEFINE d == Definition(lastUUID + 1, time, host)
           new == [x \in DOMAIN defs \cup {o} |->
                     IF x # o THEN defs[x]
                     ELSE IF o \in DOMAIN defs THEN Append(defs[o], d) ELSE <<d>>]
<1>1. lastUUID + 1 \in Nat /\ time \in Nat
  BY RegistryAssumption DEF RegistryTypeOK
<1>2. d \in DefinitionType
  BY <1>1, NewDefinitionTyped
<1>3. defs' = new
  BY DEF AddTo
<1>4. DOMAIN defs' = DOMAIN defs \cup {o}
  BY <1>3
<1>5. \A x \in DOMAIN defs : x # o => defs'[x] = defs[x]
  BY <1>3
<1>6. \A x \in DOMAIN defs : defs[x] \in Seq(DefinitionType)
  BY DEF TablesTyped
<1>7. CASE o \in DOMAIN defs
  <2> DEFINE n == Len(defs[o]) + 1
  <2>1. defs'[o] = Append(defs[o], d)
    BY <1>3, <1>7
  <2>2. defs[o] \in Seq(DefinitionType) /\ defs[o] # <<>>
    BY <1>6, <1>7 DEF RegistryTypeOK
  <2>3. /\ defs'[o] \in Seq(DefinitionType)
        /\ DOMAIN defs[o] = 1..(n - 1) /\ DOMAIN defs'[o] = 1..n
        /\ n \in Nat /\ n > 1
        /\ defs'[o][n] = d
        /\ \A i \in 1..(n - 1) : defs'[o][i] = defs[o][i]
    BY <2>1, <2>2, <1>2
  <2> HIDE DEF d, n
  <2>4. defs' \in [DOMAIN defs' -> Seq(DefinitionType)]
    BY <1>3, <1>4, <1>5, <1>6, <2>3
  <2>5. OneMore(o, n, d)
    <3>1. ~Placed(o, n) /\ PlacedNext(o, n)
      <4>1. n \notin 1..(n - 1) /\ n \in 1..n
        BY <2>3
      <4> QED
        BY <4>1, <1>4, <1>7, <2>3 DEF Placed, PlacedNext
    <3>2. ASSUME NEW p, NEW i, Placed(p, i)
          PROVE  PlacedNext(p, i) /\ defs'[p][i] = defs[p][i]
      <4>1. CASE p = o
        <5>1. i \in 1..(n - 1)
          BY <3>2, <4>1, <2>3 DEF Placed, PlacedNext
        <5>2. i \in 1..n
          BY <5>1, <2>3
        <5> QED
          BY <5>1, <5>2, <4>1, <1>4, <2>3 DEF Placed, PlacedNext
      <4>2. CASE p # o
        BY <3>2, <4>2, <1>4, <1>5 DEF Placed, PlacedNext
      <4> QED
        BY <4>1, <4>2
    <3>3. ASSUME NEW p, NEW i, PlacedNext(p, i)
          PROVE  Placed(p, i) \/ (p = o /\ i = n)
      <4>1. CASE p = o
        <5>1. i \in 1..n
          BY <3>3, <4>1, <2>3 DEF Placed, PlacedNext
        <5>2. i \in 1..(n - 1) \/ i = n
          BY <5>1, <2>3
        <5> QED
          BY <5>2, <4>1, <1>7, <2>3 DEF Placed, PlacedNext
      <4>2. CASE p # o
        BY <3>3, <4>2, <1>4, <1>5 DEF Placed, PlacedNext
      <4> QED
        BY <4>1, <4>2
    <3> QED
      BY <1>4, <1>7, <2>3, <3>1, <3>2, <3>3 DEF OneMore
  <2> QED
    BY <2>3, <2>4, <2>5 DEF d
<1>8. CASE o \notin DOMAIN defs
  <2>1. defs'[o] = <<d>>
    BY <1>3, <1>8
  <2>2. defs'[o] \in Seq(DefinitionType) /\ DOMAIN defs'[o] = {1} /\ defs'[o][1] = d
    BY <2>1, <1>2
  <2> HIDE DEF d
  <2>3. defs' \in [DOMAIN defs' -> Seq(DefinitionType)]
    BY <1>3, <1>4, <1>5, <1>6, <2>2
  <2>4. OneMore(o, 1, d)
    BY <1>4, <1>5, <1>8, <2>2 DEF OneMore, Placed, PlacedNext
  <2> QED
    BY <2>3, <2>4 DEF d
<1> QED
  BY <1>7, <1>8

(***************************************************************************)
(* The definition a uuid is indexed at is the first that was added with it *)
(***************************************************************************)
LEMMA LeastOf ==
  ASSUME NEW S \in SUBSET Nat, S # {}
  PROVE  \E n \in S : \A m \in S : n <= m
<1>1. PICK n \in S : \A m \in S : ~(<<m, n>> \in OpToRel(<, Nat))
  BY NatLessThanWellFounded, WFMin, Zenon
<1>2. \A m \in S : ~(m < n)
  BY <1>1 DEF OpToRel
<1> QED
  BY <1>2

LEMMA IndexedIsPlaced ==
  ASSUME TablesTyped, NEW o \in DOMAIN defs, NEW u, Positions(o, u) # {}
  PROVE  /\ Indexed(o, u) \in Nat
         /\ Placed(o, Indexed(o, u))
         /\ defs[o][Indexed(o, u)].uuid = u
<1>1. Positions(o, u) \subseteq Nat
  BY DEF TablesTyped, Positions
<1>2. \E n \in Positions(o, u) : \A m \in Positions(o, u) : n <= m
  BY <1>1, LeastOf
<1>3. Indexed(o, u) \in Positions(o, u)
  BY <1>2 DEF Indexed
<1> QED
  BY <1>1, <1>3 DEF Positions, Placed

(***************************************************************************)
(* What any operation on object o does: of the definitions there, one with *)
(* the uuid u and open may end; and one with u may come, when none of u in *)
(* o is left open.                                                         *)
(***************************************************************************)
Kept(p, i) == PlacedNext(p, i) /\ defs'[p][i] = defs[p][i]
EndsNow(p, i) ==
  /\ PlacedNext(p, i)
  /\ defs[p][i].end = Open
  /\ defs'[p][i] = [defs[p][i] EXCEPT !.end = time]
New(p, i) == PlacedNext(p, i) /\ ~Placed(p, i)

Changes(o, u, host) ==
  /\ defs' \in [DOMAIN defs' -> Seq(DefinitionType)]
  /\ DOMAIN defs' = DOMAIN defs \cup {o}
  /\ \A p, i : Placed(p, i) =>
       Kept(p, i) \/ (p = o /\ defs[p][i].uuid = u /\ EndsNow(p, i))
  /\ \A p, i : New(p, i) => p = o /\ defs'[p][i] = Definition(u, time, host)
  /\ \A i, j : New(o, i) /\ New(o, j) => i = j
  /\ \A i, j : New(o, i) /\ Placed(o, j) /\ defs[o][j].uuid = u => defs'[o][j].end # Open
  /\ o \notin DOMAIN defs => New(o, 1)

\* A definition that is there has the fields of one, and its place is a number
LEMMA PlacedTyped ==
  ASSUME TablesTyped, NEW p, NEW i, Placed(p, i)
  PROVE  defs[p][i] \in DefinitionType /\ i \in Nat
BY DEF TablesTyped, Placed

LEMMA AddToChanges ==
  ASSUME TablesTyped, RegistryTypeOK,
         NEW o, NEW name, NEW host \in Host, NEW known \in BOOLEAN,
         AddTo(o, name, host, known)
  PROVE  Changes(o, lastUUID + 1, host)
<1>1. PICK n \in Nat : OneMore(o, n, Definition(lastUUID + 1, time, host))
  BY AddToPlaces
<1>2. defs' \in [DOMAIN defs' -> Seq(DefinitionType)]
  BY AddToPlaces
<1>3. ASSUME NEW j, Placed(o, j)
      PROVE  defs[o][j].uuid # lastUUID + 1
  BY <1>3, RegistryAssumption DEF RegistryTypeOK, Placed
<1> QED
  BY <1>1, <1>2, <1>3 DEF OneMore, Changes, Kept, New

LEMMA EndedTyped ==
  ASSUME NEW r \in DefinitionType, NEW t \in Nat
  PROVE  [r EXCEPT !.end = t] \in DefinitionType /\ [r EXCEPT !.end = t].end = t
<1>1. r = [uuid |-> r.uuid, start |-> r.start, end |-> r.end, host |-> r.host]
  BY DEF DefinitionType
<1>2. DOMAIN r = {"uuid", "start", "end", "host"}
  BY <1>1
<1>3. [r EXCEPT !.end = t].end = t
  BY <1>2
<1>4. [r EXCEPT !.end = t] \in DefinitionType
  BY DEF DefinitionType
<1> QED
  BY <1>3, <1>4

LEMMA SendDelChanges ==
  ASSUME TablesTyped, RegistryTypeOK, NEW o \in DOMAIN defs, NEW u,
         CanEnd(o, u), SendDel(o, u)
  PROVE  Changes(o, u, NoHost)
<1> DEFINE n == Indexed(o, u)
<1>1. n \in Nat /\ Placed(o, n) /\ defs[o][n].uuid = u /\ defs[o][n].end = Open
  BY IndexedIsPlaced DEF CanEnd
<1>2. defs' = [defs EXCEPT ![o][n].end = time]
  BY DEF SendDel, Ended
<1> HIDE DEF n
<1>3. /\ defs[o] \in Seq(DefinitionType) /\ n \in DOMAIN defs[o]
      /\ defs[o][n] \in DefinitionType /\ time \in Int
  BY <1>1, RegistryAssumption DEF TablesTyped, Placed, RegistryTypeOK
<1>4. [defs[o][n] EXCEPT !.end = time] \in DefinitionType
  BY <1>3 DEF DefinitionType
<1>5. /\ DOMAIN defs' = DOMAIN defs
      /\ defs'[o] = [defs[o] EXCEPT ![n] = [defs[o][n] EXCEPT !.end = time]]
      /\ \A p \in DOMAIN defs : p # o => defs'[p] = defs[p]
  BY <1>2 DEF TablesTyped
<1>6. defs'[o] \in Seq(DefinitionType) /\ DOMAIN defs'[o] = DOMAIN defs[o]
  BY <1>3, <1>4, <1>5
<1>7. defs' \in [DOMAIN defs' -> Seq(DefinitionType)]
  <2>1. defs' = [p \in DOMAIN defs |-> defs'[p]]
    BY <1>2 DEF TablesTyped
  <2>2. \A p \in DOMAIN defs : defs'[p] \in Seq(DefinitionType)
    BY <1>5, <1>6 DEF TablesTyped
  <2> QED
    BY <2>1, <2>2, <1>5
<1>8. \A p, i : PlacedNext(p, i) <=> Placed(p, i)
  BY <1>5, <1>6 DEF PlacedNext, Placed
<1>9. ASSUME NEW p, NEW i, Placed(p, i)
      PROVE  Kept(p, i) \/ (p = o /\ defs[p][i].uuid = u /\ EndsNow(p, i))
  BY <1>9, <1>1, <1>3, <1>5, <1>8 DEF Kept, EndsNow, Placed
<1> QED
  BY <1>5, <1>7, <1>8, <1>9 DEF Changes, New

LEMMA SendReplChanges ==
  ASSUME TablesTyped, RegistryTypeOK, OneOpen, NEW o \in DOMAIN defs, NEW u \in Nat,
         CanEnd(o, u), SendRepl(o, u)
  PROVE  Changes(o, u, NoHost)
<1> DEFINE n == Indexed(o, u)
           ended == [defs[o][n] EXCEPT !.end = time]
           d == Definition(u, time, NoHost)
           m == Len(defs[o]) + 1
<1>1. n \in Nat /\ Placed(o, n) /\ defs[o][n].uuid = u /\ defs[o][n].end = Open
  BY IndexedIsPlaced DEF CanEnd
<1>2. defs' = [[defs EXCEPT ![o][n].end = time] EXCEPT ![o] = Append(@, d)]
  BY DEF SendRepl, Ended
<1>3. /\ defs[o] \in Seq(DefinitionType) /\ n \in DOMAIN defs[o]
      /\ defs[o][n] \in DefinitionType /\ time \in Nat
  BY <1>1, RegistryAssumption DEF TablesTyped, Placed, RegistryTypeOK
<1>4. ended \in DefinitionType /\ ended.end = time
  BY <1>3, EndedTyped
<1>5. d \in DefinitionType
  BY <1>3, NewDefinitionTyped DEF Host
<1>6. /\ DOMAIN defs' = DOMAIN defs
      /\ defs'[o] = Append([defs[o] EXCEPT ![n] = ended], d)
      /\ \A p \in DOMAIN defs : p # o => defs'[p] = defs[p]
  <2> HIDE DEF n, d
  <2> QED
    BY <1>2 DEF TablesTyped
<1> HIDE DEF d, n, ended
<1>7. /\ [defs[o] EXCEPT ![n] = ended] \in Seq(DefinitionType)
      /\ Len([defs[o] EXCEPT ![n] = ended]) = Len(defs[o])
  BY <1>3, <1>4
<1>8. /\ defs'[o] \in Seq(DefinitionType)
      /\ DOMAIN defs[o] = 1..(m - 1) /\ DOMAIN defs'[o] = 1..m /\ m \in Nat
      /\ defs'[o][m] = d /\ defs'[o][n] = ended
      /\ \A i \in 1..(m - 1) : i # n => defs'[o][i] = defs[o][i]
  BY <1>3, <1>5, <1>6, <1>7
<1> HIDE DEF m
<1>9. 1..(m - 1) \subseteq 1..m /\ \A i \in 1..m : i \in 1..(m - 1) \/ i = m
  BY <1>8
<1>10. defs' \in [DOMAIN defs' -> Seq(DefinitionType)]
  <2>1. defs' = [p \in DOMAIN defs |-> defs'[p]]
    BY <1>2 DEF TablesTyped
  <2>2. \A p \in DOMAIN defs : defs'[p] \in Seq(DefinitionType)
    BY <1>6, <1>8 DEF TablesTyped
  <2> QED
    BY <2>1, <2>2, <1>6
<1>11. ASSUME NEW p, NEW i, Placed(p, i)
       PROVE  Kept(p, i) \/ (p = o /\ defs[p][i].uuid = u /\ EndsNow(p, i))
  <2>1. CASE p # o
    BY <1>11, <2>1, <1>6 DEF Kept, Placed, PlacedNext
  <2>2. CASE p = o /\ i = n
    BY <1>11, <2>2, <1>1, <1>6, <1>8, <1>9 DEF EndsNow, Placed, PlacedNext, ended
  <2>3. CASE p = o /\ i # n
    BY <1>11, <2>3, <1>6, <1>8, <1>9 DEF Kept, Placed, PlacedNext
  <2> QED
    BY <2>1, <2>2, <2>3
<1>12. ASSUME NEW p, NEW i, New(p, i)
       PROVE  p = o /\ i = m /\ defs'[p][i] = d
  <2>1. p = o
    BY <1>12, <1>6 DEF New, Placed, PlacedNext
  <2> QED
    BY <1>12, <2>1, <1>6, <1>8, <1>9 DEF New, Placed, PlacedNext
<1>13. ASSUME NEW j, Placed(o, j), defs[o][j].uuid = u
       PROVE  defs'[o][j].end # Open
  <2>1. CASE j = n
    BY <2>1, <1>3, <1>4, <1>8 DEF Open
  <2>2. CASE j # n
    <3>1. j \in DOMAIN defs[o] /\ defs[o][j].end # Open
      BY <1>13, <2>2, <1>1 DEF OneOpen, Placed
    <3> QED
      BY <3>1, <2>2, <1>8
  <2> QED
    BY <2>1, <2>2
<1> QED
  BY <1>6, <1>10, <1>11, <1>12, <1>13 DEF Changes, d

(***************************************************************************)
(* What such a change preserves                                            *)
(***************************************************************************)
\* A definition that was there has its uuid and its start
LEMMA OldStays ==
  ASSUME TablesTyped, NEW o, NEW u, NEW host, Changes(o, u, host),
         NEW p, NEW i, Placed(p, i)
  PROVE  /\ PlacedNext(p, i)
         /\ defs'[p][i].uuid = defs[p][i].uuid
         /\ defs'[p][i].start = defs[p][i].start
         /\ \/ defs'[p][i].end = defs[p][i].end
            \/ /\ p = o /\ defs[p][i].uuid = u /\ defs[p][i].end = Open
               /\ defs'[p][i].end = time
<1>1. Kept(p, i) \/ (p = o /\ defs[p][i].uuid = u /\ EndsNow(p, i))
  BY DEF Changes
<1>2. defs[p][i] \in DefinitionType
  BY PlacedTyped
<1>3. defs[p][i] = [uuid |-> defs[p][i].uuid, start |-> defs[p][i].start,
                    end |-> defs[p][i].end, host |-> defs[p][i].host]
  BY <1>2 DEF DefinitionType
<1>4. DOMAIN defs[p][i] = {"uuid", "start", "end", "host"}
  BY <1>3
<1>5. CASE Kept(p, i)
  BY <1>5 DEF Kept
<1>6. CASE p = o /\ defs[p][i].uuid = u /\ EndsNow(p, i)
  BY <1>6, <1>4 DEF EndsNow
<1> QED
  BY <1>1, <1>5, <1>6

LEMMA NewIs ==
  ASSUME NEW o, NEW u, NEW host, Changes(o, u, host), NEW p, NEW i, New(p, i)
  PROVE  /\ p = o
         /\ defs'[p][i].uuid = u /\ defs'[p][i].start = time /\ defs'[p][i].end = Open
BY DEF Changes, Definition

LEMMA OldOrNew ==
  ASSUME NEW p \in DOMAIN defs', NEW i \in DOMAIN defs'[p]
  PROVE  Placed(p, i) \/ New(p, i)
BY DEF Placed, New, PlacedNext

\* Every object has a first definition
LEMMA FirstPlaced ==
  ASSUME TablesTyped, RegistryTypeOK, NEW p \in DOMAIN defs
  PROVE  Placed(p, 1)
<1>1. defs[p] \in Seq(DefinitionType) /\ defs[p] # <<>>
  BY DEF TablesTyped, RegistryTypeOK
<1> QED
  BY <1>1 DEF Placed

LEMMA ChangesFirst ==
  ASSUME TablesTyped, RegistryTypeOK, NEW o, NEW u, NEW host, Changes(o, u, host),
         NEW p \in DOMAIN defs'
  PROVE  /\ PlacedNext(p, 1)
         /\ p \in DOMAIN defs => Placed(p, 1)
         /\ p \notin DOMAIN defs => p = o /\ New(p, 1)
<1>1. CASE p \in DOMAIN defs
  BY <1>1, FirstPlaced, OldStays
<1>2. CASE p \notin DOMAIN defs
  BY <1>2 DEF Changes, New
<1> QED
  BY <1>1, <1>2

LEMMA ChangesOneOpen ==
  ASSUME TablesTyped, RegistryTypeOK, OneOpen,
         NEW o, NEW u, NEW host, Changes(o, u, host)
  PROVE  OneOpen'
<1> SUFFICES ASSUME NEW p \in DOMAIN defs', NEW i \in DOMAIN defs'[p],
                    NEW j \in DOMAIN defs'[p],
                    defs'[p][i].uuid = defs'[p][j].uuid,
                    defs'[p][i].end = Open, defs'[p][j].end = Open
             PROVE  i = j
  BY DEF OneOpen
<1>1. time # Open
  BY RegistryAssumption DEF RegistryTypeOK, Open
<1>2. CASE Placed(p, i) /\ Placed(p, j)
  <2>1. defs[p][i].uuid = defs[p][j].uuid /\ defs[p][i].end = Open /\ defs[p][j].end = Open
    BY <1>1, <1>2, OldStays
  <2> QED
    BY <2>1, <1>2 DEF OneOpen, Placed
<1>3. CASE New(p, i) /\ Placed(p, j)
  BY <1>3, NewIs, OldStays DEF Changes
<1>4. CASE Placed(p, i) /\ New(p, j)
  BY <1>4, NewIs, OldStays DEF Changes
<1>5. CASE New(p, i) /\ New(p, j)
  BY <1>5, NewIs DEF Changes
<1> QED
  BY <1>2, <1>3, <1>4, <1>5, OldOrNew

\* The definitions part of the type invariant
DefinitionsOK ==
  \A o \in DOMAIN defs :
    /\ defs[o] # <<>>
    /\ \A i \in DOMAIN defs[o] :
         /\ defs[o][i].uuid \in 1..lastUUID
         /\ defs[o][i].start \in 0..time
         /\ defs[o][i].end \in 0..time \cup {Open}
         /\ Interval(defs[o][i])

LEMMA ChangesDefinitionsOK ==
  ASSUME TablesTyped, RegistryTypeOK, NEW o, NEW u, NEW host, Changes(o, u, host),
         time' = time, lastUUID' \in Nat, lastUUID <= lastUUID', u \in 1..lastUUID'
  PROVE  DefinitionsOK'
<1> SUFFICES ASSUME NEW p \in DOMAIN defs'
             PROVE  /\ defs'[p] # <<>>
                    /\ \A i \in DOMAIN defs'[p] :
                         /\ defs'[p][i].uuid \in 1..lastUUID'
                         /\ defs'[p][i].start \in 0..time'
                         /\ defs'[p][i].end \in 0..time' \cup {Open}
                         /\ Interval(defs'[p][i])
  BY DEF DefinitionsOK, Interval
<1>1. time \in Nat /\ lastUUID \in Nat /\ time # Open
  BY RegistryAssumption DEF RegistryTypeOK, Open
<1>2. defs'[p] # <<>>
  BY ChangesFirst DEF PlacedNext
<1>3. ASSUME NEW i \in DOMAIN defs'[p]
      PROVE  /\ defs'[p][i].uuid \in 1..lastUUID'
             /\ defs'[p][i].start \in 0..time'
             /\ defs'[p][i].end \in 0..time' \cup {Open}
             /\ Interval(defs'[p][i])
  <2>1. CASE Placed(p, i)
    <3>1. /\ defs[p][i].uuid \in 1..lastUUID
          /\ defs[p][i].start \in 0..time
          /\ defs[p][i].end \in 0..time \cup {Open}
          /\ Interval(defs[p][i])
      BY <2>1 DEF RegistryTypeOK, Placed
    <3>2. /\ defs'[p][i].uuid = defs[p][i].uuid
          /\ defs'[p][i].start = defs[p][i].start
          /\ defs'[p][i].end = defs[p][i].end \/ defs'[p][i].end = time
      BY <2>1, OldStays
    <3> QED
      BY <3>1, <3>2, <1>1 DEF Interval
  <2>2. CASE New(p, i)
    <3>1. defs'[p][i].uuid = u /\ defs'[p][i].start = time /\ defs'[p][i].end = Open
      BY <2>2, NewIs
    <3> QED
      BY <3>1, <1>1 DEF Interval
  <2> QED
    BY <2>1, <2>2, OldOrNew
<1> QED
  BY <1>2, <1>3

\* Uuids keep their owners when the one that comes is new or already sent to o,
\* and is the only one that may be recorded
LEMMA ChangesOwned ==
  ASSUME TablesTyped, RegistryTypeOK, UUIDsOwned,
         NEW o, NEW u, NEW host, Changes(o, u, host),
         DOMAIN objects \subseteq DOMAIN objects',
         DOMAIN objects' \subseteq DOMAIN objects \cup {u},
         \A x \in DOMAIN objects : objects'[x] = objects[x],
         u \in DOMAIN objects' => objects'[u] = o,
         u \in DOMAIN objects \/ \A p, i : Placed(p, i) => defs[p][i].uuid # u
  PROVE  UUIDsOwned'
<1> SUFFICES ASSUME NEW p \in DOMAIN defs', NEW i \in DOMAIN defs'[p]
             PROVE  IF defs'[p][i].uuid \in DOMAIN objects'
                    THEN objects'[defs'[p][i].uuid] = p
                    ELSE /\ defs'[p][i].end = Open
                         /\ \A q \in DOMAIN defs' : \A j \in DOMAIN defs'[q] :
                              defs'[q][j].uuid = defs'[p][i].uuid => q = p /\ j = i
  BY DEF UUIDsOwned
<1>1. CASE Placed(p, i) /\ defs'[p][i].uuid \in DOMAIN objects'
  <2>1. defs'[p][i].uuid = defs[p][i].uuid
    BY <1>1, OldStays
  <2>2. CASE defs[p][i].uuid \in DOMAIN objects
    BY <1>1, <2>1, <2>2 DEF UUIDsOwned, Placed
  <2>3. CASE defs[p][i].uuid \notin DOMAIN objects
    BY <1>1, <2>1, <2>3
  <2> QED
    BY <2>2, <2>3
<1>2. CASE Placed(p, i) /\ defs'[p][i].uuid \notin DOMAIN objects'
  <2>1. defs'[p][i].uuid = defs[p][i].uuid /\ defs[p][i].uuid \notin DOMAIN objects
    BY <1>2, OldStays
  <2>2. defs[p][i].uuid # u
    BY <1>2, <2>1
  <2>3. /\ defs[p][i].end = Open
        /\ \A q \in DOMAIN defs : \A j \in DOMAIN defs[q] :
             defs[q][j].uuid = defs[p][i].uuid => q = p /\ j = i
    BY <1>2, <2>1 DEF UUIDsOwned, Placed
  <2>4. defs'[p][i].end = Open
    BY <1>2, <2>2, <2>3, OldStays
  <2>5. ASSUME NEW q \in DOMAIN defs', NEW j \in DOMAIN defs'[q],
               defs'[q][j].uuid = defs'[p][i].uuid
        PROVE  q = p /\ j = i
    <3>1. ~New(q, j)
      BY <2>1, <2>2, <2>5, NewIs
    <3>2. Placed(q, j)
      BY <3>1, OldOrNew
    <3>3. defs[q][j].uuid = defs[p][i].uuid
      BY <2>1, <2>5, <3>2, OldStays
    <3> QED
      BY <2>3, <3>2, <3>3 DEF Placed
  <2> QED
    BY <1>2, <2>4, <2>5
<1>3. CASE New(p, i) /\ u \in DOMAIN objects'
  BY <1>3, NewIs
<1>4. CASE New(p, i) /\ u \notin DOMAIN objects'
  <2>1. defs'[p][i].uuid = u /\ defs'[p][i].end = Open /\ p = o
    BY <1>4, NewIs
  <2>2. ASSUME NEW q \in DOMAIN defs', NEW j \in DOMAIN defs'[q], defs'[q][j].uuid = u
        PROVE  q = p /\ j = i
    <3>1. ~Placed(q, j)
      BY <1>4, <2>2, OldStays
    <3>2. New(q, j)
      BY <3>1, OldOrNew
    <3> QED
      BY <1>4, <2>1, <3>2, NewIs DEF Changes
  <2> QED
    BY <1>4, <2>1, <2>2
<1> QED
  BY <1>1, <1>2, <1>3, <1>4, OldOrNew

\* No name is taken from the object it denotes, and o gets its own if it is free
LEMMA ChangesFirstWins ==
  ASSUME TablesTyped, RegistryTypeOK, FirstWins,
         NEW o, NEW u \in Nat, NEW host, Changes(o, u, host),
         DOMAIN identifiers \subseteq DOMAIN identifiers',
         \A x \in DOMAIN identifiers : identifiers'[x] = identifiers[x],
         o \notin DOMAIN defs =>
           /\ lastUUID <= u
           /\ NameOf(o) \in DOMAIN identifiers'
           /\ NameOf(o) \notin DOMAIN identifiers => identifiers'[NameOf(o)] = o
  PROVE  FirstWins'
<1> SUFFICES ASSUME NEW p \in DOMAIN defs'
             PROVE  /\ NameOf(p) \in DOMAIN identifiers'
                    /\ defs'[identifiers'[NameOf(p)]][1].uuid <= defs'[p][1].uuid
  BY DEF FirstWins, NameOf
<1>1. CASE p \in DOMAIN defs
  <2> DEFINE q == identifiers[NameOf(p)]
  <2>1. /\ NameOf(p) \in DOMAIN identifiers
        /\ defs[q][1].uuid <= defs[p][1].uuid
    BY <1>1 DEF FirstWins
  <2>2. q \in DOMAIN defs
    BY <2>1 DEF RegistryTypeOK
  <2>3. identifiers'[NameOf(p)] = q
    BY <2>1
  <2> HIDE DEF q
  <2>4. defs'[p][1].uuid = defs[p][1].uuid
    BY <1>1, FirstPlaced, OldStays
  <2>5. defs'[q][1].uuid = defs[q][1].uuid
    <3>1. PICK r \in DOMAIN defs : r = q
      BY <2>2
    <3>2. defs'[r][1].uuid = defs[r][1].uuid
      BY FirstPlaced, OldStays
    <3> QED
      BY <3>1, <3>2
  <2> QED
    BY <2>1, <2>3, <2>4, <2>5
<1>2. CASE p \notin DOMAIN defs
  <2>1. p = o /\ New(p, 1) /\ defs'[p][1].uuid = u
    BY <1>2, ChangesFirst, NewIs
  <2>2. CASE NameOf(p) \notin DOMAIN identifiers
    BY <1>2, <2>1, <2>2
  <2>3. CASE NameOf(p) \in DOMAIN identifiers
    <3>1. PICK r \in DOMAIN defs : r = identifiers[NameOf(p)]
      BY <2>3 DEF RegistryTypeOK
    <3>2. Placed(r, 1) /\ defs'[r][1].uuid = defs[r][1].uuid
      BY FirstPlaced, OldStays
    <3>3. defs[r][1].uuid \in 1..lastUUID
      BY <3>2 DEF Placed, RegistryTypeOK
    <3>4. defs[r][1].uuid <= u
      BY <1>2, <2>1, <3>3, RegistryAssumption DEF RegistryTypeOK
    <3> QED
      BY <2>1, <2>3, <3>1, <3>2, <3>4
  <2> QED
    BY <2>2, <2>3
<1> QED
  BY <1>1, <1>2

(***************************************************************************)
(* The steps                                                               *)
(***************************************************************************)
\* A declaration of object o, under its name
LEMMA AddToKeeps ==
  ASSUME RInv, NEW o \in Object, NEW host \in Host, NEW known \in BOOLEAN,
         AddTo(o, NameOf(o), host, known),
         baseCounter' \in [DOMAIN baseCounter' -> Nat]
  PROVE  RInv'
<1> USE DEF RInv
<1>1. PICK u \in Nat : u = lastUUID + 1
  BY RegistryAssumption DEF RegistryTypeOK
<1>2. /\ lastUUID' = u /\ lastUUID < MaxUUID /\ time' = time
      /\ objects' = IF known THEN Inserted(objects, u, o) ELSE objects
      /\ identifiers' = Inserted(identifiers, NameOf(o), o)
  BY <1>1 DEF AddTo
<1>3. lastUUID \in Nat /\ lastUUID' \in 0..MaxUUID /\ u \in 1..lastUUID' /\ lastUUID <= u
  BY <1>1, <1>2, RegistryAssumption DEF RegistryTypeOK
<1>4. Changes(o, u, host)
  BY <1>1, AddToChanges
<1>5. /\ DOMAIN identifiers' = DOMAIN identifiers \cup {NameOf(o)}
      /\ \A x \in DOMAIN identifiers : identifiers'[x] = identifiers[x]
      /\ NameOf(o) \notin DOMAIN identifiers => identifiers'[NameOf(o)] = o
  BY <1>2 DEF Inserted
<1>6. u \notin DOMAIN objects
  BY <1>1, <1>3 DEF RegistryTypeOK
<1>7. /\ DOMAIN objects \subseteq DOMAIN objects'
      /\ DOMAIN objects' \subseteq DOMAIN objects \cup {u}
      /\ \A x \in DOMAIN objects : objects'[x] = objects[x]
      /\ u \in DOMAIN objects' => objects'[u] = o
  <2>1. CASE known
    BY <1>2, <1>6, <2>1 DEF Inserted
  <2>2. CASE ~known
    BY <1>2, <1>6, <2>2
  <2> QED
    BY <2>1, <2>2
<1>8. DOMAIN defs' = DOMAIN defs \cup {o}
  BY <1>4 DEF Changes
<1>9. TablesTyped'
  BY <1>4 DEF TablesTyped, Changes
<1>10. RegistryTypeOK'
  <2>1. DefinitionsOK'
    BY <1>2, <1>3, <1>4, ChangesDefinitionsOK
  <2>2. DOMAIN defs' \subseteq Object
    BY <1>8 DEF RegistryTypeOK
  <2>3. NameOf(o) \in Name \cup {"operator"}
    BY DEF NameOf, Object
  <2>4. /\ DOMAIN identifiers' \subseteq Name \cup {"operator"}
        /\ \A n \in DOMAIN identifiers' : identifiers'[n] \in DOMAIN defs'
    BY <1>5, <1>8, <2>3 DEF RegistryTypeOK
  <2>5. DOMAIN objects' \subseteq 1..lastUUID'
    BY <1>2, <1>3, <1>7 DEF RegistryTypeOK
  <2>6. time' \in 0..LastTime
    BY <1>2 DEF RegistryTypeOK
  <2> QED
    BY <1>3, <2>1, <2>2, <2>4, <2>5, <2>6 DEF RegistryTypeOK, DefinitionsOK
<1>11. ObjectsMade'
  BY <1>7, <1>8 DEF ObjectsMade
<1>12. UUIDsOwned'
  <2>1. \A p, i : Placed(p, i) => defs[p][i].uuid # u
    BY <1>1, <1>3 DEF RegistryTypeOK, Placed
  <2> QED
    BY <1>4, <1>7, <2>1, ChangesOwned
<1>13. OneOpen'
  BY <1>4, ChangesOneOpen
<1>14. FirstWins'
  BY <1>3, <1>4, <1>5, ChangesFirstWins
<1> QED
  BY <1>9, <1>10, <1>11, <1>12, <1>13, <1>14

\* A definition of o ends, and one of the same uuid may take its place
LEMMA SentKeeps ==
  ASSUME RInv, NEW o \in DOMAIN defs, NEW u \in DOMAIN objects, objects[u] = o,
         NEW host, Changes(o, u, host),
         UNCHANGED <<identifiers, objects, lastUUID, baseCounter, basefuns, time>>
  PROVE  RInv'
<1> USE DEF RInv
<1>1. DOMAIN defs' = DOMAIN defs
  BY DEF Changes
<1>2. lastUUID \in Nat /\ u \in 1..lastUUID' /\ u \in Nat
  BY RegistryAssumption DEF RegistryTypeOK
<1>3. TablesTyped'
  BY DEF TablesTyped, Changes
<1>4. DefinitionsOK'
  BY <1>2, ChangesDefinitionsOK
<1>5. RegistryTypeOK'
  BY <1>1, <1>4 DEF RegistryTypeOK, DefinitionsOK
<1>6. ObjectsMade'
  BY <1>1 DEF ObjectsMade
<1>7. UUIDsOwned'
  BY ChangesOwned
<1>8. OneOpen'
  BY ChangesOneOpen
<1>9. FirstWins'
  BY <1>2, ChangesFirstWins
<1> QED
  BY <1>3, <1>5, <1>6, <1>7, <1>8, <1>9

\* What leaves the tables alone, the time aside, which may go on
LEMMA UntouchedKeeps ==
  ASSUME RInv, UNCHANGED <<defs, identifiers, objects, lastUUID, baseCounter>>,
         time' \in 0..LastTime, time <= time'
  PROVE  RInv'
<1>1. ASSUME NEW d, d.start \in 0..time, d.end \in 0..time \cup {Open}
      PROVE  d.start \in 0..time' /\ d.end \in 0..time' \cup {Open}
  BY <1>1, RegistryAssumption DEF RInv, RegistryTypeOK
<1>2. RegistryTypeOK'
  BY <1>1 DEF RInv, RegistryTypeOK, Interval
<1>3. TablesTyped' /\ ObjectsMade' /\ UUIDsOwned' /\ OneOpen' /\ FirstWins'
  BY DEF RInv, TablesTyped, ObjectsMade, UUIDsOwned, OneOpen, FirstWins, NameOf
<1> QED
  BY <1>2, <1>3 DEF RInv

LEMMA InitRInv == InitRegistry => RInv
<1> SUFFICES ASSUME InitRegistry PROVE RInv
  OBVIOUS
<1>1. DOMAIN defs = {} /\ DOMAIN identifiers = {} /\ DOMAIN objects = {} /\ DOMAIN baseCounter = {}
  BY DEF InitRegistry, Nothing
<1>2. TablesTyped
  BY <1>1 DEF InitRegistry, Nothing, TablesTyped
<1>3. RegistryTypeOK
  BY <1>1, RegistryAssumption DEF InitRegistry, RegistryTypeOK
<1> QED
  BY <1>1, <1>2, <1>3 DEF RInv, ObjectsMade, UUIDsOwned, OneOpen, FirstWins

LEMMA StepRInv == RInv /\ [NextRegistry]_registryVars => RInv'
<1> SUFFICES ASSUME RInv, [NextRegistry]_registryVars PROVE RInv'
  OBVIOUS
<1> USE DEF RInv
<1>1. ASSUME NEW n \in Name, AddVariable(n) PROVE RInv'
  <2> DEFINE o == <<"variable", n>>
  <2>1. o \in Object /\ NameOf(o) = n /\ NoHost \in Host
    BY DEF Object, NameOf, Host
  <2>2. PICK known \in BOOLEAN : known = (o \notin DOMAIN defs)
    OBVIOUS
  <2>3. AddTo(o, n, NoHost, known)
    BY <1>1, <2>2 DEF AddVariable
  <2>4. baseCounter' \in [DOMAIN baseCounter' -> Nat]
    BY <1>1 DEF AddVariable, TablesTyped
  <2> HIDE DEF RInv
  <2> QED
    BY <2>1, <2>3, <2>4, AddToKeeps
<1>2. ASSUME NEW n \in Name, AddFunction(n) PROVE RInv'
  <2> DEFINE o == <<"function", n>>
  <2>1. o \in Object /\ NameOf(o) = n /\ NoHost \in Host
    BY DEF Object, NameOf, Host
  <2>2. PICK known \in BOOLEAN : known = (o \notin DOMAIN defs)
    OBVIOUS
  <2>3. AddTo(o, n, NoHost, known)
    BY <1>2, <2>2 DEF AddFunction
  <2>4. baseCounter' \in [DOMAIN baseCounter' -> Nat]
    BY <1>2 DEF AddFunction, TablesTyped
  <2> HIDE DEF RInv
  <2> QED
    BY <2>1, <2>3, <2>4, AddToKeeps
<1>3. ASSUME NEW n \in Name, AddConstructor(n) PROVE RInv'
  <2> DEFINE o == <<"constructor", n>>
  <2>1. o \in Object /\ NameOf(o) = n /\ NoHost \in Host
    BY DEF Object, NameOf, Host
  <2>2. CASE o \in DOMAIN defs
    <3>1. UNCHANGED <<defs, identifiers, objects, lastUUID, baseCounter>> /\ time' = time
      BY <1>3, <2>2 DEF AddConstructor
    <3>2. time' \in 0..LastTime /\ time <= time'
      BY <3>1, RegistryAssumption DEF RegistryTypeOK
    <3> QED
      BY <3>1, <3>2, UntouchedKeeps
  <2>3. CASE o \notin DOMAIN defs
    <3>1. AddTo(o, n, NoHost, FALSE)
      BY <1>3, <2>3 DEF AddConstructor
    <3>2. baseCounter' \in [DOMAIN baseCounter' -> Nat]
      BY <1>3 DEF AddConstructor, TablesTyped
    <3> HIDE DEF RInv
    <3> QED
      BY <2>1, <3>1, <3>2, AddToKeeps
  <2> QED
    BY <2>2, <2>3
<1>4. ASSUME NEW n \in Name, NEW f \in HostObject, AddHostFunction(n, f) PROVE RInv'
  <2> DEFINE o == <<"variable", n>>
             version == <<n, Version(n)>>
  <2>1. o \in Object /\ NameOf(o) = n
    BY DEF Object, NameOf
  <2>2. Version(n) \in Nat /\ NextVersion(n) \in Nat
    BY DEF Version, NextVersion, TablesTyped
  <2>3. PICK host \in Host : host = <<version, f>>
    BY <2>2 DEF Host
  <2>4. PICK known \in BOOLEAN : known = (o \notin DOMAIN defs)
    OBVIOUS
  <2>5. AddTo(o, n, host, known)
    BY <1>4, <2>3, <2>4 DEF AddHostFunction
  <2>6. baseCounter' \in [DOMAIN baseCounter' -> Nat]
    BY <1>4, <2>2 DEF AddHostFunction, TablesTyped
  <2> HIDE DEF RInv
  <2> QED
    BY <2>1, <2>5, <2>6, AddToKeeps
<1>5. ASSUME AddOperator PROVE RInv'
  <2>1. Operators \in Object /\ NameOf(Operators) = "operator" /\ NoHost \in Host
    BY DEF Operators, Object, NameOf, Host
  <2>2. AddTo(Operators, NameOf(Operators), NoHost, TRUE)
    BY <1>5, <2>1 DEF AddOperator
  <2>3. baseCounter' \in [DOMAIN baseCounter' -> Nat]
    BY <1>5 DEF AddOperator, TablesTyped
  <2> HIDE DEF RInv
  <2> QED
    BY <2>1, <2>2, <2>3, AddToKeeps
<1>6. ASSUME UNCHANGED registryVars PROVE RInv'
  <2>1. time' \in 0..LastTime /\ time <= time'
    BY <1>6, RegistryAssumption DEF RegistryTypeOK, registryVars
  <2> QED
    BY <1>6, <2>1, UntouchedKeeps DEF registryVars
<1>7. ASSUME NEW u \in DOMAIN objects,
             SendDel(objects[u], u) \/ SendRepl(objects[u], u),
             UNCHANGED <<identifiers, objects, lastUUID, baseCounter, basefuns, time>>
      PROVE  RInv'
  <2>1. PICK o \in DOMAIN defs : o = objects[u]
    BY DEF ObjectsMade
  <2>2. SendDel(o, u) \/ SendRepl(o, u)
    BY <1>7, <2>1
  <2>3. CASE CanEnd(o, u)
    <3>1. u \in Nat
      BY RegistryAssumption DEF RegistryTypeOK
    <3>2. Changes(o, u, NoHost)
      BY <2>2, <2>3, <3>1, SendDelChanges, SendReplChanges
    <3> QED
      BY <1>7, <2>1, <3>2, SentKeeps
  <2>4. CASE ~CanEnd(o, u)
    <3>1. defs' = defs
      BY <2>2, <2>4 DEF SendDel, SendRepl
    <3> QED
      BY <1>6, <1>7, <3>1 DEF registryVars
  <2> QED
    BY <2>3, <2>4
<1>8. ASSUME NEW u \in 0..MaxUUID, DelDecl(u) PROVE RInv'
  BY <1>6, <1>7, <1>8 DEF DelDecl, Refuse
<1>9. ASSUME NEW u \in 0..MaxUUID, ReplDecl(u) PROVE RInv'
  BY <1>6, <1>7, <1>9 DEF ReplDecl, Refuse
<1>10. ASSUME AdvanceTime PROVE RInv'
  <2>1. time' \in 0..LastTime /\ time <= time'
    BY <1>10, RegistryAssumption DEF AdvanceTime, RegistryTypeOK
  <2> QED
    BY <1>10, <2>1, UntouchedKeeps DEF AdvanceTime
<1> QED
  BY <1>1, <1>2, <1>3, <1>4, <1>5, <1>6, <1>8, <1>9, <1>10 DEF NextRegistry

LEMMA RegistryInvariant == SpecRegistry => []RInv
BY InitRInv, StepRInv, PTL DEF SpecRegistry

(***************************************************************************)
(* The tables are of their types: every object has a definition, and no    *)
(* delete or replace makes an interval that ends before it begins.         *)
(***************************************************************************)
THEOREM RegistryTyped == SpecRegistry => []RegistryTypeOK
<1>1. RInv => RegistryTypeOK
  BY DEF RInv
<1> QED
  BY <1>1, RegistryInvariant, PTL

(***************************************************************************)
(* Every uuid is of one object, a delete or replace is sent to the object  *)
(* that has the uuid's definitions, and a definition whose uuid was not    *)
(* recorded is never ended: delDecl and replDecl do not reach it.          *)
(***************************************************************************)
THEOREM UuidsOfOneObject == SpecRegistry => []UUIDsOwned
<1>1. RInv => UUIDsOwned
  BY DEF RInv
<1> QED
  BY <1>1, RegistryInvariant, PTL

(***************************************************************************)
(* However deletes and replaces of a uuid follow one another, it has at    *)
(* most one definition that has not ended, although both look only at the  *)
(* first definition the uuid was given.                                    *)
(***************************************************************************)
THEOREM OneInForce == SpecRegistry => []OneOpen
<1>1. RInv => OneOpen
  BY DEF RInv
<1> QED
  BY <1>1, RegistryInvariant, PTL

(***************************************************************************)
(* An identifier goes on denoting the object first declared with it,       *)
(* whatever kinds of object are declared with the name later.              *)
(***************************************************************************)
THEOREM FirstDeclaredWins == SpecRegistry => []FirstWins
<1>1. RInv => FirstWins
  BY DEF RInv
<1> QED
  BY <1>1, RegistryInvariant, PTL

(***************************************************************************)
(* The main loop and the registry                                          *)
(***************************************************************************)
LEMMA TextStepsRegistry == [NextText]_textVars => [NextRegistry]_registryVars
<1> SUFFICES ASSUME [NextText]_textVars
             PROVE  [NextRegistry]_registryVars
  OBVIOUS
<1>1. CASE DefinitionLine
  <2>1. \/ \E n \in Name : AddVariable(n)
        \/ \E u \in 1..MaxUUID : DelDecl(u) \/ ReplDecl(u)
        \/ UNCHANGED registryVars
    BY <1>1 DEF DefinitionLine
  <2>2. ASSUME NEW n \in Name, AddVariable(n)
        PROVE  NextRegistry
    BY <2>2 DEF NextRegistry
  <2>3. ASSUME NEW u \in 1..MaxUUID, DelDecl(u) \/ ReplDecl(u)
        PROVE  NextRegistry
    <3>1. u \in 0..MaxUUID
      BY RegistryAssumption
    <3> QED
      BY <2>3, <3>1 DEF NextRegistry
  <2> QED
    BY <2>1, <2>2, <2>3
<1>2. CASE EndGo
  BY <1>2 DEF EndGo, NextRegistry
<1>3. CASE \/ EndDefinitions("expressions") \/ EndDefinitions("assign")
           \/ DefinitionsEmpty \/ ExpressionLine \/ EndExpressions \/ Assign
           \/ EvaluateAssignment \/ EvaluationThrows \/ PrintSlot \/ EndInstant
  BY <1>3 DEF EndDefinitions, DefinitionsEmpty, ExpressionLine, EndExpressions,
    Assign, EvaluateAssignment, EvaluationThrows, PrintSlot, EndInstant, In
<1>4. CASE UNCHANGED textVars
  BY <1>4 DEF textVars
<1> QED
  BY <1>1, <1>2, <1>3, <1>4 DEF NextText

(***************************************************************************)
(* The main loop drives the registry by its own operations: SystemRegistry *)
(* is what a text implements.                                              *)
(***************************************************************************)
THEOREM TextDrivesRegistry == SpecText => SpecRegistry
<1>1. InitText => InitRegistry
  BY DEF InitText
<1> QED
  BY <1>1, TextStepsRegistry, PTL DEF SpecText, SpecRegistry

(***************************************************************************)
(* Sequences                                                               *)
(***************************************************************************)
Sets == SUBSET ((Object \X Nat) \cup {<<>>})
Assignment == [name : Name, time : Int, slot : Nat]

LEMMA MapIs ==
  ASSUME NEW S, NEW n \in Nat, NEW f, f = [i \in 1..n |-> f[i]],
         \A i \in 1..n : f[i] \in S
  PROVE  f \in Seq(S) /\ Len(f) = n
<1>1. f \in [1..n -> S]
  OBVIOUS
<1> QED
  BY <1>1

LEMMA AppendTyped ==
  ASSUME NEW S, NEW s \in Seq(S), NEW e \in S
  PROVE  /\ Append(s, e) \in Seq(S) /\ Len(Append(s, e)) = Len(s) + 1
         /\ \A i \in 1..Len(s) : Append(s, e)[i] = s[i]
         /\ Append(s, e)[Len(s) + 1] = e
OBVIOUS

Joined(S, r, s, u) ==
  /\ r \in Seq(S) /\ Len(r) = Len(s) + Len(u)
  /\ \A i \in 1..Len(s) : r[i] = s[i]
  /\ \A i \in 1..Len(u) : r[Len(s) + i] = u[i]

LEMMA ConcatIs ==
  ASSUME NEW S, NEW s \in Seq(S), NEW u \in Seq(S)
  PROVE  Joined(S, s \o u, s, u)
<1>1. Len(s) \in Nat /\ Len(u) \in Nat
  OBVIOUS
<1>2. /\ s \o u \in Seq(S) /\ Len(s \o u) = Len(s) + Len(u)
      /\ \A i \in 1..Len(s) + Len(u) :
           (s \o u)[i] = IF i <= Len(s) THEN s[i] ELSE u[i - Len(s)]
  OBVIOUS
<1>3. \A i \in 1..Len(s) : i \in 1..Len(s) + Len(u) /\ i <= Len(s)
  BY <1>1
<1>4. \A i \in 1..Len(u) : /\ Len(s) + i \in 1..Len(s) + Len(u)
                           /\ ~(Len(s) + i <= Len(s)) /\ (Len(s) + i) - Len(s) = i
  BY <1>1
<1> QED
  BY <1>2, <1>3, <1>4 DEF Joined

LEMMA AssignmentHas ==
  ASSUME NEW a \in Assignment
  PROVE  a.time \in Int
BY DEF Assignment

LEMMA NewAssignment ==
  ASSUME NEW n \in Name, NEW t \in Int, NEW s \in Nat
  PROVE  [name |-> n, time |-> t, slot |-> s] \in Assignment
BY DEF Assignment

LEMMA CompiledIsSet ==
  ASSUME RInv, NEW o \in DOMAIN defs, NEW c
  PROVE  CompileInstant(o, c) \in Sets
<1>1. o \in Object /\ defs[o] \in Seq(DefinitionType)
  BY DEF RInv, RegistryTypeOK, TablesTyped
<1>2. \A i \in DOMAIN defs[o] : <<o, i>> \in Object \X Nat
  BY <1>1
<1> QED
  BY <1>2 DEF CompileInstant, Sets

LEMMA ValueIsSet ==
  ASSUME RInv, NEW n, NEW t
  PROVE  Value(n, t) \in Sets
<1>1. CASE n \in DOMAIN identifiers
  <2>1. identifiers[n] \in DOMAIN defs
    BY <1>1 DEF RInv, RegistryTypeOK
  <2>2. CompileInstant(identifiers[n], LastChange(identifiers[n], t)) \in Sets
    BY <2>1, CompiledIsSet
  <2> QED
    BY <1>1, <2>2 DEF Value
<1>2. CASE n \notin DOMAIN identifiers
  BY <1>2 DEF Value, Sets
<1> QED
  BY <1>1, <1>2

(***************************************************************************)
(* The changes of an object are of instants that have come, and one of     *)
(* them is the last                                                        *)
(***************************************************************************)
LEMMA ChangesHaveCome ==
  ASSUME RInv, NEW o \in DOMAIN defs
  PROVE  ChangesOf(o) \in SUBSET (0..time) /\ ChangesOf(o) # {} /\ time \in Nat
<1>1. \A i \in DOMAIN defs[o] :
        defs[o][i].start \in 0..time /\ defs[o][i].end \in 0..time \cup {Open}
  BY DEF RInv, RegistryTypeOK
<1>2. time \in Nat
  BY RegistryAssumption DEF RInv, RegistryTypeOK
<1>3. 1 \in DOMAIN defs[o]
  BY FirstPlaced DEF RInv, Placed
<1>4. ChangesOf(o) \in SUBSET (0..time)
  BY <1>1 DEF ChangesOf
<1>5. defs[o][1].start \in ChangesOf(o)
  BY <1>3 DEF ChangesOf
<1> QED
  BY <1>2, <1>4, <1>5

LEMMA LastIsThere ==
  ASSUME RInv, NEW o \in DOMAIN defs
  PROVE  /\ LastChange(o, time) \in ChangesOf(o)
         /\ \A b \in ChangesOf(o) : b <= LastChange(o, time)
<1>1. /\ ChangesOf(o) \in SUBSET (0..time) /\ ChangesOf(o) # {} /\ time \in Nat
      /\ \A c \in ChangesOf(o) : c \in Nat /\ c <= time
  BY ChangesHaveCome
<1> DEFINE left == {time - c : c \in ChangesOf(o)}
<1>2. left \in SUBSET Nat /\ left # {}
  BY <1>1
<1>3. PICK m \in left : \A n \in left : m <= n
  BY <1>2, LeastOf
<1>4. PICK c \in ChangesOf(o) : m = time - c
  OBVIOUS
<1>5. ASSUME NEW b \in ChangesOf(o)
      PROVE  b <= c
  <2>1. time - b \in left /\ b \in Nat /\ c \in Nat
    BY <1>1
  <2> QED
    BY <1>1, <1>3, <1>4, <2>1
<1>6. c <= time /\ \A b \in ChangesOf(o) : b <= time => b <= c
  BY <1>1, <1>5
<1> HIDE DEF left
<1>7. /\ LastChange(o, time) \in ChangesOf(o)
      /\ \A b \in ChangesOf(o) : b <= time => b <= LastChange(o, time)
  BY <1>6 DEF LastChange, LastBy
<1> QED
  BY <1>1, <1>7

LEMMA PutIs ==
  ASSUME results \in Seq(Sets), NEW slot \in Nat, NEW value \in Sets
  PROVE  /\ Put(slot, value) \in Seq(Sets)
         /\ Len(Put(slot, value)) >= slot + 1
         /\ Len(Put(slot, value)) >= Len(results)
         /\ Put(slot, value)[slot + 1] = value
         /\ \A i \in 1..Len(results) : i # slot + 1 => Put(slot, value)[i] = results[i]
<1> DEFINE size == IF Len(results) <= slot THEN (slot + 1) * 2 ELSE Len(results)
           p == Put(slot, value)
<1>1. Len(results) \in Nat /\ \A i \in 1..Len(results) : results[i] \in Sets
  OBVIOUS
<1>2. size \in Nat /\ size >= slot + 1 /\ size >= Len(results)
  BY <1>1
<1>3. p = [i \in 1..size |-> IF i = slot + 1 THEN value
                             ELSE IF i <= Len(results) THEN results[i] ELSE None]
  BY DEF Put
<1>4. None \in Sets
  BY DEF None, Sets
<1> HIDE DEF size, p
<1>5. \A i \in 1..size : p[i] \in Sets
  BY <1>1, <1>2, <1>3, <1>4
<1>6. p = [i \in 1..size |-> p[i]]
  BY <1>3
<1>7. p \in Seq(Sets) /\ Len(p) = size
  BY <1>2, <1>5, <1>6, MapIs
<1>8. slot + 1 \in 1..size /\ \A i \in 1..Len(results) : i \in 1..size /\ i <= Len(results)
  BY <1>1, <1>2
<1>9. p[slot + 1] = value /\ \A i \in 1..Len(results) : i # slot + 1 => p[i] = results[i]
  BY <1>3, <1>8
<1> QED
  BY <1>2, <1>7, <1>9 DEF p

(***************************************************************************)
(* The invariant                                                           *)
(***************************************************************************)
TextTyped ==
  /\ phase \in {"definitions", "expressions", "assign", "go", "print", "ended", "failed"}
  /\ exprs \in Seq(Name) /\ assignments \in Seq(Assignment)
  /\ at \in Nat \ {0}
  /\ results \in Seq(Sets) /\ printed \in Seq(Sets)

\* The values the expressions have at t
Wanted(t) == [i \in 1..Len(exprs) |-> Value(exprs[i], t)]

\* The first n assignments are of instants before t
Earlier(as, n, t) == \A j \in 1..n : as[j].time < t

\* Those after the first base are the expressions of the instant t, slot by slot
OfInstant(as, base, es, t) ==
  /\ Len(as) = base + Len(es)
  /\ \A i \in 1..Len(es) : as[base + i] = [name |-> es[i], time |-> t, slot |-> i - 1]

\* Slot i has its value
Filled(rs, i, ws) == i <= Len(rs) /\ rs[i] = ws[i]

\* The changes that have an evaluator are of instants before t; if such a change is
\* still the last, the evaluator is made of what compileInstant would choose now
EvaluatorsRight(t) ==
  \A o \in DOMAIN evaluators :
    /\ o \in DOMAIN defs
    /\ \A c \in DOMAIN evaluators[o] :
         /\ c \in Int /\ c < t
         /\ (\A b \in ChangesOf(o) : b <= c) => evaluators[o][c] = CompileInstant(o, c)

Reading ==
  /\ Earlier(assignments, Len(assignments), time)
  /\ EvaluatorsRight(time)
  /\ printed = <<>>

Going ==
  /\ \E base \in Nat :
       /\ Earlier(assignments, base, time)
       /\ OfInstant(assignments, base, exprs, time)
       /\ \A i \in 1..Len(exprs) : base + i < at => Filled(results, i, Wanted(time))
  /\ EvaluatorsRight(time + 1)
  /\ printed = <<>>

Printing ==
  /\ Earlier(assignments, Len(assignments), time)
  /\ EvaluatorsRight(time)
  /\ \A i \in 1..Len(exprs) : Filled(results, i, Wanted(time - 1))
  /\ Len(printed) <= Len(exprs)
  /\ \A i \in 1..Len(printed) : printed[i] = Wanted(time - 1)[i]

TextInv ==
  /\ RInv
  /\ TextTyped
  /\ phase \in {"definitions", "expressions", "assign"} => Reading
  /\ phase = "go" => Going
  /\ phase = "print" => Printing

LEMMA TimeIsInt == RInv => time \in Int
BY DEF RInv, RegistryTypeOK

LEMMA InitTextInv == InitText => TextInv
<1> SUFFICES ASSUME InitText PROVE TextInv
  OBVIOUS
<1>1. RInv
  BY InitRInv DEF InitText
<1>2. \A S : <<>> \in Seq(S) /\ Len(<<>>) = 0
  OBVIOUS
<1>3. TextTyped
  BY <1>2 DEF InitText, TextTyped
<1>4. Reading
  BY DEF InitText, Reading, Earlier, EvaluatorsRight, Nothing
<1> QED
  BY <1>1, <1>3, <1>4 DEF InitText, TextInv

LEMMA SameEvaluators ==
  ASSUME UNCHANGED <<defs, time, evaluators>>
  PROVE  /\ EvaluatorsRight(time)' <=> EvaluatorsRight(time)
         /\ EvaluatorsRight(time + 1)' <=> EvaluatorsRight(time + 1)
BY DEF EvaluatorsRight, CompileInstant, ChangesOf

(***************************************************************************)
(* A declaration makes this instant a change of the object it changes, and *)
(* none of the instant is compiled yet                                     *)
(***************************************************************************)
LEMMA ChangedNow ==
  ASSUME TablesTyped, RegistryTypeOK, NEW o, NEW u, NEW host, Changes(o, u, host),
         UNCHANGED time, NEW p \in DOMAIN defs
  PROVE  p \in DOMAIN defs' /\ (defs'[p] = defs[p] \/ time \in ChangesOf(p)')
<1>1. p \in DOMAIN defs'
  BY DEF Changes
<1>2. CASE \E i : New(p, i)
  <2>1. PICK i : New(p, i)
    BY <1>2
  <2>2. i \in DOMAIN defs'[p] /\ defs'[p][i].start = time
    BY <2>1, NewIs DEF New, PlacedNext
  <2> QED
    BY <1>1, <2>2 DEF ChangesOf
<1>3. CASE \E i : Placed(p, i) /\ EndsNow(p, i)
  <2>1. PICK i : Placed(p, i) /\ EndsNow(p, i)
    BY <1>3
  <2>2. defs[p][i] \in DefinitionType /\ time \in Nat
    BY <2>1, PlacedTyped, RegistryAssumption DEF RegistryTypeOK
  <2>3. i \in DOMAIN defs'[p] /\ defs'[p][i].end = time
    BY <2>1, <2>2, EndedTyped DEF EndsNow, PlacedNext
  <2>4. defs'[p][i].end # Open
    BY <2>2, <2>3 DEF Open
  <2> QED
    BY <1>1, <2>3, <2>4 DEF ChangesOf
<1>4. CASE ~(\E i : New(p, i)) /\ ~(\E i : Placed(p, i) /\ EndsNow(p, i))
  <2>1. \A i \in DOMAIN defs[p] : i \in DOMAIN defs'[p] /\ defs'[p][i] = defs[p][i]
    BY <1>4 DEF Changes, Kept, Placed, PlacedNext
  <2>2. \A i \in DOMAIN defs'[p] : i \in DOMAIN defs[p]
    BY <1>1, <1>4 DEF New, Placed, PlacedNext
  <2>3. DOMAIN defs'[p] = DOMAIN defs[p]
    BY <2>1, <2>2
  <2>4. defs[p] \in Seq(DefinitionType) /\ defs'[p] \in Seq(DefinitionType)
    BY <1>1 DEF TablesTyped, Changes
  <2>5. /\ defs[p] = [i \in DOMAIN defs[p] |-> defs[p][i]]
        /\ defs'[p] = [i \in DOMAIN defs'[p] |-> defs'[p][i]]
    BY <2>4
  <2>6. defs'[p] = defs[p]
    BY <2>1, <2>3, <2>5
  <2> QED
    BY <1>1, <2>6
<1> QED
  BY <1>2, <1>3, <1>4

LEMMA DefinitionLineChanges ==
  ASSUME RInv, DefinitionLine, NEW p \in DOMAIN defs
  PROVE  p \in DOMAIN defs' /\ (defs'[p] = defs[p] \/ time \in ChangesOf(p)')
<1> USE DEF RInv
<1>1. CASE \E n \in Name : AddVariable(n)
  <2>1. PICK n \in Name : AddVariable(n)
    BY <1>1
  <2>2. PICK known \in BOOLEAN : known = (<<"variable", n>> \notin DOMAIN defs)
    OBVIOUS
  <2>3. AddTo(<<"variable", n>>, n, NoHost, known) /\ NoHost \in Host
    BY <2>1, <2>2 DEF AddVariable, Host
  <2>4. Changes(<<"variable", n>>, lastUUID + 1, NoHost) /\ time' = time
    BY <2>3, AddToChanges DEF AddTo
  <2> QED
    BY <2>4, ChangedNow
<1>2. CASE \E u \in 1..MaxUUID : u \in DOMAIN objects /\ (DelDecl(u) \/ ReplDecl(u))
  <2>1. PICK u \in 1..MaxUUID : u \in DOMAIN objects /\ (DelDecl(u) \/ ReplDecl(u))
    BY <1>2
  <2>2. PICK o \in DOMAIN defs : o = objects[u]
    BY <2>1 DEF ObjectsMade
  <2>3. (SendDel(o, u) \/ SendRepl(o, u)) /\ time' = time /\ u \in Nat
    BY <2>1, <2>2, RegistryAssumption DEF DelDecl, ReplDecl
  <2>4. CASE CanEnd(o, u)
    <3>1. Changes(o, u, NoHost)
      BY <2>3, <2>4, SendDelChanges, SendReplChanges
    <3> QED
      BY <2>3, <3>1, ChangedNow
  <2>5. CASE ~CanEnd(o, u)
    BY <2>3, <2>5 DEF SendDel, SendRepl
  <2> QED
    BY <2>4, <2>5
<1>3. CASE UNCHANGED registryVars
  BY <1>3 DEF registryVars
<1> QED
  BY <1>1, <1>2, <1>3 DEF DefinitionLine

(***************************************************************************)
(* The steps                                                               *)
(***************************************************************************)
LEMMA DeclarationsKeepTime == DefinitionLine => time' = time
<1> SUFFICES ASSUME DefinitionLine PROVE time' = time
  OBVIOUS
<1>1. \A n \in Name : AddVariable(n) => time' = time
  BY DEF AddVariable, AddTo
<1>2. \A u \in 1..MaxUUID : DelDecl(u) \/ ReplDecl(u) => time' = time
  BY DEF DelDecl, ReplDecl, Refuse, registryVars
<1> QED
  BY <1>1, <1>2 DEF DefinitionLine, registryVars

LEMMA DefinitionsKeep ==
  ASSUME TextInv, RInv',
         \/ DefinitionLine \/ DefinitionsEmpty
         \/ \E p \in {"expressions", "assign"} : EndDefinitions(p)
  PROVE  TextInv'
<1>1. phase = "definitions" /\ Reading /\ TextTyped
  BY DEF TextInv, DefinitionLine, DefinitionsEmpty, EndDefinitions, In
<1>2. /\ time' = time
      /\ UNCHANGED <<exprs, assignments, at, evaluators, results, printed>>
      /\ phase' \in {"definitions", "expressions", "assign", "ended"}
  BY <1>1, DeclarationsKeepTime
    DEF DefinitionLine, DefinitionsEmpty, EndDefinitions, In, registryVars
<1>3. TextTyped'
  BY <1>1, <1>2 DEF TextTyped
<1>4. EvaluatorsRight(time)'
  <2>1. EvaluatorsRight(time) /\ RInv /\ time \in Int
    BY <1>1, TimeIsInt DEF TextInv, Reading
  <2>2. CASE DefinitionLine
    <3> SUFFICES ASSUME NEW o \in DOMAIN evaluators
                 PROVE  /\ o \in DOMAIN defs'
                        /\ \A c \in DOMAIN evaluators[o] :
                             /\ c \in Int /\ c < time
                             /\ (\A b \in ChangesOf(o)' : b <= c)
                                  => evaluators[o][c] = CompileInstant(o, c)'
      BY <1>2 DEF EvaluatorsRight
    <3>1. o \in DOMAIN defs /\ \A c \in DOMAIN evaluators[o] : c \in Int /\ c < time
      BY <2>1 DEF EvaluatorsRight
    <3>2. o \in DOMAIN defs' /\ (defs'[o] = defs[o] \/ time \in ChangesOf(o)')
      BY <2>1, <2>2, <3>1, DefinitionLineChanges
    <3>3. CASE defs'[o] = defs[o]
      <4>1. ChangesOf(o)' = ChangesOf(o) /\ \A c : CompileInstant(o, c)' = CompileInstant(o, c)
        BY <3>3 DEF ChangesOf, CompileInstant
      <4> QED
        BY <2>1, <3>1, <3>2, <4>1 DEF EvaluatorsRight
    <3>4. CASE time \in ChangesOf(o)'
      <4>1. \A c \in DOMAIN evaluators[o] : ~(time <= c)
        BY <2>1, <3>1
      <4> QED
        BY <3>1, <3>2, <3>4, <4>1
    <3> QED
      BY <3>2, <3>3, <3>4
  <2>3. CASE ~DefinitionLine
    <3>1. UNCHANGED <<defs, time, evaluators>>
      BY <1>2, <2>3 DEF DefinitionsEmpty, EndDefinitions, In, registryVars
    <3> QED
      BY <2>1, <3>1, SameEvaluators
  <2> QED
    BY <2>2, <2>3
<1>5. Reading'
  BY <1>1, <1>2, <1>4 DEF Reading, Earlier
<1> QED
  BY <1>2, <1>3, <1>5 DEF TextInv

LEMMA ExpressionsKeep ==
  ASSUME TextInv, RInv', ExpressionLine \/ EndExpressions
  PROVE  TextInv'
<1>1. phase = "expressions" /\ Reading /\ TextTyped
  BY DEF TextInv, ExpressionLine, EndExpressions, In
<1>2. /\ time' = time
      /\ UNCHANGED <<defs, assignments, at, evaluators, results, printed>>
      /\ phase' \in {"expressions", "assign"}
  BY <1>1 DEF ExpressionLine, EndExpressions, In, registryVars
<1>3. exprs' = exprs \/ \E n \in Name : exprs' = Append(exprs, n)
  BY DEF ExpressionLine, EndExpressions
<1>4. exprs' \in Seq(Name)
  BY <1>1, <1>3, AppendTyped DEF TextTyped
<1>5. TextTyped'
  BY <1>1, <1>2, <1>4 DEF TextTyped
<1>6. Reading'
  BY <1>1, <1>2, SameEvaluators DEF Reading, Earlier
<1> QED
  BY <1>2, <1>5, <1>6 DEF TextInv

(***************************************************************************)
(* The assignments so far are the first, and all of an earlier instant     *)
(***************************************************************************)
LEMMA AssignKeeps ==
  ASSUME TextInv, RInv', Assign
  PROVE  TextInv'
<1>1. Reading /\ TextTyped /\ time \in Int
  BY TimeIsInt DEF TextInv, Assign, In
<1>2. /\ phase' = "go" /\ at' = 1 /\ time' = time
      /\ UNCHANGED <<defs, exprs, evaluators, results, printed>>
      /\ assignments' = assignments \o [i \in DOMAIN exprs |-> Assigned(exprs[i], i - 1)]
  BY DEF Assign, In, registryVars
<1> DEFINE new == [i \in DOMAIN exprs |-> Assigned(exprs[i], i - 1)]
           base == Len(assignments)
<1>3. /\ Len(exprs) \in Nat /\ DOMAIN exprs = 1..Len(exprs)
      /\ \A i \in 1..Len(exprs) : exprs[i] \in Name
      /\ assignments \in Seq(Assignment) /\ base \in Nat
  BY <1>1 DEF TextTyped
<1>4. \A i \in 1..Len(exprs) :
        new[i] = [name |-> exprs[i], time |-> time, slot |-> i - 1]
  BY <1>3 DEF Assigned
<1>5. \A i \in 1..Len(exprs) : i - 1 \in Nat
  BY <1>3
<1>6. \A i \in 1..Len(exprs) : new[i] \in Assignment
  BY <1>1, <1>3, <1>4, <1>5, NewAssignment
<1>7. new = [i \in 1..Len(exprs) |-> new[i]]
  BY <1>3
<1> HIDE DEF new
<1>8. new \in Seq(Assignment) /\ Len(new) = Len(exprs)
  BY <1>3, <1>6, <1>7, MapIs
<1>9. /\ assignments' \in Seq(Assignment)
      /\ Len(assignments') = base + Len(exprs)
      /\ \A i \in 1..Len(exprs) : assignments'[base + i] = new[i]
      /\ \A i \in 1..base : assignments'[i] = assignments[i]
  <2>1. assignments' = assignments \o new
    BY <1>2 DEF new
  <2>2. Joined(Assignment, assignments \o new, assignments, new)
    BY <1>3, <1>8, ConcatIs
  <2> QED
    BY <1>8, <2>1, <2>2 DEF Joined
<1>10. TextTyped'
  BY <1>1, <1>2, <1>9 DEF TextTyped
<1>11. Earlier(assignments', base, time')
  BY <1>1, <1>2, <1>9 DEF Reading, Earlier
<1>12. OfInstant(assignments', base, exprs', time')
  BY <1>2, <1>4, <1>9 DEF OfInstant
<1>13. \A i \in 1..Len(exprs') : ~(base + i < at')
  BY <1>2, <1>3
<1>14. Going'
  <2>1. printed' = <<>>
    BY <1>1, <1>2 DEF Reading
  <2>2. EvaluatorsRight(time + 1)
    BY <1>1 DEF Reading, EvaluatorsRight
  <2>3. EvaluatorsRight(time + 1)'
    BY <1>2, <2>2, SameEvaluators
  <2> HIDE DEF base
  <2> QED
    BY <1>3, <1>11, <1>12, <1>13, <2>1, <2>3 DEF Going
<1> QED
  BY <1>2, <1>10, <1>14 DEF TextInv

(***************************************************************************)
(* Whenever the evaluator of the last change is compiled, then or before,  *)
(* it is made of what compileInstant chooses from all that is declared     *)
(***************************************************************************)
LEMMA EvaluationCompiles ==
  ASSUME RInv, EvaluatorsRight(time + 1), UNCHANGED <<defs, identifiers, time>>,
         NEW n, NEW mentioned \in SUBSET DOMAIN defs,
         evaluators' = CompiledWith(Named(n) \cup mentioned)
  PROVE  /\ EvaluatorsRight(time + 1)'
         /\ UsedBy(evaluators', n, time) = Value(n, time)
<1> DEFINE S == Named(n) \cup mentioned
<1>1. Named(n) \subseteq DOMAIN defs
  BY DEF Named, RInv, RegistryTypeOK
<1>2. S \subseteq DOMAIN defs
  BY <1>1
<1>3. /\ DOMAIN evaluators' = DOMAIN evaluators \cup S
      /\ \A o \in DOMAIN evaluators : o \notin S => evaluators'[o] = evaluators[o]
      /\ \A o \in S :
           /\ DOMAIN evaluators'[o] = ChangesOf(o)
           /\ \A c \in ChangesOf(o) :
                evaluators'[o][c] = IF HasEvaluator(o, c) THEN evaluators[o][c]
                                    ELSE CompileInstant(o, c)
  BY DEF CompiledWith
<1> HIDE DEF S
<1>4. ASSUME NEW o \in S, NEW c \in ChangesOf(o), \A b \in ChangesOf(o) : b <= c
      PROVE  evaluators'[o][c] = CompileInstant(o, c)
  <2>1. CASE HasEvaluator(o, c)
    BY <1>3, <1>4, <2>1 DEF HasEvaluator, EvaluatorsRight
  <2>2. CASE ~HasEvaluator(o, c)
    BY <1>3, <2>2
  <2> QED
    BY <2>1, <2>2
<1>5. ASSUME NEW o \in DOMAIN evaluators'
      PROVE  /\ o \in DOMAIN defs
             /\ \A c \in DOMAIN evaluators'[o] :
                  /\ c \in Int /\ c < time + 1
                  /\ (\A b \in ChangesOf(o) : b <= c)
                       => evaluators'[o][c] = CompileInstant(o, c)
  <2>1. CASE o \in S
    <3>1. \A c \in ChangesOf(o) : c \in Int /\ c < time + 1
      BY <1>2, <2>1, ChangesHaveCome
    <3> QED
      BY <1>2, <1>3, <1>4, <2>1, <3>1
  <2>2. CASE o \notin S
    BY <1>3, <2>2 DEF EvaluatorsRight
  <2> QED
    BY <2>1, <2>2
<1>6. EvaluatorsRight(time + 1)'
  <2>1. \A o : ChangesOf(o)' = ChangesOf(o) /\ \A c : CompileInstant(o, c)' = CompileInstant(o, c)
    BY DEF ChangesOf, CompileInstant
  <2> QED
    BY <1>5, <2>1 DEF EvaluatorsRight
<1>7. UsedBy(evaluators', n, time) = Value(n, time)
  <2>1. CASE n \in DOMAIN identifiers
    <3> DEFINE o == identifiers[n]
               c == LastChange(o, time)
    <3>1. o \in S /\ o \in DOMAIN defs
      BY <1>2, <2>1 DEF Named, S
    <3>2. c \in ChangesOf(o) /\ \A b \in ChangesOf(o) : b <= c
      BY <3>1, LastIsThere
    <3>3. evaluators'[o][c] = CompileInstant(o, c)
      BY <1>4, <3>1, <3>2
    <3> QED
      BY <2>1, <3>3 DEF UsedBy, Value
  <2>2. CASE n \notin DOMAIN identifiers
    BY <2>2 DEF UsedBy, Value
  <2> QED
    BY <2>1, <2>2
<1> QED
  BY <1>6, <1>7

(***************************************************************************)
(* An assignment of an earlier instant changes nothing; one of this        *)
(* instant fills its slot and leaves the others as they are                *)
(***************************************************************************)
LEMMA EvaluateKeeps ==
  ASSUME TextInv, RInv', EvaluateAssignment
  PROVE  TextInv'
<1>1. Going /\ TextTyped /\ time \in Int /\ RInv
  BY TimeIsInt DEF TextInv, EvaluateAssignment, In
<1>2. /\ phase = "go" /\ phase' = "go" /\ at' = at + 1 /\ at <= Len(assignments)
      /\ UNCHANGED <<defs, identifiers, time, exprs, assignments, printed>>
  BY DEF EvaluateAssignment, In, registryVars
<1>3. PICK base \in Nat :
        /\ Earlier(assignments, base, time)
        /\ OfInstant(assignments, base, exprs, time)
        /\ \A i \in 1..Len(exprs) : base + i < at => Filled(results, i, Wanted(time))
  BY <1>1 DEF Going
<1>4. /\ Len(exprs) \in Nat /\ Len(assignments) = base + Len(exprs)
      /\ at \in 1..Len(assignments) /\ results \in Seq(Sets) /\ Len(results) \in Nat
  BY <1>1, <1>2, <1>3 DEF TextTyped, OfInstant
<1> DEFINE a == assignments[at]
<1>5. /\ results' = IF a.time = time THEN Put(a.slot, Value(a.name, time)) ELSE results
      /\ EvaluatorsRight(time + 1)'
  <2>1. EvaluatorsRight(time + 1)
    BY <1>1 DEF Going
  <2>2. CASE a.time = time
    <3>1. PICK mentioned \in SUBSET DOMAIN defs :
            evaluators' = CompiledWith(Named(a.name) \cup mentioned)
      BY <2>2 DEF EvaluateAssignment, Applies
    <3>2. results' = Put(a.slot, UsedBy(evaluators', a.name, time))
      BY <2>2 DEF EvaluateAssignment, Applies
    <3>3. /\ EvaluatorsRight(time + 1)'
          /\ UsedBy(evaluators', a.name, time) = Value(a.name, time)
      BY <1>1, <1>2, <2>1, <3>1, EvaluationCompiles
    <3> QED
      BY <2>2, <3>2, <3>3
  <2>3. CASE a.time # time
    <3>1. results' = results /\ evaluators' = evaluators
      BY <2>3 DEF EvaluateAssignment, Applies
    <3> QED
      BY <1>2, <2>1, <2>3, <3>1, SameEvaluators
  <2> QED
    BY <2>2, <2>3
<1>6. /\ results' \in Seq(Sets)
      /\ \A i \in 1..Len(exprs) : base + i <= at => Filled(results', i, Wanted(time))
  <2>1. CASE at <= base
    <3>0. at \in 1..base /\ a \in Assignment
      BY <1>1, <1>4, <2>1 DEF TextTyped
    <3>1. a.time < time /\ a.time \in Int
      BY <1>3, <3>0, AssignmentHas DEF Earlier
    <3>2. results' = results
      BY <1>1, <1>5, <3>1
    <3>3. \A i \in 1..Len(exprs) : ~(base + i <= at)
      BY <1>4, <2>1
    <3> QED
      BY <1>4, <3>2, <3>3
  <2>2. CASE at > base
    <3>1. PICK s \in 1..Len(exprs) : at = base + s
      <4>1. at - base \in 1..Len(exprs) /\ at = base + (at - base)
        BY <1>4, <2>2
      <4> QED
        BY <4>1
    <3>2. a = [name |-> exprs[s], time |-> time, slot |-> s - 1]
      BY <1>3, <3>1 DEF OfInstant
    <3>3. results' = Put(s - 1, Value(exprs[s], time))
      BY <1>5, <3>2
    <3>4. /\ s - 1 \in Nat /\ (s - 1) + 1 = s
          /\ Value(exprs[s], time) \in Sets /\ Wanted(time)[s] = Value(exprs[s], time)
      BY <1>1, <1>4, ValueIsSet DEF Wanted
    <3>5. /\ results' \in Seq(Sets)
          /\ Len(results') >= s /\ Len(results') >= Len(results)
          /\ results'[s] = Value(exprs[s], time)
          /\ \A i \in 1..Len(results) : i # s => results'[i] = results[i]
      BY <1>4, <3>3, <3>4, PutIs
    <3>6. ASSUME NEW i \in 1..Len(exprs), base + i <= at
          PROVE  Filled(results', i, Wanted(time))
      <4>1. CASE i = s
        BY <3>4, <3>5, <4>1 DEF Filled
      <4>2. CASE i # s
        <5>1. base + i < at
          BY <1>4, <3>1, <3>6, <4>2
        <5>2. i <= Len(results) /\ results[i] = Wanted(time)[i]
          BY <1>3, <5>1 DEF Filled
        <5>3. i \in 1..Len(results) /\ Len(results') \in Nat
          BY <1>4, <3>5, <5>2
        <5>4. i <= Len(results')
          BY <1>4, <3>5, <5>2, <5>3
        <5> QED
          BY <3>5, <4>2, <5>2, <5>3, <5>4 DEF Filled
      <4> QED
        BY <4>1, <4>2
    <3> QED
      BY <3>5, <3>6
  <2> QED
    BY <1>4, <2>1, <2>2
<1>7. TextTyped'
  BY <1>1, <1>2, <1>6 DEF TextTyped
<1>8. Wanted(time)' = Wanted(time)
  BY <1>2 DEF Wanted, Value, CompileInstant, LastChange, ChangesOf
<1>9. \A i \in 1..Len(exprs') : base + i < at' => Filled(results', i, Wanted(time)')
  BY <1>2, <1>4, <1>6, <1>8
<1>10. Going'
  BY <1>1, <1>2, <1>3, <1>5, <1>9 DEF Going
<1> QED
  BY <1>2, <1>7, <1>10 DEF TextInv

LEMMA ThrowKeeps ==
  ASSUME TextInv, RInv', EvaluationThrows
  PROVE  TextInv'
<1>1. TextTyped' /\ phase' = "failed"
  BY DEF TextInv, TextTyped, EvaluationThrows
<1> QED
  BY <1>1 DEF TextInv

(***************************************************************************)
(* go has come to every assignment, so every slot is filled                *)
(***************************************************************************)
LEMMA EndGoKeeps ==
  ASSUME TextInv, RInv', EndGo
  PROVE  TextInv'
<1>1. Going /\ TextTyped /\ time \in Int
  BY TimeIsInt DEF TextInv, EndGo
<1>2. /\ phase' = "print" /\ time' = time + 1 /\ at > Len(assignments)
      /\ UNCHANGED <<defs, identifiers, exprs, assignments, at, evaluators, results,
                     printed>>
  BY DEF EndGo, AdvanceTime
<1>3. PICK base \in Nat :
        /\ Earlier(assignments, base, time)
        /\ OfInstant(assignments, base, exprs, time)
        /\ \A i \in 1..Len(exprs) : base + i < at => Filled(results, i, Wanted(time))
  BY <1>1 DEF Going
<1>4. Len(exprs) \in Nat /\ Len(assignments) = base + Len(exprs) /\ at \in Nat
  BY <1>1, <1>3 DEF TextTyped, OfInstant
<1>5. ASSUME NEW j \in 1..Len(assignments)
      PROVE  assignments[j].time < time + 1
  <2>0. assignments[j].time \in Int
    <3>1. assignments[j] \in Assignment
      BY <1>1 DEF TextTyped
    <3> QED
      BY <3>1, AssignmentHas
  <2>1. CASE j <= base
    BY <1>1, <1>3, <1>4, <2>0, <2>1 DEF Earlier
  <2>2. CASE j > base
    <3>1. j - base \in 1..Len(exprs) /\ j = base + (j - base)
      BY <1>4, <2>2
    <3>2. assignments[j] =
            [name |-> exprs[j - base], time |-> time, slot |-> (j - base) - 1]
      BY <1>3, <3>1 DEF OfInstant
    <3>3. assignments[j].time = time
      BY <3>2
    <3> QED
      BY <1>1, <3>3
  <2> QED
    BY <1>4, <2>1, <2>2
<1>6. \A i \in 1..Len(exprs) : Filled(results, i, Wanted(time))
  <2>1. \A i \in 1..Len(exprs) : base + i < at
    BY <1>2, <1>4
  <2> QED
    BY <1>3, <2>1
<1>7. \A i \in 1..Len(exprs') : Filled(results', i, Wanted(time - 1)')
  <2>1. (time - 1)' = time
    BY <1>1, <1>2
  <2>2. Wanted(time - 1)' = Wanted(time)
    <3>1. /\ \A o : ChangesOf(o)' = ChangesOf(o)
          /\ \A o, c : CompileInstant(o, c)' = CompileInstant(o, c)
      BY <1>2 DEF ChangesOf, CompileInstant
    <3>2. \A o : LastChange(o, time - 1)' = LastChange(o, time)
      BY <2>1, <3>1 DEF LastChange
    <3>3. \A n : Value(n, time - 1)' = Value(n, time)
      BY <1>2, <3>1, <3>2 DEF Value
    <3> QED
      BY <1>2, <3>3 DEF Wanted
  <2> QED
    BY <1>2, <1>6, <2>2
<1>8. Printing'
  <2>1. printed' = <<>> /\ Len(printed') = 0
    BY <1>1, <1>2 DEF Going
  <2>2. Len(printed') <= Len(exprs') /\ \A i : ~(i \in 1..Len(printed'))
    BY <1>2, <1>4, <2>1
  <2>3. Earlier(assignments', Len(assignments'), time')
    BY <1>2, <1>5 DEF Earlier
  <2>4. EvaluatorsRight(time)'
    BY <1>1, <1>2 DEF Going, EvaluatorsRight, CompileInstant, ChangesOf
  <2> QED
    BY <1>7, <2>2, <2>3, <2>4 DEF Printing
<1>9. TextTyped'
  BY <1>1, <1>2 DEF TextTyped
<1> QED
  BY <1>2, <1>8, <1>9 DEF TextInv

LEMMA PrintKeeps ==
  ASSUME TextInv, RInv', PrintSlot
  PROVE  TextInv'
<1>1. Printing /\ TextTyped
  BY DEF TextInv, PrintSlot, In
<1>2. /\ phase' = "print" /\ Len(printed) < Len(exprs)
      /\ printed' = Append(printed, results[Len(printed) + 1])
      /\ UNCHANGED <<defs, identifiers, time, exprs, assignments, at, evaluators,
                     results>>
  BY DEF PrintSlot, In, registryVars
<1> DEFINE n == Len(printed) + 1
<1>3. /\ n \in 1..Len(exprs) /\ Len(exprs) \in Nat /\ Len(results) \in Nat
      /\ printed \in Seq(Sets) /\ results \in Seq(Sets)
  BY <1>1, <1>2 DEF TextTyped
<1>4. n <= Len(results) /\ results[n] = Wanted(time - 1)[n]
  BY <1>1, <1>3 DEF Printing, Filled
<1>5. results[n] \in Sets
  BY <1>3, <1>4
<1>6. /\ printed' \in Seq(Sets) /\ Len(printed') = n /\ printed'[n] = results[n]
      /\ \A i \in 1..Len(printed) : printed'[i] = printed[i]
  BY <1>2, <1>3, <1>5
<1>7. Wanted(time - 1)' = Wanted(time - 1)
  BY <1>2 DEF Wanted, Value, CompileInstant, LastChange, ChangesOf
<1>8. ASSUME NEW i \in 1..n
      PROVE  printed'[i] = Wanted(time - 1)[i]
  <2>1. i = n \/ i \in 1..Len(printed)
    BY <1>3
  <2> QED
    BY <1>1, <1>4, <1>6, <2>1 DEF Printing
<1>9. Printing'
  <2>1. \A i \in 1..Len(exprs') : Filled(results', i, Wanted(time - 1)')
    BY <1>1, <1>2, <1>7 DEF Printing
  <2>2. Len(printed') <= Len(exprs')
    BY <1>2, <1>3, <1>6
  <2>3. \A i \in 1..Len(printed') : printed'[i] = Wanted(time - 1)'[i]
    BY <1>6, <1>7, <1>8
  <2>4. Earlier(assignments', Len(assignments'), time')
    BY <1>1, <1>2 DEF Printing, Earlier
  <2>5. EvaluatorsRight(time)'
    BY <1>1, <1>2, SameEvaluators DEF Printing
  <2> QED
    BY <2>1, <2>2, <2>3, <2>4, <2>5 DEF Printing
<1>10. TextTyped'
  BY <1>1, <1>2, <1>6 DEF TextTyped
<1> QED
  BY <1>2, <1>9, <1>10 DEF TextInv

LEMMA EndInstantKeeps ==
  ASSUME TextInv, RInv', EndInstant
  PROVE  TextInv'
<1>1. Printing /\ TextTyped
  BY DEF TextInv, EndInstant, In
<1>2. /\ phase' \in {"definitions", "failed"} /\ time' = time
      /\ exprs' = <<>> /\ printed' = <<>>
      /\ UNCHANGED <<defs, assignments, at, evaluators, results>>
  BY DEF EndInstant, In, registryVars
<1>3. \A S : <<>> \in Seq(S)
  OBVIOUS
<1>4. TextTyped'
  BY <1>1, <1>2, <1>3 DEF TextTyped
<1>5. Reading'
  BY <1>1, <1>2, SameEvaluators DEF Printing, Reading, Earlier
<1> QED
  BY <1>2, <1>4, <1>5 DEF TextInv

LEMMA StepTextInv == TextInv /\ [NextText]_textVars => TextInv'
<1> SUFFICES ASSUME TextInv, [NextText]_textVars
             PROVE  TextInv'
  OBVIOUS
<1>1. RInv'
  BY TextStepsRegistry, StepRInv DEF TextInv
<1>2. CASE UNCHANGED textVars
  <2>1. UNCHANGED <<defs, identifiers, time, phase, exprs, assignments, at,
                    evaluators, results, printed>>
    BY <1>2 DEF textVars, registryVars, loopVars
  <2>2. Wanted(time)' = Wanted(time) /\ Wanted(time - 1)' = Wanted(time - 1)
    BY <2>1 DEF Wanted, Value, CompileInstant, LastChange, ChangesOf
  <2>3. TextTyped' /\ (Reading => Reading')
    BY <2>1, SameEvaluators DEF TextInv, TextTyped, Reading, Earlier
  <2>4. Going => Going'
    BY <2>1, <2>2, SameEvaluators DEF Going
  <2>5. Printing => Printing'
    BY <2>1, <2>2, SameEvaluators DEF Printing
  <2> QED
    BY <1>1, <2>1, <2>3, <2>4, <2>5 DEF TextInv
<1>3. CASE \/ DefinitionLine \/ DefinitionsEmpty
           \/ EndDefinitions("expressions") \/ EndDefinitions("assign")
  BY <1>1, <1>3, DefinitionsKeep
<1>4. CASE ExpressionLine \/ EndExpressions
  BY <1>1, <1>4, ExpressionsKeep
<1>5. CASE Assign
  BY <1>1, <1>5, AssignKeeps
<1>6. CASE EvaluateAssignment
  BY <1>1, <1>6, EvaluateKeeps
<1>7. CASE EvaluationThrows
  BY <1>1, <1>7, ThrowKeeps
<1>8. CASE EndGo
  BY <1>1, <1>8, EndGoKeeps
<1>9. CASE PrintSlot
  BY <1>1, <1>9, PrintKeeps
<1>10. CASE EndInstant
  BY <1>1, <1>10, EndInstantKeeps
<1> QED
  BY <1>2, <1>3, <1>4, <1>5, <1>6, <1>7, <1>8, <1>9, <1>10 DEF NextText

LEMMA TextInvariant == SpecText => []TextInv
BY InitTextInv, StepTextInv, PTL DEF SpecText

(***************************************************************************)
(* What is printed for an expression is what compileInstant chooses from   *)
(* the definitions of the instant it was asked in: its evaluator may have  *)
(* been compiled in an earlier instant, but then nothing has changed       *)
(* since, for a change makes a new evaluator.  And though it is printed in *)
(* the next instant, from a vector that still holds the slots of the       *)
(* instants before, every slot printed was filled in this one, for go      *)
(* comes to all its assignments and passes over all the others.            *)
(***************************************************************************)
THEOREM PrintedAsAsked == SpecText => []PrintedIsDemanded
<1>1. TextInv => PrintedIsDemanded
  <2> SUFFICES ASSUME TextInv, phase = "print"
               PROVE  /\ Len(exprs) <= Len(results)
                      /\ \A i \in DOMAIN printed : printed[i] = Value(exprs[i], time - 1)
    BY DEF PrintedIsDemanded
  <2>1. Printing /\ TextTyped
    BY DEF TextInv
  <2>2. /\ Len(exprs) \in Nat /\ Len(results) \in Nat /\ Len(printed) \in Nat
        /\ DOMAIN printed = 1..Len(printed)
    BY <2>1 DEF TextTyped
  <2>3. Len(exprs) <= Len(results)
    <3>1. CASE Len(exprs) = 0
      BY <2>2, <3>1
    <3>2. CASE Len(exprs) # 0
      <4>1. Len(exprs) \in 1..Len(exprs)
        BY <2>2, <3>2
      <4> QED
        BY <2>1, <4>1 DEF Printing, Filled
    <3> QED
      BY <3>1, <3>2
  <2>4. ASSUME NEW i \in DOMAIN printed
        PROVE  printed[i] = Value(exprs[i], time - 1)
    <3>1. i \in 1..Len(printed) /\ i \in 1..Len(exprs)
      BY <2>1, <2>2 DEF Printing
    <3> QED
      BY <2>1, <3>1 DEF Printing, Wanted
  <2> QED
    BY <2>3, <2>4
<1> QED
  BY <1>1, TextInvariant, PTL

(***************************************************************************)
(* The order                                                               *)
(***************************************************************************)
IsLimits(l) == l \in Seq(Bounds)

\* The contexts of a demand, in this instant or not
Points(l) == {c \in [1..Len(l) -> Int] : \A i \in 1..Len(l) : c[i] \in Values(l[i])}

Before(c, d, n) ==
  \E i \in 1..n : c[i] < d[i] /\ \A j \in 1..n : j > i => c[j] = d[j]

LEMMA BoundsAre ==
  ASSUME NEW l, IsLimits(l)
  PROVE  /\ Len(l) \in Nat /\ DOMAIN l = 1..Len(l)
         /\ \A i \in 1..Len(l) : l[i].lower \in Int /\ l[i].upper \in Int
<1>1. \A r \in Bounds : r.lower \in Int /\ r.upper \in Int
  BY DEF Bounds
<1>2. Len(l) \in Nat /\ DOMAIN l = 1..Len(l) /\ \A i \in 1..Len(l) : l[i] \in Bounds
  BY DEF IsLimits
<1> QED
  BY <1>1, <1>2

LEMMA ValuesAre ==
  ASSUME NEW r, r.lower \in Int, r.upper \in Int
  PROVE  /\ r.lower \in Values(r)
         /\ \A v \in Values(r) :
              /\ v \in Int /\ r.lower <= v
              /\ Within(r, v + 1) => v + 1 \in Values(r)
              /\ ~Within(r, v + 1) => \A w \in Values(r) : w <= v
BY DEF Values, Within

LEMMA DemandedAre ==
  ASSUME IsLimits(limits)
  PROVE  Demanded = {c \in Points(limits) : InInstant(c)}
<1>1. /\ Len(limits) \in Nat /\ Digits = 1..Len(limits)
      /\ \A i \in 1..Len(limits) : \A v \in Values(limits[i]) : v \in Int
  BY BoundsAre, ValuesAre DEF Digits
<1> DEFINE n == Len(limits)
           V == UNION {Values(limits[i]) : i \in 1..n}
<1>2. \A i \in 1..n : Values(limits[i]) \subseteq V
  OBVIOUS
<1>3. V \subseteq Int
  BY <1>1
<1>4. Demanded = {c \in [1..n -> V] :
                    InInstant(c) /\ \A i \in 1..n : c[i] \in Values(limits[i])}
  BY <1>1 DEF Demanded
<1> HIDE DEF V
<1>5. ASSUME NEW c \in [1..n -> V]
      PROVE  c \in [1..n -> Int]
  BY <1>3
<1>6. ASSUME NEW c \in [1..n -> Int], \A i \in 1..n : c[i] \in Values(limits[i])
      PROVE  c \in [1..n -> V]
  BY <1>2, <1>6
<1> QED
  BY <1>4, <1>5, <1>6 DEF Points

(***************************************************************************)
(* Two contexts that differ do so in a last digit                          *)
(***************************************************************************)
LEMMA LeastOfNat ==
  ASSUME NEW S \in SUBSET Nat, S # {}
  PROVE  \E n \in S : \A m \in S : n <= m
<1>1. PICK n \in S : \A m \in S : ~(<<m, n>> \in OpToRel(<, Nat))
  BY NatLessThanWellFounded, WFMin, Zenon
<1>2. \A m \in S : ~(m < n)
  BY <1>1 DEF OpToRel
<1> QED
  BY <1>2

LEMMA LastOf ==
  ASSUME NEW n \in Nat, NEW S \in SUBSET (1..n), S # {}
  PROVE  \E i \in S : \A j \in S : j <= i
<1> DEFINE T == {n - i : i \in S}
<1>0. \A i \in S : i \in 1..n /\ n - i \in Nat
  OBVIOUS
<1>1. T \in SUBSET Nat /\ T # {}
  BY <1>0
<1>2. PICK m \in T : \A t \in T : m <= t
  BY <1>1, LeastOfNat
<1>3. PICK i \in S : m = n - i
  OBVIOUS
<1>4. ASSUME NEW j \in S
      PROVE  j <= i
  <2>1. n - j \in T
    OBVIOUS
  <2>2. n - i <= n - j
    BY <1>2, <1>3, <2>1
  <2> QED
    BY <2>2
<1> QED
  BY <1>4

LEMMA BelowIsBefore ==
  ASSUME NEW n \in Nat, NEW c \in [1..n -> Int], NEW d \in [1..n -> Int],
         NEW m \in 0..n,
         \A i \in 1..n : i <= m => c[i] <= d[i],
         \A i \in 1..n : i > m => c[i] = d[i]
  PROVE  c = d \/ Before(c, d, n)
<1> DEFINE S == {i \in 1..n : c[i] # d[i]}
<1>1. CASE S = {}
  <2>1. \A i \in 1..n : c[i] = d[i]
    BY <1>1
  <2> QED
    BY <2>1
<1>2. CASE S # {}
  <2>1. PICK i \in S : \A j \in S : j <= i
    BY <1>2, LastOf
  <2>2. i \in 1..n /\ c[i] # d[i] /\ c[i] \in Int /\ d[i] \in Int
    OBVIOUS
  <2>3. i <= m
    BY <2>2
  <2>4. c[i] < d[i]
    BY <2>2, <2>3
  <2>5. \A j \in 1..n : j > i => c[j] = d[j]
    BY <2>1, <2>2
  <2> QED
    BY <2>2, <2>4, <2>5 DEF Before
<1> QED
  BY <1>1, <1>2

LEMMA NotBeforeItself ==
  ASSUME NEW n \in Nat, NEW c \in [1..n -> Int]
  PROVE  ~Before(c, c, n)
BY DEF Before

(***************************************************************************)
(* Counting                                                                *)
(***************************************************************************)
LEMMA FirstIsFirst ==
  ASSUME IsLimits(limits)
  PROVE  LET c == [i \in Digits |-> limits[i].lower]
         IN  /\ c \in Points(limits)
             /\ \A b \in Points(limits) : ~Before(b, c, Len(limits))
<1> DEFINE n == Len(limits)
           c == [i \in Digits |-> limits[i].lower]
<1>1. /\ n \in Nat /\ Digits = 1..n
      /\ \A i \in 1..n : limits[i].lower \in Int /\ limits[i].upper \in Int
  BY BoundsAre DEF Digits
<1>2. \A i \in 1..n : c[i] = limits[i].lower
  BY <1>1
<1>3. c \in [1..n -> Int]
  BY <1>1
<1> HIDE DEF c
<1>4. \A i \in 1..n : c[i] \in Values(limits[i])
  BY <1>1, <1>2, ValuesAre
<1>5. c \in Points(limits)
  BY <1>3, <1>4 DEF Points
<1>6. ASSUME NEW b \in Points(limits), Before(b, c, n)
      PROVE  FALSE
  <2>1. PICK i \in 1..n : b[i] < c[i]
    BY <1>6 DEF Before
  <2>2. b[i] \in Values(limits[i])
    BY DEF Points
  <2>3. b[i] \in Int /\ limits[i].lower <= b[i]
    BY <1>1, <2>2, ValuesAre
  <2> QED
    BY <1>1, <1>2, <2>1, <2>3
<1> QED
  BY <1>5, <1>6 DEF c

LEMMA CountingIs ==
  ASSUME IsLimits(limits), CanCount # {}
  PROVE  /\ Counting \in CanCount
         /\ \A j \in CanCount : Counting <= j
<1>1. CanCount \in SUBSET Nat
  BY BoundsAre DEF CanCount, Digits
<1>2. \E i \in CanCount : \A j \in CanCount : i <= j
  BY <1>1, LeastOfNat
<1> QED
  BY <1>2 DEF Counting

\* The next context: nothing of the demand lies between
LEMMA CountedIsNext ==
  ASSUME IsLimits(limits), current \in Points(limits), CanCount # {}
  PROVE  /\ Counted \in Points(limits)
         /\ \A c \in Points(limits) :
              Before(c, Counted, Len(limits)) <=> (c = current \/ Before(c, current, Len(limits)))
<1> DEFINE n == Len(limits)
           m == Counting
           d == Counted
<1>1. /\ n \in Nat /\ Digits = 1..n
      /\ \A i \in 1..n : limits[i].lower \in Int /\ limits[i].upper \in Int
  BY BoundsAre DEF Digits
<1>2. /\ m \in 1..n /\ Within(limits[m], current[m] + 1)
      /\ \A j \in 1..n : j < m => ~Within(limits[j], current[j] + 1)
  BY <1>1, CountingIs DEF CanCount
<1>3. /\ d = [j \in 1..n |-> IF j < m THEN limits[j].lower
                             ELSE IF j = m THEN current[j] + 1 ELSE current[j]]
  BY <1>1 DEF Counted
<1>4. /\ current \in [1..n -> Int]
      /\ \A i \in 1..n : current[i] \in Values(limits[i])
  BY DEF Points
<1> HIDE DEF m, d
<1>5. /\ \A j \in 1..n : j < m => d[j] = limits[j].lower
      /\ d[m] = current[m] + 1
      /\ \A j \in 1..n : j > m => d[j] = current[j]
  BY <1>1, <1>2, <1>3
<1>6. \A j \in 1..n : j < m \/ j = m \/ j > m
  BY <1>2
<1>7. \A j \in 1..n : d[j] \in Values(limits[j]) /\ d[j] \in Int
  BY <1>1, <1>2, <1>4, <1>5, <1>6, ValuesAre
<1>8. d \in [1..n -> Int]
  BY <1>3, <1>7
<1>9. d \in Points(limits)
  BY <1>7, <1>8 DEF Points
<1>10. ASSUME NEW c \in Points(limits), c = current \/ Before(c, current, n)
       PROVE  Before(c, d, n)
  <2>1. c \in [1..n -> Int]
    BY DEF Points
  <2>2. CASE c = current
    <3>1. c[m] < d[m] /\ \A j \in 1..n : j > m => c[j] = d[j]
      BY <1>2, <1>4, <1>5, <2>2
    <3> QED
      BY <1>2, <3>1 DEF Before
  <2>3. CASE Before(c, current, n)
    <3>1. PICK i \in 1..n : c[i] < current[i] /\ \A j \in 1..n : j > i => c[j] = current[j]
      BY <2>3 DEF Before
    <3>2. CASE i > m
      <4>1. c[i] < d[i] /\ \A j \in 1..n : j > i => c[j] = d[j]
        BY <1>2, <1>5, <3>1, <3>2
      <4> QED
        BY <4>1 DEF Before
    <3>3. CASE i <= m
      <4>1. c[m] < d[m]
        <5>1. CASE i = m
          BY <1>2, <1>4, <1>5, <2>1, <3>1, <5>1
        <5>2. CASE i < m
          BY <1>2, <1>4, <1>5, <2>1, <3>1, <5>2
        <5> QED
          BY <1>2, <3>3, <5>1, <5>2
      <4>2. \A j \in 1..n : j > m => c[j] = d[j]
        BY <1>2, <1>5, <3>1, <3>3
      <4> QED
        BY <1>2, <4>1, <4>2 DEF Before
    <3> QED
      BY <1>2, <3>2, <3>3
  <2> QED
    BY <1>10, <2>2, <2>3
<1>11. ASSUME NEW c \in Points(limits), Before(c, d, n)
       PROVE  c = current \/ Before(c, current, n)
  <2>1. c \in [1..n -> Int] /\ \A i \in 1..n : c[i] \in Values(limits[i])
    BY DEF Points
  <2>2. PICK i \in 1..n : c[i] < d[i] /\ \A j \in 1..n : j > i => c[j] = d[j]
    BY <1>11 DEF Before
  <2>3. CASE i < m
    <3>1. c[i] < limits[i].lower
      BY <1>5, <2>2, <2>3
    <3>2. limits[i].lower <= c[i] /\ c[i] \in Int
      BY <1>1, <2>1, ValuesAre
    <3> QED
      BY <1>1, <3>1, <3>2
  <2>4. CASE i = m
    <3>1. c[m] < current[m] + 1 /\ \A j \in 1..n : j > m => c[j] = current[j]
      BY <1>2, <1>5, <2>2, <2>4
    <3>2. c[m] <= current[m] /\ c[m] \in Int /\ current[m] \in Int
      BY <1>2, <1>4, <2>1, <3>1
    <3>3. CASE c[m] < current[m]
      BY <1>2, <3>1, <3>3 DEF Before
    <3>4. CASE c[m] = current[m]
      <4>1. ASSUME NEW j \in 1..n, j <= m
            PROVE  c[j] <= current[j]
        <5>1. CASE j = m
          BY <3>2, <5>1
        <5>2. CASE j < m
          <6>1. ~Within(limits[j], current[j] + 1)
            BY <1>2, <5>2
          <6> QED
            BY <1>1, <1>4, <2>1, <6>1, ValuesAre
        <5> QED
          BY <1>2, <4>1, <5>1, <5>2
      <4>2. m \in 0..n
        BY <1>2
      <4> QED
        BY <1>1, <1>4, <2>1, <3>1, <4>1, <4>2, BelowIsBefore
    <3> QED
      BY <3>2, <3>3, <3>4
  <2>5. CASE i > m
    <3>1. c[i] < current[i] /\ \A j \in 1..n : j > i => c[j] = current[j]
      BY <1>2, <1>5, <2>2, <2>5
    <3> QED
      BY <3>1 DEF Before
  <2> QED
    BY <1>2, <2>3, <2>4, <2>5
<1> QED
  BY <1>9, <1>10, <1>11 DEF d

\* When no digit can go on, no context of the demand is left
LEMMA LastIsLast ==
  ASSUME IsLimits(limits), current \in Points(limits), CanCount = {}
  PROVE  \A c \in Points(limits) : c = current \/ Before(c, current, Len(limits))
<1> DEFINE n == Len(limits)
<1>1. /\ n \in Nat /\ Digits = 1..n
      /\ \A i \in 1..n : limits[i].lower \in Int /\ limits[i].upper \in Int
  BY BoundsAre DEF Digits
<1>2. /\ current \in [1..n -> Int]
      /\ \A i \in 1..n : current[i] \in Values(limits[i])
  BY DEF Points
<1> TAKE c \in Points(limits)
<1>3. c \in [1..n -> Int] /\ \A i \in 1..n : c[i] \in Values(limits[i])
  BY DEF Points
<1>4. \A i \in 1..n : ~Within(limits[i], current[i] + 1)
  BY <1>1 DEF CanCount
<1>5. \A i \in 1..n : c[i] <= current[i]
  BY <1>1, <1>2, <1>3, <1>4, ValuesAre
<1>6. n \in 0..n /\ \A i \in 1..n : ~(i > n)
  BY <1>1
<1> QED
  BY <1>1, <1>2, <1>3, <1>5, <1>6, BelowIsBefore

(***************************************************************************)
(* The invariant: what has been put is what comes before the context that  *)
(* is next, without repetition                                             *)
(***************************************************************************)
Elements(s) == {s[i] : i \in DOMAIN s}

Distinct(s) == \A i, j \in DOMAIN s : s[i] = s[j] => i = j

LEMMA AppendNew ==
  ASSUME NEW S, NEW s \in Seq(S), NEW e \in S, Distinct(s), e \notin Elements(s)
  PROVE  /\ Append(s, e) \in Seq(S) /\ Distinct(Append(s, e))
         /\ Elements(Append(s, e)) = Elements(s) \cup {e}
<1> DEFINE q == Append(s, e)
           n == Len(s)
<1>1. /\ q \in Seq(S) /\ Len(q) = n + 1 /\ n \in Nat
      /\ \A i \in 1..n : q[i] = s[i]
      /\ q[n + 1] = e
      /\ DOMAIN s = 1..n /\ DOMAIN q = 1..(n + 1)
  OBVIOUS
<1> HIDE DEF q, n
<1>2. \A i \in 1..(n + 1) : i \in 1..n \/ i = n + 1
  BY <1>1
<1>3. \A i \in 1..n : i \in 1..(n + 1) /\ s[i] # e
  BY <1>1 DEF Elements
<1>4. Elements(q) = Elements(s) \cup {e}
  <2>1. n + 1 \in 1..(n + 1)
    BY <1>1
  <2> QED
    BY <1>1, <1>2, <1>3, <2>1 DEF Elements
<1>5. Distinct(q)
  BY <1>1, <1>2, <1>3 DEF Distinct
<1> QED
  BY <1>1, <1>4, <1>5 DEF q

\* The contexts put before c, and with it
PutBefore(c) == {b \in Points(limits) : InInstant(b) /\ Before(b, c, Len(limits))}
PutUpTo(c) ==
  {b \in Points(limits) : InInstant(b) /\ (b = c \/ Before(b, c, Len(limits)))}

EnumInv ==
  /\ limits \in Limits
  /\ put \in Seq(Points(limits)) /\ Distinct(put)
  /\ step \in {"start", "evaluate", "count", "done", "thrown"}
  /\ step = "start" => put = <<>>
  /\ step = "evaluate" =>
       current \in Points(limits) /\ Elements(put) = PutBefore(current)
  /\ step = "count" =>
       current \in Points(limits) /\ Elements(put) = PutUpTo(current)
  /\ step = "done" => Elements(put) = {c \in Points(limits) : InInstant(c)}

LEMMA LimitsAre == limits \in Limits => IsLimits(limits)
BY LimitsAssumption DEF IsLimits

LEMMA InitEnumInv == InitEnum => EnumInv
<1>1. \A S : <<>> \in Seq(S) /\ DOMAIN <<>> = {}
  OBVIOUS
<1> QED
  BY <1>1 DEF InitEnum, EnumInv, Distinct

LEMMA BeginKeeps ==
  ASSUME EnumInv, Begin
  PROVE  EnumInv'
<1>1. limits \in Limits /\ IsLimits(limits) /\ put = <<>> /\ UNCHANGED <<limits, put>>
  BY LimitsAre DEF EnumInv, Begin
<1>2. CASE step' = "thrown"
  BY <1>1, <1>2 DEF EnumInv, Distinct, Points
<1>3. CASE step' # "thrown"
  <2>1. step' = "evaluate" /\ current' = [i \in Digits |-> limits[i].lower]
    BY <1>3 DEF Begin
  <2>2. /\ current' \in Points(limits)
        /\ \A b \in Points(limits) : ~Before(b, current', Len(limits))
    <3> DEFINE c == [i \in Digits |-> limits[i].lower]
    <3>1. /\ c \in Points(limits)
          /\ \A b \in Points(limits) : ~Before(b, c, Len(limits))
      BY <1>1, FirstIsFirst
    <3>2. current' = c
      BY <2>1
    <3> HIDE DEF c
    <3> QED
      BY <3>1, <3>2
  <2>3. Elements(put') = {}
    BY <1>1 DEF Elements
  <2>4. Elements(put)' = PutBefore(current)'
    BY <1>1, <2>2, <2>3 DEF PutBefore, Elements, Points, InInstant
  <2> QED
    BY <1>1, <2>1, <2>2, <2>4 DEF EnumInv, Distinct, Points
<1> QED
  BY <1>2, <1>3

LEMMA EvaluateContextKeeps ==
  ASSUME EnumInv, EvaluateContext
  PROVE  EnumInv'
<1>1. /\ limits \in Limits /\ current \in Points(limits)
      /\ put \in Seq(Points(limits)) /\ Distinct(put)
      /\ Elements(put) = PutBefore(current)
      /\ step' = "count" /\ UNCHANGED <<limits, current>>
      /\ put' = IF InInstant(current) THEN Append(put, current) ELSE put
  BY DEF EnumInv, EvaluateContext
<1>2. current \notin Elements(put)
  <2>1. Len(limits) \in Nat /\ current \in [1..Len(limits) -> Int]
    BY <1>1, LimitsAre, BoundsAre DEF Points
  <2>2. ~Before(current, current, Len(limits))
    BY <2>1, NotBeforeItself
  <2> QED
    BY <1>1, <2>2 DEF PutBefore
<1>3. /\ put' \in Seq(Points(limits)) /\ Distinct(put')
      /\ Elements(put') = PutUpTo(current)
  <2>1. CASE InInstant(current)
    <3>1. put' = Append(put, current)
      BY <1>1, <2>1
    <3>2. /\ Append(put, current) \in Seq(Points(limits)) /\ Distinct(Append(put, current))
          /\ Elements(Append(put, current)) = Elements(put) \cup {current}
      BY <1>1, <1>2, AppendNew
    <3>3. PutUpTo(current) = PutBefore(current) \cup {current}
      BY <1>1, <2>1 DEF PutUpTo, PutBefore
    <3> QED
      BY <1>1, <3>1, <3>2, <3>3
  <2>2. CASE ~InInstant(current)
    <3>1. PutUpTo(current) = PutBefore(current)
      BY <1>1, <2>2 DEF PutUpTo, PutBefore
    <3> QED
      BY <1>1, <2>2, <3>1
  <2> QED
    BY <2>1, <2>2
<1>4. /\ put' \in Seq(Points(limits)') /\ Distinct(put)'
      /\ Elements(put)' = PutUpTo(current)' /\ current' \in Points(limits)'
  BY <1>1, <1>3 DEF PutUpTo, Elements, Distinct, Points, InInstant
<1> QED
  BY <1>1, <1>4 DEF EnumInv

LEMMA CountKeeps ==
  ASSUME EnumInv, Count
  PROVE  EnumInv'
<1>1. /\ limits \in Limits /\ IsLimits(limits) /\ current \in Points(limits)
      /\ put \in Seq(Points(limits)) /\ Distinct(put)
      /\ Elements(put) = PutUpTo(current)
      /\ UNCHANGED <<limits, put>>
  BY LimitsAre DEF EnumInv, Count
<1>2. /\ limits' \in Limits /\ put' \in Seq(Points(limits)') /\ Distinct(put)'
      /\ Elements(put)' = Elements(put)
  BY <1>1 DEF Distinct, Points, Elements
<1>3. CASE CanCount = {}
  <2>1. step' = "done"
    BY <1>3 DEF Count
  <2>2. Elements(put) = {c \in Points(limits) : InInstant(c)}
    BY <1>1, <1>3, LastIsLast DEF PutUpTo
  <2>3. Elements(put)' = {c \in Points(limits) : InInstant(c)}'
    BY <1>1, <1>2, <2>2 DEF Points, InInstant
  <2> QED
    BY <1>2, <2>1, <2>3 DEF EnumInv
<1>4. CASE CanCount # {}
  <2>1. step' = "evaluate" /\ current' = Counted
    BY <1>4 DEF Count
  <2>2. /\ Counted \in Points(limits)
        /\ \A c \in Points(limits) :
             Before(c, Counted, Len(limits))
               <=> (c = current \/ Before(c, current, Len(limits)))
    BY <1>1, <1>4, CountedIsNext
  <2>3. Elements(put) = PutBefore(Counted)
    BY <1>1, <2>2 DEF PutUpTo, PutBefore
  <2>4. /\ current' \in Points(limits)
        /\ Elements(put) = {b \in Points(limits) :
                              InInstant(b) /\ Before(b, current', Len(limits))}
    BY <2>1, <2>2, <2>3 DEF PutBefore
  <2>5. current' \in Points(limits)' /\ Elements(put)' = PutBefore(current)'
    BY <1>1, <1>2, <2>4 DEF PutBefore, Points, InInstant
  <2> QED
    BY <1>2, <2>1, <2>5 DEF EnumInv
<1> QED
  BY <1>3, <1>4

LEMMA StepEnumInv == EnumInv /\ [NextEnum]_enumVars => EnumInv'
<1> SUFFICES ASSUME EnumInv, [NextEnum]_enumVars
             PROVE  EnumInv'
  OBVIOUS
<1>1. CASE UNCHANGED enumVars
  <2>1. UNCHANGED <<limits, current, put, step>>
    BY <1>1 DEF enumVars
  <2>2. /\ Points(limits)' = Points(limits) /\ Elements(put)' = Elements(put)
        /\ Distinct(put)' = Distinct(put)
    BY <2>1 DEF Points, Elements, Distinct
  <2>3. /\ PutBefore(current)' = PutBefore(current)
        /\ PutUpTo(current)' = PutUpTo(current)
    BY <2>1, <2>2 DEF PutBefore, PutUpTo, InInstant
  <2>4. {c \in Points(limits) : InInstant(c)}' = {c \in Points(limits) : InInstant(c)}
    BY <2>1, <2>2 DEF InInstant
  <2> QED
    BY <2>1, <2>2, <2>3, <2>4 DEF EnumInv
<1> QED
  BY <1>1, BeginKeeps, EvaluateContextKeeps, CountKeeps DEF NextEnum

(***************************************************************************)
(* An assignment is evaluated in each context of its demand once and in no *)
(* other, whatever the ranges are, the empty ones among them, which stand  *)
(* for their lower bound: the carry of the odometer passes over nothing    *)
(* and comes to nothing twice.                                             *)
(***************************************************************************)
THEOREM DemandsPutOnce == SpecEnum => []DemandPutOnce
<1>1. EnumInv => DemandPutOnce
  <2> SUFFICES ASSUME EnumInv, step \in {"evaluate", "count", "done"}
               PROVE  /\ Distinct(put)
                      /\ Elements(put) \subseteq Demanded
                      /\ step = "done" => Elements(put) = Demanded
    BY DEF DemandPutOnce, Distinct, Elements
  <2>1. Demanded = {c \in Points(limits) : InInstant(c)}
    BY LimitsAre, DemandedAre DEF EnumInv
  <2>2. Elements(put) \subseteq {c \in Points(limits) : InInstant(c)}
    BY DEF EnumInv, PutBefore, PutUpTo
  <2> QED
    BY <2>1, <2>2 DEF EnumInv
<1> QED
  BY <1>1, InitEnumInv, StepEnumInv, PTL DEF SpecEnum
=============================================================================
