--------------------------- MODULE SystemRegistry ---------------------------
(***************************************************************************)
(* The tables of System (libs/system.cpp): which object an identifier      *)
(* denotes, which object a uuid is sent to, and the host functions with    *)
(* their versions.  An object is a definition group; of a definition only  *)
(* its uuid, interval and host function are kept here (BestfitGroup has    *)
(* the rest).                                                              *)
(***************************************************************************)
EXTENDS Integers, Sequences, FiniteSets

CONSTANTS Name,        \* identifiers, not "operator"
          HostObject,  \* base functions of the client
          MaxUUID,     \* bound: declarations with a uuid
          LastTime     \* bound: instants

ASSUME RegistryAssumption == MaxUUID \in Nat /\ LastTime \in Nat

VARIABLES defs,         \* the objects made, each the definitions of its group
          identifiers,  \* m_identifiers
          objects,      \* m_objects
          lastUUID,     \* the uuids made are 1..lastUUID
          baseCounter,  \* m_baseCounter
          basefuns,     \* m_basefuns, a name with its number to a function
          time          \* m_time

registryVars == <<defs, identifiers, objects, lastUUID, baseCounter, basefuns,
                  time>>

Open == -1
NoHost == <<>>

\* An object is known by the table that holds it and its name there
Object == {"variable", "function", "constructor"} \X Name \cup {<<"operator", "operator">>}
Operators == <<"operator", "operator">>

\* Mutant: the newest entry of a key stays
InsertedOver(f, key, value) ==
  [x \in DOMAIN f \cup {key} |-> IF x = key THEN value ELSE f[x]]

\* std::map::insert, which leaves an entry that is there
Inserted(f, key, value) ==
  [x \in DOMAIN f \cup {key} |-> IF x \in DOMAIN f THEN f[x] ELSE value]

(***************************************************************************)
(* Groups, as BestfitGroup has them: a uuid is looked up in m_uuids, which *)
(* always points at the first definition that was added with it            *)
(***************************************************************************)
Definition(u, t, host) == [uuid |-> u, start |-> t, end |-> Open, host |-> host]

Positions(o, u) == {i \in DOMAIN defs[o] : defs[o][i].uuid = u}
Indexed(o, u) == CHOOSE i \in Positions(o, u) : \A j \in Positions(o, u) : i <= j

CanEnd(o, u) == Positions(o, u) # {} /\ defs[o][Indexed(o, u)].end = Open

(***************************************************************************)
(* Declarations                                                            *)
(***************************************************************************)
\* Mutant: the object is recorded under the uuid made before
AddToEarlier(o, name, host, known) ==
  /\ lastUUID < MaxUUID
  /\ LET u == lastUUID + 1
         d == Definition(u, time, host)
     IN  /\ lastUUID' = u
         /\ defs' = [x \in DOMAIN defs \cup {o} |->
                       IF x # o THEN defs[x]
                       ELSE IF o \in DOMAIN defs THEN Append(defs[o], d) ELSE <<d>>]
         /\ objects' = IF known THEN Inserted(objects, lastUUID, o) ELSE objects
  /\ identifiers' = Inserted(identifiers, name, o)
  /\ UNCHANGED time

\* A definition with a new uuid for o; "known" says whether the uuid is sent to o
AddTo(o, name, host, known) ==
  /\ lastUUID < MaxUUID
  /\ LET u == lastUUID + 1
         d == Definition(u, time, host)
     IN  /\ lastUUID' = u
         /\ defs' = [x \in DOMAIN defs \cup {o} |->
                       IF x # o THEN defs[x]
                       ELSE IF o \in DOMAIN defs THEN Append(defs[o], d) ELSE <<d>>]
         /\ objects' = IF known THEN Inserted(objects, u, o) ELSE objects
  /\ identifiers' = Inserted(identifiers, name, o)
  /\ UNCHANGED time

\* addVariableDeclInternal, also for a dim and a data declaration: the uuid is
\* recorded with the first definition only
AddVariable(n) ==
  LET o == <<"variable", n>>
  IN  AddTo(o, n, NoHost, o \notin DOMAIN defs) /\ UNCHANGED <<baseCounter, basefuns>>

AddFunction(n) ==
  LET o == <<"function", n>>
  IN  AddTo(o, n, NoHost, o \notin DOMAIN defs) /\ UNCHANGED <<baseCounter, basefuns>>

AddOperator ==
  /\ AddTo(Operators, "operator", NoHost, TRUE)
  /\ UNCHANGED <<baseCounter, basefuns>>

\* A constructor has one definition, and its uuid is not recorded
AddConstructor(n) ==
  LET o == <<"constructor", n>>
  IN  /\ IF o \in DOMAIN defs
         THEN UNCHANGED <<defs, identifiers, objects, lastUUID, time>>
         ELSE AddTo(o, n, NoHost, FALSE)
      /\ UNCHANGED <<baseCounter, basefuns>>

\* The number the next host function of the name is given
Version(n) == IF n \in DOMAIN baseCounter THEN baseCounter[n] ELSE 0

NextVersion(n) == IF n \in DOMAIN baseCounter THEN baseCounter[n] + 1 ELSE 0

AddHostFunction(n, f) ==
  LET o == <<"variable", n>>
      version == <<n, Version(n)>>
  IN  /\ baseCounter' = [x \in DOMAIN baseCounter \cup {n} |->
                           IF x = n THEN NextVersion(n) ELSE baseCounter[x]]
      /\ basefuns' = Inserted(basefuns, version, f)
      /\ AddTo(o, n, <<version, f>>, o \notin DOMAIN defs)

\* A text that names no uuid the registry knows, or is no uuid, is answered with an
\* error or SP_UNDEF and changes nothing
Refuse == UNCHANGED registryVars

\* Mutant: it ends the instant before
EndedBefore(o, u) == [defs EXCEPT ![o][Indexed(o, u)].end = time - 1]

\* A new definition takes the place of the one that ends, or none does
Ended(o, u) == [defs EXCEPT ![o][Indexed(o, u)].end = time]

SendDel(o, u) ==
  defs' = IF CanEnd(o, u) THEN Ended(o, u) ELSE defs

\* Mutant: the old definition goes on beside the new one
SendReplBeside(o, u) ==
  defs' = IF CanEnd(o, u)
          THEN [defs EXCEPT ![o] = Append(@, Definition(u, time, NoHost))]
          ELSE defs

SendRepl(o, u) ==
  defs' = IF CanEnd(o, u)
          THEN [Ended(o, u) EXCEPT ![o] = Append(@, Definition(u, time, NoHost))]
          ELSE defs

DelDecl(u) ==
  \/ u \notin DOMAIN objects /\ Refuse
  \/ /\ u \in DOMAIN objects /\ SendDel(objects[u], u)
     /\ UNCHANGED <<identifiers, objects, lastUUID, baseCounter, basefuns, time>>

ReplDecl(u) ==
  \/ u \notin DOMAIN objects /\ Refuse
  \/ /\ u \in DOMAIN objects /\ SendRepl(objects[u], u)
     /\ UNCHANGED <<identifiers, objects, lastUUID, baseCounter, basefuns, time>>

\* go, as far as declarations see it
AdvanceTime ==
  /\ time < LastTime
  /\ time' = time + 1
  /\ UNCHANGED <<defs, identifiers, objects, lastUUID, baseCounter, basefuns>>

Nothing == [x \in {} |-> x]

InitRegistry ==
  /\ defs = Nothing /\ identifiers = Nothing /\ objects = Nothing
  /\ lastUUID = 0
  /\ baseCounter = Nothing /\ basefuns = Nothing
  /\ time = 0

NextRegistry ==
  \/ \E n \in Name :
       \/ AddVariable(n)
       \/ AddFunction(n)
       \/ AddConstructor(n)
       \/ \E f \in HostObject : AddHostFunction(n, f)
  \/ AddOperator
  \/ \E u \in 0..MaxUUID : DelDecl(u) \/ ReplDecl(u)
  \/ AdvanceTime

SpecRegistry == InitRegistry /\ [][NextRegistry]_registryVars

(***************************************************************************)
(* Properties                                                              *)
(***************************************************************************)
Interval(d) == d.end = Open \/ d.start <= d.end

\* Types; an object has a definition, and intervals do not end before they begin.
RegistryTypeOK ==
  /\ DOMAIN defs \subseteq Object
  /\ \A o \in DOMAIN defs :
       /\ defs[o] # <<>>
       /\ \A i \in DOMAIN defs[o] :
            /\ defs[o][i].uuid \in 1..lastUUID
            /\ defs[o][i].start \in 0..time
            /\ defs[o][i].end \in 0..time \cup {Open}
            /\ Interval(defs[o][i])
  /\ DOMAIN identifiers \subseteq Name \cup {"operator"}
  /\ \A n \in DOMAIN identifiers : identifiers[n] \in DOMAIN defs
  /\ DOMAIN objects \subseteq 1..lastUUID
  /\ lastUUID \in 0..MaxUUID /\ time \in 0..LastTime

\* Every uuid is of one object.  A uuid the registry sends on goes to the object
\* that has its definitions, and a definition whose uuid it does not send on,
\* which is any but the first of a variable or function, stays for good.
UUIDsOwned ==
  \A o \in DOMAIN defs : \A i \in DOMAIN defs[o] :
    LET d == defs[o][i]
    IN  IF d.uuid \in DOMAIN objects THEN objects[d.uuid] = o
        ELSE /\ d.end = Open
             /\ \A p \in DOMAIN defs : \A j \in DOMAIN defs[p] :
                  defs[p][j].uuid = d.uuid => p = o /\ j = i

\* However often a uuid is replaced and deleted, one definition of it at most has
\* not ended.
OneOpen ==
  \A o \in DOMAIN defs : \A i, j \in DOMAIN defs[o] :
    /\ defs[o][i].uuid = defs[o][j].uuid
    /\ defs[o][i].end = Open /\ defs[o][j].end = Open
    => i = j

\* An identifier denotes the object first declared with the name: what is
\* declared later as another kind of object has uuids, but no name reaches it.
NameOf(o) == o[2]

FirstWins ==
  \A o \in DOMAIN defs :
    /\ NameOf(o) \in DOMAIN identifiers
    /\ defs[identifiers[NameOf(o)]][1].uuid <= defs[o][1].uuid
=============================================================================
