----------------------------- MODULE MCSystem -----------------------------
(***************************************************************************)
(* Small instances of what a System does beside evaluating expressions,    *)
(* for TLC: its tables take declarations, a text is run instant by         *)
(* instant, an assignment is evaluated in the contexts of its demand, and  *)
(* a variable chooses its definition.                                      *)
(***************************************************************************)
EXTENDS TextInstants, DemandEnumeration, BestfitChoice, TLC

CONSTANTS TextName,    \* the identifiers of a text
          MaxTextUUID  \* bound: declarations of a text

VARIABLE part   \* which of the four, chosen at the start

systemVars == <<textVars, enumVars, choiceVars, part>>

(***************************************************************************)
(* Demands: up to three ranges, one of them may be empty or infinite       *)
(***************************************************************************)
MCInfinite == 99
MCRange(lower, upper) == [lower |-> lower, upper |-> upper]
MCRanges == {MCRange(0, 1), MCRange(-1, 1), MCRange(2, 1), MCRange(0, 0),
             MCRange(0, 2), MCRange(0, MCInfinite)}
MCLimits == UNION {[1..n -> MCRanges] : n \in 0..3}

(***************************************************************************)
(* Definitions of a variable over two dimensions and the time              *)
(***************************************************************************)
MCDim == {"d", "e", "time"}
MCOrdinate == {Special, IntValue(0), IntValue(1)}

MCAlways(v) == [from |-> NoDim, gives |-> [o \in MCOrdinate |-> v]]
MCFrom(d, unset, zero, one) ==
  [from |-> d, gives |-> Special :> unset @@ IntValue(0) :> zero @@ IntValue(1) :> one]
MCSame(d) == MCFrom(d, Special, IntValue(0), IntValue(1))

MCRangeValue(s) == [kind |-> "range", set |-> s]
MCIntType == [kind |-> "type", set |-> {}]

MCEntry(d, spec, v) == [dim |-> d, spec |-> spec, value |-> v]
MCd(spec, v) == MCEntry(MCAlways("d"), spec, MCAlways(v))
MCe == MCEntry(MCAlways("e"), "is", MCAlways(IntValue(1)))

MCGuards ==
  {<<>>, <<MCd("is", IntValue(1))>>, <<MCd("in", MCRangeValue({1}))>>,
   <<MCd("in", MCRangeValue({0, 1}))>>, <<MCd("imp", MCIntType)>>,
   <<MCd("in", MCRangeValue({0, 1})), MCe>>,
   <<MCEntry(MCAlways("d"), "is", MCSame("e"))>>,
   <<MCEntry(MCAlways("d"), "is", MCSame("time"))>>,
   <<MCEntry(MCFrom("e", NoDim, "d", "e"), "in", MCAlways(MCRangeValue({0, 1})))>>,
   <<MCEntry(MCFrom("e", NoDim, "d", "e"), "is", MCSame("d"))>>,
   <<MCEntry(MCAlways("priority"), "is", MCAlways(IntValue(1))), MCd("is", IntValue(0))>>}

MCDefinition(guard, boolean, provenance) ==
  [provenance |-> provenance, entries |-> guard, boolean |-> boolean]
MCIfE == MCFrom("e", FALSE, FALSE, TRUE)
MCDefinitions(provenance) ==
  {MCDefinition(g, MCAlways(TRUE), provenance) : g \in MCGuards}
  \cup {MCDefinition(g, MCIfE, provenance) : g \in {<<>>, <<MCd("in", MCRangeValue({0, 1}))>>}}

MCNested == {MCDefinition(g, MCAlways(TRUE), p) :
               g \in {<<>>, <<MCd("is", IntValue(1))>>, <<MCd("in", MCRangeValue({0, 1}))>>},
               p \in 0..1}

MCVariables ==
  {<<a>> : a \in MCDefinitions(0)}
  \cup {<<a, b>> : a \in MCDefinitions(0), b \in MCDefinitions(0) \cup MCDefinitions(1)}
  \cup {s \in [1..3 -> MCNested] : \A i \in 1..2 : s[i].provenance <= s[i + 1].provenance}

(***************************************************************************)
(* The four together                                                       *)
(***************************************************************************)
NoText ==
  /\ phase = "ended" /\ first = TRUE /\ lines = 0 /\ exprs = <<>> /\ assignments = <<>>
  /\ at = 1 /\ evaluators = Nothing /\ results = <<>> /\ printed = <<>>
NoDemand == limits = <<>> /\ current = <<>> /\ put = <<>> /\ step = "thrown"
NoChoice ==
  /\ equations = <<>> /\ k = [d \in Dim |-> Special] /\ known = {} /\ choice = Undef

InitSystem ==
  \/ part = "registry" /\ InitRegistry /\ NoText /\ NoDemand /\ NoChoice
  \/ part = "text" /\ InitText /\ NoDemand /\ NoChoice
  \/ part = "demand" /\ InitRegistry /\ NoText /\ InitEnum /\ NoChoice
  \/ part = "choice" /\ InitRegistry /\ NoText /\ NoDemand /\ InitChoice

\* Texts have fewer identifiers and declarations than the registry alone
SmallText == DOMAIN identifiers' \subseteq TextName /\ lastUUID' <= MaxTextUUID

NextSystem ==
  /\ UNCHANGED part
  /\ \/ part = "registry" /\ NextRegistry /\ time' <= 1
        /\ UNCHANGED <<loopVars, enumVars, choiceVars>>
     \/ part = "text" /\ NextText /\ SmallText /\ UNCHANGED <<enumVars, choiceVars>>
     \/ part = "demand" /\ NextEnum /\ UNCHANGED <<textVars, choiceVars>>
     \/ part = "choice" /\ NextChoice /\ UNCHANGED <<textVars, enumVars>>

SpecSystem == InitSystem /\ [][NextSystem]_systemVars /\ WF_systemVars(NextSystem)
=============================================================================
