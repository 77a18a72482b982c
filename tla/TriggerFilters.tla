--------------------------- MODULE TriggerFilters ---------------------------
(***************************************************************************)
(* The filters of the event builder's jobs on one path: the prescale, the  *)
(* SSP and the Penn board trigger, each of which puts a decision into the  *)
(* event, and the selector that reads the decisions back. An event that a  *)
(* filter does not pass is not seen by those after it.                     *)
(***************************************************************************)
EXTENDS Integers, FiniteSets

CONSTANTS
  PreScale,       \* _iPreScale as configured
  MinNTriggers,   \* _minNTriggers
  MaxNTriggers,   \* triggers a fragment of an SSP may count (bound)
  MaxEvents,      \* events of the job (bound)
  Configurations  \* parameters of the filters

\* what the Penn filter tells apart: a counter word that meets the mask or not, a trigger
\* word of another type, or of the type asked for, with the bit asked for or without it
Payloads == {"counterMet", "counter", "trigger", "triggerType", "triggerBit"}

Filters == {"prescale", "ssp", "penn"}
Options == [passAll : SUBSET {"prescale", "penn"}, random : BOOLEAN,
            cutOnNTriggers : BOOLEAN, selectAll : BOOLEAN,
            onType : BOOLEAN, onPattern : BOOLEAN, onCounter : BOOLEAN,
            invert : BOOLEAN, insert : BOOLEAN, wanted : SUBSET Filters]

ASSUME FilterAssumption ==
  /\ PreScale \in Int /\ {MinNTriggers, MaxNTriggers, MaxEvents} \subseteq Nat
  /\ Configurations \subseteq Options

VARIABLES
  options,     \* the filters' parameters
  filter,      \* the filter that has the event
  event,       \* the event's fragments
  decisions,   \* the decision each filter put into it
  nEvents,     \* _iEventCounter
  nPassed,     \* _iNumPassed
  fLastEventDecision,
  seenAccepted,\* history: the event before, of those the selector saw, had every decision
  kept         \* history: the last event the selector saw was kept, and why not

filterVars == <<options, filter, event, decisions, nEvents, nPassed, fLastEventDecision,
                seenAccepted, kept>>

\* the fragments an event may have: the triggers counted by each SSP fragment that has
\* metadata, and what the Penn fragments hold; an event without such a product is as one
\* with no fragment in it
Events == [ssp : SUBSET (0..MaxNTriggers),
           penn : {p \in SUBSET Payloads : Cardinality(p) <= 1}]
NoEvent == [ssp |-> {}, penn |-> {}]
Undecided == [f \in Filters |-> "not found"]
Decision(yes) == IF yes THEN "yes" ELSE "no"

FilterInit ==
  /\ options \in Configurations /\ filter = "source" /\ event = NoEvent
  /\ decisions = Undecided /\ nEvents = 0 /\ nPassed = 0
  /\ fLastEventDecision = FALSE /\ seenAccepted = FALSE /\ kept = "none"
-----------------------------------------------------------------------------
\* a prescale below one is taken for one
Every == IF PreScale < 1 THEN 1 ELSE PreScale

NextEvent ==
  /\ filter = "source" /\ nEvents < MaxEvents
  /\ filter' = "prescale" /\ event' \in Events /\ decisions' = Undecided
  /\ UNCHANGED <<options, nEvents, nPassed, fLastEventDecision, seenAccepted, kept>>

\* every n-th event, or one event in n by chance
PreScaleTrigger ==
  /\ filter = "prescale" /\ nEvents' = nEvents + 1
  /\ \E yes \in IF options.random /\ Every > 1 THEN BOOLEAN ELSE {nEvents' % Every = 0} :
       /\ decisions' = [decisions EXCEPT !.prescale = Decision(yes)]
       /\ nPassed' = nPassed + IF yes THEN 1 ELSE 0
       /\ filter' = IF yes \/ "prescale" \in options.passAll THEN "ssp" ELSE "source"
  /\ UNCHANGED <<options, event, fLastEventDecision, seenAccepted, kept>>

\* a fragment that counts enough triggers; without the cut only SelectAll passes anything
SSPTrigger ==
  /\ filter = "ssp"
  /\ LET yes == \/ options.selectAll
                \/ options.cutOnNTriggers /\ \E n \in event.ssp : n >= MinNTriggers
     IN  decisions' = [decisions EXCEPT !.ssp = Decision(yes)]
         /\ filter' = IF yes THEN "penn" ELSE "source"
  /\ UNCHANGED <<options, event, nEvents, nPassed, fLastEventDecision, seenAccepted, kept>>

\* a counter word that shares a bit with the masks
OnCounterPayload == "counterMet" \in event.penn
\* a trigger word of the type, and with the bit if one is asked for
OnTriggerPayload ==
  event.penn \cap (IF options.onPattern THEN {"triggerBit"} ELSE {"triggerType", "triggerBit"})
    # {}

\* the type is asked for before the counters, and never both; the answer is put into the
\* event if it is wanted there, and may be turned round, with no fragment too
PennBoardTrigger ==
  /\ filter = "penn"
  /\ LET found == \/ options.onType /\ OnTriggerPayload
                  \/ ~options.onType /\ options.onCounter /\ OnCounterPayload
         yes == found # options.invert
     IN  /\ decisions' = IF options.insert THEN [decisions EXCEPT !.penn = Decision(yes)]
                                          ELSE decisions
         /\ filter' = IF yes \/ "penn" \in options.passAll THEN "selector" ELSE "source"
  /\ UNCHANGED <<options, event, nEvents, nPassed, fLastEventDecision, seenAccepted, kept>>

\* every decision that is wanted was found, and was yes
AllPassed == \A f \in options.wanted : decisions[f] = "yes"

\* variant: an event kept for the one before keeps the next
KeepsOn == fLastEventDecision' = (AllPassed \/ fLastEventDecision)
\* KeepNextEvent is never asked
Remember == fLastEventDecision' = AllPassed

TriggerSelector ==
  /\ filter = "selector" /\ filter' = "source" /\ event' = NoEvent /\ decisions' = Undecided
  /\ kept' = IF AllPassed THEN "accepted" ELSE IF fLastEventDecision THEN "next" ELSE "dropped"
  /\ Remember
  /\ seenAccepted' = (kept = "accepted")
  /\ UNCHANGED <<options, nEvents, nPassed>>

FilterNext == NextEvent \/ PreScaleTrigger \/ SSPTrigger \/ PennBoardTrigger \/ TriggerSelector

FilterSpec == FilterInit /\ [][FilterNext]_filterVars
-----------------------------------------------------------------------------
(* Properties. *)

(* An event is written although a trigger refused it only when the event    *)
(* the selector saw before had every trigger: one event and not a tail of   *)
(* them, however many events the earlier filters took out in between. And   *)
(* the prescale passes one event in PreScale, unless it draws lots.         *)
OneMoreKept ==
  /\ kept = "next" => seenAccepted
  /\ ~options.random => nPassed = nEvents \div Every
=============================================================================
