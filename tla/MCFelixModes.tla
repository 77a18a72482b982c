----------------------------- MODULE MCFelixModes -----------------------------
(***************************************************************************)
(* The FELIX reader in its two modes: publishing, with one link; on the    *)
(* host, with two; and the reader of a card with two links that fills the  *)
(* queues of the latter. A behaviour is of one of the three. Messages hold *)
(* two frames of two ticks each; of the three trigger times the windows of *)
(* the first two share a message, and the last comes after messages that a *)
(* full queue may have lost.                                               *)
(***************************************************************************)
EXTENDS Felix, OnHost, CardReader

CONSTANT l1

OneLink == {l1}
Clear == {FALSE}
Times == {12, 14, 22}
FiveAndThree == <<5, 3>>

VARIABLE mode

publishing == <<rtVars, caller, subscriber, matcher, stream>>
hostOnly == <<hostFlow, matchers, trigger, filling, events, linkData>>

ModesInit == mode \in {"publish", "onhost", "card"} /\ Init /\ HostInit /\ CardInit

ModesNext ==
  \/ mode = "publish" /\ Next /\ UNCHANGED <<mode, hostOnly, cardVars>>
  \/ mode = "onhost" /\ HostNext /\ UNCHANGED <<mode, publishing, cardVars>>
  \/ mode = "card" /\ CardNext /\ UNCHANGED <<mode, requests, publishing, hostOnly>>

ModesSpec == ModesInit /\ [][ModesNext]_<<mode, vars, hostVars, cardVars>>
=============================================================================
