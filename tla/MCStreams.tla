------------------------------ MODULE MCStreams ------------------------------
(***************************************************************************)
(* Two readers of a stream of words whose packets are told apart by the    *)
(* reader: the Penn board's, from a socket, and the cosmic ray tagger's,   *)
(* from files, with the clock from which it makes its times. They share no *)
(* state: a behaviour is of one of them, and the others stay as they began.*)
(*                                                                         *)
(* Microslices of the Penn board have three ticks and millislices five:    *)
(* most boundaries split a microslice, and the overlap is two ticks.       *)
(* Two buffers are lent, so that the io thread runs out of them.           *)
(***************************************************************************)
EXTENDS Penn, CRT, CRTClock

Addresses == 1..5

VARIABLE reader

StreamsInit == reader \in {"penn", "file", "clock"} /\ Init /\ CrtInit /\ ClockInit

StreamsNext ==
  \/ reader = "penn" /\ Next /\ UNCHANGED <<reader, crtVars, clockVars>>
  \/ reader = "file" /\ CrtNext /\ UNCHANGED <<reader, vars, clockVars>>
  \/ reader = "clock" /\ ClockNext /\ UNCHANGED <<reader, vars, crtVars>>

\* of the parts that are not the behaviour's nothing is demanded
StreamsSpec == /\ StreamsInit /\ [][StreamsNext]_<<reader, vars, crtVars, clockVars>>
               /\ WF_vars(reader = "penn" /\ Throws)

\* the files alone
FilesSpec == StreamsInit /\ reader = "file" /\ [][StreamsNext]_<<reader, vars, crtVars, clockVars>>
=============================================================================
