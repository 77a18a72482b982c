----------------------------- MODULE MCHandOvers -----------------------------
(***************************************************************************)
(* The parts in which one thread hands work to another: the reusable       *)
(* threads, two of them, of which one may be born with its flag set; the   *)
(* software trigger; the trigger primitive finder; the RCE reader; the SSP *)
(* reader. They share no state: a behaviour is of one of them, the others  *)
(* stay as they began.                                                     *)
(*                                                                         *)
(* SSP: two channels. With PreTrig = 3 and PostTrig = 1 the windows of     *)
(* triggers at 8 and 12 touch and those of 9 and 12 overlap, also once     *)
(* WriteDelay = 1 has let the fragment of the first be built; a packet at  *)
(* 9 that comes before the last one of the window of 8 is put back.        *)
(* Requests at 3 and 5 are the board's 8 and 14, less the offset: the      *)
(* second may come before any data of its window.                          *)
(***************************************************************************)
EXTENDS WorkerRounds, SWTrigger, TPFinder, RssiReceiver, SSP

CONSTANTS t1, t2

BothThreads == {t1, t2}
AnyFlag == {TRUE, FALSE}

DataTimes == {8, 9, 12, 15}
Requests == {3, 5}
TwoChannels == 1..2

VARIABLE part

Parts == {"threads", "trigger", "finder", "rce", "ssp"}

PartsInit ==
  /\ part \in Parts
  /\ Init /\ SwInit /\ TpInit /\ RceInit /\ SspInit
  /\ part # "threads" => garbage = {}
  /\ part # "trigger" => faketrigger = FALSE /\ patience = "waiting"
  /\ part # "finder" => latest = 0
  /\ part # "ssp" => ~software

PartsNext ==
  \/ part = "threads" /\ Next /\ UNCHANGED <<part, swVars, tpVars, rceVars, sspVars>>
  \/ part = "trigger" /\ SwNext /\ UNCHANGED <<part, vars, tpVars, rceVars, sspVars>>
  \/ part = "finder" /\ TpNext /\ UNCHANGED <<part, vars, swVars, rceVars, sspVars>>
  \/ part = "rce" /\ RceNext /\ UNCHANGED <<part, vars, swVars, tpVars, sspVars>>
  \/ part = "ssp" /\ SspNext /\ UNCHANGED <<part, vars, swVars, tpVars, rceVars>>

\* of the parts that are not the behaviour's nothing is demanded
PartsSpec ==
  /\ PartsInit /\ [][PartsNext]_<<part, vars, swVars, tpVars, rceVars, sspVars>>
  /\ WF_tpVars(part = "finder" /\ Process) /\ WF_tpVars(part = "finder" /\ Destruction)
  /\ WF_vars(part = "threads" /\ CallerGoesOn)
  /\ \A t \in Threads : WF_vars(part = "threads" /\ Worker(t))
  /\ WF_sspVars(part = "ssp" /\ (StartRequests \/ GetNextFragment))
  /\ WF_sspVars(part = "ssp" /\ StopSteps)
  /\ WF_sspVars(part = "ssp" /\ (ReaderTests \/ NoData)) /\ WF_sspVars(part = "ssp" /\ RequestsEnd)

(* Whoever waits for another thread is let go, under the conditions that   *)
(* the three state: busy() and the joins of the reusable threads, the       *)
(* destructor of the trigger primitive finder, and the requesters of        *)
(* triggers and the stops of the SSP reader.                                *)
NobodyHangs == RoundsEnd /\ FinderEnds /\ NobodyWaits
=============================================================================
