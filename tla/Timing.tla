------------------------------- MODULE Timing -------------------------------
(***************************************************************************)
(* The timing board reader: it reads the events of its partition of the    *)
(* timing system, gives those that are triggers to artdaq, stamped with    *)
(* the times of the last run and spill marks, and enables and disables     *)
(* triggers as the InhibitMaster says. Threads: that of artdaq's data      *)
(* loop, which calls getNext_(), that of its commands, which calls start() *)
(* and stop() under the mutex of getNext_(), that of its monitoring, which *)
(* calls checkHWStatus_(), and the publisher of the hardware time.         *)
(***************************************************************************)
EXTENDS InhibitGet, FiniteSets

CONSTANTS
  Marks,       \* commands whose time is stamped on later events, not sent
  MaxCounter,  \* max_counter: a call of getNext_() goes round once more
  WarnLevel,   \* events in the board's buffer that raise its warning
  MaxEvents,   \* events recorded by the board (bound)
  MaxRuns      \* calls of start() (bound)

ASSUME TimingAssumption == /\ {MaxCounter, WarnLevel, MaxEvents, MaxRuns} \subseteq Nat
                           /\ "Trig" \notin Marks

VARIABLES
  sendFragments, \* send_fragments_
  cpc,           \* the command thread: "ended" (no run), "running", "joining", "stopped";
                 \* or "dead": the process has ended
  gpc,           \* the data thread: place in getNext_(), "idle" between calls, "done"
  hpc,           \* the thread that publishes the hardware time
  run,           \* number of the current run
  failed,        \* checkHWStatus_() returned false, or getNext_() threw
  stoppingFlag, stoppingState, throttling, counter, clockStop, wantInhibit,
  last,          \* last_runstart_tstamp, last_spillstart_tstamp, last_spillend_tstamp; 0: none
  evCounter,     \* ev_counter()
  trigEn,        \* board: triggers are enabled
  hwRun,         \* board: the partition is in a run
  pipe, buffer,  \* board: events recorded and not yet readable; those readable
  tick,          \* history: number of events recorded; the time of the last
  recorded,      \* history: all events, but those cleared unread by a start
  triggers,      \* history: times of the triggers of this run
  delivered,     \* history: fragments of this run given to artdaq
  obeyed,        \* history: the message of the InhibitMaster read last in this run
  heard,         \* status this reader has in the InhibitMaster: TRUE is bad
  statusLost     \* history: the InhibitMaster has missed a status

board   == <<trigEn, hwRun, pipe, buffer>>
flags   == <<stoppingFlag, stoppingState, throttling, counter>>
history == <<tick, recorded, triggers, delivered>>
status  == <<wantInhibit, heard, statusLost>>
vars == <<sendFragments, cpc, gpc, hpc, run, failed, stoppingFlag, stoppingState, throttling,
          counter, clockStop, wantInhibit, last, evCounter, trigEn, hwRun, pipe, buffer, tick,
          recorded, triggers, delivered, obeyed, heard, statusLost, inq, connected, ignore,
          patience>>

Kinds == Marks \cup {"Trig"}

Init ==
  /\ sendFragments \in BOOLEAN /\ cpc = "ended" /\ gpc = "done" /\ hpc = "off" /\ run = 0
  /\ failed = FALSE /\ stoppingFlag = FALSE /\ stoppingState = 0 /\ throttling = 0
  /\ counter = 0 /\ clockStop = FALSE /\ wantInhibit = FALSE /\ last = [k \in Marks |-> 0]
  /\ evCounter = 1 /\ trigEn = FALSE /\ hwRun = FALSE /\ pipe = <<>> /\ buffer = <<>>
  /\ tick = 0 /\ recorded = {} /\ triggers = <<>> /\ delivered = <<>> /\ obeyed = <<>>
  /\ heard = FALSE /\ statusLost = FALSE /\ InhibitInit
-----------------------------------------------------------------------------
(* The board (external): what it records can be read a little later. *)

BoardRecords(k) ==
  /\ hwRun /\ tick < MaxEvents /\ (k = "Trig" => trigEn)
  /\ tick' = tick + 1 /\ pipe' = Append(pipe, [kind |-> k, time |-> tick + 1])
  /\ recorded' = recorded \cup {[kind |-> k, time |-> tick + 1]}
  /\ triggers' = IF k = "Trig" THEN Append(triggers, tick + 1) ELSE triggers
  /\ UNCHANGED <<sendFragments, cpc, gpc, hpc, run, failed, flags, clockStop, status, last,
                 evCounter, trigEn, hwRun, buffer, delivered, obeyed, inhibit>>

Push ==
  /\ pipe # <<>> /\ buffer' = Append(buffer, Head(pipe)) /\ pipe' = Tail(pipe)
  /\ UNCHANGED <<sendFragments, cpc, gpc, hpc, run, failed, flags, clockStop, status, last,
                 evCounter, trigEn, hwRun, history, obeyed, inhibit>>
-----------------------------------------------------------------------------
(* The command thread. *)

InBoard(e) == \/ \E i \in DOMAIN buffer : buffer[i] = e
              \/ \E i \in DOMAIN pipe : pipe[i] = e

Kept == buffer                                 \* variant: the board's buffer is not cleared
Cleared == <<>>

\* start(); that the board does not begin the run in time is caught and ignored
Start ==
  /\ cpc = "ended" /\ gpc = "done" /\ run < MaxRuns
  /\ cpc' = "running" /\ gpc' = "idle" /\ hpc' = "on" /\ run' = run + 1 /\ failed' = FALSE
  /\ stoppingFlag' = FALSE /\ stoppingState' = 0 /\ throttling' = 1
  /\ clockStop' = FALSE /\ evCounter' = 1
  /\ trigEn' = FALSE /\ hwRun' \in BOOLEAN /\ pipe' = <<>> /\ buffer' = Cleared
  /\ recorded' = {e \in recorded : ~InBoard(e)}
  /\ triggers' = <<>> /\ delivered' = <<>> /\ obeyed' = <<>>
  /\ InhibitConnect
  /\ UNCHANGED <<sendFragments, counter, status, last, tick>>

\* stop() waits for getNext_() to return, then for the publisher of the time
Stop ==
  /\ cpc = "running" /\ gpc \in {"idle", "done"}
  /\ cpc' = "joining" /\ stoppingFlag' = TRUE /\ clockStop' = TRUE
  /\ UNCHANGED <<sendFragments, gpc, hpc, run, failed, stoppingState, throttling, counter,
                 status, last, evCounter, board, history, obeyed, inhibit>>

JoinClock ==
  /\ cpc = "joining" /\ hpc = "ended" /\ cpc' = "stopped" /\ hpc' = "off"
  /\ UNCHANGED <<sendFragments, gpc, run, failed, flags, clockStop, status, last, evCounter,
                 board, history, obeyed, inhibit>>

\* artdaq ends the run when getNext_() has returned false
EndRun ==
  /\ cpc = "stopped" /\ gpc = "done" /\ cpc' = "ended"
  /\ UNCHANGED <<sendFragments, gpc, hpc, run, failed, flags, clockStop, status, last, evCounter,
                 board, history, obeyed, inhibit>>
-----------------------------------------------------------------------------
(* The publisher of the hardware time. *)

TestStop == clockStop

\* the time is published, and the thread sleeps, until stop() says so
ClockEnds ==
  /\ hpc = "on" /\ TestStop /\ hpc' = "ended"
  /\ UNCHANGED <<sendFragments, cpc, gpc, run, failed, flags, clockStop, status, last, evCounter,
                 board, history, obeyed, inhibit>>

\* the access to the board throws: nothing in the thread catches it, and the process ends
ClockThrows ==
  /\ hpc = "on" /\ hpc' = "off" /\ cpc' = "dead" /\ gpc' = "done"
  /\ UNCHANGED <<sendFragments, run, failed, flags, clockStop, status, last, evCounter,
                 board, history, obeyed, inhibit>>
-----------------------------------------------------------------------------
(* The monitoring thread: checkHWStatus_(). *)

Bad(noTokens) == Len(buffer) >= WarnLevel \/ noTokens

GoodOnly(want) == ~want /\ wantInhibit         \* variant: a rising wish is not told
Changed(want) == want # wantInhibit

\* A change of the wish is published, and reaches the InhibitMaster or not. When the
\* endpoint of external triggers is not ready false is returned.
CheckHWStatus(noTokens, reaches, ready) ==
  LET want == Bad(noTokens) IN
  /\ cpc \in {"running", "joining"}
  /\ wantInhibit' = want
  /\ heard' = IF Changed(want) /\ reaches THEN want ELSE heard
  /\ statusLost' = (statusLost \/ (Changed(want) /\ ~reaches))
  /\ failed' = (failed \/ ~ready)
  /\ UNCHANGED <<sendFragments, cpc, gpc, hpc, run, flags, clockStop, last, evCounter, board,
                 history, obeyed, inhibit>>
-----------------------------------------------------------------------------
(* The data thread: artdaq calls getNext_() until it returns false. *)

Thread == UNCHANGED <<sendFragments, cpc, hpc, run, failed, stoppingFlag, clockStop, status>>

\* an access to the board throws, which artdaq catches
BoardThrows ==
  /\ gpc \in {"look", "settle", "throttle"} /\ gpc' = "done" /\ failed' = TRUE
  /\ UNCHANGED <<sendFragments, cpc, hpc, run, flags, clockStop, status, last, evCounter, board,
                 history, obeyed, inhibit>>

\* the mutex is with stop() while it waits
Call ==
  /\ gpc = "idle" /\ cpc # "joining"
  /\ \/ failed /\ gpc' = "done" /\ UNCHANGED counter
     \/ ~failed /\ sendFragments /\ gpc' = "look" /\ counter' = 0
     \/ ~failed /\ ~sendFragments /\ stoppingFlag /\ gpc' = "done" /\ UNCHANGED counter
  /\ Thread /\ UNCHANGED <<stoppingState, throttling, last, evCounter, board, history, obeyed,
                           inhibit>>

NoWait == "look"                               \* variant: end_run_wait_ is not waited
AfterStop == "settle"

\* a stop is seen at the beginning of a round, before the board's buffer is looked at
ToStop == stoppingState = 0 /\ stoppingFlag
Looks == gpc = "look" /\ ~ToStop

\* the partition is stopped once, triggers with it
StopPartition ==
  /\ gpc = "look" /\ ToStop
  /\ hwRun' = FALSE /\ trigEn' = FALSE /\ throttling' = 0 /\ stoppingState' = 1
  /\ gpc' = AfterStop
  /\ Thread /\ UNCHANGED <<counter, last, evCounter, pipe, buffer, history, obeyed, inhibit>>

\* end_run_wait_ is the longest time the board needs to make its events readable
Settle ==
  /\ gpc = "settle" /\ pipe = <<>> /\ gpc' = "look"
  /\ Thread /\ UNCHANGED <<stoppingState, throttling, counter, last, evCounter, board, history,
                           obeyed, inhibit>>

NextLast(e) == IF e.kind \in Marks THEN [last EXCEPT ![e.kind] = e.time] ELSE last

CountAll(e) == evCounter + 1                   \* variant: marks count
NextCount(e) == IF e.kind = "Trig" THEN evCounter + 1 ELSE evCounter

\* one event of the buffer; it carries the marks before it
ReadEvent ==
  /\ Looks /\ buffer # <<>> /\ gpc' = "throttle"
  /\ buffer' = Tail(buffer)
  /\ LET e == Head(buffer) IN
       /\ delivered' = IF e.kind = "Trig"
                         THEN Append(delivered, [seq |-> evCounter, time |-> e.time, stamps |-> last])
                         ELSE delivered
       /\ evCounter' = NextCount(e)
       /\ last' = NextLast(e)
  /\ Thread /\ UNCHANGED <<stoppingState, throttling, counter, trigEn, hwRun, pipe, tick, recorded,
                           triggers, obeyed, inhibit>>

\* nothing more after the stop: false is returned
Drain ==
  /\ Looks /\ buffer = <<>> /\ stoppingState > 0
  /\ stoppingState' = 2 /\ gpc' = "done"
  /\ Thread /\ UNCHANGED <<throttling, counter, last, evCounter, board, history, obeyed, inhibit>>

NoEvent ==
  /\ Looks /\ buffer = <<>> /\ stoppingState = 0 /\ gpc' = "throttle"
  /\ Thread /\ UNCHANGED <<stoppingState, throttling, counter, last, evCounter, board, history,
                           obeyed, inhibit>>

\* round again, or return true
Round ==
  /\ gpc = "throttle"
  /\ IF counter < MaxCounter THEN gpc' = "look" /\ counter' = counter + 1
                             ELSE gpc' = "idle" /\ UNCHANGED counter
  /\ Thread
  /\ UNCHANGED <<stoppingState, last, evCounter, hwRun, pipe, buffer, history, connected, patience>>

\* only after a change is the board told
IsChange(on) == throttling = IF on THEN 1 ELSE 0
Throttle(on) == IF IsChange(on) THEN trigEn' = on /\ throttling' = 1 - throttling
                              ELSE UNCHANGED <<trigEn, throttling>>

NoPoll == Round /\ stoppingFlag /\ UNCHANGED <<trigEn, throttling, inq, ignore, obeyed>>
PollNothing == Round /\ ~stoppingFlag /\ NoUpdate /\ UNCHANGED <<trigEn, throttling, obeyed>>
PollGaveUp == Round /\ ~stoppingFlag /\ GiveUp /\ Throttle(TRUE) /\ UNCHANGED obeyed
PollMessage(on) == /\ Round /\ ~stoppingFlag /\ GetMessage(on) /\ Throttle(on)
                   /\ obeyed' = <<Head(inq)>>

Poll == NoPoll \/ PollNothing \/ PollGaveUp \/ \E on \in BOOLEAN : PollMessage(on)
-----------------------------------------------------------------------------
(* The InhibitMaster (external): off while the reader it has heard of, or  *)
(* another, is bad.                                                        *)

MasterSends(on) ==
  /\ (on => ~heard) /\ Publish([on |-> on, run |-> run])
  /\ UNCHANGED <<sendFragments, cpc, gpc, hpc, run, failed, flags, clockStop, status, last,
                 evCounter, board, history, obeyed>>

TimePasses ==
  /\ ClockPasses
  /\ UNCHANGED <<sendFragments, cpc, gpc, hpc, run, failed, flags, clockStop, status, last,
                 evCounter, board, history, obeyed>>
-----------------------------------------------------------------------------
GetNext == Call \/ StopPartition \/ Settle \/ ReadEvent \/ Drain \/ NoEvent \/ Poll

Next ==
  \/ \E k \in Kinds : BoardRecords(k)
  \/ Push \/ Start \/ Stop \/ JoinClock \/ EndRun \/ ClockEnds \/ ClockThrows \/ BoardThrows
  \/ GetNext \/ TimePasses
  \/ \E noTokens, reaches, ready \in BOOLEAN : CheckHWStatus(noTokens, reaches, ready)
  \/ \E on \in BOOLEAN : MasterSends(on)

Spec == Init /\ [][Next]_vars

\* The threads run, the board makes its events readable and the InhibitMaster sends.
\* Time, events, stops, failures and what the status is are open.
FairSpec ==
  /\ Spec
  /\ WF_vars(GetNext) /\ WF_vars(JoinClock \/ EndRun) /\ WF_vars(ClockEnds)
  /\ WF_vars(Push) /\ WF_vars(\E on \in BOOLEAN : MasterSends(on))
-----------------------------------------------------------------------------
(* Properties. *)

Event == [kind : Kinds, time : Nat \ {0}]
Message == [on : BOOLEAN, run : Nat]

(* Every variable has its type. *)
TypeOK ==
  /\ sendFragments \in BOOLEAN /\ failed \in BOOLEAN /\ stoppingFlag \in BOOLEAN
  /\ cpc \in {"ended", "running", "joining", "stopped", "dead"}
  /\ gpc \in {"done", "idle", "settle", "look", "throttle"}
  /\ hpc \in {"off", "on", "ended"}
  /\ run \in Nat /\ stoppingState \in 0..2 /\ throttling \in 0..1 /\ counter \in 0..MaxCounter
  /\ clockStop \in BOOLEAN /\ wantInhibit \in BOOLEAN /\ last \in [Marks -> Nat]
  /\ evCounter \in Nat /\ trigEn \in BOOLEAN /\ hwRun \in BOOLEAN
  /\ pipe \in Seq(Event) /\ buffer \in Seq(Event) /\ tick \in Nat /\ recorded \in SUBSET Event
  /\ triggers \in Seq(Nat)
  /\ delivered \in Seq([seq : Nat, time : Nat, stamps : [Marks -> Nat]])
  /\ obeyed \in Seq(Message) /\ Len(obeyed) <= 1 /\ inq \in Seq(Message) /\ Len(inq) <= 1
  /\ connected \in BOOLEAN /\ ignore \in {"zero", "waiting", "expired", "infinite"}
  /\ patience \in {"waiting", "infinite"} /\ heard \in BOOLEAN /\ statusLost \in BOOLEAN

(* When getNext_() has returned false for a stop, the board is quiet and every *)
(* trigger it recorded in the run has been given to artdaq.                   *)
Drained ==
  stoppingState = 2 =>
    /\ ~hwRun /\ ~trigEn /\ pipe = <<>> /\ buffer = <<>>
    /\ \A i \in DOMAIN triggers : \E j \in DOMAIN delivered : delivered[j].time = triggers[i]

(* The fragments of a run are numbered without gaps, whatever marks come    *)
(* between, and each carries the times of the last marks before it, also of *)
(* an earlier run.                                                          *)
StampsFollowMarks ==
  \A i \in DOMAIN delivered :
    /\ delivered[i].seq = i
    /\ \A k \in Marks :
         LET before == {0} \cup {e.time : e \in {e \in recorded : /\ e.kind = k
                                                               /\ e.time < delivered[i].time}}
         IN delivered[i].stamps[k] \in before /\ \A t \in before : t <= delivered[i].stamps[k]

(* Triggers are enabled just if the last message of the InhibitMaster read in *)
(* this run allows them, or no message has come and the reader has given up   *)
(* waiting for one, and never after the stop of the board or before a start.  *)
Allowed == IF obeyed = <<>> THEN run > 0 /\ ignore = "zero" ELSE obeyed[1].on
EnabledAsTold ==
  IF stoppingState = 0 /\ sendFragments THEN (trigEn <=> Allowed) ELSE ~trigEn

(* The triggers recorded by the board in a run reach artdaq in their order,  *)
(* none twice and none left out between others.                              *)
Ordered == INSTANCE OrderedDelivery
             WITH Record <- 1..MaxEvents, accepted <- triggers,
                  delivered <- [i \in DOMAIN delivered |-> delivered[i].time]
ImplementsOrderedDelivery == Ordered!Spec

(* A stop is carried out: the run ends, by itself or after a failure, or the *)
(* process does.                                                            *)
StopEnds == stoppingFlag ~> cpc \in {"ended", "dead"} /\ gpc = "done"

(* As long as the InhibitMaster hears every change of the status, the wish for *)
(* an inhibit is granted: triggers are disabled, or the wish is taken back,    *)
(* unless the reader has failed or is gone.                                    *)
InhibitGranted ==
  []~statusLost => (wantInhibit ~> ~wantInhibit \/ ~trigEn \/ failed \/ cpc = "dead")

(* What is asked of the reader is done: stops, whatever fails, and inhibits, *)
(* as long as no change of the status was lost.                              *)
AskedIsDone == StopEnds /\ InhibitGranted

(* "We want to be able to do this as late as possible so that there aren't *)
(* stale messages in the queue", says the interface of the subscription:   *)
(* what enables the triggers of a run was sent in that run.                *)
ReleasedByThisRun == trigEn /\ obeyed # <<>> => obeyed[1].run = run
=============================================================================
