-------------------------------- MODULE Felix --------------------------------
(***************************************************************************)
(* The FELIX reader in its publishing mode, with its one link: the artdaq  *)
(* thread in start(), getNext_() and stop() of FelixReceiver and the       *)
(* FelixHardwareInterface and NetioHandler below it, the request thread of *)
(* RequestReceiver, the subscriber thread that fills the link's queue and  *)
(* the trigger matcher, a ReusableThread, that cuts the window of a        *)
(* trigger out of that queue.                                              *)
(*                                                                         *)
(* A message is the number it has in the stream of the link; its frames    *)
(* follow each other by TickDist, and the first frame of message 0 has     *)
(* timestamp 0. A queue is the sequence of its elements.                   *)
(***************************************************************************)
EXTENDS ReusableThread, RequestReceiver, Integers, SequencesExt

CONSTANTS
  TickDist,       \* m_tickdist
  FramesPerMsg,   \* m_msgsize / m_framesize
  TimeWindow,     \* m_timeWindow, in frames
  WindowOffset,   \* m_windowOffset, in frames
  Margin,         \* messages the queue must hold beyond the window (10)
  QueueCap,       \* capacity of the queue of messages
  MaxMsgs,        \* messages of the stream (bound)
  MaxRuns         \* calls of start() (bound)

NumMessages == TimeWindow \div FramesPerMsg + 2       \* m_timeWindowNumMessages

ASSUME FelixAssumption ==
  /\ {TickDist, FramesPerMsg, QueueCap} \subseteq Nat \ {0}
  /\ {TimeWindow, WindowOffset, Margin, MaxMsgs, MaxRuns} \subseteq Nat
  /\ \A ts \in TriggerTimes : ts >= WindowOffset * TickDist
  /\ Margin >= 3
  /\ \E t \in Threads : Threads = {t}

VARIABLES
  cpc,          \* where the artdaq thread is
  run,          \* number of the current run
  shouldStop,   \* CommandableFragmentGenerator::should_stop()
  trig,         \* m_triggerTimestamp and sequence id, NoTrigger if there is none
  frag,         \* the messages in the fragment getNext_() is filling
  spc,          \* where the subscriber thread is
  subscribed,   \* the link's socket is subscribed
  dataQ,        \* m_pcqs of the link
  nMsg,         \* messages the link has published
  mpc,          \* where the trigger matcher is in its functor
  lastTS,       \* m_lastTimestamp
  excuse,       \* history: what kept the matcher from data for this trigger
  served,       \* history: the fragments given to artdaq, in order
  discarded,    \* history: the fragments dropped because of a stop
  whole,        \* history: the queue had no gap when the matcher skipped to the window
  floor,        \* history: messages before this one were thrown away untouched
  raced         \* history: the subscriber popped under a matcher or a flush

caller     == <<cpc, run, shouldStop, trig, served, discarded>>
subscriber == <<spc, subscribed, nMsg>>
matcher    == <<mpc, lastTS, frag, excuse, whole>>
stream     == <<dataQ, floor, raced>>
vars == <<pause, ready, quit, wpc, cpc, run, shouldStop, trig, frag, rqpc, rqStop, reqQ,
          lastReq, spc, subscribed, dataQ, nMsg, mpc, lastTS, excuse, served, discarded,
          whole, floor, raced>>

Link == CHOOSE l \in Threads : TRUE
NoTrigger == NoRequest
TimeOf(m) == m * FramesPerMsg * TickDist      \* timestamp of the first frame of m
EndOf(m) == TimeOf(m + 1)                     \* ... of the first frame after m
WindowStart(r) == r.timestamp - WindowOffset * TickDist
WindowEnd(r) == WindowStart(r) + TimeWindow * TickDist

Init ==
  /\ Born
  /\ cpc = "stopped" /\ run = 0 /\ shouldStop = FALSE /\ trig = NoTrigger
  /\ frag = <<>> /\ RequestInit
  /\ spc = "off" /\ subscribed = FALSE /\ dataQ = <<>> /\ nMsg = 0
  /\ mpc = "begin" /\ lastTS = 0 /\ excuse = "none"
  /\ served = <<>> /\ discarded = <<>> /\ whole = TRUE /\ floor = 0 /\ raced = FALSE
-----------------------------------------------------------------------------
(* The artdaq thread. *)

\* StartDatataking(), up to the request receiver: the matchers are new threads
StartMatchers ==
  /\ cpc = "stopped" /\ run < MaxRuns
  /\ cpc' = "startRequests" /\ run' = run + 1 /\ shouldStop' = FALSE
  /\ Reborn
  /\ UNCHANGED <<trig, served, discarded, requests, subscriber, matcher, stream>>

StartRequests ==
  /\ cpc = "startRequests" /\ cpc' = "subscribe"
  /\ StartReceiver
  /\ UNCHANGED <<rtVars, run, shouldStop, trig, served, discarded, subscriber, matcher, stream>>

\* the subscriber is started in the first run and lives on
Subscribe ==
  /\ cpc = "subscribe" /\ cpc' = "between"
  /\ subscribed' = TRUE /\ spc' = IF spc = "off" THEN "recv" ELSE spc
  /\ UNCHANGED <<rtVars, run, shouldStop, trig, served, discarded, requests, nMsg, matcher,
                 stream>>

\* getNext_(): a new fragment; artdaq does not call it again after a stop
GetNext ==
  /\ cpc = "between" /\ ~shouldStop
  /\ cpc' = "request" /\ frag' = <<>>
  /\ UNCHANGED <<rtVars, run, shouldStop, trig, served, discarded, requests, subscriber,
                 mpc, lastTS, excuse, whole, stream>>

\* variant: the request is read and not removed
PeekRequest ==
  /\ cpc = "request" /\ cpc' = "offer"
  /\ trig' = NextRequest
  /\ excuse' = "none"
  /\ UNCHANGED <<rtVars, run, shouldStop, served, discarded, requests, subscriber,
                 mpc, lastTS, frag, whole, stream>>

\* getNextRequest(): the oldest request, or none after two seconds without one
TakeRequest ==
  /\ cpc = "request" /\ cpc' = "offer"
  /\ trig' = NextRequest /\ RemoveRequest
  /\ excuse' = "none"
  /\ UNCHANGED <<rtVars, run, shouldStop, served, discarded, subscriber, mpc, lastTS, frag,
                 whole, stream>>

\* triggerWorkers() offers the functor to the matcher; nobody looks at the answer
Offer ==
  /\ cpc = "offer" /\ cpc' = "busy"
  /\ SetWork(Link)
  /\ excuse' = IF Accepts(Link) THEN "none" ELSE "refused"
  /\ raced' = (raced \/ (Accepts(Link) /\ spc = "pop"))
  /\ UNCHANGED <<run, shouldStop, trig, served, discarded, requests, subscriber, mpc,
                 lastTS, frag, whole, dataQ, floor>>

Fragment == [seqID |-> trig.seqID, timestamp |-> trig.timestamp, data |-> frag,
             excuse |-> excuse, whole |-> whole /\ ~raced, floor |-> floor]

NotBusyOrStopping == NotBusy \/ shouldStop     \* variant: a stop ends the wait
WaitOver == NotBusy

\* busy() says no: without a trigger getNext_() tries again, after a stop it
\* returns without the fragment
WorkersDone ==
  /\ cpc = "busy" /\ WaitOver
  /\ IF shouldStop
     THEN /\ cpc' = "between" /\ UNCHANGED served
          /\ discarded' = IF trig = NoTrigger THEN discarded ELSE Append(discarded, Fragment)
     ELSE /\ cpc' = IF trig = NoTrigger THEN "request" ELSE "between"
          /\ served' = IF trig = NoTrigger THEN served ELSE Append(served, Fragment)
          /\ UNCHANGED discarded
  /\ UNCHANGED <<rtVars, run, shouldStop, trig, requests, subscriber, matcher, stream>>

StopCommand ==
  /\ cpc \in {"between", "request", "offer", "busy"} /\ ~shouldStop
  /\ shouldStop' = TRUE
  /\ UNCHANGED <<rtVars, cpc, run, trig, served, discarded, requests, subscriber, matcher,
                 stream>>

\* StopDatataking() begins with the request receiver ...
StopRequests ==
  /\ cpc = "between" /\ shouldStop
  /\ cpc' = "joinRequests" /\ SignalReceiver
  /\ UNCHANGED <<rtVars, run, shouldStop, trig, served, discarded, subscriber, matcher, stream>>

JoinRequests ==
  /\ cpc = "joinRequests" /\ ReceiverJoined /\ cpc' = "unsubscribe"
  /\ UNCHANGED <<rtVars, run, shouldStop, trig, served, discarded, requests, subscriber,
                 matcher, stream>>

Unsubscribe ==
  /\ cpc = "unsubscribe" /\ cpc' = "flush" /\ subscribed' = FALSE
  /\ UNCHANGED <<rtVars, run, shouldStop, trig, served, discarded, requests, spc, nMsg,
                 matcher, stream>>

\* flushQueues() and the wait for the matchers
FlushQueues ==
  /\ cpc = "flush" /\ NotBusy
  /\ cpc' = "destroy" /\ dataQ' = <<>> /\ floor' = nMsg
  /\ raced' = (raced \/ spc = "pop")
  /\ UNCHANGED <<rtVars, run, shouldStop, trig, served, discarded, requests, subscriber,
                 matcher>>

\* stopTriggerMatchers(): the matcher is destroyed
DestroyMatcher ==
  /\ cpc = "destroy" /\ cpc' = "joinMatcher" /\ Quit(Link)
  /\ UNCHANGED <<run, shouldStop, trig, served, discarded, requests, subscriber, matcher,
                 stream>>

JoinMatcher ==
  /\ cpc = "joinMatcher" /\ Joined(Link) /\ cpc' = "stopped"
  /\ UNCHANGED <<rtVars, run, shouldStop, trig, served, discarded, requests, subscriber,
                 matcher, stream>>
(* The request thread. *)

RequestArrives == Arrives /\ UNCHANGED <<rtVars, caller, subscriber, matcher, stream>>
RequestsEnd == Ends /\ UNCHANGED <<rtVars, caller, subscriber, matcher, stream>>
-----------------------------------------------------------------------------
(* The subscriber thread. *)

Drop(q, n) == SubSeq(q, n + 1, Len(q))         \* popXFront()
FrontOr(q, n) == IF q = <<>> THEN n ELSE Head(q)

HasRoom == Len(dataQ) < QueueCap

\* nobody listens to the link between two runs
Unheard ==
  /\ ~subscribed /\ run > 0 /\ dataQ = <<>> /\ nMsg < MaxMsgs
  /\ nMsg' = nMsg + 1 /\ floor' = nMsg'
  /\ UNCHANGED <<rtVars, caller, requests, spc, subscribed, matcher, dataQ, raced>>

Receive ==
  /\ spc = "recv" /\ subscribed /\ nMsg < MaxMsgs
  /\ nMsg' = nMsg + 1
  /\ IF HasRoom
     THEN dataQ' = Append(dataQ, nMsg) /\ UNCHANGED spc
     ELSE spc' = "full" /\ UNCHANGED dataQ
  /\ UNCHANGED <<rtVars, caller, requests, subscribed, matcher, floor, raced>>

\* the message found no room: half of the queue makes way, unless a matcher is busy
CheckBusy ==
  /\ spc = "full" /\ spc' = IF NotBusy THEN "pop" ELSE "recv"
  /\ UNCHANGED <<rtVars, caller, requests, subscribed, nMsg, matcher, stream>>

PopHalf ==
  /\ spc = "pop" /\ spc' = "recv"
  /\ dataQ' = Drop(dataQ, QueueCap \div 2)
  /\ floor' = FrontOr(dataQ', nMsg)
  /\ UNCHANGED <<rtVars, caller, requests, subscribed, nMsg, matcher, raced>>
-----------------------------------------------------------------------------
(* The trigger matcher: the functor of startTriggerMatchers() and the loop   *)
(* of its ReusableThread. m_stop_trigger is never set while the functor runs.*)

Others == UNCHANGED <<caller, requests, subscriber>>

Return(why) ==
  /\ FinishWork(Link) /\ mpc' = "begin"
  /\ excuse' = why /\ Others

QueueEmpty ==
  /\ wpc[Link] = "run" /\ mpc = "begin" /\ dataQ = <<>>
  /\ Return("empty") /\ UNCHANGED <<lastTS, frag, whole, stream>>

\* no trigger: when the queue is over half full, 80% of it is thrown away
Cull ==
  /\ wpc[Link] = "run" /\ mpc = "begin" /\ dataQ # <<>> /\ trig = NoTrigger
  /\ dataQ' = IF 2 * Len(dataQ) > QueueCap THEN Drop(dataQ, (8 * Len(dataQ)) \div 10) ELSE dataQ
  /\ floor' = IF dataQ' = dataQ THEN floor ELSE FrontOr(dataQ', nMsg)
  /\ Return("none") /\ UNCHANGED <<lastTS, frag, whole, raced>>

TooOldOrEqual(ts) == ts >= WindowStart(trig)   \* variant: the oldest message is refused
TooOld(ts) == ts > WindowStart(trig)

DataGone ==
  /\ wpc[Link] = "run" /\ mpc = "begin" /\ dataQ # <<>> /\ trig # NoTrigger
  /\ TooOld(TimeOf(Head(dataQ)))
  /\ lastTS' = TimeOf(Head(dataQ))
  /\ Return("old") /\ UNCHANGED <<frag, whole, stream>>

LookAtFront ==
  /\ wpc[Link] = "run" /\ mpc = "begin" /\ dataQ # <<>> /\ trig # NoTrigger
  /\ ~TooOld(TimeOf(Head(dataQ)))
  /\ lastTS' = TimeOf(Head(dataQ)) /\ mpc' = "wait"
  /\ Others /\ UNCHANGED <<rtVars, frag, excuse, whole, stream>>

TickDiff == (WindowStart(trig) - lastTS) \div TickDist          \* timeTickDiff
MinQueueSize == (TickDiff + TimeWindow) \div FramesPerMsg + Margin

DataNeverLate == FALSE                          \* variant: no time limit

\* over two seconds without the data
DataLate ==
  /\ wpc[Link] = "run" /\ mpc = "wait" /\ Len(dataQ) < MinQueueSize
  /\ Return("late") /\ UNCHANGED <<lastTS, frag, whole, stream>>

NoGap(q) == \A i \in 1..Len(q) : q[i] = Head(q) + i - 1
ToSkipOneMore == TickDiff \div FramesPerMsg + 1                  \* variant: off by one
ToSkip == TickDiff \div FramesPerMsg

SkipToWindow ==
  /\ wpc[Link] = "run" /\ mpc = "wait" /\ Len(dataQ) >= MinQueueSize
  /\ mpc' = "copy" /\ dataQ' = Drop(dataQ, ToSkip)
  /\ whole' = NoGap(dataQ)
  /\ Others /\ UNCHANGED <<rtVars, lastTS, frag, excuse, floor, raced>>

\* a message is copied and popped; an empty queue, which only a race can leave,
\* yields whatever its slot holds
CopyMessage ==
  /\ wpc[Link] = "run" /\ mpc = "copy" /\ Len(frag) < NumMessages
  /\ frag' = Append(frag, FrontOr(dataQ, -1))
  /\ dataQ' = IF dataQ = <<>> THEN dataQ ELSE Tail(dataQ)
  /\ Others /\ UNCHANGED <<rtVars, mpc, lastTS, excuse, whole, floor, raced>>

CopyDone ==
  /\ wpc[Link] = "run" /\ mpc = "copy" /\ Len(frag) = NumMessages
  /\ Return("none") /\ UNCHANGED <<lastTS, frag, whole, stream>>

Functor == \/ QueueEmpty \/ Cull \/ DataGone \/ LookAtFront \/ DataLate
           \/ SkipToWindow \/ CopyMessage \/ CopyDone

Loop == /\ Test(Link) \/ Wait(Link) \/ ClearReady(Link)
        /\ cpc # "stopped" /\ Others /\ UNCHANGED <<matcher, stream>>

WakeUp == SpuriousWakeup(Link) /\ Others /\ UNCHANGED <<matcher, stream>>
-----------------------------------------------------------------------------
StopSteps == \/ StopRequests \/ JoinRequests \/ Unsubscribe \/ FlushQueues
             \/ DestroyMatcher \/ JoinMatcher
RunSteps == \/ StartRequests \/ Subscribe \/ GetNext \/ TakeRequest \/ Offer \/ WorkersDone
Subscriber == Receive \/ CheckBusy \/ PopHalf
Environment == StartMatchers \/ StopCommand \/ RequestArrives \/ Unheard \/ WakeUp

Next == \/ RunSteps \/ StopSteps \/ Subscriber \/ Functor \/ Loop \/ RequestsEnd
        \/ Environment

Spec == Init /\ [][Next]_vars

\* Every thread goes on with what it has begun, and a wait for data ends by its
\* time limit at the latest. Whether requests, data, stops or wakeups come is open.
FairSpec ==
  /\ Spec
  /\ WF_vars(RunSteps) /\ WF_vars(StopSteps) /\ WF_vars(CheckBusy \/ PopHalf)
  /\ WF_vars(Functor) /\ WF_vars(Loop) /\ WF_vars(RequestsEnd)
-----------------------------------------------------------------------------
(* Properties. *)

Excuses == {"none", "refused", "empty", "old", "late"}
Fragments == [seqID : Nat, timestamp : TriggerTimes, data : Seq(Int), excuse : Excuses,
              whole : BOOLEAN, floor : Nat]

CallerTypes ==
  /\ cpc \in {"stopped", "startRequests", "subscribe", "between", "request", "offer", "busy",
              "joinRequests", "unsubscribe", "flush", "destroy", "joinMatcher"}
  /\ run \in 0..MaxRuns /\ shouldStop \in BOOLEAN
  /\ trig \in Request \cup {NoTrigger}
  /\ served \in Seq(Fragments) /\ discarded \in Seq(Fragments)

StreamTypes ==
  /\ spc \in {"off", "recv", "full", "pop"} /\ subscribed \in BOOLEAN /\ nMsg \in Nat
  /\ dataQ \in Seq(Nat) /\ Len(dataQ) <= QueueCap /\ floor \in Nat /\ raced \in BOOLEAN

MatcherTypes ==
  /\ mpc \in {"begin", "wait", "copy"} /\ lastTS \in Nat /\ whole \in BOOLEAN
  /\ frag \in Seq(Int) /\ Len(frag) <= NumMessages
  /\ excuse \in Excuses

(* Every variable keeps its type, and the two queues and the fragment their *)
(* capacity.                                                                *)
TypeOK == RTTypes /\ CallerTypes /\ RequestTypes /\ StreamTypes /\ MatcherTypes

Slept == wpc[Link] = "wait" /\ (quit[Link] \/ (~pause[Link] /\ ready[Link]))

Outcomes == served \o discarded

Covered(f) ==
  f.whole /\ f.data # <<>> =>
    /\ NoGap(f.data)
    /\ TimeOf(Head(f.data)) <= WindowStart(f) /\ WindowEnd(f) <= EndOf(Last(f.data))

(* A fragment with data holds, without a gap, the messages that cover the   *)
(* whole window of its trigger: the arithmetic of timeTickDiff, of the      *)
(* number skipped and of m_timeWindowNumMessages rounds the right way, and  *)
(* the matcher never reads beyond the write pointer. It assumes a queue     *)
(* without lost messages and no pop of the subscriber under the matcher.    *)
WindowCovered == \A f \in ToSet(Outcomes) : Covered(f)

(* Matching one trigger never throws away data of a later one: data found   *)
(* to be gone were thrown away by an overflow, for want of triggers or at a *)
(* stop, or are in the fragment of an earlier trigger.                      *)
OldOnlyIfTaken ==
  \A f \in ToSet(Outcomes) : f.whole /\ f.excuse = "old" =>
    \/ WindowStart(f) < TimeOf(f.floor)
    \/ \E g \in ToSet(Outcomes) : g.data # <<>> /\ g.seqID < f.seqID
                                 /\ WindowStart(f) < EndOf(Last(g.data))

(* artdaq gets the fragments in the order of the requests, each request is  *)
(* answered once, and no message is in two fragments.                       *)
ServedInOrder ==
  \A i, j \in DOMAIN served : i < j =>
    /\ served[i].seqID < served[j].seqID
    /\ served[j].whole /\ served[i].data # <<>> /\ served[j].data # <<>>
         => Last(served[i].data) < Head(served[j].data)

(* Each message goes to the first trigger that wants it, and to no other: no *)
(* trigger takes what an earlier one has, and none loses data otherwise.     *)
SharedInOrder == OldOnlyIfTaken /\ ServedInOrder

(* The matcher, which writes through the pointer of triggerWorkers(), runs  *)
(* only while triggerWorkers() waits for it.                                *)
QuietBetweenTriggers == wpc[Link] = "run" => cpc = "busy"

(* Unless a notification is lost, every request in the queue is answered,   *)
(* if only by an empty fragment, or a stop comes.                           *)
RequestsAnswered ==
  []~Slept => \A n \in 1..MaxRequests :
    (\E i \in DOMAIN reqQ : reqQ[i].seqID = n)
      ~> shouldStop \/ \E f \in ToSet(served) : f.seqID = n

(* Unless a notification is lost, a stop is carried out, whatever the       *)
(* matcher and the subscriber were doing when it came.                      *)
StopEnds == []~Slept => (shouldStop ~> cpc = "stopped")

(* Unless a notification of a worker is lost, nothing asked of the reader    *)
(* hangs: its requests are answered and its stops are carried out.           *)
NothingHangs == RequestsAnswered /\ StopEnds
=============================================================================
