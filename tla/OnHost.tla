-------------------------------- MODULE OnHost --------------------------------
(***************************************************************************)
(* The FELIX reader in its on-host mode: getNext_() makes a fragment for   *)
(* every link and FelixOnHostInterface offers each to the trigger matcher  *)
(* of the link. The dispatchers of the card readers fill the queues of the *)
(* links from the moment the reader is constructed, whether a run is on or *)
(* not; a queue that is full takes no more.                                *)
(*                                                                         *)
(* The matchers are ReusableThreads (WorkerRounds). What their callers see *)
(* is modelled: one is idle, works, or has said that it is done while it   *)
(* is still marked as ready, and refuses. A lost notification is work that *)
(* is not begun.                                                           *)
(*                                                                         *)
(* Message m of a link has the FramesPerMessage frames from the frame      *)
(* m * FramesPerMessage on; a frame lasts HostTick ticks.                  *)
(***************************************************************************)
EXTENDS RequestReceiver, Integers, FiniteSets, SequencesExt

CONSTANTS
  HostTick,         \* tick_dist_
  NumLinks,         \* num_sources_ * num_links_
  FramesPerMessage, \* message_size_ / frame_size_
  WindowFrames,     \* window_, used as a number of frames
  OffsetFrames,     \* window_offset_
  SpareMessages,    \* messages wanted in the queue beyond the window: 10
  LinkRoom,         \* flx_queue_size_
  LinkMessages,     \* link -> messages it has (bound)
  MaxEvents,        \* events (bound)
  MaxHostRuns       \* calls of start() (bound)

WindowMessages == WindowFrames \div FramesPerMessage + 2   \* m_timeWindowNumMessages

ASSUME OnHostAssumption ==
  /\ {HostTick, NumLinks, FramesPerMessage, LinkRoom} \subseteq Nat \ {0}
  /\ {WindowFrames, OffsetFrames, MaxEvents, MaxHostRuns} \subseteq Nat
  /\ LinkMessages \in [1..NumLinks -> Nat]
  /\ SpareMessages \in Nat /\ SpareMessages >= 2
  /\ \A ts \in TriggerTimes : ts >= OffsetFrames * HostTick

Links == 1..NumLinks

VARIABLES
  hostAt,       \* artdaq thread: "stopped", "between", "offer", "busy", "join"
  stopping,     \* should_stop()
  hostRun,      \* history: runs so far
  matchers,     \* link -> trigger matcher: "idle", "works", "clears" (done, and still marked)
  offering,     \* the link the loop of TriggerWorkers() has come to
  trigger,      \* trigger_seq_id_ and trigger_ts_
  filling,      \* link -> its fragment of the event getNext_() fills
  events,       \* history: the events given to artdaq
  linkQ,        \* link -> its queue of messages
  produced,     \* link -> messages its dispatcher has had for it
  refusedMsgs,  \* history: link -> messages that found the queue full
  culled        \* history: link -> messages thrown away for want of a trigger

hostFlow == <<hostAt, stopping, hostRun, offering>>
linkData == <<linkQ, produced, refusedMsgs, culled>>
hostVars == <<matchers, rqpc, rqStop, reqQ, lastReq, hostAt, stopping, hostRun,
              offering, trigger, filling, events, linkQ, produced, refusedMsgs, culled>>

\* a fragment as getNext_() makes it; front and why are histories
Blank == [seqID |-> -1, timestamp |-> -1, msgs |-> <<>>, front |-> -1, why |-> "new"]

HostInit ==
  /\ RequestInit /\ matchers = [l \in Links |-> "idle"]
  /\ hostAt = "stopped" /\ stopping = FALSE /\ hostRun = 0 /\ offering = 1
  /\ trigger = NoRequest /\ filling = [l \in Links |-> Blank] /\ events = <<>>
  /\ linkQ = [l \in Links |-> <<>>] /\ produced = [l \in Links |-> 0]
  /\ refusedMsgs = [l \in Links |-> {}] /\ culled = [l \in Links |-> {}]
-----------------------------------------------------------------------------
(* The dispatchers (CardReader): the result of the write is not looked at. *)

\* when the last event has been given away, nothing reads the queues
Watched == Len(events) < MaxEvents

Dispatch(l) ==
  /\ Watched
  /\ produced[l] < LinkMessages[l] /\ produced' = [produced EXCEPT ![l] = @ + 1]
  /\ IF Len(linkQ[l]) < LinkRoom
     THEN linkQ' = [linkQ EXCEPT ![l] = Append(@, produced[l])] /\ UNCHANGED refusedMsgs
     ELSE refusedMsgs' = [refusedMsgs EXCEPT ![l] = @ \cup {produced[l]}] /\ UNCHANGED linkQ
  /\ UNCHANGED <<matchers, requests, hostFlow, trigger, filling, events, culled>>
-----------------------------------------------------------------------------
(* The artdaq thread. *)

\* start() does no more than start the request receiver
HostStart ==
  /\ hostAt = "stopped" /\ hostRun < MaxHostRuns
  /\ hostAt' = "between" /\ hostRun' = hostRun + 1 /\ stopping' = FALSE /\ StartReceiver
  /\ UNCHANGED <<matchers, offering, trigger, filling, events, linkData>>

\* getNext_(): new fragments with the reader's own numbers; FillFragments() takes the
\* oldest request, or none after two seconds
TakeTrigger ==
  /\ hostAt = "between" /\ ~stopping /\ Watched
  /\ hostAt' = "offer" /\ offering' = 1 /\ filling' = [l \in Links |-> Blank]
  /\ trigger' = NextRequest /\ RemoveRequest
  /\ UNCHANGED <<matchers, stopping, hostRun, events, linkData>>

\* TriggerWorkers(): the answer of set_work() is not looked at
OfferLink ==
  /\ hostAt = "offer"
  /\ offering' = offering + 1 /\ hostAt' = IF offering = NumLinks THEN "busy" ELSE "offer"
  /\ IF matchers[offering] = "idle"
     THEN matchers' = [matchers EXCEPT ![offering] = "works"] /\ UNCHANGED filling
     ELSE filling' = [filling EXCEPT ![offering].why = "refused"] /\ UNCHANGED matchers
  /\ UNCHANGED <<requests, stopping, hostRun, trigger, events, linkData>>

NoneBusy == \A l \in Links : matchers[l] # "works"        \* ~Busy()

\* The event goes to artdaq, with or without a trigger, stop or not.
EventDone ==
  /\ hostAt = "busy" /\ NoneBusy
  /\ hostAt' = "between" /\ offering' = 1 /\ filling' = [l \in Links |-> Blank]
  /\ events' = Append(events, [trigger |-> trigger, frags |-> filling])
  /\ UNCHANGED <<matchers, requests, stopping, hostRun, trigger, linkData>>

HostStop ==
  /\ hostAt \in {"between", "offer", "busy"} /\ ~stopping /\ stopping' = TRUE
  /\ UNCHANGED <<matchers, requests, hostAt, hostRun, offering, trigger, filling, events, linkData>>

\* StopDatataking(): the queues, of requests and of messages, are left as they are
StopHostRequests ==
  /\ hostAt = "between" /\ stopping /\ NoneBusy /\ hostAt' = "join" /\ SignalReceiver
  /\ UNCHANGED <<matchers, stopping, hostRun, offering, trigger, filling, events, linkData>>

JoinHostRequests ==
  /\ hostAt = "join" /\ ReceiverJoined /\ hostAt' = "stopped"
  /\ UNCHANGED <<matchers, requests, stopping, hostRun, offering, trigger, filling, events, linkData>>

ReceiverSteps ==
  /\ Arrives \/ Ends
  /\ UNCHANGED <<matchers, hostFlow, trigger, filling, events, linkData>>
-----------------------------------------------------------------------------
(* The functor of a trigger matcher. The thread alone pops its queue, and   *)
(* the queue only grows while it waits: that it looks at the front before   *)
(* it waits and copies one message at a time makes no difference.           *)

PopFront(q, n) == SubSeq(q, n + 1, Len(q))              \* popXFront()
StartOf(ts) == ts - OffsetFrames * HostTick             \* startWindowTimestamp
TimeOfMsg(m) == m * FramesPerMessage * HostTick          \* of its first frame
FrontTime(l) == TimeOfMsg(Head(linkQ[l]))               \* lastTs
FramesToSkip(l) == (StartOf(trigger.timestamp) - FrontTime(l)) \div HostTick   \* timeFramesToSkip
WantedSize(l) == (FramesToSkip(l) + WindowFrames) \div FramesPerMessage + SpareMessages
RoundedUp(l) == (FramesToSkip(l) + FramesPerMessage - 1) \div FramesPerMessage  \* variant
SkipCount(l) == FramesToSkip(l) \div FramesPerMessage

\* the fragment takes the trigger's numbers first, whatever comes of it
Matched(l, msgs, front, why) ==
  [seqID |-> trigger.seqID, timestamp |-> trigger.timestamp, msgs |-> msgs, front |-> front,
   why |-> why]

FunctorReturns(l, msgs, front, why) ==
  /\ matchers' = [matchers EXCEPT ![l] = "clears"]
  /\ filling' = [filling EXCEPT ![l] = Matched(l, msgs, front, why)]
  /\ UNCHANGED <<requests, hostFlow, trigger, events, produced, refusedMsgs>>

EmptyQueue(l) ==
  /\ matchers[l] = "works" /\ linkQ[l] = <<>>
  /\ FunctorReturns(l, <<>>, -1, "empty") /\ UNCHANGED <<linkQ, culled>>

\* without a trigger, 80% of a queue that is over half full is thrown away
WithoutTrigger(l) ==
  LET q == linkQ[l]
      n == IF 2 * Len(q) > LinkRoom THEN (8 * Len(q)) \div 10 ELSE 0 IN
  /\ matchers[l] = "works" /\ q # <<>> /\ trigger = NoRequest
  /\ linkQ' = [linkQ EXCEPT ![l] = PopFront(q, n)]
  /\ culled' = [culled EXCEPT ![l] = @ \cup ToSet(SubSeq(q, 1, n))]
  /\ FunctorReturns(l, <<>>, -1, "none")

Requested(l) == matchers[l] = "works" /\ linkQ[l] # <<>> /\ trigger # NoRequest

OldRequest(l) ==
  /\ Requested(l) /\ FrontTime(l) > StartOf(trigger.timestamp)
  /\ FunctorReturns(l, <<>>, Head(linkQ[l]), "old") /\ UNCHANGED <<linkQ, culled>>

\* over two seconds
LateData(l) ==
  /\ Requested(l) /\ FrontTime(l) <= StartOf(trigger.timestamp) /\ Len(linkQ[l]) < WantedSize(l)
  /\ FunctorReturns(l, <<>>, Head(linkQ[l]), "late") /\ UNCHANGED <<linkQ, culled>>

CopyWindow(l) ==
  LET q == PopFront(linkQ[l], SkipCount(l)) IN
  /\ Requested(l) /\ FrontTime(l) <= StartOf(trigger.timestamp) /\ Len(linkQ[l]) >= WantedSize(l)
  /\ FunctorReturns(l, SubSeq(q, 1, WindowMessages), Head(linkQ[l]), "none")
  /\ linkQ' = [linkQ EXCEPT ![l] = PopFront(q, WindowMessages)] /\ UNCHANGED culled

FunctorOf(l) == EmptyQueue(l) \/ WithoutTrigger(l) \/ OldRequest(l) \/ LateData(l) \/ CopyWindow(l)

MatcherIdle(l) ==
  /\ matchers[l] = "clears" /\ matchers' = [matchers EXCEPT ![l] = "idle"]
  /\ UNCHANGED <<requests, hostFlow, trigger, filling, events, linkData>>
-----------------------------------------------------------------------------
HostNext ==
  \/ HostStart \/ TakeTrigger \/ OfferLink \/ EventDone \/ HostStop \/ StopHostRequests
  \/ JoinHostRequests \/ ReceiverSteps
  \/ \E l \in Links : Dispatch(l) \/ FunctorOf(l) \/ MatcherIdle(l)

HostSpec == HostInit /\ [][HostNext]_hostVars
-----------------------------------------------------------------------------
(* Properties. *)

Reasons == {"new", "refused", "empty", "none", "old", "late"}
HostFragment == [seqID : Int, timestamp : Int, msgs : Seq(Nat), front : Int, why : Reasons]

(* Every variable has a value the code can give it. *)
HostTypeOK ==
  /\ RequestTypes /\ matchers \in [Links -> {"idle", "works", "clears"}]
  /\ hostAt \in {"stopped", "between", "offer", "busy", "join"}
  /\ stopping \in BOOLEAN /\ hostRun \in 0..MaxHostRuns /\ offering \in 1..(NumLinks + 1)
  /\ trigger \in Request \cup {NoRequest} /\ filling \in [Links -> HostFragment]
  /\ \A i \in DOMAIN events : events[i].frags \in [Links -> HostFragment]
  /\ produced \in [Links -> Nat]
  /\ \A l \in Links : linkQ[l] \in Seq(Nat) /\ Len(linkQ[l]) <= LinkRoom

\* the fragments of an event are of one trigger, but for one its matcher was not given
OfOneTrigger(e) ==
  \A l \in Links :
    LET f == e.frags[l] IN
    IF f.why = "refused" THEN f.msgs = <<>>
    ELSE f.why # "new" /\ f.seqID = e.trigger.seqID /\ f.timestamp = e.trigger.timestamp

\* messages between the front of the queue and the end of the data were refused
Hole(l, f) == \E m \in refusedMsgs[l] : f.front <= m /\ m <= Last(f.msgs)

HoldsWindow(e) ==
  \A l \in Links :
    LET f == e.frags[l] IN
    f.msgs # <<>> /\ ~Hole(l, f) =>
      /\ \A i \in DOMAIN f.msgs : f.msgs[i] = f.msgs[1] + i - 1
      /\ TimeOfMsg(f.msgs[1]) <= StartOf(f.timestamp)
      /\ StartOf(f.timestamp) + WindowFrames * HostTick <= TimeOfMsg(Last(f.msgs) + 1)

FirstWanted(f) == StartOf(f.timestamp) \div (FramesPerMessage * HostTick)

\* data are taken to be gone only when the message the window begins with was given
\* to an earlier event, thrown away or refused, or an earlier event was counted wrong
GoneForAReason(n) ==
  \A l \in Links :
    LET f == events[n].frags[l]
        earlier == {events[i].frags[l] : i \in 1..(n - 1)} IN
    f.why = "old" =>
      \/ FirstWanted(f) \in culled[l] \cup refusedMsgs[l]
      \/ \E g \in earlier : g.msgs # <<>> /\ (Hole(l, g) \/ FirstWanted(f) \in ToSet(g.msgs))

(* The fragments of an event carry the numbers of one trigger, each in its *)
(* turn, unless set_work() refused a link, which is left blank. Data hold  *)
(* the whole window of the trigger unless the full queue has refused       *)
(* messages on the way; no message is in two events; and when data are     *)
(* gone, an earlier event has them, or they were thrown away for want of a *)
(* trigger, or refused.                                                    *)
EventsCoherent ==
  /\ \A i \in DOMAIN events : OfOneTrigger(events[i]) /\ HoldsWindow(events[i]) /\ GoneForAReason(i)
  /\ \A i, j \in DOMAIN events : i < j =>
       /\ NoRequest \notin {events[i].trigger, events[j].trigger}
            => events[i].trigger.seqID < events[j].trigger.seqID
       /\ \A l \in Links : {<<>>} \cap {events[i].frags[l].msgs, events[j].frags[l].msgs} = {}
            => Last(events[i].frags[l].msgs) < events[j].frags[l].front
=============================================================================
