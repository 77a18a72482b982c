--------------------------------- MODULE SSP ---------------------------------
(***************************************************************************)
(* The SSP photon detector reader: the artdaq thread, which starts and     *)
(* stops the board and asks DeviceInterface::ReadEvents() for fragments,   *)
(* and the read thread, HardwareReadLoop(), which buffers the board's      *)
(* packets, finds the triggers and throws old packets away. Both hold      *)
(* fBufferMutex while they touch the buffer and the triggers. Triggers     *)
(* come from a RequestReceiver, or else from trigger bits in the packets.  *)
(*                                                                         *)
(* Times are those of a synchronised board: no subtraction of the code     *)
(* passes zero.                                                            *)
(***************************************************************************)
EXTENDS RequestReceiver, Integers, SequencesExt, FiniteSetsExt

CONSTANTS
  PreTrig,      \* fPreTrigLength
  PostTrig,     \* fPostTrigLength
  WriteDelay,   \* fTriggerWriteDelay
  Latency,      \* fTriggerLatency
  Offset,       \* fFragmentTimestampOffset
  Coincidence,  \* ticks in which a trigger is seen by several channels (1000)
  Channels,
  PacketTimes,  \* timestamps of packets
  Disorder,     \* how late the packet of a channel may come after another's
  MaxPackets,   \* packets read (bound)
  MaxRuns       \* calls of start() (bound)

LocalTime(ts) == ts * 3 - Offset

ASSUME SSPAssumption ==
  /\ {PreTrig, PostTrig, WriteDelay, Latency, Offset, Coincidence, Disorder, MaxPackets,
      MaxRuns} \subseteq Nat
  /\ PacketTimes \subseteq Nat
  /\ \A t \in PacketTimes : t >= PreTrig + Latency + WriteDelay
  /\ \A ts \in TriggerTimes : LocalTime(ts) >= PreTrig + WriteDelay

VARIABLES
  software,     \* fRequestReceiver is set: triggers come as requests
  gpc,          \* where the artdaq thread is
  run,          \* number of the current run
  cmdStop,      \* CommandableFragmentGenerator::should_stop()
  shouldStop,   \* fShouldStop
  tpc,          \* where the read thread is; "terminated": the process is gone
  buffer,       \* fPacketBuffer
  triggers,     \* fTriggers
  curTime,      \* currentTriggerTime, static in GetTriggerInfo()
  seen,         \* channelsSeen, static in GetTriggerInfo()
  packetsRead,  \* history: the packets read from the board
  accepted,     \* history: the triggers accepted, in order
  served        \* history: the fragments given to artdaq, in order

caller   == <<gpc, run, cmdStop, shouldStop>>
coincide == <<curTime, seen>>
sspVars == <<software, gpc, run, cmdStop, shouldStop, tpc, buffer, triggers, curTime, seen,
          packetsRead, accepted, served, rqpc, rqStop, reqQ, lastReq>>

SspInit ==
  /\ software \in BOOLEAN /\ gpc = "stopped" /\ run = 0 /\ cmdStop = FALSE
  /\ shouldStop = FALSE /\ tpc = "off" /\ buffer = <<>> /\ triggers = <<>>
  /\ curTime = 0 /\ seen = {} /\ packetsRead = {} /\ accepted = <<>> /\ served = <<>>
  /\ RequestInit
-----------------------------------------------------------------------------
(* The artdaq thread. *)

Live == tpc # "terminated"
Unread == UNCHANGED <<software, buffer, triggers, coincide, packetsRead, accepted, served>>

\* Start(): registers, then the read thread
Start ==
  /\ Live /\ gpc = "stopped" /\ run < MaxRuns
  /\ gpc' = "startRequests" /\ run' = run + 1 /\ cmdStop' = FALSE
  /\ shouldStop' = FALSE /\ tpc' = "test"
  /\ Unread /\ UNCHANGED requests

StartRequests ==
  /\ Live /\ gpc = "startRequests" /\ gpc' = "running"
  /\ IF software THEN StartReceiver ELSE UNCHANGED requests
  /\ Unread /\ UNCHANGED <<run, cmdStop, shouldStop, tpc>>

StopCommand ==
  /\ Live /\ gpc = "running" /\ ~cmdStop /\ cmdStop' = TRUE
  /\ Unread /\ UNCHANGED <<gpc, run, shouldStop, tpc, requests>>

Within(t, p) == t.start <= p.time /\ p.time < t.end

\* BuildFragment() looks at the packets up to the last one in the window, or at the
\* first one if there is none, and puts back those of them that are after the window
LastIn(t) == Max({1} \cup {i \in DOMAIN buffer : Within(t, buffer[i])})
Looked(t) == SubSeq(buffer, 1, LastIn(t))
InWindow(t) == {p \in ToSet(Looked(t)) : Within(t, p)}
NothingBack(t) == <<>>                         \* variant: they are dropped
PutBack(t) == SelectSeq(Looked(t), LAMBDA p : p.time >= t.end)
AllButFirst(t) == Tail(buffer)                 \* variant: the fragment's packets stay
Rest(t) == SubSeq(buffer, LastIn(t) + 1, Len(buffer))

NoOffset(t) == t.time \div 3                   \* variant: the offset is forgotten
GlobalTime(t) == (t.time + Offset) \div 3

BuildFragment(t) ==
  /\ served' = Append(served, [timestamp |-> GlobalTime(t), trigger |-> t, packets |-> InWindow(t),
                               missed |-> {p \in packetsRead \ InWindow(t) : Within(t, p)}])
  /\ buffer' = PutBack(t) \o Rest(t)

NeverDue == FALSE                              \* variant: wrong comparison
Due == Last(buffer).time > Head(triggers).end + WriteDelay

Reading == Live /\ gpc = "running" /\ ~cmdStop /\ triggers # <<>>
GetNextRest == UNCHANGED <<software, caller, coincide, packetsRead, accepted, requests>>

\* getNext_() calls ReadEvents(), which has a fragment for it
GetNextFragment ==
  /\ Reading /\ buffer # <<>> /\ Due
  /\ BuildFragment(Head(triggers)) /\ triggers' = Tail(triggers)
  /\ GetNextRest /\ UNCHANGED tpc

\* back() of an empty buffer: when what it reads looks due, the fragment is built
\* from memory that is not the buffer's
GetNextEmpty ==
  /\ Reading /\ buffer = <<>> /\ tpc' = "terminated"
  /\ GetNextRest /\ UNCHANGED <<buffer, triggers, served>>

\* Stop(), which artdaq calls when getNext_() has seen the command
SignalStop ==
  /\ Live /\ gpc = "running" /\ cmdStop
  /\ gpc' = "joinRequests" /\ shouldStop' = TRUE
  /\ IF software THEN SignalReceiver ELSE UNCHANGED requests
  /\ Unread /\ UNCHANGED <<run, cmdStop, tpc>>

JoinRequests ==
  /\ Live /\ gpc = "joinRequests" /\ ReceiverJoined /\ gpc' = "joinReader"
  /\ Unread /\ UNCHANGED <<run, cmdStop, shouldStop, tpc, requests>>

\* ... then the board is purged; fTriggers and fPacketBuffer keep what they hold
JoinReader ==
  /\ gpc = "joinReader" /\ tpc = "ended" /\ gpc' = "stopped" /\ tpc' = "off"
  /\ Unread /\ UNCHANGED <<run, cmdStop, shouldStop, requests>>
-----------------------------------------------------------------------------
(* The read thread. *)

ReaderTests ==
  /\ tpc = "test" /\ tpc' = IF shouldStop THEN "ended" ELSE "read"
  /\ Unread /\ UNCHANGED <<caller, requests>>

NoData ==
  /\ tpc = "read" /\ tpc' = "test"
  /\ Unread /\ UNCHANGED <<caller, requests>>

\* a packet is not complete after ten seconds: the exception leaves the thread
Stall ==
  /\ tpc = "read" /\ tpc' = "terminated"
  /\ Unread /\ UNCHANGED <<caller, requests>>

\* what the board may send next, each channel in order
Packets == [time : PacketTimes, channel : Channels,
            trigger : IF software THEN {FALSE} ELSE BOOLEAN]
Sends(p) ==
  /\ Cardinality(packetsRead) < MaxPackets
  /\ \A q \in packetsRead : IF q.channel = p.channel THEN q.time < p.time
                                                  ELSE q.time <= p.time + Disorder

\* packets before this time are thrown away
FirstInteresting(ts, p) ==
  IF ts # <<>> THEN Head(ts).start - WriteDelay
               ELSE p.time - PreTrig - Latency - WriteDelay

Old(b, limit) == Min({Len(b)} \cup {i - 1 : i \in {i \in DOMAIN b : b[i].time >= limit}})

\* When all packets are popped, front() reads memory that is not the buffer's: the
\* loop ends there or runs on through it.
Cull(b, limit) ==
  /\ buffer' = SubSeq(b, Old(b, limit) + 1, Len(b))
  /\ tpc' \in IF buffer' = <<>> THEN {"test", "terminated"} ELSE {"test"}

Trigger(time, n, ts) ==
  [time |-> time, start |-> time - PreTrig, end |-> time + PostTrig, n |-> n, timestamp |-> ts,
   late |-> \E p \in packetsRead' : p.time > time + Latency + WriteDelay,
   ahead |-> \A p \in packetsRead' : p.time < time - PreTrig - WriteDelay]

Packet(p) ==
  /\ tpc = "read" /\ Sends(p)
  /\ packetsRead' = packetsRead \cup {p}
  /\ UNCHANGED <<software, caller, served>>

Queue(new, p) ==
  /\ triggers' = triggers \o new /\ accepted' = accepted \o new
  /\ Cull(Append(buffer, p), FirstInteresting(triggers', p))

\* with a request receiver, every request in its queue becomes a trigger
RequestedPacket(p) ==
  /\ software /\ Packet(p)
  /\ Queue([i \in DOMAIN reqQ |->
              Trigger(LocalTime(reqQ[i].timestamp), Len(accepted) + i, reqQ[i].timestamp)], p)
  /\ reqQ' = <<>> /\ UNCHANGED <<coincide, rqpc, rqStop, lastReq>>

\* the same trigger seen by another channel
Echo(p) == p.channel \notin seen /\ p.time < curTime + Coincidence

PlainPacket(p) ==
  /\ ~software /\ Packet(p) /\ (p.trigger => Echo(p))
  /\ Queue(<<>>, p)
  /\ seen' = IF p.trigger THEN seen \cup {p.channel} ELSE seen
  /\ UNCHANGED <<curTime, requests>>

Overlaps(p) == triggers # <<>> /\ p.time - PreTrig < Last(triggers).end
NewTrigger(p) ==
  /\ ~software /\ Packet(p) /\ p.trigger /\ ~Echo(p)
  /\ curTime' = p.time /\ seen' = {p.channel}
  /\ UNCHANGED requests

TriggerPacket(p) ==
  /\ NewTrigger(p) /\ ~Overlaps(p)
  /\ Queue(<<Trigger(p.time, Len(accepted) + 1, GlobalTime(p))>>, p)

\* a trigger that overlaps the previous one: the exception leaves the thread
OverlappingPacket(p) ==
  /\ NewTrigger(p) /\ Overlaps(p)
  /\ tpc' = "terminated" /\ buffer' = Append(buffer, p)
  /\ UNCHANGED <<triggers, accepted>>

Read == \E p \in Packets :
          RequestedPacket(p) \/ PlainPacket(p) \/ TriggerPacket(p) \/ OverlappingPacket(p)

RequestArrives == Live /\ Arrives /\ Unread /\ UNCHANGED <<caller, tpc>>
RequestsEnd == Live /\ Ends /\ Unread /\ UNCHANGED <<caller, tpc>>
-----------------------------------------------------------------------------
StopSteps == SignalStop \/ JoinRequests \/ JoinReader
SspNext == \/ Start \/ StartRequests \/ StopCommand \/ GetNextFragment \/ GetNextEmpty \/ StopSteps
           \/ ReaderTests \/ NoData \/ Stall \/ Read \/ RequestArrives \/ RequestsEnd

SspSpec == SspInit /\ [][SspNext]_sspVars

\* Every thread goes on with what it has begun, and the board's socket is polled.
\* Whether packets, requests or stops come is open.
SspFairSpec ==
  /\ SspSpec
  /\ WF_sspVars(StartRequests \/ GetNextFragment) /\ WF_sspVars(StopSteps)
  /\ WF_sspVars(ReaderTests \/ NoData) /\ WF_sspVars(RequestsEnd)
-----------------------------------------------------------------------------
(* Properties. *)

Gone == ~Live
TriggerOverlaps(t) == \E m \in 1..t.n - 1 : t.start < accepted[m].end

(* A fragment holds every packet of its window that had been read, unless   *)
(* its trigger came later than the latency allowed for, or overlaps an      *)
(* earlier one, whose fragment has taken packets: neither the culling, nor  *)
(* the fragments before it, nor packets out of order lose data of it.       *)
Complete ==
  \A f \in ToSet(served) : f.trigger.late \/ TriggerOverlaps(f.trigger) \/ f.missed = {}

(* No packet is in two fragments, nor in a fragment and still in the buffer. *)
TakenOnce ==
  \A i \in DOMAIN served :
    LET taken == served[i].packets IN
      /\ taken \cap ToSet(buffer) = {}
      /\ \A j \in 1..i - 1 : taken \cap served[j].packets = {}

(* Every packet of a window goes into its fragment, and into no other. *)
FragmentsExact == Complete /\ TakenOnce

(* The culling never empties the buffer, after which front() and back() read *)
(* outside it, unless a request came before the data of its window.          *)
CullStaysInside ==
  packetsRead # {} /\ buffer = <<>> => \E i \in DOMAIN accepted : accepted[i].ahead

(* The packets a fragment takes, those given back and those culled are told  *)
(* apart rightly: every packet of a window goes into its fragment and into   *)
(* no other, and the culling stops before the buffer is empty.               *)
PacketsRight == FragmentsExact /\ CullStaysInside

(* The accepted triggers are answered in order, each once and with its own *)
(* timestamp, whatever the offset between the clocks of the board and of the *)
(* timing system; those not yet answered wait, also from one run to the next. *)
AnsweredInOrder ==
  /\ Len(accepted) = Len(served) + Len(triggers)
  /\ \A i \in DOMAIN served : /\ served[i].trigger = accepted[i]
                               /\ served[i].timestamp = accepted[i].timestamp
  /\ \A i \in DOMAIN triggers : triggers[i] = accepted[Len(served) + i]

(* Triggers are served, or a stop comes, once the data have passed the window *)
(* of the first by more than their disorder.                                *)
PastWindow ==
  /\ triggers # <<>>
  /\ \E p \in packetsRead : p.time > Head(triggers).end + WriteDelay + Disorder
TriggersServed == PastWindow ~> ~PastWindow \/ Gone \/ cmdStop \/ gpc = "stopped"

(* A stop is carried out, unless the process has ended by itself. *)
StopEnds == cmdStop ~> Gone \/ gpc = "stopped"

(* Nobody waits for ever: a trigger whose window has passed is answered, and *)
(* a stop is carried out, unless the process has ended by itself.            *)
NobodyWaits == TriggersServed /\ StopEnds

(* "If trigger start is before end of previous trigger then fall over" says  *)
(* the read loop: two accepted triggers never overlap.                       *)
OverlapRefused == ~software => \A i \in DOMAIN accepted : ~TriggerOverlaps(accepted[i])
=============================================================================
