----------------------------- MODULE MuonFinder -----------------------------
(***************************************************************************)
(* The isolated muon finder. A thread takes the sorted sets of hits of     *)
(* several links, counts the channels hit in a window of time and queues   *)
(* the time of a window with enough of them; getNext_() makes a triggering *)
(* fragment of it unless it is too close to the one before. The thread's   *)
(* state is new in each run, the queue and the last time sent are not.     *)
(***************************************************************************)
EXTENDS Integers, Sequences, FiniteSets

CONSTANTS
  TSpan,         \* tspan_, length of a window
  HitThreshold,  \* hit_per_link_threshold_
  HoldOff,       \* trigger_holdoff_time_
  QueueSize,     \* times the queue holds
  Channels,      \* channels of the two APAs
  Beyond,        \* those past the end of has_hit, which has 5120 from 2560 on; APA 6 begins at 7680
  MaxTime,       \* times 0..MaxTime (bound)
  MaxSets,       \* sets that come (bound)
  MaxMuonRuns    \* runs (bound)

ASSUME MuonAssumption ==
  /\ {TSpan, HitThreshold, HoldOff, QueueSize, MaxTime, MaxSets, MaxMuonRuns} \subseteq Nat
  /\ IsFiniteSet(Channels) /\ Beyond \subseteq Channels

VARIABLES
  stoppingFlag,
  handler,          \* the thread and its locals
  timestampQueue,
  prevTimestamp,
  published,        \* the fragments' times
  arrived,          \* history: the sets the thread counted, with their run, till a hit strayed
  strayed           \* history: a hit was written past the end of has_hit

muonVars == <<stoppingFlag, handler, timestampQueue, prevTimestamp, published, arrived, strayed>>

TPSets == [tstart : 0..MaxTime, tps : SUBSET Channels, wall : BOOLEAN]

NewHandler(r) == [run |-> r, alive |-> TRUE, lastTstart |-> 0, hasHit |-> {}, nSources |-> 0,
                  maxNSources |-> 0]

MuonInit ==
  /\ stoppingFlag = FALSE /\ handler = [NewHandler(0) EXCEPT !.alive = FALSE]
  /\ timestampQueue = <<>> /\ prevTimestamp = 0 /\ published = <<>> /\ arrived = <<>>
  /\ strayed = FALSE
-----------------------------------------------------------------------------
StartRun ==
  /\ ~handler.alive /\ handler.run < MaxMuonRuns /\ stoppingFlag' = FALSE
  /\ handler' = NewHandler(handler.run + 1)
  /\ UNCHANGED <<timestampQueue, prevTimestamp, published, arrived, strayed>>

SetStopping ==
  /\ handler.alive /\ ~stoppingFlag /\ stoppingFlag' = TRUE
  /\ UNCHANGED <<handler, timestampQueue, prevTimestamp, published, arrived, strayed>>

JoinHandler ==
  /\ stoppingFlag /\ handler.alive /\ handler' = [handler EXCEPT !.alive = FALSE]
  /\ UNCHANGED <<stoppingFlag, timestampQueue, prevTimestamp, published, arrived, strayed>>

Larger(a, b) == IF a < b THEN b ELSE a

\* the window ended: is it a trigger? As many hits are asked for from each source as the
\* window with most sources had, this one included
Decided(h) ==
  LET most == Larger(h.nSources, h.maxNSources)
  IN  [trigger |-> Cardinality(h.hasHit) >= HitThreshold * most, maxNSources |-> most]

\* variant: the hits of the window before are counted again
KeepHits(h, s) == [h EXCEPT !.lastTstart = s.tstart, !.nSources = 0,
                            !.maxNSources = Decided(h).maxNSources]
NewWindow(h, s) == [KeepHits(h, s) EXCEPT !.hasHit = {}]

Strays(s) == s.tps \cap Beyond # {}

\* a hit past the end of has_hit is not counted, and may fall on the thread's other locals
Overwritten(h) == {[h EXCEPT !.hasHit = @ \ Beyond, !.lastTstart = t] : t \in 0..MaxTime}

\* a set: one of a link that looks at the wall is passed over, one past the end of the
\* window decides on it, any other is counted in it, late ones too (after a hit that strayed
\* sets are not followed further, a bound)
TPSetHandled ==
  /\ handler.alive /\ Len(arrived) < MaxSets /\ ~strayed
  /\ \E s \in TPSets :
       IF s.wall THEN UNCHANGED <<handler, timestampQueue, arrived, strayed>>
       ELSE LET over == s.tstart >= handler.lastTstart + TSpan
                h == IF over THEN NewWindow(handler, s) ELSE handler
                counted == [h EXCEPT !.nSources = @ + 1, !.hasHit = @ \cup s.tps]
            IN  /\ timestampQueue' =
                     IF over /\ Decided(handler).trigger /\ Len(timestampQueue) < QueueSize
                     THEN Append(timestampQueue, handler.lastTstart) ELSE timestampQueue
                /\ handler' \in IF Strays(s) THEN Overwritten(counted) ELSE {counted}
                /\ strayed' = (strayed \/ Strays(s))
                /\ arrived' = IF Strays(s) THEN arrived
                               ELSE Append(arrived, [run |-> handler.run, tstart |-> s.tstart,
                                                     tps |-> s.tps])
  /\ UNCHANGED <<stoppingFlag, prevTimestamp, published>>

\* what was overwritten may end the process
StrayKills ==
  /\ strayed /\ handler.alive /\ stoppingFlag' = TRUE
  /\ handler' = [handler EXCEPT !.alive = FALSE, !.run = MaxMuonRuns]
  /\ UNCHANGED <<timestampQueue, prevTimestamp, published, arrived, strayed>>

\* artdaq's thread takes the first time of the queue
MuonGetNext ==
  /\ ~stoppingFlag /\ timestampQueue # <<>> /\ timestampQueue' = Tail(timestampQueue)
  /\ LET t == Head(timestampQueue) IN
       IF t < prevTimestamp + HoldOff THEN UNCHANGED <<prevTimestamp, published>>
       ELSE prevTimestamp' = t /\ published' = Append(published, t)
  /\ UNCHANGED <<stoppingFlag, handler, arrived, strayed>>

MuonNext == \/ StartRun \/ SetStopping \/ JoinHandler \/ TPSetHandled \/ StrayKills
            \/ MuonGetNext

MuonSpec == MuonInit /\ [][MuonNext]_muonVars
-----------------------------------------------------------------------------
(* Properties. *)

\* the sets from i on were the window of a run: the set at i is its first, and the one at j
\* the first past its end
Window(i, j) ==
  /\ arrived[i].run = arrived[j].run /\ arrived[j].tstart >= arrived[i].tstart + TSpan
  /\ \A k \in i + 1 .. j - 1 : arrived[k].tstart < arrived[i].tstart + TSpan
HitsOf(i, j) == UNION {arrived[k].tps : k \in i .. j - 1}

(* With a hold-off, every trigger is a window of hits: the thread's first    *)
(* decision of a run, about a window at time zero that nobody filled, never  *)
(* gets past it. The window was complete and had, for each set in it, the    *)
(* channels the threshold asks for, none of them from the window before; and *)
(* triggers keep the hold-off from each other, from one run to the next too. *)
(* This is so until a hit is counted whose channel has no place in has_hit.  *)
TriggersAreWindows ==
  HoldOff > 0 /\ ~strayed =>
    /\ \A n \in 1..Len(published) : \E i \in 1..Len(arrived) : \E j \in i + 1 .. Len(arrived) :
         /\ arrived[i].tstart = published[n] /\ Window(i, j)
         /\ Cardinality(HitsOf(i, j)) >= HitThreshold * (j - i)
    /\ \A n \in 1 .. Len(published) - 1 : published[n + 1] >= published[n] + HoldOff
=============================================================================
