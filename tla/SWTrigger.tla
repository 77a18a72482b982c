------------------------------ MODULE SWTrigger ------------------------------
(***************************************************************************)
(* The software trigger: trigger decisions come from the network, wait in  *)
(* a queue, and are published as triggers when they are far enough from    *)
(* the trigger before and the InhibitMaster lets triggers flow. Threads:   *)
(* that of artdaq, which calls start(), getNext_() and stop() under one    *)
(* mutex, the handler that receives the decisions, the reader of the       *)
(* hardware time, and that of the metrics, which the constructor starts.   *)
(***************************************************************************)
EXTENDS InhibitGet

CONSTANTS
  HoldOff,       \* trigger_holdoff_time_
  Prescale,      \* prescale_, which a fake trigger obeys
  QueueSize,     \* decisions timestamp_queue_ holds: 99999
  Times,         \* times a decision may bear
  MaxDecisions,  \* decisions received (bound)
  MaxStarts      \* calls of start() (bound)

ASSUME SWTriggerAssumption ==
  /\ HoldOff \in Nat /\ Prescale \in Nat \ {0} /\ QueueSize \in Nat \ {0}
  /\ Times \subseteq Nat \ {0} /\ MaxDecisions \in Nat /\ MaxStarts \in Nat

VARIABLES
  faketrigger,     \* faketrigger_
  swpc,            \* artdaq thread: "idle", "running", "joinHandler", "joinMetrics",
                   \* "joinSubscriber", or "failed" (stop() has thrown)
  stopping_flag, throttling_state, n_recvd, prev_timestamp,
  timestamp_queue, \* decisions: [id, ts, run] (id and run: history)
  handler,         \* "none", "loop" (about to look at the flag), "receiving", "ended"
  metrics,         \* "running", "ended", "joined"
  subscriber,      \* "none", "running", "ended", "joined"
  swRun,           \* history: starts so far
  received,        \* history: decisions received
  granted,         \* history: what this run was told last, or took after waiting: "nothing",
                   \* "go", "inhibit"
  left,            \* history: decisions in the queue when the last stop ended
  published        \* history: the triggers published, in order

decisions == <<n_recvd, timestamp_queue, received>>
judgement == <<throttling_state, prev_timestamp, granted, published>>
swThreads == <<handler, metrics, subscriber>>
swFixed == <<faketrigger, stopping_flag, swRun, left>>
swVars == <<faketrigger, swpc, stopping_flag, throttling_state, n_recvd, prev_timestamp,
            timestamp_queue, handler, metrics, subscriber, swRun, received, granted, left,
            published, inq, connected, ignore, patience>>

SwInit ==
  /\ faketrigger \in BOOLEAN /\ swpc = "idle" /\ stopping_flag = FALSE
  /\ throttling_state = TRUE /\ n_recvd = 0 /\ prev_timestamp = 0 /\ timestamp_queue = <<>>
  /\ handler = "none" /\ metrics = "running" /\ subscriber = "none"
  /\ swRun = 0 /\ received = 0 /\ granted = "nothing" /\ left = {} /\ published = <<>>
  /\ InhibitInit
-----------------------------------------------------------------------------
(* The handler of decisions, and the threads that only watch for the stop. *)

HandlerLooks ==
  /\ handler = "loop" /\ handler' = IF stopping_flag THEN "ended" ELSE "receiving"
  /\ UNCHANGED <<swpc, swFixed, decisions, judgement, metrics, subscriber, inhibit>>

HandlerTimesOut ==
  /\ handler = "receiving" /\ handler' = "loop"
  /\ UNCHANGED <<swpc, swFixed, decisions, judgement, metrics, subscriber, inhibit>>

\* a full queue refuses the decision
Written(d) == IF Len(timestamp_queue) < QueueSize THEN Append(timestamp_queue, d)
                                                  ELSE timestamp_queue

\* a decision of time t, in whatever order they come
HandlerReceives(t) ==
  /\ handler = "receiving" /\ received < MaxDecisions
  /\ handler' = "loop" /\ received' = received + 1
  /\ IF faketrigger /\ n_recvd + 1 < Prescale
       THEN n_recvd' = n_recvd + 1 /\ UNCHANGED timestamp_queue
       ELSE n_recvd' = 0 /\ timestamp_queue' = Written([id |-> received', ts |-> t, run |-> swRun])
  /\ UNCHANGED <<swpc, swFixed, judgement, metrics, subscriber, inhibit>>

MetricsEnds ==
  /\ metrics = "running" /\ stopping_flag /\ metrics' = "ended"
  /\ UNCHANGED <<swpc, swFixed, decisions, judgement, handler, subscriber, inhibit>>

SubscriberEnds ==
  /\ subscriber = "running" /\ stopping_flag /\ subscriber' = "ended"
  /\ UNCHANGED <<swpc, swFixed, decisions, judgement, handler, metrics, inhibit>>
-----------------------------------------------------------------------------
(* The artdaq thread: start() and stop(). *)

StillReleased == throttling_state              \* variant: the last run's state is kept
Throttled == TRUE

\* the thread of the metrics is not started again, the queue not emptied
SwStart ==
  /\ swpc = "idle" /\ swRun < MaxStarts
  /\ swpc' = "running" /\ swRun' = swRun + 1 /\ stopping_flag' = FALSE
  /\ throttling_state' = Throttled /\ granted' = "nothing"
  /\ subscriber' = "running" /\ handler' = "loop"
  /\ InhibitConnect
  /\ UNCHANGED <<faketrigger, left, decisions, prev_timestamp, published, metrics>>

SwStop ==
  /\ swpc = "running" /\ swpc' = "joinHandler" /\ stopping_flag' = TRUE
  /\ UNCHANGED <<faketrigger, swRun, left, decisions, judgement, swThreads, inhibit>>

JoinHandler ==
  /\ swpc = "joinHandler" /\ handler = "ended" /\ handler' = "none" /\ swpc' = "joinMetrics"
  /\ UNCHANGED <<swFixed, decisions, judgement, metrics, subscriber, inhibit>>

\* a thread that was joined by an earlier stop cannot be joined: join() throws
JoinMetrics ==
  /\ swpc = "joinMetrics"
  /\ \/ metrics = "ended" /\ metrics' = "joined" /\ swpc' = "joinSubscriber"
     \/ metrics = "joined" /\ UNCHANGED metrics /\ swpc' = "failed"
  /\ UNCHANGED <<swFixed, decisions, judgement, handler, subscriber, inhibit>>

QueuedIds == {timestamp_queue[i].id : i \in DOMAIN timestamp_queue}

SwStopEnds ==
  /\ swpc = "joinSubscriber" /\ subscriber = "ended" /\ subscriber' = "joined"
  /\ swpc' = "idle" /\ left' = QueuedIds
  /\ UNCHANGED <<faketrigger, stopping_flag, swRun, decisions, judgement, handler, metrics,
                 inhibit>>
-----------------------------------------------------------------------------
(* getNext_(), which holds the mutex, so that no stop comes in between. *)

\* the hold-off counts from the last trigger, were it of an earlier run
TooClose(d) == d.ts < prev_timestamp + HoldOff

\* the front of the queue leaves it, published or not
HandleFront ==
  IF timestamp_queue = <<>> THEN UNCHANGED <<timestamp_queue, prev_timestamp, published>>
  ELSE LET d == Head(timestamp_queue) IN
    /\ timestamp_queue' = Tail(timestamp_queue)
    /\ IF TooClose(d) \/ throttling_state' THEN UNCHANGED <<prev_timestamp, published>>
       ELSE prev_timestamp' = d.ts /\ published' = Append(published, d)

\* InhibitGet_get() says go (its value 1), inhibit (2) or nothing (0)
GetNext(heard) ==
  /\ swpc = "running"
  /\ \/ heard = "go" /\ (GetMessage(TRUE) \/ GiveUp) /\ throttling_state' = FALSE
     \/ heard = "inhibit" /\ GetMessage(FALSE) /\ throttling_state' = TRUE
     \/ heard = "nothing" /\ NoUpdate /\ UNCHANGED throttling_state
  /\ granted' = IF heard = "nothing" THEN granted ELSE heard
  /\ HandleFront
  /\ UNCHANGED <<swpc, swFixed, n_recvd, received, swThreads, connected, patience>>
-----------------------------------------------------------------------------
\* the InhibitMaster (external) and the clock
MasterSays(on) ==
  /\ Publish([on |-> on, run |-> swRun])
  /\ UNCHANGED <<swpc, swFixed, decisions, judgement, swThreads>>

TimePasses ==
  /\ ClockPasses /\ UNCHANGED <<swpc, swFixed, decisions, judgement, swThreads>>

SwNext ==
  \/ HandlerLooks \/ HandlerTimesOut \/ (\E t \in Times : HandlerReceives(t))
  \/ MetricsEnds \/ SubscriberEnds
  \/ SwStart \/ SwStop \/ JoinHandler \/ JoinMetrics \/ SwStopEnds
  \/ (\E heard \in {"go", "inhibit", "nothing"} : GetNext(heard))
  \/ (\E on \in BOOLEAN : MasterSays(on)) \/ TimePasses

SwSpec == SwInit /\ [][SwNext]_swVars
-----------------------------------------------------------------------------
(* Properties. *)

Decision == [id : 1..MaxDecisions, ts : Times, run : 1..MaxStarts]

(* Every variable has a value the code can give it. *)
SwTypeOK ==
  /\ faketrigger \in BOOLEAN /\ stopping_flag \in BOOLEAN /\ throttling_state \in BOOLEAN
  /\ swpc \in {"idle", "running", "joinHandler", "joinMetrics", "joinSubscriber", "failed"}
  /\ n_recvd \in Nat /\ prev_timestamp \in Times \cup {0}
  /\ timestamp_queue \in Seq(Decision) /\ Len(timestamp_queue) <= QueueSize
  /\ handler \in {"none", "loop", "receiving", "ended"}
  /\ metrics \in {"running", "ended", "joined"}
  /\ subscriber \in {"none", "running", "ended", "joined"}
  /\ swRun \in 0..MaxStarts /\ (handler # "none" => swRun # 0) /\ received \in 0..MaxDecisions
  /\ granted \in {"nothing", "go", "inhibit"} /\ left \subseteq 1..MaxDecisions
  /\ published \in Seq(Decision)

(* A trigger is published only while the InhibitMaster, or the end of the  *)
(* wait for it, has let this run's triggers flow and not held them since;  *)
(* it is a decision received, never published before, after those that     *)
(* were and the hold-off away from each of them, those of earlier runs     *)
(* too; and when the decision is of an earlier run it is one that its stop *)
(* left in the queue (stop() does not empty it, start() neither).          *)
TriggersJustified ==
  [][published' # published =>
       \E t \in {published'[Len(published')]} :
         /\ swpc = "running" /\ granted' = "go"
         /\ \A i \in DOMAIN published : /\ published[i].id < t.id
                                        /\ published[i].ts + HoldOff <= t.ts
         /\ t.run # swRun => t.id \in left]_swVars
=============================================================================
