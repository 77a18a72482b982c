--------------------------- MODULE HandOvers_proofs ---------------------------
(***************************************************************************)
(* Proofs about the hand-overs between threads of run "hand_overs", for    *)
(* every value of their constants: the rounds of the worker threads, the   *)
(* decisions of the software trigger, the frames of the RCE reader and the *)
(* hits of the trigger primitive finder.                                   *)
(***************************************************************************)
EXTENDS WorkerRounds, SWTrigger, RssiReceiver, TPFinder, FiniteSetTheorems, SequenceTheorems, TLAPS
-----------------------------------------------------------------------------
(* The worker threads: WorkerRounds.tla. Types, the refinement of          *)
(* ThreadPool, and when a job can be refused.                              *)

\* What the flags of a thread say about its place in its loop: a thread is busy
\* exactly while it has a job to run, and ready outlives busy only in the window
\* between the two stores.
FlagsMatch(t) ==
  /\ pause[t] <=> t \notin taken \ done
  /\ ~pause[t] => ready[t]
  /\ pause[t] /\ ready[t] => wpc[t] = "clear" \/ t \in garbage
  /\ wpc[t] = "run" => ~pause[t]
  /\ wpc[t] = "clear" => pause[t] /\ ready[t]
  /\ t \in garbage => pause[t] /\ ready[t] /\ wpc[t] # "clear"

\* What the caller knows at each place of its loop.
CallerKnows ==
  /\ done \subseteq taken /\ todo \subseteq Threads /\ taken \subseteq Threads
  /\ cpc \notin {"offer", "busy"} => taken = {}
  /\ cpc = "offer" => taken \cap todo = {}

IInv == TypeOK /\ CallerKnows /\ \A t \in Threads : FlagsMatch(t)

\* The threads are born idle and the caller has begun nothing.
LEMMA InitIInv == Init => IInv
<1> SUFFICES ASSUME Init PROVE IInv
  OBVIOUS
<1>1. TypeOK
  BY RoundsAssumption, ThreadAssumption
  DEF Init, Born, TypeOK, RTTypes, CallerTypes
<1>2. CallerKnows
  BY DEF Init, CallerKnows
<1>3. \A t \in Threads : FlagsMatch(t)
  BY DEF Init, Born, FlagsMatch
<1>4. QED
  BY <1>1, <1>2, <1>3 DEF IInv

\* Every step keeps the types.
LEMMA TypesKept == TypeOK /\ [Next]_vars => TypeOK'
<1> SUFFICES ASSUME TypeOK, [Next]_vars PROVE TypeOK'
  OBVIOUS
<1> USE DEF TypeOK, RTTypes, CallerTypes
<1>1. CASE BeginRound
  BY <1>1, RoundsAssumption DEF BeginRound, rtVars, histories
<1>2. ASSUME NEW t \in Threads, Offer(t) PROVE TypeOK'
  <2>1. CASE Accepts(t)
    <3>1. Notified(t) \in [Threads -> {"test", "run", "clear", "enter", "wait", "exit"}]
      BY DEF Notified
    <3>2. RTTypes'
      BY <1>2, <2>1, <3>1 DEF Offer, SetWork
    <3>3. CallerTypes'
      BY <1>2, <2>1 DEF Offer
    <3>4. QED
      BY <3>2, <3>3
  <2>2. CASE ~Accepts(t)
    BY <1>2, <2>2 DEF Offer, SetWork, rtVars
  <2>3. QED
    BY <2>1, <2>2
<1>3. CASE EndRound
  BY <1>3 DEF EndRound, rtVars
<1>4. CASE Destroy
  BY <1>4 DEF Destroy, rtVars, histories
<1>5. ASSUME NEW t \in Threads, QuitOne(t) PROVE TypeOK'
  BY <1>5 DEF QuitOne, Quit, Notified
<1>6. CASE JoinOne
  BY <1>6 DEF JoinOne, rtVars, histories
<1>7. ASSUME NEW t \in Threads, Worker(t) PROVE TypeOK'
  <2>1. CASE Test(t) /\ Silent /\ UNCHANGED lost
    BY <2>1 DEF Test, Goto, Silent, callerVars
  <2>2. CASE Wait(t) /\ Silent /\ UNCHANGED lost
    BY <2>2 DEF Wait, Goto, Silent, callerVars
  <2>3. CASE ClearReady(t) /\ Silent /\ UNCHANGED lost
    BY <2>3 DEF ClearReady, Goto, Silent, callerVars
  <2>4. CASE FinishWork(t) /\ done' = done \cup {t} /\ UNCHANGED <<callerVars, taken, lost, garbage>>
    BY <2>4 DEF FinishWork, Goto, callerVars
  <2>5. QED
    BY <1>7, <2>1, <2>2, <2>3, <2>4 DEF Worker
<1>8. ASSUME NEW t \in Threads, WakeUp(t) PROVE TypeOK'
  BY <1>8 DEF WakeUp, SpuriousWakeup, Goto, Silent, callerVars
<1>9. CASE UNCHANGED vars
  BY <1>9 DEF vars
<1>10. QED
  BY <1>1, <1>2, <1>3, <1>4, <1>5, <1>6, <1>7, <1>8, <1>9 DEF Next, Caller

\* Every step keeps what the caller knows and what the flags say.
LEMMA FactsKept ==
  IInv /\ [Next]_vars => CallerKnows' /\ \A t \in Threads : FlagsMatch(t)'
<1> SUFFICES ASSUME IInv, [Next]_vars
             PROVE  CallerKnows' /\ \A t \in Threads : FlagsMatch(t)'
  OBVIOUS
<1> USE DEF IInv, TypeOK, RTTypes, CallerTypes, CallerKnows, FlagsMatch
<1>1. CASE BeginRound
  BY <1>1 DEF BeginRound, rtVars, histories
<1>2. ASSUME NEW t \in Threads, Offer(t)
      PROVE  CallerKnows' /\ \A u \in Threads : FlagsMatch(u)'
  <2>1. CASE Accepts(t)
    <3>1. CallerKnows'
      BY <1>2, <2>1 DEF Offer
    <3>2. ASSUME NEW u \in Threads PROVE FlagsMatch(u)'
      <4>1. wpc' = Notified(t) /\ (wpc[u] # wpc'[u] => wpc'[u] = "test")
        BY <1>2, <2>1 DEF Offer, SetWork, Notified
      <4>2. CASE u = t
        <5>1. pause'[t] = FALSE /\ ready'[t] = TRUE /\ t \in taken' \ done'
          BY <1>2, <2>1 DEF Offer, SetWork
        <5>2. ~ready[t] /\ pause[t]
          BY <2>1 DEF Accepts
        <5>3. t \notin garbage' /\ wpc[t] # "clear"
          BY <1>2, <5>2 DEF Offer
        <5>4. QED
          BY <4>1, <4>2, <5>1, <5>3
      <4>3. CASE u # t
        <5>1. pause'[u] = pause[u] /\ ready'[u] = ready[u]
          BY <1>2, <2>1, <4>3 DEF Offer, SetWork
        <5>2. (u \in taken' <=> u \in taken) /\ done' = done /\ garbage' = garbage
          BY <1>2, <2>1, <4>3 DEF Offer
        <5>3. wpc'[u] = wpc[u]
          BY <1>2, <2>1, <4>3 DEF Offer, SetWork, Notified
        <5>4. QED
          BY <5>1, <5>2, <5>3
      <4>4. QED
        BY <4>2, <4>3
    <3>3. QED
      BY <3>1, <3>2
  <2>2. CASE ~Accepts(t)
    BY <1>2, <2>2 DEF Offer, SetWork, rtVars
  <2>3. QED
    BY <2>1, <2>2
<1>3. CASE EndRound
  <2>1. taken \subseteq done
    BY <1>3 DEF EndRound, NotBusy, Readiness
  <2>2. QED
    BY <1>3, <2>1 DEF EndRound, rtVars
<1>4. CASE Destroy
  BY <1>4 DEF Destroy, rtVars, histories
<1>5. ASSUME NEW t \in Threads, QuitOne(t)
      PROVE  CallerKnows' /\ \A u \in Threads : FlagsMatch(u)'
  BY <1>5 DEF QuitOne, Quit, Notified
<1>6. CASE JoinOne
  BY <1>6 DEF JoinOne, rtVars, histories
<1>7. ASSUME NEW t \in Threads, Worker(t)
      PROVE  CallerKnows' /\ \A u \in Threads : FlagsMatch(u)'
  <2>1. CASE Test(t) /\ Silent /\ UNCHANGED lost
    BY <2>1 DEF Test, Goto, Silent, callerVars
  <2>2. CASE Wait(t) /\ Silent /\ UNCHANGED lost
    BY <2>2 DEF Wait, Goto, Silent, callerVars
  <2>3. CASE ClearReady(t) /\ Silent /\ UNCHANGED lost
    BY <2>3 DEF ClearReady, Goto, Silent, callerVars
  <2>4. CASE FinishWork(t) /\ done' = done \cup {t} /\ UNCHANGED <<callerVars, taken, lost, garbage>>
    <3>1. t \in taken \ done
      BY <2>4 DEF FinishWork, Goto
    <3>2. CallerKnows'
      BY <2>4, <3>1 DEF callerVars
    <3>3. ASSUME NEW u \in Threads PROVE FlagsMatch(u)'
      <4>1. CASE u = t
        <5>1. pause'[t] = TRUE /\ ready'[t] = ready[t] /\ wpc'[t] = "clear" /\ t \in done'
          BY <2>4 DEF FinishWork, Goto
        <5>2. ~pause[t] /\ ready[t]
          BY <2>4 DEF FinishWork, Goto
        <5>3. t \notin garbage /\ garbage' = garbage
          BY <2>4, <5>2
        <5>4. QED
          BY <4>1, <5>1, <5>2, <5>3
      <4>2. CASE u # t
        <5>1. pause'[u] = pause[u] /\ ready'[u] = ready[u] /\ wpc'[u] = wpc[u]
          BY <2>4, <4>2 DEF FinishWork, Goto
        <5>2. (u \in done' <=> u \in done) /\ taken' = taken /\ garbage' = garbage
          BY <2>4, <4>2
        <5>3. QED
          BY <5>1, <5>2
      <4>3. QED
        BY <4>1, <4>2
    <3>4. QED
      BY <3>2, <3>3
  <2>5. QED
    BY <1>7, <2>1, <2>2, <2>3, <2>4 DEF Worker
<1>8. ASSUME NEW t \in Threads, WakeUp(t)
      PROVE  CallerKnows' /\ \A u \in Threads : FlagsMatch(u)'
  BY <1>8 DEF WakeUp, SpuriousWakeup, Goto, Silent, callerVars
<1>9. CASE UNCHANGED vars
  BY <1>9 DEF vars
<1>10. QED
  BY <1>1, <1>2, <1>3, <1>4, <1>5, <1>6, <1>7, <1>8, <1>9 DEF Next, Caller

\* IInv is inductive.
THEOREM Invariance == Spec => []IInv
<1>1. IInv /\ [Next]_vars => IInv'
  BY TypesKept, FactsKept DEF IInv
<1>2. QED
  BY InitIInv, <1>1, PTL DEF Spec

(* The flags, the program counters and the sets of the histories keep their *)
(* types, for every set of threads.                                         *)
THEOREM TypeCorrect == Spec => []TypeOK
<1>1. IInv => TypeOK
  BY DEF IInv
<1>2. QED
  BY Invariance, <1>1, PTL

(* set_work() of a thread born with a clear flag refuses only between the   *)
(* two stores by which thread_worker() ends the job before.                 *)
THEOREM Refusals == Spec => RefusedOnlyWhileClearing
<1>1. IInv /\ [Next]_vars
        => [\A t \in Threads : Offer(t) /\ ~Accepts(t) => wpc[t] = "clear" \/ t \in garbage]_vars
  <2> SUFFICES ASSUME IInv, NEW t \in Threads, Offer(t), ~Accepts(t)
               PROVE  wpc[t] = "clear" \/ t \in garbage
    OBVIOUS
  <2>1. cpc = "offer" /\ t \in todo
    BY DEF Offer
  <2>2. t \notin taken
    BY <2>1 DEF IInv, CallerKnows
  <2>3. pause[t] /\ (pause[t] /\ ready[t] => wpc[t] = "clear" \/ t \in garbage)
    BY <2>2 DEF IInv, FlagsMatch
  <2>4. QED
    BY <2>3 DEF Accepts
<1>2. QED
  BY Invariance, <1>1, PTL DEF Spec, RefusedOnlyWhileClearing

(* The rounds of triggerWorkers() implement ThreadPool: each job accepted   *)
(* by set_work() is run once, and before busy() lets the caller go on.      *)
THEOREM Refinement == Spec => ImplementsThreadPool
<1>1. Init => Pool!Init
  BY DEF Init, Pool!Init
<1>2. IInv /\ [Next]_vars => [Pool!Next]_<<taken, done>>
  <2> SUFFICES ASSUME IInv, [Next]_vars PROVE [Pool!Next]_<<taken, done>>
    OBVIOUS
  <2>1. ASSUME NEW t \in Threads, Offer(t) PROVE [Pool!Next]_<<taken, done>>
    <3>1. t \in todo /\ cpc = "offer" /\ done' = done
      BY <2>1 DEF Offer
    <3>2. t \notin taken
      BY <3>1 DEF IInv, CallerKnows
    <3>3. taken' = taken \cup {t} \/ taken' = taken
      BY <2>1 DEF Offer
    <3>4. QED
      BY <3>1, <3>2, <3>3 DEF Pool!Next, Pool!Take
  <2>2. CASE EndRound
    <3>1. taken = done
      BY <2>2 DEF EndRound, NotBusy, Readiness, IInv, CallerKnows, FlagsMatch
    <3>2. QED
      BY <2>2, <3>1 DEF EndRound, Pool!Next, Pool!EndRound
  <2>3. ASSUME NEW t \in Threads, Worker(t) PROVE [Pool!Next]_<<taken, done>>
    <3>1. CASE FinishWork(t) /\ done' = done \cup {t} /\ UNCHANGED <<callerVars, taken, lost, garbage>>
      <4>1. t \in taken \ done
        BY <3>1 DEF FinishWork, Goto, IInv, FlagsMatch
      <4>2. QED
        BY <3>1, <4>1 DEF Pool!Next, Pool!Run
    <3>2. CASE Silent
      BY <3>2 DEF Silent
    <3>3. QED
      BY <2>3, <3>1, <3>2 DEF Worker
  <2>4. ASSUME NEW t \in Threads, QuitOne(t) \/ WakeUp(t) PROVE [Pool!Next]_<<taken, done>>
    BY <2>4 DEF QuitOne, WakeUp, Silent
  <2>5. CASE BeginRound \/ Destroy \/ JoinOne
    BY <2>5 DEF BeginRound, Destroy, JoinOne, histories
  <2>6. CASE UNCHANGED vars
    BY <2>6 DEF vars
  <2>7. QED
    BY <2>1, <2>2, <2>3, <2>4, <2>5, <2>6 DEF Next, Caller
<1>3. QED
  BY Invariance, <1>1, <1>2, PTL DEF Spec, ImplementsThreadPool, Pool!Spec
-----------------------------------------------------------------------------
(* The software trigger: SWTrigger.tla. Justify relates the queue to what  *)
(* was published and to what the last stop left.                           *)

LEMMA AppendIs ==
  ASSUME NEW S, NEW q \in Seq(S), NEW e \in S
  PROVE  /\ DOMAIN q = 1..Len(q) /\ DOMAIN Append(q, e) = 1..Len(q) + 1 /\ Len(q) \in Nat
         /\ Append(q, e) \in Seq(S) /\ Len(Append(q, e)) = Len(q) + 1
         /\ \A i \in 1..Len(q) : Append(q, e)[i] = q[i]
         /\ Append(q, e)[Len(q) + 1] = e
BY AppendProperties

LEMMA TailIs ==
  ASSUME NEW S, NEW q \in Seq(S), q # <<>>
  PROVE  /\ DOMAIN q = 1..Len(q) /\ DOMAIN Tail(q) = 1..Len(q) - 1 /\ Len(q) \in Nat \ {0}
         /\ Tail(q) \in Seq(S) /\ Len(Tail(q)) = Len(q) - 1
         /\ \A i \in 1..Len(q) - 1 : Tail(q)[i] = q[i + 1]
         /\ Head(q) = q[1] /\ Head(q) \in S
BY HeadTailProperties
-----------------------------------------------------------------------------
(* Types. *)

LEMMA SwInitTypes == SwInit => SwTypeOK
<1>1. <<>> \in Seq(Decision) /\ Len(<<>>) = 0 /\ 0 <= QueueSize
  BY EmptySeq, SWTriggerAssumption
<1>2. 0 \in 0..MaxStarts /\ 0 \in 0..MaxDecisions /\ 0 \in Nat /\ 0 \in Times \cup {0}
  BY SWTriggerAssumption
<1>. QED BY <1>1, <1>2 DEF SwInit, SwTypeOK

\* what a decision received does to the queue
LEMMA Receives ==
  ASSUME SwTypeOK, NEW t \in Times, HandlerReceives(t)
  PROVE  /\ received \in Nat /\ received' = received + 1 /\ received' \in 0..MaxDecisions
         /\ n_recvd' \in Nat
         /\ \/ timestamp_queue' = timestamp_queue
            \/ \E d \in Decision : /\ d.id = received + 1 /\ d.run = swRun
                                   /\ timestamp_queue' = Append(timestamp_queue, d)
                                   /\ Len(timestamp_queue) < QueueSize
<1>t. /\ received \in 0..MaxDecisions /\ n_recvd \in Nat /\ swRun \in 0..MaxStarts
      /\ handler # "none" => swRun # 0
  BY DEF SwTypeOK
<1>1. received < MaxDecisions /\ received' = received + 1
  BY DEF HandlerReceives
<1>2. received \in Nat /\ received' \in 1..MaxDecisions /\ received' \in 0..MaxDecisions
  BY <1>t, <1>1, SWTriggerAssumption
<1>3. n_recvd' = n_recvd + 1 \/ n_recvd' = 0
  BY DEF HandlerReceives
<1>4. n_recvd' \in Nat
  BY <1>t, <1>3
<1>5. swRun \in 1..MaxStarts
  BY <1>t, SWTriggerAssumption DEF HandlerReceives
<1>6. [id |-> received', ts |-> t, run |-> swRun] \in Decision
  BY <1>2, <1>5 DEF Decision
<1>7. \/ timestamp_queue' = timestamp_queue
      \/ /\ timestamp_queue' = Append(timestamp_queue, [id |-> received', ts |-> t, run |-> swRun])
         /\ Len(timestamp_queue) < QueueSize
  BY DEF HandlerReceives, Written
<1>. QED BY <1>1, <1>2, <1>4, <1>6, <1>7

\* what a call of getNext_() does to the queue and the triggers
LEMMA Handles ==
  ASSUME SwTypeOK, HandleFront
  PROVE  \/ UNCHANGED <<timestamp_queue, prev_timestamp, published>>
         \/ /\ timestamp_queue # <<>> /\ timestamp_queue' = Tail(timestamp_queue)
            /\ UNCHANGED <<prev_timestamp, published>>
         \/ \E d \in Decision :
              /\ timestamp_queue # <<>> /\ timestamp_queue' = Tail(timestamp_queue)
              /\ d = Head(timestamp_queue) /\ ~(d.ts < prev_timestamp + HoldOff)
              /\ ~throttling_state'
              /\ prev_timestamp' = d.ts /\ published' = Append(published, d)
<1>1. CASE timestamp_queue = <<>>
  BY <1>1 DEF HandleFront
<1>2. CASE timestamp_queue # <<>>
  <2>1. Head(timestamp_queue) \in Decision
    BY <1>2, TailIs DEF SwTypeOK
  <2>. QED BY <1>2, <2>1 DEF HandleFront, TooClose
<1>. QED BY <1>1, <1>2

LEMMA SwStepTypes == SwTypeOK /\ [SwNext]_swVars => SwTypeOK'
<1>. SUFFICES ASSUME SwTypeOK, [SwNext]_swVars PROVE SwTypeOK'
  OBVIOUS
<1>t. timestamp_queue \in Seq(Decision) /\ published \in Seq(Decision) /\ Len(timestamp_queue) <= QueueSize
  BY DEF SwTypeOK
<1>1. CASE HandlerLooks
  BY <1>1 DEF HandlerLooks, SwTypeOK, swFixed, decisions, judgement
<1>2. CASE HandlerTimesOut
  BY <1>2 DEF HandlerTimesOut, SwTypeOK, swFixed, decisions, judgement
<1>3. ASSUME NEW t \in Times, HandlerReceives(t) PROVE SwTypeOK'
  <2>1. received' \in 0..MaxDecisions /\ n_recvd' \in Nat
    BY <1>3, Receives
  <2>2. timestamp_queue' \in Seq(Decision) /\ Len(timestamp_queue') <= QueueSize
    <3>1. CASE timestamp_queue' = timestamp_queue
      BY <3>1, <1>t
    <3>2. ASSUME NEW d \in Decision, timestamp_queue' = Append(timestamp_queue, d),
                 Len(timestamp_queue) < QueueSize
          PROVE  timestamp_queue' \in Seq(Decision) /\ Len(timestamp_queue') <= QueueSize
      BY <3>2, <1>t, AppendIs, SWTriggerAssumption
    <3>. QED BY <1>3, <3>1, <3>2, Receives
  <2>3. UNCHANGED <<swpc, swFixed, judgement, metrics, subscriber>> /\ handler = "receiving" /\ handler' = "loop"
    BY <1>3 DEF HandlerReceives
  <2>. QED BY <2>1, <2>2, <2>3 DEF SwTypeOK, swFixed, judgement
<1>4. CASE MetricsEnds
  BY <1>4 DEF MetricsEnds, SwTypeOK, swFixed, decisions, judgement
<1>5. CASE SubscriberEnds
  BY <1>5 DEF SubscriberEnds, SwTypeOK, swFixed, decisions, judgement
<1>6. CASE SwStart
  <2>1. swRun' \in 0..MaxStarts /\ swRun' # 0
    BY <1>6, SWTriggerAssumption DEF SwStart, SwTypeOK
  <2>. QED BY <1>6, <2>1 DEF SwStart, SwTypeOK, decisions, Throttled
<1>7. CASE SwStop
  BY <1>7 DEF SwStop, SwTypeOK, decisions, judgement, swThreads
<1>8. CASE JoinHandler
  BY <1>8 DEF JoinHandler, SwTypeOK, swFixed, decisions, judgement
<1>9. CASE JoinMetrics
  BY <1>9 DEF JoinMetrics, SwTypeOK, swFixed, decisions, judgement
<1>10. CASE SwStopEnds
  <2>1. QueuedIds \subseteq 1..MaxDecisions
    <3>. SUFFICES ASSUME NEW i \in DOMAIN timestamp_queue PROVE timestamp_queue[i].id \in 1..MaxDecisions
      BY DEF QueuedIds
    <3>1. timestamp_queue[i] \in Decision
      BY <1>t, ElementOfSeq
    <3>. QED BY <3>1 DEF Decision
  <2>. QED BY <1>10, <2>1 DEF SwStopEnds, SwTypeOK, decisions, judgement
<1>11. ASSUME NEW heard \in {"go", "inhibit", "nothing"}, GetNext(heard) PROVE SwTypeOK'
  <2>1. /\ timestamp_queue' \in Seq(Decision) /\ Len(timestamp_queue') <= QueueSize
        /\ prev_timestamp' \in Times \cup {0} /\ published' \in Seq(Decision)
    <3>0. HandleFront /\ prev_timestamp \in Times \cup {0}
      BY <1>11 DEF GetNext, SwTypeOK
    <3>1. CASE UNCHANGED <<timestamp_queue, prev_timestamp, published>>
      BY <3>0, <3>1, <1>t
    <3>2. ASSUME timestamp_queue # <<>>, timestamp_queue' = Tail(timestamp_queue)
          PROVE  timestamp_queue' \in Seq(Decision) /\ Len(timestamp_queue') <= QueueSize
      BY <3>2, <1>t, TailIs, SWTriggerAssumption
    <3>3. ASSUME NEW d \in Decision, published' = Append(published, d), prev_timestamp' = d.ts
          PROVE  prev_timestamp' \in Times \cup {0} /\ published' \in Seq(Decision)
      BY <3>3, <1>t, AppendIs DEF Decision
    <3>. QED BY <3>0, <3>1, <3>2, <3>3, <1>t, Handles
  <2>2. throttling_state' \in BOOLEAN /\ granted' \in {"nothing", "go", "inhibit"}
    BY <1>11 DEF GetNext, SwTypeOK
  <2>3. UNCHANGED <<swpc, swFixed, n_recvd, received, swThreads>>
    BY <1>11 DEF GetNext
  <2>. QED BY <2>1, <2>2, <2>3 DEF SwTypeOK, swFixed, swThreads
<1>12. ASSUME NEW on \in BOOLEAN, MasterSays(on) PROVE SwTypeOK'
  BY <1>12 DEF MasterSays, SwTypeOK, swFixed, decisions, judgement, swThreads
<1>13. CASE TimePasses
  BY <1>13 DEF TimePasses, SwTypeOK, swFixed, decisions, judgement, swThreads
<1>14. CASE UNCHANGED swVars
  BY <1>14 DEF swVars, SwTypeOK
<1>. QED
  BY <1>1, <1>2, <1>3, <1>4, <1>5, <1>6, <1>7, <1>8, <1>9, <1>10, <1>11, <1>12, <1>13, <1>14
  DEF SwNext

(* Every variable of the software trigger has a value the code can give it. *)
THEOREM SwTypeCorrect == SwSpec => []SwTypeOK
<1>. QED BY SwInitTypes, SwStepTypes, PTL DEF SwSpec
-----------------------------------------------------------------------------
(* What a published trigger rests on: decisions wait in the order in which *)
(* they came, all after those published; nothing published is later than   *)
(* the last trigger; triggers flow only when this run was told so; and a   *)
(* decision of an earlier run was there when the last stop ended, since no *)
(* handler runs from then on until the next start.                         *)

Ascending == \A i, j \in DOMAIN timestamp_queue : i < j => timestamp_queue[i].id < timestamp_queue[j].id
Waiting == \A i \in DOMAIN timestamp_queue : timestamp_queue[i].id <= received
Before == \A i \in DOMAIN published :
            /\ published[i].id <= received /\ published[i].ts <= prev_timestamp
            /\ \A j \in DOMAIN timestamp_queue : published[i].id < timestamp_queue[j].id
Released == throttling_state \/ granted = "go"
NoHandler == swpc \in {"idle", "joinMetrics", "joinSubscriber", "failed"} => handler = "none"
LeftOver == \A i \in DOMAIN timestamp_queue :
              /\ timestamp_queue[i].run # swRun => timestamp_queue[i].id \in left
              /\ swpc = "idle" => timestamp_queue[i].id \in left

Justify == SwTypeOK /\ Ascending /\ Waiting /\ Before /\ Released /\ NoHandler /\ LeftOver

LEMMA InitJustify == SwInit => Justify
<1>. SUFFICES ASSUME SwInit PROVE Justify
  OBVIOUS
<1>1. DOMAIN timestamp_queue = {} /\ DOMAIN published = {}
  BY EmptySeq DEF SwInit
<1>2. throttling_state /\ handler = "none"
  BY DEF SwInit
<1>. QED
  BY <1>1, <1>2, SwInitTypes DEF Justify, Ascending, Waiting, Before, Released, NoHandler, LeftOver

\* the facts about the data that the steps need
LEMMA Facts ==
  ASSUME SwTypeOK
  PROVE  /\ timestamp_queue \in Seq(Decision) /\ published \in Seq(Decision)
         /\ DOMAIN timestamp_queue = 1..Len(timestamp_queue) /\ Len(timestamp_queue) \in Nat
         /\ DOMAIN published = 1..Len(published) /\ Len(published) \in Nat
         /\ \A i \in DOMAIN timestamp_queue : timestamp_queue[i] \in Decision
         /\ \A i \in DOMAIN published : published[i] \in Decision
         /\ \A d \in Decision : d.id \in Nat /\ d.ts \in Nat
         /\ prev_timestamp \in Nat /\ received \in Nat /\ HoldOff \in Nat
<1>1. timestamp_queue \in Seq(Decision) /\ published \in Seq(Decision)
  BY DEF SwTypeOK
<1>2. ASSUME NEW d \in Decision PROVE d.id \in Nat /\ d.ts \in Nat
  <2>1. d.id \in 1..MaxDecisions /\ d.ts \in Times
    BY DEF Decision
  <2>2. Times \subseteq Nat /\ MaxDecisions \in Nat
    BY SWTriggerAssumption
  <2>3. d.ts \in Nat
    BY <2>1, <2>2
  <2>4. d.id \in Nat
    BY <2>1, <2>2
  <2>. QED BY <2>3, <2>4
<1>3. prev_timestamp \in Nat /\ received \in Nat /\ HoldOff \in Nat
  BY SWTriggerAssumption DEF SwTypeOK
<1>. QED BY <1>1, <1>2, <1>3, ElementOfSeq, LenProperties

\* a decision leaves the queue: nothing is said of it any more
LEMMA TailKeeps ==
  ASSUME Justify, timestamp_queue # <<>>, timestamp_queue' = Tail(timestamp_queue),
         UNCHANGED <<swpc, swRun, left, received>>
  PROVE  Ascending' /\ Waiting' /\ LeftOver'
<1>t. timestamp_queue \in Seq(Decision) /\ DOMAIN timestamp_queue = 1..Len(timestamp_queue)
      /\ Len(timestamp_queue) \in Nat
  BY Facts DEF Justify
<1>1. /\ DOMAIN timestamp_queue' = 1..Len(timestamp_queue) - 1
      /\ \A i \in DOMAIN timestamp_queue' : timestamp_queue'[i] = timestamp_queue[i + 1]
  BY <1>t, TailIs
<1>2. \A i \in DOMAIN timestamp_queue' : i \in Int /\ i + 1 \in DOMAIN timestamp_queue
  BY <1>t, <1>1
<1>3. Ascending'
  <2>. SUFFICES ASSUME NEW i \in DOMAIN timestamp_queue', NEW j \in DOMAIN timestamp_queue', i < j
                PROVE  timestamp_queue'[i].id < timestamp_queue'[j].id
    BY DEF Ascending
  <2>1. i + 1 < j + 1
    BY <1>2
  <2>. QED BY <1>1, <1>2, <2>1 DEF Justify, Ascending
<1>4. Waiting'
  BY <1>1, <1>2 DEF Justify, Waiting
<1>5. LeftOver'
  BY <1>1, <1>2 DEF Justify, LeftOver
<1>. QED BY <1>3, <1>4, <1>5

\* a trigger is published: it was the first of the queue
LEMMA PublishKeeps ==
  ASSUME Justify, timestamp_queue # <<>>, timestamp_queue' = Tail(timestamp_queue),
         NEW d \in Decision, d = Head(timestamp_queue), ~(d.ts < prev_timestamp + HoldOff),
         prev_timestamp' = d.ts, published' = Append(published, d), received' = received
  PROVE  /\ Before'
         /\ \A i \in DOMAIN published : /\ published[i].id < d.id
                                        /\ published[i].ts + HoldOff <= d.ts
         /\ published'[Len(published')] = d
<1>t. /\ timestamp_queue \in Seq(Decision) /\ DOMAIN timestamp_queue = 1..Len(timestamp_queue)
      /\ Len(timestamp_queue) \in Nat /\ Len(timestamp_queue) # 0 /\ d = timestamp_queue[1]
      /\ 1 \in DOMAIN timestamp_queue
  BY Facts, TailIs DEF Justify
<1>u. /\ \A i \in DOMAIN published : published[i].id \in Nat /\ published[i].ts \in Nat
      /\ d.id \in Nat /\ d.ts \in Nat /\ prev_timestamp \in Nat /\ HoldOff \in Nat /\ received \in Nat
  BY Facts DEF Justify
<1>1. /\ DOMAIN timestamp_queue' = 1..Len(timestamp_queue) - 1
      /\ \A i \in DOMAIN timestamp_queue' : timestamp_queue'[i] = timestamp_queue[i + 1]
  BY <1>t, TailIs
<1>2. /\ DOMAIN published = 1..Len(published) /\ Len(published) \in Nat
      /\ DOMAIN published' = 1..Len(published) + 1 /\ Len(published') = Len(published) + 1
      /\ \A i \in 1..Len(published) : published'[i] = published[i]
      /\ published'[Len(published) + 1] = d
  BY Facts, AppendIs DEF Justify
<1>3. \A i \in DOMAIN published : /\ published[i].id < d.id /\ published[i].ts <= prev_timestamp
                                 /\ published[i].id <= received
  BY <1>t DEF Justify, Before
<1>4. \A i \in DOMAIN published : published[i].ts + HoldOff <= d.ts /\ published[i].ts <= d.ts
  BY <1>3, <1>u
<1>5. \A j \in DOMAIN timestamp_queue' : j + 1 \in DOMAIN timestamp_queue /\ 1 < j + 1
  BY <1>t, <1>1
<1>6. \A j \in DOMAIN timestamp_queue' : d.id < timestamp_queue'[j].id
  BY <1>t, <1>1, <1>5 DEF Justify, Ascending
<1>7. \A j \in DOMAIN timestamp_queue' : timestamp_queue'[j].id \in Nat
  BY <1>1, <1>5, Facts DEF Justify
<1>8. d.id <= received
  BY <1>t DEF Justify, Waiting
<1>9. ASSUME NEW i \in DOMAIN published'
      PROVE  /\ published'[i].id <= received' /\ published'[i].ts <= prev_timestamp'
             /\ \A j \in DOMAIN timestamp_queue' : published'[i].id < timestamp_queue'[j].id
  <2>1. CASE i \in DOMAIN published
    <3>1. published'[i] = published[i]
      BY <2>1, <1>2
    <3>2. \A j \in DOMAIN timestamp_queue' : published[i].id < timestamp_queue'[j].id
      BY <2>1, <1>3, <1>6, <1>7, <1>u
    <3>. QED BY <2>1, <3>1, <3>2, <1>3, <1>4
  <2>2. CASE i = Len(published) + 1
    BY <2>2, <1>2, <1>6, <1>8, <1>u
  <2>. QED BY <2>1, <2>2, <1>2
<1>. QED BY <1>2, <1>3, <1>4, <1>9 DEF Before

\* a decision enters the queue, after all that ever came
LEMMA ReceiveKeeps ==
  ASSUME Justify, received' = received + 1, UNCHANGED <<swRun, left, published, prev_timestamp>>,
         swpc' = swpc, swpc # "idle",
         \/ timestamp_queue' = timestamp_queue
         \/ \E d \in Decision : /\ d.id = received + 1 /\ d.run = swRun
                                /\ timestamp_queue' = Append(timestamp_queue, d)
  PROVE  Ascending' /\ Waiting' /\ Before' /\ LeftOver'
<1>t. /\ timestamp_queue \in Seq(Decision) /\ received \in Nat
      /\ DOMAIN timestamp_queue = 1..Len(timestamp_queue) /\ Len(timestamp_queue) \in Nat
      /\ \A i \in DOMAIN timestamp_queue : timestamp_queue[i].id \in Nat
      /\ \A i \in DOMAIN published : published[i].id \in Nat
  BY Facts DEF Justify
<1>1. CASE timestamp_queue' = timestamp_queue
  <2>1. Waiting' /\ Before'
    BY <1>1, <1>t DEF Justify, Waiting, Before
  <2>. QED BY <2>1, <1>1 DEF Justify, Ascending, LeftOver
<1>2. ASSUME NEW d \in Decision, d.id = received + 1, d.run = swRun,
             timestamp_queue' = Append(timestamp_queue, d)
      PROVE  Ascending' /\ Waiting' /\ Before' /\ LeftOver'
  <2>1. /\ DOMAIN timestamp_queue' = 1..Len(timestamp_queue) + 1
        /\ \A i \in DOMAIN timestamp_queue : timestamp_queue'[i] = timestamp_queue[i]
        /\ timestamp_queue'[Len(timestamp_queue) + 1] = d
    <3>1. timestamp_queue \in Seq(Decision) /\ d \in Decision
      BY <1>2, <1>t
    <3>. QED BY <3>1, <1>2, AppendIs
  <2>2. \A i \in DOMAIN timestamp_queue' : \/ i \in DOMAIN timestamp_queue
                                           \/ i = Len(timestamp_queue) + 1
    BY <2>1, <1>t
  <2>3. \A i \in DOMAIN timestamp_queue : timestamp_queue[i].id <= received
    BY DEF Justify, Waiting
  <2>4. Ascending'
    <3>. SUFFICES ASSUME NEW i \in DOMAIN timestamp_queue', NEW j \in DOMAIN timestamp_queue', i < j
                  PROVE  timestamp_queue'[i].id < timestamp_queue'[j].id
      BY DEF Ascending
    <3>1. i \in DOMAIN timestamp_queue
      BY <1>t, <2>1
    <3>2. CASE j \in DOMAIN timestamp_queue
      BY <3>1, <3>2, <2>1 DEF Justify, Ascending
    <3>3. CASE j = Len(timestamp_queue) + 1
      <4>1. timestamp_queue'[i].id <= received /\ timestamp_queue'[i].id \in Nat
        BY <3>1, <2>1, <2>3, <1>t
      <4>2. timestamp_queue'[j].id = received + 1
        BY <3>3, <2>1, <1>2
      <4>. QED BY <4>1, <4>2, <1>t
    <3>. QED BY <3>2, <3>3, <2>2
  <2>5. Waiting'
    <3>1. \A i \in DOMAIN timestamp_queue : timestamp_queue[i].id <= received + 1
      BY <2>3, <1>t
    <3>2. received + 1 <= received + 1
      BY <1>t
    <3>. QED BY <3>1, <3>2, <2>1, <2>2, <1>2 DEF Waiting
  <2>6. Before'
    <3>1. \A i \in DOMAIN published : /\ published[i].id <= received + 1
                                     /\ published[i].id < received + 1
      BY <1>t DEF Justify, Before
    <3>2. ASSUME NEW i \in DOMAIN published, NEW j \in DOMAIN timestamp_queue'
          PROVE  published[i].id < timestamp_queue'[j].id
      BY <3>1, <2>1, <2>2, <1>2 DEF Justify, Before
    <3>. QED BY <3>1, <3>2 DEF Justify, Before
  <2>7. LeftOver'
    BY <2>1, <2>2, <1>2 DEF Justify, LeftOver
  <2>. QED BY <2>4, <2>5, <2>6, <2>7
<1>. QED BY <1>1, <1>2

\* most steps leave the data alone
LEMMA DataKeeps ==
  ASSUME Justify, UNCHANGED <<timestamp_queue, received, published, prev_timestamp>>
  PROVE  Ascending' /\ Waiting' /\ Before'
BY DEF Justify, Ascending, Waiting, Before

\* what a call of getNext_() keeps; a trigger it publishes is justified
LEMMA CallKeeps ==
  ASSUME Justify, NEW heard \in {"go", "inhibit", "nothing"}, GetNext(heard)
  PROVE  /\ Ascending' /\ Waiting' /\ Before' /\ Released' /\ LeftOver'
         /\ published' # published =>
              \E t \in {published'[Len(published')]} :
                /\ swpc = "running" /\ granted' = "go"
                /\ \A i \in DOMAIN published : /\ published[i].id < t.id
                                               /\ published[i].ts + HoldOff <= t.ts
                /\ t.run # swRun => t.id \in left
<1>1. /\ UNCHANGED <<swpc, swRun, left, received>> /\ swpc = "running" /\ HandleFront /\ SwTypeOK
  BY DEF GetNext, swFixed, Justify
<1>2. Released'
  <2>1. CASE heard = "go"
    BY <2>1 DEF GetNext, Released
  <2>2. CASE heard = "inhibit"
    BY <2>2 DEF GetNext, Released
  <2>3. CASE heard = "nothing"
    BY <2>3 DEF GetNext, Released, Justify
  <2>. QED BY <2>1, <2>2, <2>3
<1>3. CASE UNCHANGED <<timestamp_queue, prev_timestamp, published>>
  BY <1>1, <1>2, <1>3, DataKeeps DEF Justify, LeftOver
<1>4. CASE /\ timestamp_queue # <<>> /\ timestamp_queue' = Tail(timestamp_queue)
           /\ UNCHANGED <<prev_timestamp, published>>
  <2>1. Ascending' /\ Waiting' /\ LeftOver'
    BY <1>1, <1>4, TailKeeps
  <2>2. Before'
    <3>1. /\ DOMAIN timestamp_queue' = 1..Len(timestamp_queue) - 1
          /\ DOMAIN timestamp_queue = 1..Len(timestamp_queue) /\ Len(timestamp_queue) \in Nat
          /\ \A i \in DOMAIN timestamp_queue' : timestamp_queue'[i] = timestamp_queue[i + 1]
      BY <1>1, <1>4, Facts, TailIs
    <3>2. \A i \in DOMAIN timestamp_queue' : i + 1 \in DOMAIN timestamp_queue
      BY <3>1
    <3>. QED BY <1>1, <1>4, <3>1, <3>2 DEF Justify, Before
  <2>. QED BY <2>1, <2>2, <1>2, <1>4
<1>5. ASSUME NEW d \in Decision, timestamp_queue # <<>>, timestamp_queue' = Tail(timestamp_queue),
             d = Head(timestamp_queue), ~(d.ts < prev_timestamp + HoldOff), ~throttling_state',
             prev_timestamp' = d.ts, published' = Append(published, d)
      PROVE  /\ Ascending' /\ Waiting' /\ Before' /\ LeftOver'
             /\ \E t \in {published'[Len(published')]} :
                  /\ swpc = "running" /\ granted' = "go"
                  /\ \A i \in DOMAIN published : /\ published[i].id < t.id
                                                 /\ published[i].ts + HoldOff <= t.ts
                  /\ t.run # swRun => t.id \in left
  <2>1. Ascending' /\ Waiting' /\ LeftOver'
    BY <1>1, <1>5, TailKeeps
  <2>2. /\ Before' /\ published'[Len(published')] = d
        /\ \A i \in DOMAIN published : /\ published[i].id < d.id
                                       /\ published[i].ts + HoldOff <= d.ts
    BY <1>1, <1>5, PublishKeeps
  <2>3. granted' = "go"
    BY <1>2, <1>5 DEF Released
  <2>4. d.run # swRun => d.id \in left
    <3>1. d = timestamp_queue[1] /\ 1 \in DOMAIN timestamp_queue
      BY <1>1, <1>5, Facts, TailIs
    <3>. QED BY <3>1 DEF Justify, LeftOver
  <2>. QED BY <1>1, <2>1, <2>2, <2>3, <2>4
<1>. QED BY <1>1, <1>2, <1>3, <1>4, <1>5, Handles

LEMMA StepJustify == Justify /\ [SwNext]_swVars => Justify'
<1>. SUFFICES ASSUME Justify, [SwNext]_swVars PROVE Justify'
  OBVIOUS
<1>0. SwTypeOK'
  BY SwStepTypes DEF Justify
<1>1. CASE \/ HandlerLooks \/ HandlerTimesOut \/ MetricsEnds \/ SubscriberEnds \/ SwStop
           \/ JoinHandler \/ JoinMetrics \/ TimePasses \/ (\E on \in BOOLEAN : MasterSays(on))
           \/ UNCHANGED swVars
  <2>1. UNCHANGED <<timestamp_queue, received, published, prev_timestamp, throttling_state,
                    granted, swRun, left>>
    BY <1>1 DEF HandlerLooks, HandlerTimesOut, MetricsEnds, SubscriberEnds, SwStop, JoinHandler,
                JoinMetrics, TimePasses, MasterSays, swVars, swFixed, decisions, judgement, swThreads
  <2>2. NoHandler'
    BY <1>1 DEF Justify, NoHandler, HandlerLooks, HandlerTimesOut, MetricsEnds, SubscriberEnds,
                SwStop, JoinHandler, JoinMetrics, TimePasses, MasterSays, swVars, swFixed, swThreads
  <2>3. swpc' = "idle" => swpc = "idle"
    BY <1>1 DEF HandlerLooks, HandlerTimesOut, MetricsEnds, SubscriberEnds, SwStop, JoinHandler,
                JoinMetrics, TimePasses, MasterSays, swVars
  <2>4. Released' /\ LeftOver'
    BY <2>1, <2>3 DEF Justify, Released, LeftOver
  <2>. QED BY <1>0, <2>1, <2>2, <2>4, DataKeeps DEF Justify
<1>2. ASSUME NEW t \in Times, HandlerReceives(t) PROVE Justify'
  <2>1. /\ UNCHANGED <<swRun, left, published, prev_timestamp, throttling_state, granted, swpc>>
        /\ handler = "receiving" /\ handler' = "loop"
    BY <1>2 DEF HandlerReceives, swFixed, judgement
  <2>2. swpc \notin {"idle", "joinMetrics", "joinSubscriber", "failed"}
    BY <2>1 DEF Justify, NoHandler
  <2>3. Ascending' /\ Waiting' /\ Before' /\ LeftOver'
    BY <1>2, <2>1, <2>2, Receives, ReceiveKeeps DEF Justify
  <2>. QED BY <1>0, <2>1, <2>2, <2>3 DEF Justify, Released, NoHandler
<1>3. CASE SwStart
  <2>1. /\ UNCHANGED <<timestamp_queue, received, published, prev_timestamp, left>>
        /\ throttling_state' /\ swpc = "idle" /\ swpc' = "running"
    BY <1>3 DEF SwStart, decisions, Throttled
  <2>. QED
    BY <1>0, <2>1, DataKeeps DEF Justify, Released, NoHandler, LeftOver
<1>4. CASE SwStopEnds
  <2>1. /\ UNCHANGED <<timestamp_queue, received, published, prev_timestamp, throttling_state,
                       granted, swRun, handler>>
        /\ swpc = "joinSubscriber" /\ left' = QueuedIds
    BY <1>4 DEF SwStopEnds, decisions, judgement
  <2>2. LeftOver'
    BY <2>1 DEF LeftOver, QueuedIds
  <2>3. NoHandler' /\ Released'
    BY <2>1 DEF Justify, NoHandler, Released
  <2>. QED BY <1>0, <2>1, <2>2, <2>3, DataKeeps DEF Justify
<1>5. ASSUME NEW heard \in {"go", "inhibit", "nothing"}, GetNext(heard) PROVE Justify'
  <2>1. NoHandler'
    BY <1>5 DEF GetNext, Justify, NoHandler, swThreads
  <2>. QED BY <1>0, <1>5, <2>1, CallKeeps DEF Justify
<1>. QED
  BY <1>1, <1>2, <1>3, <1>4, <1>5 DEF SwNext

LEMMA StepJustified ==
  Justify /\ [SwNext]_swVars
    => [published' # published =>
          \E t \in {published'[Len(published')]} :
            /\ swpc = "running" /\ granted' = "go"
            /\ \A i \in DOMAIN published : /\ published[i].id < t.id
                                           /\ published[i].ts + HoldOff <= t.ts
            /\ t.run # swRun => t.id \in left]_swVars
<1>. SUFFICES ASSUME Justify, [SwNext]_swVars, published' # published
              PROVE  \E heard \in {"go", "inhibit", "nothing"} : GetNext(heard)
  BY CallKeeps
<1>1. ~ UNCHANGED swVars
  BY DEF swVars
<1>2. ASSUME NEW t \in Times, HandlerReceives(t) PROVE FALSE
  BY <1>2 DEF HandlerReceives, judgement
<1>3. ASSUME \/ HandlerLooks \/ HandlerTimesOut \/ MetricsEnds \/ SubscriberEnds \/ SwStop \/ SwStart
             \/ JoinHandler \/ JoinMetrics \/ SwStopEnds \/ TimePasses
             \/ (\E on \in BOOLEAN : MasterSays(on))
      PROVE  FALSE
  BY <1>3 DEF HandlerLooks, HandlerTimesOut, MetricsEnds, SubscriberEnds, SwStop, SwStart,
              JoinHandler, JoinMetrics, SwStopEnds, TimePasses, MasterSays, judgement
<1>. QED BY <1>1, <1>2, <1>3 DEF SwNext

(* A trigger is published only while this run's triggers may flow, after   *)
(* and the hold-off away from all those before, and is a decision of this  *)
(* run or one that the last stop left in the queue: whatever the hold-off, *)
(* the queue's size, and the number of decisions and runs.                 *)
THEOREM TriggersAreJustified == SwSpec => TriggersJustified
<1>1. SwSpec => []Justify
  BY InitJustify, StepJustify, PTL DEF SwSpec
<1>. QED BY <1>1, StepJustified, PTL DEF SwSpec, TriggersJustified
-----------------------------------------------------------------------------
(* The receiver of the RCE frames: RssiReceiver.tla. *)

\* the numbers of s rise; those of s are below those of t
Rising(s) == \A i, j \in 1..Len(s) : i < j => s[i].id < s[j].id
Below(s, t) == \A i \in 1..Len(s), j \in 1..Len(t) : s[i].id < t[j].id

\* the frames that artdaq, the ring, the sink and the wire have are in this order
FramesOrdered ==
  /\ Rising(delivered) /\ Rising(ring) /\ Rising(wire)
  /\ Below(delivered, ring) /\ Below(delivered, hand) /\ Below(ring, hand)
  /\ \A n \in handed : n <= sent /\ \A j \in 1..Len(wire) : n < wire[j].id
  /\ \A j \in 1..Len(wire) : wire[j].id <= sent

GivenBy(r) == {i \in DOMAIN delivered : delivered[i].by = r}

\* a receiver has given or has what it counted and did not drop; none is of a later one
FramesCounted ==
  /\ rxCnt = overflow + Cardinality(GivenBy(receiver)) + Len(ring) + Len(hand)
  /\ \A i \in DOMAIN delivered : delivered[i].by <= receiver

\* a frame of an earlier run came too late, and so did one that no data thread waits for
LateOnes ==
  \A i \in DOMAIN ring : ring[i].run < rceRun \/ data = "none" => ring[i].id \in late

RunBegun == data # "none" => rceRun >= 1

RssiInv ==
  /\ RceTypeOK /\ RunBegun /\ EachInOnePlace /\ FramesOrdered /\ FramesCounted
  /\ LateOnes /\ FromItsRun

\* the frames of a sequence by their numbers
Ids(s) == {s[i].id : i \in DOMAIN s}

LEMMA IdsAppend ==
  ASSUME NEW S, NEW s \in Seq(S), NEW x \in S
  PROVE  Ids(Append(s, x)) = Ids(s) \cup {x.id}
<1>1. /\ Len(s) \in Nat /\ DOMAIN s = 1..Len(s)
      /\ DOMAIN Append(s, x) = 1 .. Len(s) + 1
      /\ \A i \in 1..Len(s) : Append(s, x)[i] = s[i]
      /\ Append(s, x)[Len(s) + 1] = x
  BY AppendProperties, LenProperties
<1>2. 1 .. Len(s) + 1 = 1..Len(s) \cup {Len(s) + 1}
  BY <1>1
<1>. QED BY <1>1, <1>2 DEF Ids

LEMMA IdsTail ==
  ASSUME NEW S, NEW s \in Seq(S), s # <<>>
  PROVE  Ids(s) = Ids(Tail(s)) \cup {Head(s).id}
<1>1. /\ Len(s) \in Nat \ {0} /\ DOMAIN s = 1..Len(s)
      /\ DOMAIN Tail(s) = 1 .. Len(s) - 1
      /\ \A i \in 1 .. Len(s) - 1 : Tail(s)[i] = s[i + 1]
      /\ Head(s) = s[1]
  BY HeadTailProperties, LenProperties, EmptySeq
<1>2. ASSUME NEW n, n \in Ids(s) PROVE n \in Ids(Tail(s)) \cup {Head(s).id}
  <2>1. PICK i \in 1..Len(s) : n = s[i].id
    BY <1>1, <1>2 DEF Ids
  <2>2. CASE i # 1
    <3>1. i - 1 \in 1 .. Len(s) - 1 /\ Tail(s)[i - 1] = s[i]
      BY <1>1, <2>2
    <3>. QED BY <1>1, <2>1, <3>1 DEF Ids
  <2>. QED BY <1>1, <2>1, <2>2
<1>3. ASSUME NEW n, n \in Ids(Tail(s)) PROVE n \in Ids(s)
  <2>1. PICK i \in 1 .. Len(s) - 1 : n = s[i + 1].id
    BY <1>1, <1>3 DEF Ids
  <2>2. i + 1 \in 1..Len(s)
    BY <1>1
  <2>. QED BY <1>1, <2>1, <2>2 DEF Ids
<1>4. Head(s).id \in Ids(s)
  BY <1>1 DEF Ids
<1>. QED BY <1>2, <1>3, <1>4

LEMMA IdsOfFew == Ids(<<>>) = {} /\ \A x : Ids(<<x>>) = {x.id}
BY DEF Ids

LEMMA RisingAppend ==
  ASSUME NEW S, NEW s \in Seq(S), NEW x \in S, Rising(s), \A i \in 1..Len(s) : s[i].id < x.id
  PROVE  Rising(Append(s, x))
<1>1. /\ Len(s) \in Nat /\ Len(Append(s, x)) = Len(s) + 1
      /\ \A i \in 1..Len(s) : Append(s, x)[i] = s[i]
      /\ Append(s, x)[Len(s) + 1] = x
  BY AppendProperties, LenProperties
<1>. QED BY <1>1 DEF Rising

LEMMA RisingTail ==
  ASSUME NEW S, NEW s \in Seq(S), s # <<>>, Rising(s)
  PROVE  Rising(Tail(s)) /\ \A i \in 1..Len(Tail(s)) : Head(s).id < Tail(s)[i].id
<1>1. /\ Len(s) \in Nat \ {0} /\ Len(Tail(s)) = Len(s) - 1
      /\ \A i \in 1 .. Len(s) - 1 : Tail(s)[i] = s[i + 1]
      /\ Head(s) = s[1]
  BY HeadTailProperties, LenProperties, EmptySeq
<1>2. ASSUME NEW i \in 1 .. Len(s) - 1 PROVE i + 1 \in 1..Len(s) /\ 1 \in 1..Len(s) /\ 1 < i + 1
  BY <1>1
<1>. QED BY <1>1, <1>2 DEF Rising

\* an element of s or t is an element of what is longer
LEMMA BelowAppend ==
  ASSUME NEW S, NEW s \in Seq(S), NEW t \in Seq(S), NEW x \in S
  PROVE  /\ Below(s, t) /\ (\A j \in 1..Len(t) : x.id < t[j].id) => Below(Append(s, x), t)
         /\ Below(s, t) /\ (\A i \in 1..Len(s) : s[i].id < x.id) => Below(s, Append(t, x))
<1>1. /\ Len(s) \in Nat /\ Len(Append(s, x)) = Len(s) + 1
      /\ \A i \in 1..Len(s) : Append(s, x)[i] = s[i]
      /\ Append(s, x)[Len(s) + 1] = x
  BY AppendProperties, LenProperties
<1>2. /\ Len(t) \in Nat /\ Len(Append(t, x)) = Len(t) + 1
      /\ \A i \in 1..Len(t) : Append(t, x)[i] = t[i]
      /\ Append(t, x)[Len(t) + 1] = x
  BY AppendProperties, LenProperties
<1>3. Below(s, t) /\ (\A j \in 1..Len(t) : x.id < t[j].id) => Below(Append(s, x), t)
  BY <1>1 DEF Below
<1>4. Below(s, t) /\ (\A i \in 1..Len(s) : s[i].id < x.id) => Below(s, Append(t, x))
  BY <1>2 DEF Below
<1>. QED BY <1>3, <1>4

LEMMA BelowTail ==
  ASSUME NEW S, NEW s \in Seq(S), NEW t \in Seq(S), Below(s, t)
  PROVE  /\ s # <<>> => Below(Tail(s), t) /\ \A j \in 1..Len(t) : Head(s).id < t[j].id
         /\ t # <<>> => Below(s, Tail(t)) /\ \A i \in 1..Len(s) : s[i].id < Head(t).id
<1>1. /\ Len(s) \in Nat
      /\ s # <<>> => /\ Len(s) >= 1 /\ Len(Tail(s)) = Len(s) - 1 /\ Head(s) = s[1]
                     /\ \A i \in 1 .. Len(s) - 1 : Tail(s)[i] = s[i + 1]
  BY HeadTailProperties, LenProperties, EmptySeq
<1>2. /\ Len(t) \in Nat
      /\ t # <<>> => /\ Len(t) >= 1 /\ Len(Tail(t)) = Len(t) - 1 /\ Head(t) = t[1]
                     /\ \A i \in 1 .. Len(t) - 1 : Tail(t)[i] = t[i + 1]
  BY HeadTailProperties, LenProperties, EmptySeq
<1>3. s # <<>> => Below(Tail(s), t) /\ \A j \in 1..Len(t) : Head(s).id < t[j].id
  <2>. SUFFICES ASSUME s # <<>> PROVE Below(Tail(s), t) /\ \A j \in 1..Len(t) : Head(s).id < t[j].id
    OBVIOUS
  <2>1. \A i \in 1 .. Len(s) - 1 : i + 1 \in 1..Len(s)
    BY <1>1
  <2>2. 1 \in 1..Len(s)
    BY <1>1
  <2>. QED BY <1>1, <2>1, <2>2 DEF Below
<1>4. t # <<>> => Below(s, Tail(t)) /\ \A i \in 1..Len(s) : s[i].id < Head(t).id
  <2>. SUFFICES ASSUME t # <<>> PROVE Below(s, Tail(t)) /\ \A i \in 1..Len(s) : s[i].id < Head(t).id
    OBVIOUS
  <2>1. \A i \in 1 .. Len(t) - 1 : i + 1 \in 1..Len(t)
    BY <1>2
  <2>2. 1 \in 1..Len(t)
    BY <1>2
  <2>. QED BY <1>2, <2>1, <2>2 DEF Below
<1>. QED BY <1>3, <1>4

LEMMA BelowNone ==
  ASSUME NEW s, NEW x
  PROVE  /\ Below(s, <<>>) /\ Below(<<>>, s) /\ Rising(<<>>)
         /\ Below(s, <<x>>) <=> \A i \in 1..Len(s) : s[i].id < x.id
<1>1. Len(<<>>) = 0 /\ Len(<<x>>) = 1 /\ <<x>>[1] = x /\ 1..0 = {} /\ 1..1 = {1}
  OBVIOUS
<1>. QED BY <1>1 DEF Below, Rising
LEMMA RceNumbers ==
  /\ RingSize \in Nat \ {0} /\ MaxFrames \in Nat /\ MaxRceRuns \in Nat /\ MaxReceivers \in Nat
BY RceAssumption

LEMMA HandIs ==
  ASSUME RceTypeOK
  PROVE  /\ sink = "idle" => hand = <<>> /\ Len(hand) = 0
         /\ sink = "waiting" => \E h \in Frame : hand = <<h>> /\ hand[1] = h /\ Len(hand) = 1
<1>1. hand \in Seq(Frame) /\ Len(hand) = (IF sink = "waiting" THEN 1 ELSE 0)
  BY DEF RceTypeOK
<1>2. CASE sink = "idle"
  BY <1>1, <1>2, EmptySeq
<1>3. CASE sink = "waiting"
  <2>1. Len(hand) = 1 /\ hand[1] \in Frame
    BY <1>1, <1>3, ElementOfSeq
  <2>2. hand = <<hand[1]>>
    BY <1>1, <2>1
  <2>. QED BY <1>3, <2>1, <2>2
<1>. QED BY <1>2, <1>3

\* the frame in the sink's hand goes to the end of the ring
LEMMA PushedIs ==
  ASSUME RceTypeOK, PushFrame
  PROVE  \E h \in Frame : /\ hand = <<h>> /\ hand[1] = h /\ Len(hand) = 1
                          /\ ring' = Append(ring, h) /\ hand' = <<>>
<1>1. PICK h \in Frame : hand = <<h>> /\ hand[1] = h /\ Len(hand) = 1
  BY HandIs DEF PushFrame
<1>2. ring \o <<h>> = Append(ring, h)
  BY AppendIsConcat DEF RceTypeOK
<1>. QED BY <1>1, <1>2 DEF PushFrame

\* the frame taken from the ring is given to artdaq
Gives(h) == [id |-> h.id, run |-> h.run, in |-> rceRun, by |-> receiver]
LEMMA PoppedIs ==
  ASSUME RceTypeOK, RunBegun, PopFrame, ring # <<>>
  PROVE  \E h \in Frame : /\ h = Head(ring) /\ ring' = Tail(ring) /\ Gives(h) \in Given
                          /\ delivered' = Append(delivered, Gives(h))
<1>1. PICK h \in Frame : h = Head(ring)
  BY HeadTailProperties DEF RceTypeOK
<1>2. rceRun \in 1..MaxRceRuns /\ receiver \in 0..MaxReceivers
  BY RceNumbers DEF RceTypeOK, RunBegun, PopFrame
<1>3. Gives(h) \in Given
  BY <1>2 DEF Gives, Given, Frame
<1>4. ring' = Tail(ring) /\ delivered' = Append(delivered, Gives(h))
  BY <1>1 DEF PopFrame, Gives
<1>. QED BY <1>1, <1>3, <1>4

\* the frame the sink takes from the wire
LEMMA AcceptedIs ==
  ASSUME RceTypeOK, AcceptFrame
  PROVE  \E h \in Frame : /\ h = Head(wire) /\ wire' = Tail(wire) /\ hand' = <<h>>
                          /\ handed' = handed \cup {h.id} /\ hand = <<>> /\ Len(hand) = 0
                          /\ wire # <<>>
BY HeadTailProperties, HandIs DEF RceTypeOK, AcceptFrame

LEMMA RssiInitially == ASSUME RceInit PROVE RssiInv
<1>. USE RceNumbers
<1>1. RceTypeOK
  <2>0. boardOn \in BOOLEAN /\ open \in BOOLEAN
    BY DEF RceInit
  <2>1. /\ sent \in 0..MaxFrames /\ receiver \in 0..MaxReceivers /\ rceRun \in 0..MaxRceRuns
        /\ rxCnt \in Nat /\ overflow \in Nat
    <3>1. 0 \in 0..MaxFrames /\ 0 \in 0..MaxReceivers /\ 0 \in 0..MaxRceRuns /\ 0 \in Nat
      OBVIOUS
    <3>. QED BY <3>1, Zenon DEF RceInit
  <2>2. /\ wire \in Seq(Frame) /\ hand \in Seq(Frame) /\ ring \in Seq(Frame)
        /\ delivered \in Seq(Given) /\ Len(ring) = 0 /\ Len(hand) = 0
    BY EmptySeq DEF RceInit
  <2>3. /\ sink = "idle" /\ cmd = "idle" /\ data = "none"
        /\ handed = {} /\ dropped = {} /\ cleared = {} /\ late = {}
    BY DEF RceInit
  <2>. QED BY <2>0, <2>1, <2>2, <2>3 DEF RceTypeOK
<1>2. /\ Len(delivered) = 0 /\ Len(ring) = 0 /\ Len(wire) = 0 /\ Len(hand) = 0
      /\ DOMAIN delivered = {} /\ DOMAIN ring = {} /\ DOMAIN hand = {}
  BY DEF RceInit
<1>3. EachInOnePlace
  BY <1>2 DEF RceInit, EachInOnePlace, DeliveredIds, Held
<1>4. FramesOrdered
  <2>1. delivered = <<>> /\ ring = <<>> /\ wire = <<>> /\ hand = <<>> /\ handed = {} /\ 1..0 = {}
    BY DEF RceInit
  <2>2. \A j \in 1..Len(wire) : wire[j].id <= sent
    BY <1>2, <2>1
  <2>. QED BY <2>1, <2>2, BelowNone, Zenon DEF FramesOrdered
<1>5. FramesCounted
  <2>1. GivenBy(receiver) = {}
    BY <1>2 DEF GivenBy
  <2>. QED BY <1>2, <2>1, FS_EmptySet DEF RceInit, FramesCounted
<1>. QED BY <1>1, <1>2, <1>3, <1>4, <1>5 DEF RceInit, RssiInv, RunBegun, LateOnes, FromItsRun

LEMMA RssiTyped == ASSUME RceTypeOK, RunBegun, RceNext PROVE RceTypeOK' /\ RunBegun'
<1>. USE RceNumbers DEF RceTypeOK, RunBegun, connection, acceptance
<1>1. CASE SendFrame
  <2>1. [id |-> sent + 1, run |-> rceRun] \in Frame
    BY <1>1 DEF SendFrame, Frame
  <2>2. wire' \in Seq(Frame)
    BY <1>1, <2>1, AppendProperties DEF SendFrame
  <2>. QED BY <1>1, <2>2 DEF SendFrame
<1>2. CASE Opens
  BY <1>2 DEF Opens
<1>3. CASE Closes
  BY <1>3, EmptySeq DEF Closes
<1>4. CASE AcceptFrame
  <2>1. PICK h \in Frame : wire' = Tail(wire) /\ hand' = <<h>> /\ handed' = handed \cup {h.id}
    BY <1>4, AcceptedIs
  <2>2. wire' \in Seq(Frame) /\ hand' \in Seq(Frame) /\ Len(hand') = 1
    <3>1. wire \in Seq(Frame) /\ wire # <<>>
      BY <1>4 DEF AcceptFrame
    <3>2. Tail(wire) \in Seq(Frame)
      BY <3>1, HeadTailProperties
    <3>. QED BY <2>1, <3>2
  <2>3. h.id \in 1..MaxFrames
    BY DEF Frame
  <2>4. handed' \subseteq 1..MaxFrames
    BY <2>1, <2>3
  <2>5. /\ rxCnt' \in Nat /\ sink' = "waiting"
        /\ UNCHANGED <<boardOn, sent, open, receiver, ring, overflow, dropped, cmd, data, rceRun,
                       delivered, cleared, late>>
    BY <1>4 DEF AcceptFrame
  <2>. QED BY <2>2, <2>4, <2>5
<1>5. CASE PushFrame
  <2>1. PICK h \in Frame : hand[1] = h /\ ring' = Append(ring, h) /\ hand' = <<>>
    BY <1>5, PushedIs
  <2>2. ring' \in Seq(Frame) /\ Len(ring') = Len(ring) + 1 /\ Len(ring) \in Nat
    BY <2>1, AppendProperties, LenProperties
  <2>3. hand' \in Seq(Frame) /\ Len(hand') = 0
    BY <2>1, EmptySeq
  <2>4. late' \subseteq 1..MaxFrames
    BY <1>5, <2>1 DEF PushFrame, Frame
  <2>. QED BY <1>5, <2>2, <2>3, <2>4 DEF PushFrame
<1>6. CASE DropFrame
  <2>1. PICK h \in Frame : hand[1] = h
    BY <1>6, HandIs DEF DropFrame
  <2>2. hand' \in Seq(Frame) /\ Len(hand') = 0
    BY <1>6, EmptySeq DEF DropFrame
  <2>3. dropped' \subseteq 1..MaxFrames
    BY <1>6, <2>1 DEF DropFrame, Frame
  <2>. QED BY <1>6, <2>2, <2>3 DEF DropFrame
<1>7. CASE StartRce
  <2>0. /\ boardOn' \in BOOLEAN /\ data' = "loop" /\ cmd' = "running" /\ rceRun' \in 1..MaxRceRuns
        /\ UNCHANGED <<sent, wire, open, handed, delivered, dropped, late>>
    <3>1. boardOn' \in BOOLEAN
      BY <1>7 DEF StartRce
    <3>. QED BY <1>7, <3>1 DEF StartRce
  <2>1. CASE KeepReceiver
    BY <1>7, <2>1, <2>0 DEF StartRce, KeepReceiver
  <2>2. CASE NewReceiver
    <3>1. Held \subseteq 1..MaxFrames
      <4>1. /\ \A i \in DOMAIN ring : ring[i] \in Frame
            /\ \A i \in DOMAIN hand : hand[i] \in Frame
        BY LenProperties, ElementOfSeq
      <4>. QED BY <4>1 DEF Held, Frame
    <3>2. /\ ring' \in Seq(Frame) /\ hand' \in Seq(Frame) /\ Len(ring') = 0 /\ Len(hand') = 0
      BY <2>2, EmptySeq DEF NewReceiver
    <3>3. /\ receiver' \in 0..MaxReceivers /\ cleared' \subseteq 1..MaxFrames
          /\ sink' = "idle" /\ rxCnt' = 0 /\ overflow' = 0
      BY <2>2, <3>1 DEF NewReceiver
    <3>. QED BY <2>0, <3>2, <3>3
  <2>. QED BY <1>7, <2>1, <2>2 DEF StartRce
<1>8. CASE RequestStop \/ EndRce
  BY <1>8 DEF RequestStop, EndRce
<1>9. CASE StopRce
  BY <1>9 DEF StopRce
<1>10. CASE PopFrame
  <2>1. CASE ring = <<>>
    BY <1>10, <2>1 DEF PopFrame
  <2>2. CASE ring # <<>>
    <3>1. PICK h \in Frame : /\ ring' = Tail(ring) /\ Gives(h) \in Given
                             /\ delivered' = Append(delivered, Gives(h))
      BY <1>10, <2>2, PoppedIs
    <3>2. ring' \in Seq(Frame) /\ Len(ring') = Len(ring) - 1 /\ Len(ring) \in Nat
      BY <2>2, <3>1, HeadTailProperties, LenProperties
    <3>3. delivered' \in Seq(Given)
      BY <3>1, AppendProperties
    <3>4. data = "loop" /\ data' = "check" /\ UNCHANGED <<boardOn, sent, wire, open, receiver, sink, hand, rxCnt,
                                         overflow, handed, dropped, cmd, rceRun, cleared, late>>
      BY <1>10 DEF PopFrame
    <3>5. Len(ring') <= RingSize
      BY <3>2
    <3>6. (ring \in Seq(Frame) /\ Len(ring) <= RingSize /\ delivered \in Seq(Given))'
      BY <3>2, <3>3, <3>5
    <3>7. RunBegun'
      BY <3>4
    <3>8. RceTypeOK'
      BY ONLY <3>4, <3>6, RceTypeOK DEF RceTypeOK
    <3>. QED BY <3>7, <3>8
  <2>. QED BY <2>1, <2>2
<1>11. CASE CheckStop
  BY <1>11 DEF CheckStop
<1>. QED BY <1>1, <1>2, <1>3, <1>4, <1>5, <1>6, <1>7, <1>8, <1>9, <1>10, <1>11 DEF RceNext

-----------------------------------------------------------------------------
\* what Append and Tail do to an order

-----------------------------------------------------------------------------
(* Each frame in one place. *)

LEMMA Places ==
  /\ Held = Ids(ring) \cup Ids(hand) /\ DeliveredIds = Ids(delivered)
  /\ Held' = Ids(ring') \cup Ids(hand') /\ DeliveredIds' = Ids(delivered')
BY DEF Held, DeliveredIds, Ids

LEMMA NumberIsInt ==
  ASSUME NEW s, s \in Seq(Frame) \/ s \in Seq(Given)
  PROVE  \A i \in 1..Len(s) : s[i].id \in Int
<1>1. \A x \in Frame : x.id \in Int
  BY DEF Frame
<1>2. \A x \in Given : x.id \in Int
  BY DEF Given
<1>3. CASE s \in Seq(Frame)
  <2>1. \A i \in 1..Len(s) : s[i] \in Frame
    BY <1>3, ElementOfSeq
  <2>. QED BY <1>1, <2>1
<1>4. CASE s \in Seq(Given)
  <2>1. \A i \in 1..Len(s) : s[i] \in Given
    BY <1>4, ElementOfSeq
  <2>. QED BY <1>2, <2>1
<1>. QED BY <1>3, <1>4

LEMMA IdsIndexed ==
  ASSUME NEW S, NEW s \in Seq(S)
  PROVE  \A n : n \in Ids(s) <=> \E i \in 1..Len(s) : n = s[i].id
BY LenProperties DEF Ids

LEMMA OnePlaceStays ==
  ASSUME RceTypeOK, RunBegun, EachInOnePlace, FramesOrdered, RceNext
  PROVE  EachInOnePlace'
<1>. USE DEF EachInOnePlace, connection, acceptance
<1>1. CASE SendFrame \/ Opens \/ Closes \/ RequestStop \/ StopRce \/ EndRce \/ CheckStop
  <2>1. UNCHANGED <<ring, hand, delivered, handed, dropped, cleared>>
    BY <1>1 DEF SendFrame, Opens, Closes, RequestStop, StopRce, EndRce, CheckStop
  <2>2. Held' = Held /\ DeliveredIds' = DeliveredIds
    BY <2>1, Places
  <2>. QED BY <2>1, <2>2
<1>2. CASE AcceptFrame
  <2>1. PICK h \in Frame : /\ h = Head(wire) /\ hand' = <<h>> /\ handed' = handed \cup {h.id}
                          /\ hand = <<>> /\ wire # <<>>
    BY <1>2, AcceptedIs
  <2>2. h.id \notin handed
    <3>1. /\ h = wire[1] /\ 1 \in 1..Len(wire)
      <4>1. Len(wire) >= 1 /\ Head(wire) = wire[1] /\ Len(wire) \in Nat
        BY <2>1, HeadTailProperties, EmptySeq, LenProperties DEF RceTypeOK
      <4>. QED BY <2>1, <4>1
    <3>2. \A n \in handed : n < h.id
      BY <3>1 DEF FramesOrdered
    <3>3. h.id \in Int
      BY DEF Frame
    <3>. QED BY <3>2, <3>3
  <2>3. Held' = Held \cup {h.id} /\ DeliveredIds' = DeliveredIds
        /\ dropped' = dropped /\ cleared' = cleared
    <3>1. UNCHANGED <<ring, delivered, dropped, cleared>>
      BY <1>2 DEF AcceptFrame
    <3>2. Ids(hand') = {h.id} /\ Ids(hand) = {}
      BY <2>1, IdsOfFew, Zenon
    <3>. QED BY <3>1, <3>2, Places
  <2>. QED BY <2>1, <2>2, <2>3
<1>3. CASE PushFrame
  <2>1. PICK h \in Frame : hand = <<h>> /\ ring' = Append(ring, h) /\ hand' = <<>>
    BY <1>3, PushedIs
  <2>2. Ids(ring') = Ids(ring) \cup {h.id} /\ Ids(hand') = {} /\ Ids(hand) = {h.id}
    <3>1. Ids(Append(ring, h)) = Ids(ring) \cup {h.id}
      BY IdsAppend DEF RceTypeOK
    <3>. QED BY <2>1, <3>1, IdsOfFew, Zenon
  <2>3. UNCHANGED <<delivered, handed, dropped, cleared>>
    BY <1>3 DEF PushFrame
  <2>4. Held' = Held /\ DeliveredIds' = DeliveredIds
    BY <2>2, <2>3, Places
  <2>. QED BY <2>3, <2>4
<1>4. CASE DropFrame
  <2>1. PICK h \in Frame : hand = <<h>> /\ hand[1] = h /\ Len(hand) = 1
    BY <1>4, HandIs DEF DropFrame
  <2>2. /\ UNCHANGED <<delivered, handed, ring, cleared>> /\ hand' = <<>>
        /\ dropped' = dropped \cup {h.id}
    BY <1>4, <2>1 DEF DropFrame
  <2>3. Ids(hand') = {} /\ Ids(hand) = {h.id}
    BY <2>1, <2>2, IdsOfFew, Zenon
  <2>4. h.id \notin Ids(ring)
    <3>1. \A i \in 1..Len(ring) : ring[i].id < h.id
      BY <2>1 DEF FramesOrdered, Below
    <3>2. \A i \in 1..Len(ring) : ring[i].id \in Int
      BY NumberIsInt DEF RceTypeOK
    <3>3. h.id \in Int
      BY DEF Frame
    <3>4. \A n : n \in Ids(ring) <=> \E i \in 1..Len(ring) : n = ring[i].id
      BY IdsIndexed DEF RceTypeOK
    <3>. QED BY <3>1, <3>2, <3>3, <3>4
  <2>5. Held = Held' \cup {h.id} /\ h.id \notin Held' /\ DeliveredIds' = DeliveredIds
    BY <2>2, <2>3, <2>4, Places
  <2>. QED BY <2>2, <2>5
<1>5. CASE StartRce
  <2>1. UNCHANGED <<handed, delivered, dropped>>
    BY <1>5 DEF StartRce
  <2>2. CASE KeepReceiver
    <3>1. UNCHANGED <<ring, hand, cleared>>
      BY <2>2 DEF KeepReceiver
    <3>2. Held' = Held /\ DeliveredIds' = DeliveredIds
      BY <2>1, <3>1, Places
    <3>. QED BY <2>1, <3>1, <3>2
  <2>3. CASE NewReceiver
    <3>1. ring' = <<>> /\ hand' = <<>> /\ cleared' = cleared \cup Held
      BY <2>3 DEF NewReceiver
    <3>2. Held' = {} /\ DeliveredIds' = DeliveredIds
      BY <2>1, <3>1, Places, IdsOfFew
    <3>. QED BY <2>1, <3>1, <3>2
  <2>. QED BY <1>5, <2>2, <2>3 DEF StartRce
<1>6. CASE PopFrame
  <2>1. UNCHANGED <<handed, dropped, cleared, hand>>
    BY <1>6 DEF PopFrame
  <2>2. CASE ring = <<>>
    <3>1. UNCHANGED <<ring, delivered>>
      BY <1>6, <2>2 DEF PopFrame
    <3>2. Held' = Held /\ DeliveredIds' = DeliveredIds
      BY <2>1, <3>1, Places
    <3>. QED BY <2>1, <3>2
  <2>3. CASE ring # <<>>
    <3>1. PICK h \in Frame : /\ h = Head(ring) /\ ring' = Tail(ring) /\ Gives(h) \in Given
                            /\ delivered' = Append(delivered, Gives(h))
      BY <1>6, <2>3, PoppedIs
    <3>2. Ids(ring) = Ids(ring') \cup {h.id}
      BY <2>3, <3>1, IdsTail DEF RceTypeOK
    <3>3. Ids(delivered') = Ids(delivered) \cup {h.id}
      <4>1. Ids(Append(delivered, Gives(h))) = Ids(delivered) \cup {Gives(h).id}
        BY <3>1, IdsAppend DEF RceTypeOK
      <4>. QED BY <3>1, <4>1 DEF Gives
    <3>4. h.id \notin Ids(ring')
      <4>1. \A i \in 1..Len(Tail(ring)) : h.id < Tail(ring)[i].id
        BY <2>3, <3>1, RisingTail DEF RceTypeOK, FramesOrdered
      <4>2. Tail(ring) \in Seq(Frame)
        BY <2>3, HeadTailProperties DEF RceTypeOK
      <4>3. \A n : n \in Ids(Tail(ring)) <=> \E i \in 1..Len(Tail(ring)) : n = Tail(ring)[i].id
        BY <4>2, IdsIndexed
      <4>4. \A i \in 1..Len(Tail(ring)) : Tail(ring)[i].id \in Int
        BY <4>2, NumberIsInt
      <4>6. h.id \in Int
        BY DEF Frame
      <4>5. h.id \notin Ids(Tail(ring))
        <5>1. ASSUME NEW i \in 1..Len(Tail(ring)) PROVE h.id # Tail(ring)[i].id
          BY <4>1, <4>4, <4>6
        <5>. QED BY <4>3, <5>1
      <4>. QED BY <3>1, <4>5
    <3>5. h.id \notin Ids(hand)
      <4>1. \A j \in 1..Len(hand) : h.id < hand[j].id
        BY <2>3, <3>1, BelowTail DEF RceTypeOK, FramesOrdered
      <4>2. \A n : n \in Ids(hand) <=> \E i \in 1..Len(hand) : n = hand[i].id
        BY IdsIndexed DEF RceTypeOK
      <4>3. \A i \in 1..Len(hand) : hand[i].id \in Int
        BY NumberIsInt DEF RceTypeOK
      <4>4. h.id \in Int
        BY DEF Frame
      <4>5. ASSUME NEW j \in 1..Len(hand) PROVE h.id # hand[j].id
        BY <4>1, <4>3, <4>4
      <4>. QED BY <4>2, <4>5
    <3>6. /\ Held = Held' \cup {h.id} /\ h.id \notin Held'
          /\ DeliveredIds' = DeliveredIds \cup {h.id}
      BY <2>1, <3>2, <3>3, <3>4, <3>5, Places
    <3>. QED BY <2>1, <3>6
  <2>. QED BY <2>2, <2>3
<1>. QED BY <1>1, <1>2, <1>3, <1>4, <1>5, <1>6 DEF RceNext

-----------------------------------------------------------------------------
(* The order. *)

LEMMA OrderStays ==
  ASSUME RceTypeOK, RunBegun, EachInOnePlace, FramesOrdered, RceNext
  PROVE  FramesOrdered'
<1>. USE DEF FramesOrdered, connection, acceptance
<1>0. /\ wire \in Seq(Frame) /\ ring \in Seq(Frame) /\ hand \in Seq(Frame)
      /\ delivered \in Seq(Given) /\ sent \in Int /\ handed \subseteq Int
  BY DEF RceTypeOK
<1>1. CASE Opens \/ RequestStop \/ StopRce \/ EndRce \/ CheckStop
  <2>1. UNCHANGED <<ring, hand, delivered, handed, wire, sent>>
    BY <1>1 DEF Opens, RequestStop, StopRce, EndRce, CheckStop
  <2>. QED BY <2>1 DEF Rising, Below
<1>2. CASE SendFrame
  <2>1. PICK f : f = [id |-> sent + 1, run |-> rceRun]
    OBVIOUS
  <2>2. /\ f.id = sent + 1 /\ wire' = Append(wire, f) /\ sent' = sent + 1
        /\ UNCHANGED <<ring, hand, delivered, handed>>
    BY <1>2, <2>1 DEF SendFrame
  <2>3. f \in Frame
    <3>1. sent + 1 \in 1..MaxFrames /\ rceRun \in 0..MaxRceRuns
      BY <1>2, RceNumbers DEF SendFrame, RceTypeOK
    <3>. QED BY <2>1, <3>1 DEF Frame
  <2>4. \A j \in 1..Len(wire) : wire[j].id \in Int
    BY <1>0, NumberIsInt
  <2>5. \A j \in 1..Len(wire) : wire[j].id < f.id
    BY <1>0, <2>2, <2>4
  <2>6. Rising(Append(wire, f))
    BY <1>0, <2>3, <2>5, RisingAppend
  <2>7. /\ Len(wire) \in Nat /\ Len(Append(wire, f)) = Len(wire) + 1
        /\ Append(wire, f)[Len(wire) + 1] = f
        /\ \A j \in 1..Len(wire) : Append(wire, f)[j] = wire[j]
    BY <1>0, <2>3, AppendProperties, LenProperties
  <2>8. \A j \in 1..Len(Append(wire, f)) : Append(wire, f)[j].id <= sent + 1
    BY <1>0, <2>2, <2>4, <2>7
  <2>9. ASSUME NEW n \in handed
        PROVE  n <= sent + 1 /\ \A j \in 1..Len(Append(wire, f)) : n < Append(wire, f)[j].id
    BY <1>0, <2>2, <2>7
  <2>. QED BY <2>2, <2>6, <2>8, <2>9 DEF Rising, Below
<1>3. CASE Closes
  <2>1. wire' = <<>> /\ UNCHANGED <<ring, hand, delivered, handed, sent>>
    BY <1>3 DEF Closes
  <2>2. Rising(<<>>) /\ Len(<<>>) = 0 /\ 1..0 = {}
    <3>1. Len(<<>>) = 0 /\ 1..0 = {}
      OBVIOUS
    <3>. QED BY <3>1, BelowNone, Zenon
  <2>. QED BY <2>1, <2>2 DEF Rising, Below
<1>4. CASE AcceptFrame
  <2>1. PICK h \in Frame : /\ h = Head(wire) /\ wire' = Tail(wire) /\ hand' = <<h>>
                          /\ handed' = handed \cup {h.id} /\ wire # <<>>
    BY <1>4, AcceptedIs
  <2>2. UNCHANGED <<ring, delivered, sent>>
    BY <1>4 DEF AcceptFrame
  <2>3. /\ Len(wire) \in Nat \ {0} /\ Len(Tail(wire)) = Len(wire) - 1 /\ h = wire[1]
        /\ \A j \in 1 .. Len(wire) - 1 : Tail(wire)[j] = wire[j + 1]
    BY <1>0, <2>1, HeadTailProperties, LenProperties, EmptySeq
  <2>4. Rising(Tail(wire)) /\ \A j \in 1..Len(Tail(wire)) : h.id < Tail(wire)[j].id
    BY <1>0, <2>1, RisingTail
  <2>5. /\ 1 \in 1..Len(wire)
        /\ \A j \in 1..Len(Tail(wire)) : j \in 1 .. Len(wire) - 1 /\ j + 1 \in 1..Len(wire)
    BY <2>3
  <2>6. \A j \in 1..Len(Tail(wire)) : Tail(wire)[j].id <= sent
    BY <2>3, <2>5
  <2>7. \A n \in handed : n < h.id /\ \A j \in 1..Len(Tail(wire)) : n < Tail(wire)[j].id
    BY <2>3, <2>5
  <2>8. h.id <= sent
    BY <2>3, <2>5
  <2>9. \A n \in handed' : n <= sent /\ \A j \in 1..Len(Tail(wire)) : n < Tail(wire)[j].id
    BY <2>1, <2>4, <2>7, <2>8
  <2>10. /\ Below(delivered, <<h>>) /\ Below(ring, <<h>>)
    <3>1. \A n \in Ids(delivered) \cup Ids(ring) : n < h.id
      BY <2>7, Places DEF EachInOnePlace
    <3>2. /\ \A i \in 1..Len(delivered) : delivered[i].id \in Ids(delivered)
          /\ \A i \in 1..Len(ring) : ring[i].id \in Ids(ring)
      BY <1>0, IdsIndexed
    <3>3. /\ \A i \in 1..Len(delivered) : delivered[i].id < h.id
          /\ \A i \in 1..Len(ring) : ring[i].id < h.id
      BY <3>1, <3>2
    <3>. QED BY <3>3, BelowNone
  <2>. QED BY <2>1, <2>2, <2>4, <2>6, <2>9, <2>10 DEF Rising, Below
<1>5. CASE PushFrame
  <2>1. PICK h \in Frame : hand = <<h>> /\ ring' = Append(ring, h) /\ hand' = <<>>
    BY <1>5, PushedIs
  <2>2. UNCHANGED <<delivered, handed, wire, sent>>
    BY <1>5 DEF PushFrame
  <2>3. /\ \A i \in 1..Len(ring) : ring[i].id < h.id
        /\ \A i \in 1..Len(delivered) : delivered[i].id < h.id
    BY <2>1, BelowNone
  <2>4. Rising(Append(ring, h))
    BY <1>0, <2>3, RisingAppend
  <2>5. Below(delivered, Append(ring, h))
    <3>1. Len(Append(ring, h)) = Len(ring) + 1 /\ Len(ring) \in Nat
          /\ Append(ring, h)[Len(ring) + 1] = h
          /\ \A j \in 1..Len(ring) : Append(ring, h)[j] = ring[j]
      BY <1>0, AppendProperties, LenProperties
    <3>. QED BY <2>3, <3>1 DEF Below
  <2>6. Below(delivered, <<>>) /\ Below(Append(ring, h), <<>>)
    BY BelowNone
  <2>. QED BY <2>1, <2>2, <2>4, <2>5, <2>6 DEF Rising, Below
<1>6. CASE DropFrame
  <2>1. hand' = <<>> /\ UNCHANGED <<delivered, handed, wire, sent, ring>>
    BY <1>6 DEF DropFrame
  <2>2. Below(delivered, <<>>) /\ Below(ring, <<>>)
    BY BelowNone
  <2>. QED BY <2>1, <2>2 DEF Rising, Below
<1>7. CASE StartRce
  <2>1. UNCHANGED <<handed, delivered, wire, sent>>
    BY <1>7 DEF StartRce
  <2>2. CASE KeepReceiver
    BY <2>1, <2>2 DEF KeepReceiver, Rising, Below
  <2>3. CASE NewReceiver
    <3>1. ring' = <<>> /\ hand' = <<>>
      BY <2>3 DEF NewReceiver
    <3>2. Below(delivered, <<>>) /\ Below(<<>>, <<>>) /\ Rising(<<>>)
      BY BelowNone
    <3>. QED BY <2>1, <3>1, <3>2 DEF Rising, Below
  <2>. QED BY <1>7, <2>2, <2>3 DEF StartRce
<1>8. CASE PopFrame
  <2>1. UNCHANGED <<handed, hand, wire, sent>>
    BY <1>8 DEF PopFrame
  <2>2. CASE ring = <<>>
    <3>1. UNCHANGED <<ring, delivered>>
      BY <1>8, <2>2 DEF PopFrame
    <3>. QED BY <2>1, <3>1 DEF Rising, Below
  <2>3. CASE ring # <<>>
    <3>1. PICK h \in Frame : /\ h = Head(ring) /\ ring' = Tail(ring) /\ Gives(h) \in Given
                            /\ delivered' = Append(delivered, Gives(h))
      BY <1>8, <2>3, PoppedIs
    <3>2. PICK g \in Given : g = Gives(h)
      BY <3>1
    <3>3. g.id = h.id
      BY <3>2 DEF Gives
    <3>4. Rising(Tail(ring)) /\ \A i \in 1..Len(Tail(ring)) : h.id < Tail(ring)[i].id
      BY <1>0, <2>3, <3>1, RisingTail
    <3>5. /\ \A i \in 1..Len(delivered) : delivered[i].id < h.id
          /\ \A i \in 1..Len(delivered), j \in 1..Len(Tail(ring)) :
               delivered[i].id < Tail(ring)[j].id
      <4>1. /\ Len(ring) \in Nat \ {0} /\ Len(Tail(ring)) = Len(ring) - 1 /\ h = ring[1]
            /\ \A j \in 1 .. Len(ring) - 1 : Tail(ring)[j] = ring[j + 1]
        BY <1>0, <2>3, <3>1, HeadTailProperties, LenProperties, EmptySeq
      <4>2. /\ 1 \in 1..Len(ring)
            /\ \A j \in 1..Len(Tail(ring)) : j \in 1 .. Len(ring) - 1 /\ j + 1 \in 1..Len(ring)
        BY <4>1
      <4>. QED BY <4>1, <4>2 DEF Below
    <3>6. Rising(Append(delivered, g))
      BY <1>0, <3>3, <3>5, RisingAppend
    <3>7. /\ Len(Append(delivered, g)) = Len(delivered) + 1 /\ Len(delivered) \in Nat
          /\ Append(delivered, g)[Len(delivered) + 1] = g
          /\ \A j \in 1..Len(delivered) : Append(delivered, g)[j] = delivered[j]
      BY <1>0, AppendProperties, LenProperties
    <3>8. Below(Append(delivered, g), Tail(ring))
      BY <3>3, <3>4, <3>5, <3>7 DEF Below
    <3>9. (\A j \in 1..Len(hand) : h.id < hand[j].id) /\ Below(Tail(ring), hand)
      BY <1>0, <2>3, <3>1, BelowTail
    <3>10. Below(Append(delivered, g), hand)
      BY <3>3, <3>7, <3>9 DEF Below
    <3>. QED BY <2>1, <3>1, <3>2, <3>4, <3>6, <3>8, <3>9, <3>10 DEF Rising, Below
  <2>. QED BY <2>2, <2>3
<1>. QED BY <1>1, <1>2, <1>3, <1>4, <1>5, <1>6, <1>7, <1>8 DEF RceNext

-----------------------------------------------------------------------------
(* The statistics, and the late frames. *)

LEMMA GivenByFinite ==
  ASSUME RceTypeOK, NEW r
  PROVE  /\ IsFiniteSet(GivenBy(r)) /\ Cardinality(GivenBy(r)) \in Nat
         /\ Len(delivered) + 1 \notin GivenBy(r)
<1>1. DOMAIN delivered = 1..Len(delivered) /\ Len(delivered) \in Nat
  BY LenProperties DEF RceTypeOK
<1>2. IsFiniteSet(1..Len(delivered))
  BY <1>1, FS_Interval
<1>3. GivenBy(r) \subseteq 1..Len(delivered)
  BY <1>1 DEF GivenBy
<1>4. IsFiniteSet(GivenBy(r))
  BY <1>2, <1>3, FS_Subset
<1>5. Len(delivered) + 1 \notin 1..Len(delivered)
  BY <1>1
<1>. QED BY <1>3, <1>4, <1>5, FS_CardinalityType

LEMMA CountStays ==
  ASSUME RceTypeOK, RunBegun, FramesCounted, RceNext
  PROVE  FramesCounted'
<1>. USE DEF FramesCounted, connection, acceptance
<1>0. /\ rxCnt \in Nat /\ overflow \in Nat /\ receiver \in Nat
      /\ Len(ring) \in Nat /\ Len(hand) \in Nat
      /\ DOMAIN delivered = 1..Len(delivered) /\ Len(delivered) \in Nat
      /\ Cardinality(GivenBy(receiver)) \in Nat
  BY GivenByFinite, LenProperties DEF RceTypeOK
<1>1. CASE SendFrame \/ Opens \/ Closes \/ RequestStop \/ StopRce \/ EndRce \/ CheckStop
  <2>1. UNCHANGED <<ring, hand, delivered, rxCnt, overflow, receiver>>
    BY <1>1 DEF SendFrame, Opens, Closes, RequestStop, StopRce, EndRce, CheckStop
  <2>. QED BY <2>1 DEF GivenBy
<1>2. CASE AcceptFrame
  <2>1. Len(hand) = 0 /\ Len(hand') = 1
    BY <1>2, AcceptedIs
  <2>2. rxCnt' = rxCnt + 1 /\ UNCHANGED <<ring, delivered, overflow, receiver>>
    BY <1>2 DEF AcceptFrame
  <2>3. GivenBy(receiver)' = GivenBy(receiver)
    BY <2>2 DEF GivenBy
  <2>. QED BY <1>0, <2>1, <2>2, <2>3
<1>3. CASE PushFrame
  <2>1. PICK h \in Frame : Len(hand) = 1 /\ ring' = Append(ring, h) /\ hand' = <<>>
    BY <1>3, PushedIs
  <2>2. Len(ring') = Len(ring) + 1 /\ Len(hand') = 0
    BY <2>1, AppendProperties DEF RceTypeOK
  <2>3. UNCHANGED <<rxCnt, delivered, overflow, receiver>>
    BY <1>3 DEF PushFrame
  <2>4. GivenBy(receiver)' = GivenBy(receiver)
    BY <2>3 DEF GivenBy
  <2>5. rxCnt = overflow + Cardinality(GivenBy(receiver)) + (Len(ring) + 1) + 0
    BY <1>0, <2>1
  <2>. QED BY <2>2, <2>3, <2>4, <2>5
<1>4. CASE DropFrame
  <2>1. Len(hand) = 1 /\ hand' = <<>> /\ Len(hand') = 0
    BY <1>4, HandIs DEF DropFrame
  <2>2. overflow' = overflow + 1 /\ UNCHANGED <<ring, delivered, rxCnt, receiver>>
    BY <1>4 DEF DropFrame
  <2>3. GivenBy(receiver)' = GivenBy(receiver)
    BY <2>2 DEF GivenBy
  <2>4. rxCnt = (overflow + 1) + Cardinality(GivenBy(receiver)) + Len(ring) + 0
    BY <1>0, <2>1
  <2>. QED BY <2>1, <2>2, <2>3, <2>4
<1>5. CASE StartRce
  <2>1. delivered' = delivered
    BY <1>5 DEF StartRce
  <2>2. CASE KeepReceiver
    BY <2>1, <2>2 DEF KeepReceiver, GivenBy
  <2>3. CASE NewReceiver
    <3>1. /\ receiver' = receiver + 1 /\ rxCnt' = 0 /\ overflow' = 0
          /\ ring' = <<>> /\ hand' = <<>> /\ Len(ring') = 0 /\ Len(hand') = 0
      BY <2>3 DEF NewReceiver
    <3>2. \A i \in DOMAIN delivered : delivered[i].by \in Int
      <4>1. \A i \in 1..Len(delivered) : delivered[i] \in Given
        BY ElementOfSeq DEF RceTypeOK
      <4>2. \A x \in Given : x.by \in Int
        BY DEF Given
      <4>. QED BY <1>0, <4>1, <4>2
    <3>3. \A i \in DOMAIN delivered : delivered[i].by < receiver + 1
      BY <1>0, <3>2
    <3>4. GivenBy(receiver)' = {}
      BY <1>0, <2>1, <3>1, <3>2, <3>3 DEF GivenBy
    <3>5. Cardinality(GivenBy(receiver)') = 0
      BY <3>4, FS_EmptySet
    <3>6. \A i \in DOMAIN delivered : delivered[i].by <= receiver + 1
      BY <1>0, <3>2, <3>3
    <3>. QED BY <2>1, <3>1, <3>5, <3>6
  <2>. QED BY <1>5, <2>2, <2>3 DEF StartRce
<1>6. CASE PopFrame
  <2>1. UNCHANGED <<receiver, hand, rxCnt, overflow>>
    BY <1>6 DEF PopFrame
  <2>2. CASE ring = <<>>
    <3>1. UNCHANGED <<ring, delivered>>
      BY <1>6, <2>2 DEF PopFrame
    <3>. QED BY <2>1, <3>1 DEF GivenBy
  <2>3. CASE ring # <<>>
    <3>1. PICK h \in Frame : /\ h = Head(ring) /\ ring' = Tail(ring) /\ Gives(h) \in Given
                            /\ delivered' = Append(delivered, Gives(h))
      BY <1>6, <2>3, PoppedIs
    <3>2. Len(ring') = Len(ring) - 1
      BY <2>3, <3>1, HeadTailProperties DEF RceTypeOK
    <3>3. PICK g \in Given : g = Gives(h) /\ g.by = receiver
      BY <3>1 DEF Gives
    <3>4. /\ DOMAIN delivered' = 1 .. Len(delivered) + 1
          /\ delivered'[Len(delivered) + 1] = g
          /\ \A j \in 1..Len(delivered) : delivered'[j] = delivered[j]
      <4>1. /\ DOMAIN Append(delivered, g) = 1 .. Len(delivered) + 1
            /\ Append(delivered, g)[Len(delivered) + 1] = g
            /\ \A j \in 1..Len(delivered) : Append(delivered, g)[j] = delivered[j]
        BY AppendProperties, LenProperties DEF RceTypeOK
      <4>. QED BY <3>1, <3>3, <4>1
    <3>5. 1 .. Len(delivered) + 1 = 1..Len(delivered) \cup {Len(delivered) + 1}
      BY <1>0
    <3>6. GivenBy(receiver)' = GivenBy(receiver) \cup {Len(delivered) + 1}
      BY <1>0, <2>1, <3>3, <3>4, <3>5 DEF GivenBy
    <3>7. Cardinality(GivenBy(receiver) \cup {Len(delivered) + 1})
            = Cardinality(GivenBy(receiver)) + 1
      BY GivenByFinite, FS_AddElement
    <3>8. \A i \in DOMAIN delivered' : delivered'[i].by <= receiver'
      <4>1. ASSUME NEW i \in DOMAIN delivered' PROVE delivered'[i].by <= receiver
        <5>1. CASE i = Len(delivered) + 1
          BY <1>0, <3>3, <3>4, <5>1
        <5>2. CASE i \in 1..Len(delivered)
          BY <1>0, <3>4, <5>2
        <5>. QED BY <3>4, <3>5, <4>1, <5>1, <5>2
      <4>. QED BY <2>1, <4>1
    <3>9. rxCnt = overflow + (Cardinality(GivenBy(receiver)) + 1) + (Len(ring) - 1) + Len(hand)
      <4>1. PICK c \in Nat, l \in Nat : c = Cardinality(GivenBy(receiver)) /\ l = Len(ring)
        BY <1>0, GivenByFinite, FS_CardinalityType
      <4>2. /\ c \in Nat /\ l \in Nat /\ overflow \in Nat /\ Len(hand) \in Nat
            /\ rxCnt = overflow + c + l + Len(hand)
        BY <1>0, <4>1 DEF RceTypeOK
      <4>3. rxCnt = overflow + (c + 1) + (l - 1) + Len(hand)
        BY ONLY <4>2
      <4>. QED BY <4>1, <4>3
    <3>. QED BY <2>1, <3>2, <3>6, <3>7, <3>8, <3>9
  <2>. QED BY <2>2, <2>3
<1>. QED BY <1>1, <1>2, <1>3, <1>4, <1>5, <1>6 DEF RceNext

LEMMA LateStay ==
  ASSUME RceTypeOK, RunBegun, LateOnes, FromItsRun, RceNext
  PROVE  LateOnes' /\ FromItsRun'
<1>. USE DEF LateOnes, FromItsRun, connection, acceptance
<1>0. rceRun \in Int /\ DOMAIN ring = 1..Len(ring) /\ DOMAIN delivered = 1..Len(delivered)
      /\ Len(ring) \in Nat /\ Len(delivered) \in Nat
  BY LenProperties DEF RceTypeOK
<1>2. CASE SendFrame \/ Opens \/ Closes \/ AcceptFrame \/ DropFrame \/ RequestStop \/ EndRce
  BY <1>2 DEF SendFrame, Opens, Closes, AcceptFrame, DropFrame, RequestStop, EndRce
<1>3. CASE StopRce
  BY <1>3 DEF StopRce
<1>4. CASE CheckStop
  <2>1. UNCHANGED <<ring, delivered, late, rceRun>> /\ (data' = "none" => ring = <<>>) /\ data # "none"
    BY <1>4 DEF CheckStop, IsStop
  <2>. QED BY <2>1
<1>5. CASE PushFrame
  <2>1. PICK h \in Frame : hand[1] = h /\ ring' = Append(ring, h)
    BY <1>5, PushedIs
  <2>2. /\ UNCHANGED <<data, rceRun, delivered>> /\ late \subseteq late'
        /\ (data = "none" \/ h.run # rceRun => h.id \in late')
    BY <1>5, <2>1 DEF PushFrame
  <2>3. /\ DOMAIN ring' = 1 .. Len(ring) + 1
        /\ ring'[Len(ring) + 1] = h
        /\ \A j \in 1..Len(ring) : ring'[j] = ring[j]
    <3>1. /\ DOMAIN Append(ring, h) = 1 .. Len(ring) + 1
          /\ Append(ring, h)[Len(ring) + 1] = h
          /\ \A j \in 1..Len(ring) : Append(ring, h)[j] = ring[j]
      BY AppendProperties, LenProperties DEF RceTypeOK
    <3>. QED BY <2>1, <3>1
  <2>4. 1 .. Len(ring) + 1 = 1..Len(ring) \cup {Len(ring) + 1} /\ h.run \in Int
    BY <1>0 DEF Frame
  <2>. QED BY <1>0, <2>2, <2>3, <2>4
<1>6. CASE StartRce
  <2>1. data = "none" /\ UNCHANGED <<delivered, late>>
    BY <1>6 DEF StartRce
  <2>2. ring' = ring \/ ring' = <<>>
    BY <1>6 DEF StartRce, KeepReceiver, NewReceiver
  <2>. QED BY <2>1, <2>2
<1>7. CASE PopFrame
  <2>1. data = "loop" /\ data' = "check" /\ UNCHANGED <<late, rceRun>>
    BY <1>7 DEF PopFrame
  <2>2. CASE ring = <<>>
    <3>1. UNCHANGED <<ring, delivered>>
      BY <1>7, <2>2 DEF PopFrame
    <3>. QED BY <2>1, <3>1
  <2>3. CASE ring # <<>>
    <3>1. PICK h \in Frame : /\ h = Head(ring) /\ ring' = Tail(ring) /\ Gives(h) \in Given
                            /\ delivered' = Append(delivered, Gives(h))
      BY <1>7, <2>3, PoppedIs
    <3>2. /\ Len(ring) >= 1 /\ h = ring[1] /\ DOMAIN ring' = 1 .. Len(ring) - 1
          /\ \A j \in 1 .. Len(ring) - 1 : ring'[j] = ring[j + 1]
      <4>1. ring \in Seq(Frame)
        BY DEF RceTypeOK
      <4>. QED BY <1>0, <2>3, <3>1, <4>1, HeadTailProperties, EmptySeq
    <3>3. \A j \in DOMAIN ring' : j + 1 \in DOMAIN ring
      BY <1>0, <3>2
    <3>4. LateOnes'
      BY <2>1, <3>2, <3>3
    <3>5. PICK g \in Given : /\ g = Gives(h) /\ g.in = rceRun /\ g.run = h.run /\ g.id = h.id
      BY <3>1 DEF Gives
    <3>6. g.in > g.run => g.id \in late
      <4>1. 1 \in DOMAIN ring /\ h.run \in Int
        BY <1>0, <3>2 DEF Frame
      <4>. QED BY <1>0, <3>2, <3>5, <4>1
    <3>7. /\ DOMAIN delivered' = 1 .. Len(delivered) + 1
          /\ delivered'[Len(delivered) + 1] = g
          /\ \A j \in 1..Len(delivered) : delivered'[j] = delivered[j]
      <4>1. /\ DOMAIN Append(delivered, g) = 1 .. Len(delivered) + 1
            /\ Append(delivered, g)[Len(delivered) + 1] = g
            /\ \A j \in 1..Len(delivered) : Append(delivered, g)[j] = delivered[j]
        BY AppendProperties, LenProperties DEF RceTypeOK
      <4>. QED BY <3>1, <3>5, <4>1
    <3>8. 1 .. Len(delivered) + 1 = 1..Len(delivered) \cup {Len(delivered) + 1}
      BY <1>0
    <3>9. FromItsRun'
      BY <1>0, <2>1, <3>6, <3>7, <3>8
    <3>. QED BY <3>4, <3>9
  <2>. QED BY <2>2, <2>3
<1>. QED BY <1>2, <1>3, <1>4, <1>5, <1>6, <1>7 DEF RceNext

LEMMA RssiKept == ASSUME RssiInv, [RceNext]_rceVars PROVE RssiInv'
<1>1. CASE RceNext
  BY <1>1, RssiTyped, OnePlaceStays, OrderStays, CountStays, LateStay DEF RssiInv
<1>2. CASE UNCHANGED rceVars
  <2>. USE <1>2 DEF rceVars, RssiInv
  <2>1. RceTypeOK' /\ RunBegun'
    BY DEF RceTypeOK, RunBegun
  <2>2. EachInOnePlace'
    BY DEF EachInOnePlace, DeliveredIds, Held
  <2>3. FramesOrdered'
    BY DEF FramesOrdered, Rising, Below
  <2>4. FramesCounted'
    <3>1. GivenBy(receiver)' = GivenBy(receiver)
      BY DEF GivenBy
    <3>. QED BY <3>1 DEF FramesCounted
  <2>5. LateOnes' /\ FromItsRun'
    BY DEF LateOnes, FromItsRun
  <2>. QED BY <2>1, <2>2, <2>3, <2>4, <2>5
<1>. QED BY <1>1, <1>2

-----------------------------------------------------------------------------
(* What follows: the order of all that was taken, and the statistics. *)

Numbers(s) == [i \in DOMAIN s |-> s[i].id]

LEMMA NumbersOf ==
  ASSUME NEW S, NEW s \in Seq(S), \A i \in 1..Len(s) : s[i].id \in Int
  PROVE  /\ Numbers(s) \in Seq(Int) /\ Len(Numbers(s)) = Len(s)
         /\ \A i \in 1..Len(s) : Numbers(s)[i] = s[i].id
<1>1. DOMAIN s = 1..Len(s) /\ Len(s) \in Nat
  BY LenProperties
<1>2. Numbers(s) = [i \in 1..Len(s) |-> s[i].id]
  BY <1>1 DEF Numbers
<1>3. Numbers(s) \in Seq(Int)
  BY <1>1, <1>2
<1>4. Len(Numbers(s)) = Len(s)
  BY <1>1, <1>2
<1>. QED BY <1>1, <1>2, <1>3, <1>4

\* u before v: two sequences of numbers that rise
Climbs(u) == \A i, j \in 1..Len(u) : i < j => u[i] < u[j]
LEMMA ClimbsOn ==
  ASSUME NEW u \in Seq(Int), NEW v \in Seq(Int), Climbs(u), Climbs(v),
         \A i \in 1..Len(u), j \in 1..Len(v) : u[i] < v[j]
  PROVE  /\ Climbs(u \o v) /\ u \o v \in Seq(Int)
         /\ \A k \in 1..Len(u \o v) :
              \/ \E i \in 1..Len(u) : (u \o v)[k] = u[i]
              \/ \E j \in 1..Len(v) : (u \o v)[k] = v[j]
<1>1. /\ Len(u \o v) = Len(u) + Len(v) /\ Len(u) \in Nat /\ Len(v) \in Nat
      /\ u \o v \in Seq(Int)
      /\ \A k \in 1..Len(u) : (u \o v)[k] = u[k]
      /\ \A k \in 1 .. Len(u) + Len(v) : k > Len(u) => (u \o v)[k] = v[k - Len(u)]
  BY ConcatProperties, LenProperties
<1>2. \A k \in 1 .. Len(u) + Len(v) : k \in 1..Len(u) \/ (k > Len(u) /\ k - Len(u) \in 1..Len(v))
  BY <1>1
<1>3. ASSUME NEW i \in 1 .. Len(u) + Len(v), NEW j \in 1 .. Len(u) + Len(v), i < j
      PROVE  (u \o v)[i] < (u \o v)[j]
  <2>1. CASE j \in 1..Len(u)
    <3>1. i \in 1..Len(u)
      BY <1>1, <1>3, <2>1
    <3>. QED BY <1>1, <1>3, <2>1, <3>1 DEF Climbs
  <2>2. CASE j > Len(u) /\ i \in 1..Len(u)
    <3>1. j - Len(u) \in 1..Len(v)
      BY <1>1, <2>2
    <3>. QED BY <1>1, <2>2, <3>1
  <2>3. CASE j > Len(u) /\ i > Len(u)
    <3>1. i - Len(u) \in 1..Len(v) /\ j - Len(u) \in 1..Len(v) /\ i - Len(u) < j - Len(u)
      BY <1>1, <1>3, <2>3
    <3>. QED BY <1>1, <2>3, <3>1 DEF Climbs
  <2>. QED BY <1>1, <1>2, <2>1, <2>2, <2>3
<1>4. ASSUME NEW k \in 1 .. Len(u) + Len(v)
      PROVE  \/ \E i \in 1..Len(u) : (u \o v)[k] = u[i]
             \/ \E j \in 1..Len(v) : (u \o v)[k] = v[j]
  BY <1>1, <1>2
<1>. QED BY <1>1, <1>3, <1>4 DEF Climbs

LEMMA OrderGives == ASSUME RceTypeOK, FramesOrdered PROVE InOrder
<1>1. /\ delivered \in Seq(Given) /\ ring \in Seq(Frame) /\ hand \in Seq(Frame)
      /\ Len(hand) \in {0, 1}
  BY DEF RceTypeOK
<1>2. PICK d, r, h : d = Numbers(delivered) /\ r = Numbers(ring) /\ h = Numbers(hand)
  OBVIOUS
<1>3. /\ d \in Seq(Int) /\ Len(d) = Len(delivered)
      /\ \A i \in 1..Len(delivered) : d[i] = delivered[i].id
  BY <1>1, <1>2, NumbersOf, NumberIsInt
<1>4. /\ r \in Seq(Int) /\ Len(r) = Len(ring)
      /\ \A i \in 1..Len(ring) : r[i] = ring[i].id
  BY <1>1, <1>2, NumbersOf, NumberIsInt
<1>5. /\ h \in Seq(Int) /\ Len(h) = Len(hand)
      /\ \A i \in 1..Len(hand) : h[i] = hand[i].id
  BY <1>1, <1>2, NumbersOf, NumberIsInt
<1>6. Climbs(d) /\ Climbs(r) /\ Climbs(h)
  <2>1. Climbs(d) /\ Climbs(r)
    BY <1>3, <1>4 DEF Climbs, Rising, FramesOrdered
  <2>2. Climbs(h)
    <3>1. Len(h) \in {0, 1}
      BY <1>1, <1>5
    <3>2. PICK n : n = Len(h)
      OBVIOUS
    <3>3. ASSUME NEW i \in 1..n, NEW j \in 1..n, i < j PROVE FALSE
      <4>1. n = 0 \/ n = 1
        BY <3>1, <3>2
      <4>. QED BY <3>3, <4>1
    <3>. QED BY <3>2, <3>3 DEF Climbs
  <2>. QED BY <2>1, <2>2
<1>7. /\ \A i \in 1..Len(d), j \in 1..Len(r) : d[i] < r[j]
      /\ \A i \in 1..Len(d), j \in 1..Len(h) : d[i] < h[j]
      /\ \A i \in 1..Len(r), j \in 1..Len(h) : r[i] < h[j]
  BY <1>3, <1>4, <1>5 DEF Below, FramesOrdered
<1>8. /\ Climbs(d \o r) /\ d \o r \in Seq(Int)
      /\ \A k \in 1..Len(d \o r) :
           \/ \E i \in 1..Len(d) : (d \o r)[k] = d[i]
           \/ \E j \in 1..Len(r) : (d \o r)[k] = r[j]
  BY <1>3, <1>4, <1>6, <1>7, ClimbsOn
<1>9. \A k \in 1..Len(d \o r), j \in 1..Len(h) : (d \o r)[k] < h[j]
  BY <1>7, <1>8
<1>10. PICK e : e = d \o r
  OBVIOUS
<1>11. Climbs(e \o h) /\ e \o h \in Seq(Int)
  BY <1>5, <1>6, <1>8, <1>9, <1>10, ClimbsOn
<1>12. DOMAIN (e \o h) = 1..Len(e \o h)
  BY <1>11, LenProperties
<1>13. \A i, j \in DOMAIN (d \o r \o h) : i < j => (d \o r \o h)[i] < (d \o r \o h)[j]
  BY <1>10, <1>11, <1>12 DEF Climbs
<1>. QED BY <1>2, <1>13 DEF InOrder, Numbers

\* the frames held are as many as the ring and the sink's hand have
LEMMA RisingCount ==
  ASSUME NEW S, NEW s \in Seq(S), Rising(s), \A i \in 1..Len(s) : s[i].id \in Int
  PROVE  IsFiniteSet(Ids(s)) /\ Cardinality(Ids(s)) = Len(s)
<1>1. DOMAIN s = 1..Len(s) /\ Len(s) \in Nat
  BY LenProperties
<1>2. IsFiniteSet(1..Len(s)) /\ Cardinality(1..Len(s)) = Len(s)
  <2>1. \A a, b \in Int : /\ IsFiniteSet(a..b)
                          /\ Cardinality(a..b) = IF a > b THEN 0 ELSE b - a + 1
    BY FS_Interval
  <2>. QED BY <1>1, <2>1
<1>3. PICK f : f = [i \in 1..Len(s) |-> s[i].id]
  OBVIOUS
<1>4. f \in Bijection(1..Len(s), Ids(s))
  <2>1. f \in [1..Len(s) -> Ids(s)] /\ \A n \in Ids(s) : \E i \in 1..Len(s) : f[i] = n
    BY <1>1, <1>3 DEF Ids
  <2>2. \A i, j \in 1..Len(s) : f[i] = f[j] => i = j
    BY <1>1, <1>3 DEF Rising
  <2>. QED BY <2>1, <2>2 DEF Bijection, Injection, Surjection, IsInjective
<1>5. ExistsBijection(1..Len(s), Ids(s))
  BY <1>4 DEF ExistsBijection
<1>. QED BY <1>2, <1>5, FS_Bijection

LEMMA CountGives == ASSUME RceTypeOK, FramesOrdered, FramesCounted PROVE StatisticsTell
<1>1. /\ ring \in Seq(Frame) /\ hand \in Seq(Frame) /\ Len(hand) \in {0, 1}
      /\ Len(ring) \in Nat
  BY LenProperties DEF RceTypeOK
<1>2. IsFiniteSet(Ids(ring)) /\ Cardinality(Ids(ring)) = Len(ring)
  BY <1>1, RisingCount, NumberIsInt DEF FramesOrdered
<1>3. IsFiniteSet(Ids(hand)) /\ Cardinality(Ids(hand)) = Len(hand)
  <2>1. Rising(hand)
    BY <1>1 DEF Rising
  <2>. QED BY <1>1, <2>1, RisingCount, NumberIsInt
<1>4. Ids(ring) \cap Ids(hand) = {}
  <2>1. /\ \A n : n \in Ids(ring) <=> \E i \in 1..Len(ring) : n = ring[i].id
        /\ \A n : n \in Ids(hand) <=> \E i \in 1..Len(hand) : n = hand[i].id
    BY <1>1, IdsIndexed
  <2>2. /\ \A i \in 1..Len(ring) : ring[i].id \in Int
        /\ \A j \in 1..Len(hand) : hand[j].id \in Int
    BY <1>1, NumberIsInt
  <2>3. ASSUME NEW i \in 1..Len(ring), NEW j \in 1..Len(hand) PROVE ring[i].id # hand[j].id
    BY <2>2 DEF FramesOrdered, Below
  <2>. QED BY <2>1, <2>3
<1>5. Cardinality(Held) = Len(ring) + Len(hand)
  <2>1. Cardinality(Ids(ring) \cup Ids(hand))
          = Cardinality(Ids(ring)) + Cardinality(Ids(hand)) - Cardinality(Ids(ring) \cap Ids(hand))
    BY <1>2, <1>3, FS_Union
  <2>2. Cardinality(Ids(ring) \cap Ids(hand)) = 0
    BY <1>4, FS_EmptySet
  <2>. QED BY <1>1, <1>2, <1>3, <2>1, <2>2, Places
<1>6. /\ rxCnt \in Nat /\ overflow \in Nat /\ Cardinality(GivenBy(receiver)) \in Nat
  BY GivenByFinite DEF RceTypeOK
<1>7. rxCnt - overflow = Cardinality(GivenBy(receiver)) + Cardinality(Held)
  BY <1>1, <1>5, <1>6 DEF FramesCounted
<1>. QED BY <1>7 DEF StatisticsTell, GivenBy

(* No frame that reached the sink of a receiver is lost without being      *)
(* counted, is given twice or out of order, whatever the ring, the runs    *)
(* and the connections lost; the statistics tell how many are there; and a *)
(* run gets a frame of an earlier one only when the frame came too late.   *)
THEOREM RssiFramesAccounted == RceSpec => []FramesAccounted
<1>1. RssiInv => FramesAccounted
  BY OrderGives, CountGives DEF RssiInv, FramesAccounted
<1>2. RceSpec => []RssiInv
  BY RssiInitially, RssiKept, PTL DEF RceSpec
<1>. QED BY <1>1, <1>2, PTL
-----------------------------------------------------------------------------
(* The trigger primitive finder: TPFinder.tla. *)

Ending == {"ending", "joinProcessing", "joinMetrics", "gone"}

\* the queue: messages in their order, then ends of messages; the thread is at the first
QueueRight ==
  /\ \A i \in 1..Len(items) : IF IsEnd(items[i]) THEN dpc \in Ending /\ items[i].hits = 0
                              ELSE items[i].ts < next
  /\ \A i, j \in 1..Len(items) : i < j => items[i].ts < items[j].ts \/ IsEnd(items[j])
  /\ ppc \in {"found", "message", "sending", "queued", "stored"} => Len(items) > 0
  /\ ppc \in {"message", "sending", "queued", "stored"} => ~IsEnd(items[1])
  /\ ends <= tries

\* the hits of the first message have been found, and it is in the queue still
Taken == ppc \in {"sending", "queued", "stored"}

\* the hits of the messages accepted are found, or will be
SearchedAre ==
  /\ ToSet(found) \subseteq searched
  /\ \A i \in 1..Len(items) : ToSet(HitsOf(items[i])) \subseteq searched
  /\ \A h \in searched : \/ h \in ToSet(found)
                         \/ \E i \in 1..Len(items) : (i > 1 \/ ~Taken) /\ h \in ToSet(HitsOf(items[i]))

LatestRight ==
  begun => /\ latest < next
           /\ \A i \in 1..Len(items) : \/ latest < items[i].ts
                                       \/ i = 1 /\ ppc = "stored" /\ latest = items[1].ts

\* the newest of the hits found, in their order
NewestKept ==
  /\ Len(primitives) = IF Len(found) > MaxHits THEN MaxHits ELSE Len(found)
  /\ \A i \in 1..Len(primitives) : primitives[i] = found[Len(found) - Len(primitives) + i]

\* what has been processed has come as far as the window's end, and stays there
CameSoFar == qpc \in {"ready", "answered"} /\ measured => begun /\ latest >= window[2]

FinderInv ==
  /\ TpTypeOK /\ QueueRight /\ SearchedAre /\ LatestRight /\ NewestKept /\ CameSoFar
  /\ HitsComplete

LEMMA TpNumbers ==
  /\ MaxMessages \in Nat /\ END_OF_MESSAGES = MaxMessages + 1 /\ END_OF_MESSAGES \in Nat
  /\ ItemRoom \in Nat \ {0} /\ MaxHits \in Nat \ {0} /\ EndMessages \in Nat
  /\ HitCounts \subseteq Nat /\ AnyStamp \subseteq Nat
BY TPFinderAssumption DEF END_OF_MESSAGES

LEMMA ItemsAre ==
  ASSUME TpTypeOK
  PROVE  /\ items \in Seq(Item) /\ Len(items) \in Nat /\ DOMAIN items = 1..Len(items)
         /\ \A i \in 1..Len(items) : /\ items[i] \in Item /\ items[i].hits \in Nat
                                     /\ items[i].ts \in 1..END_OF_MESSAGES
         /\ Len(items) > 0 => Head(items) = items[1] /\ items # <<>> /\ 1 \in 1..Len(items)
         /\ items # <<>> => Len(items) > 0
<1>1. /\ items \in Seq(Item) /\ Len(items) \in Nat /\ DOMAIN items = 1..Len(items)
  BY LenProperties DEF TpTypeOK
<1>2. \A i \in 1..Len(items) : items[i] \in Item
  BY <1>1, ElementOfSeq
<1>3. \A m \in Item : m.hits \in Nat /\ m.ts \in 1..END_OF_MESSAGES
  BY DEF Item
<1>4. Len(items) > 0 => Head(items) = items[1] /\ items # <<>> /\ 1 \in 1..Len(items)
  BY <1>1, HeadTailProperties, EmptySeq
<1>5. items # <<>> => Len(items) > 0
  BY <1>1, EmptySeq
<1>. QED BY <1>1, <1>2, <1>3, <1>4, <1>5

LEMMA PoppedItem ==
  ASSUME TpTypeOK, Len(items) > 0
  PROVE  LET t == Tail(items)
         IN  /\ t \in Seq(Item) /\ Len(t) = Len(items) - 1
             /\ \A i \in 1..Len(t) : i + 1 \in 1..Len(items) /\ t[i] = items[i + 1]
<1>1. items # <<>> /\ items \in Seq(Item) /\ Len(items) \in Nat
  BY ItemsAre
<1>2. /\ Tail(items) \in Seq(Item) /\ Len(Tail(items)) = Len(items) - 1
      /\ \A i \in 1 .. Len(items) - 1 : Tail(items)[i] = items[i + 1]
  BY <1>1, HeadTailProperties
<1>. QED BY <1>1, <1>2

LEMMA AppendedItem ==
  ASSUME TpTypeOK, NEW m \in Item
  PROVE  LET t == Append(items, m)
         IN  /\ t \in Seq(Item) /\ Len(t) = Len(items) + 1 /\ t[Len(items) + 1] = m
             /\ \A i \in 1..Len(items) : t[i] = items[i]
BY AppendProperties DEF TpTypeOK

\* the hits of a message
LEMMA HitsAre ==
  ASSUME NEW m, m.ts \in 1..END_OF_MESSAGES, m.hits \in Nat
  PROVE  /\ ~IsEnd(m) => HitsOf(m) \in Seq(Hit)
         /\ Len(HitsOf(m)) = m.hits
         /\ \A k \in 1..m.hits : HitsOf(m)[k] = <<m.ts, k>>
         /\ \A h \in ToSet(HitsOf(m)) : h[1] = m.ts /\ h \in Nat \X Nat
         /\ m.hits = 0 => ToSet(HitsOf(m)) = {}
         /\ ToSet(HitsOf(m)) = {HitsOf(m)[k] : k \in 1..m.hits}
<1>1. HitsOf(m) = [k \in 1..m.hits |-> <<m.ts, k>>]
  BY DEF HitsOf
<1>2. Len(HitsOf(m)) = m.hits /\ DOMAIN HitsOf(m) = 1..m.hits
  BY <1>1
<1>3. ~IsEnd(m) => HitsOf(m) \in Seq(Hit)
  <2>. SUFFICES ASSUME ~IsEnd(m) PROVE HitsOf(m) \in Seq(Hit)
    OBVIOUS
  <2>1. \A k \in 1..m.hits : <<m.ts, k>> \in Hit
    BY TpNumbers DEF Hit, IsEnd
  <2>. QED BY <1>1, <2>1
<1>4. \A k \in 1..m.hits : HitsOf(m)[k] = <<m.ts, k>>
  BY <1>1
<1>5. ToSet(HitsOf(m)) = {HitsOf(m)[k] : k \in 1..m.hits}
  BY <1>2 DEF ToSet
<1>6. \A h \in ToSet(HitsOf(m)) : h[1] = m.ts /\ h \in Nat \X Nat
  BY <1>4, <1>5, TpNumbers
<1>7. m.hits = 0 => ToSet(HitsOf(m)) = {}
  BY <1>5
<1>. QED BY <1>2, <1>3, <1>4, <1>5, <1>6, <1>7

LEMMA ToSetConcat ==
  ASSUME NEW S, NEW s \in Seq(S), NEW t \in Seq(S)
  PROVE  ToSet(s \o t) = ToSet(s) \cup ToSet(t)
<1>1. /\ Len(s) \in Nat /\ Len(t) \in Nat /\ Len(s \o t) = Len(s) + Len(t)
      /\ DOMAIN s = 1..Len(s) /\ DOMAIN t = 1..Len(t) /\ DOMAIN (s \o t) = 1 .. Len(s) + Len(t)
      /\ \A k \in 1..Len(s) : (s \o t)[k] = s[k]
      /\ \A k \in 1 .. Len(s) + Len(t) : k > Len(s) => (s \o t)[k] = t[k - Len(s)]
  BY ConcatProperties, LenProperties
<1>2. ASSUME NEW x \in ToSet(s \o t) PROVE x \in ToSet(s) \cup ToSet(t)
  <2>1. PICK k \in 1 .. Len(s) + Len(t) : x = (s \o t)[k]
    BY <1>1 DEF ToSet
  <2>2. k \in 1..Len(s) \/ (k > Len(s) /\ k - Len(s) \in 1..Len(t))
    BY <1>1
  <2>. QED BY <1>1, <2>1, <2>2 DEF ToSet
<1>3. ASSUME NEW x \in ToSet(s) PROVE x \in ToSet(s \o t)
  <2>1. PICK k \in 1..Len(s) : x = s[k]
    BY <1>1 DEF ToSet
  <2>2. k \in 1 .. Len(s) + Len(t) /\ (s \o t)[k] = x
    BY <1>1, <2>1
  <2>. QED BY <1>1, <2>2 DEF ToSet
<1>4. ASSUME NEW x \in ToSet(t) PROVE x \in ToSet(s \o t)
  <2>1. PICK k \in 1..Len(t) : x = t[k]
    BY <1>1 DEF ToSet
  <2>2. /\ Len(s) + k \in 1 .. Len(s) + Len(t) /\ Len(s) + k > Len(s) /\ (Len(s) + k) - Len(s) = k
    BY <1>1
  <2>3. (s \o t)[Len(s) + k] = x
    BY <1>1, <2>1, <2>2
  <2>. QED BY <1>1, <2>2, <2>3 DEF ToSet
<1>. QED BY <1>2, <1>3, <1>4

\* only the last MaxHits of the hits are kept
LEMMA KeptAre ==
  ASSUME NEW hits \in Seq(Hit)
  PROVE  /\ Kept(hits) \in Seq(Hit) /\ Len(Kept(hits)) <= MaxHits
         /\ Len(Kept(hits)) = IF Len(hits) > MaxHits THEN MaxHits ELSE Len(hits)
         /\ \A i \in 1..Len(Kept(hits)) : Kept(hits)[i] = hits[Len(hits) - Len(Kept(hits)) + i]
<1>. USE TpNumbers
<1>0. Len(hits) \in Nat
  BY LenProperties
<1>1. CASE Len(hits) > MaxHits
  <2>1. PICK n : n = Len(hits) - MaxHits + 1
    OBVIOUS
  <2>2. n \in 1 .. Len(hits) + 1 /\ Len(hits) - n + 1 = MaxHits
    BY <1>0, <1>1, <2>1
  <2>3. /\ SubSeq(hits, n, Len(hits)) \in Seq(Hit)
        /\ Len(SubSeq(hits, n, Len(hits))) = MaxHits
        /\ \A i \in 1..MaxHits : SubSeq(hits, n, Len(hits))[i] = hits[n + i - 1]
    <3>1. n \in Nat \ {0} /\ n \in 1 .. Len(hits) + 1 /\ Len(hits) \in 0..Len(hits)
      BY <1>0, <2>2
    <3>. QED BY <1>0, <2>2, <3>1, SubSeqProperties
  <2>4. Kept(hits) = SubSeq(hits, n, Len(hits))
    BY <1>1, <2>1 DEF Kept, Newest
  <2>5. \A i \in 1..MaxHits : n + i - 1 = Len(hits) - MaxHits + i
    BY <1>0, <2>1
  <2>6. /\ Kept(hits) \in Seq(Hit) /\ Len(Kept(hits)) = MaxHits
        /\ \A i \in 1..MaxHits : Kept(hits)[i] = hits[n + i - 1]
    BY <2>3, <2>4, Zenon
  <2>7. \A i \in 1..MaxHits : Kept(hits)[i] = hits[Len(hits) - MaxHits + i]
    BY <2>5, <2>6
  <2>. QED BY <1>1, <2>6, <2>7
<1>2. CASE ~(Len(hits) > MaxHits)
  <2>1. Kept(hits) = hits
    BY <1>2 DEF Kept
  <2>2. \A i \in 1..Len(hits) : Len(hits) - Len(hits) + i = i
    BY <1>0
  <2>. QED BY <1>0, <1>2, <2>1, <2>2
<1>. QED BY <1>1, <1>2

\* the hits of the first message are added to those found
FirstHits == HitsOf(Head(items))
LEMMA AddedAre ==
  ASSUME TpTypeOK, QueueRight, AddHits
  PROVE  /\ FirstHits \in Seq(Hit) /\ found' = found \o FirstHits
         /\ found \o FirstHits \in Seq(Hit) /\ primitives \o FirstHits \in Seq(Hit)
         /\ primitives' = Kept(primitives \o FirstHits)
         /\ FirstHits = HitsOf(items[1]) /\ 1 \in 1..Len(items)
<1>1. Len(items) > 0 /\ ~IsEnd(items[1])
  BY DEF QueueRight, AddHits
<1>2. Head(items) = items[1] /\ 1 \in 1..Len(items)
  BY <1>1, ItemsAre
<1>3. items[1].ts \in 1..END_OF_MESSAGES /\ items[1].hits \in Nat
  BY <1>2, ItemsAre
<1>4. FirstHits \in Seq(Hit)
  BY <1>1, <1>2, <1>3, HitsAre DEF FirstHits
<1>5. found \o FirstHits \in Seq(Hit) /\ primitives \o FirstHits \in Seq(Hit)
  BY <1>4, ConcatProperties DEF TpTypeOK
<1>. QED BY <1>2, <1>4, <1>5 DEF AddHits, FirstHits

LEMMA TpTyped ==
  ASSUME TpTypeOK, QueueRight, TpNext
  PROVE  TpTypeOK'
<1>. USE TpNumbers DEF finder, query, owner, input
<1>1. CASE Ready \/ Look \/ SeeStop \/ SeeMessage \/ Send \/ MetricsSee
  <2>1. UNCHANGED <<items, primitives, latest, found, begun, next, searched, sender, m_should_stop,
                    qpc, window, answer, measured, dpc, ends, tries>>
    BY <1>1 DEF Ready, Look, SeeStop, SeeMessage, Send, MetricsSee
  <2>2. /\ isReady' \in {TRUE, isReady} /\ mpc' \in {"ended", mpc}
        /\ ppc' \in {ppc, "waiting", "found", "none", "ended", "dead", "message", "queued"}
    BY <1>1 DEF Ready, Look, SeeStop, SeeMessage, Send, MetricsSee
  <2>3. isReady' \in BOOLEAN
    BY <2>2 DEF TpTypeOK
  <2>. QED BY <2>1, <2>2, <2>3 DEF TpTypeOK
<1>2. CASE SeeEnd \/ PopItem
  <2>1. Tail(items) \in Seq(Item) /\ Len(Tail(items)) <= ItemRoom
    <3>1. Len(items) > 0 /\ Len(items) \in Nat /\ Len(items) <= ItemRoom
      BY <1>2, ItemsAre DEF QueueRight, SeeEnd, PopItem, TpTypeOK
    <3>. QED BY <3>1, PoppedItem
  <2>2. /\ items' = Tail(items) /\ ppc' \in {"ended", "waiting"}
        /\ UNCHANGED <<primitives, latest, found, begun, next, searched, sender, m_should_stop,
                       qpc, window, answer, measured, dpc, ends, tries, isReady, mpc>>
    BY <1>2 DEF SeeEnd, PopItem
  <2>. QED BY <2>1, <2>2 DEF TpTypeOK
<1>3. CASE \E n \in HitCounts : AddMessage(n)
  <2>1. PICK n \in HitCounts : AddMessage(n)
    BY <1>3
  <2>2. PICK m : m = [ts |-> next, hits |-> n]
    OBVIOUS
  <2>3. m \in Item /\ m.ts = next /\ m.hits = n /\ next \in 1..MaxMessages /\ ~IsEnd(m)
    BY <2>1, <2>2 DEF AddMessage, Item, TpTypeOK, IsEnd
  <2>4. HitsOf(m) = [k \in 1..n |-> <<next, k>>]
    BY <2>3 DEF HitsOf
  <2>5. {HitsOf(m)[k] : k \in 1..n} \subseteq Hit
    BY <2>3, <2>4 DEF Hit
  <2>6. searched' \subseteq Hit
    BY <2>1, <2>2, <2>5 DEF AddMessage, TpTypeOK
  <2>7. items' \in Seq(Item) /\ Len(items') <= ItemRoom
    <3>1. CASE isReady /\ Len(items) < ItemRoom
      <4>1. items' = Append(items, m)
        BY <2>1, <2>2, <3>1 DEF AddMessage
      <4>2. Len(items) + 1 <= ItemRoom
        BY <3>1, ItemsAre
      <4>. QED BY <2>3, <4>1, <4>2, AppendedItem
    <3>2. CASE ~(isReady /\ Len(items) < ItemRoom)
      BY <2>1, <3>2 DEF AddMessage, TpTypeOK
    <3>. QED BY <3>1, <3>2
  <2>8. next' \in 1..(MaxMessages + 1)
    BY <2>1, <2>3 DEF AddMessage
  <2>9. UNCHANGED <<primitives, latest, found, begun, sender, m_should_stop, ppc,
                       qpc, window, answer, measured, dpc, ends, tries, isReady, mpc>>
    BY <2>1 DEF AddMessage
  <2>. QED BY <2>6, <2>7, <2>8, <2>9 DEF TpTypeOK
<1>4. CASE AddHits
  <2>1. found' \in Seq(Hit) /\ primitives' \in Seq(Hit) /\ Len(primitives') <= MaxHits
    BY <1>4, AddedAre, KeptAre
  <2>2. /\ ppc' \in {"queued", "sending"}
        /\ UNCHANGED <<items, latest, begun, next, searched, sender, m_should_stop,
                       qpc, window, answer, measured, dpc, ends, tries, isReady, mpc>>
    BY <1>4 DEF AddHits
  <2>. QED BY <2>1, <2>2 DEF TpTypeOK
<1>5. CASE StoreLatest
  <2>1. latest' \in 1..MaxMessages
    <3>1. Len(items) > 0 /\ ~IsEnd(items[1]) /\ latest' = Head(items).ts
      BY <1>5 DEF StoreLatest, QueueRight
    <3>2. Head(items) = items[1] /\ items[1].ts \in 1..END_OF_MESSAGES
      BY <3>1, ItemsAre
    <3>. QED BY <3>1, <3>2 DEF IsEnd
  <2>2. /\ begun' = TRUE /\ ppc' = "stored"
        /\ UNCHANGED <<items, primitives, found, next, searched, sender, m_should_stop,
                       qpc, window, answer, measured, dpc, ends, tries, isReady, mpc>>
    BY <1>5 DEF StoreLatest
  <2>. QED BY <2>1, <2>2 DEF TpTypeOK
<1>6. CASE (\E w \in Windows : Ask(w)) \/ CaughtUp \/ Answer \/ TimeOut \/ Take
  <2>1. UNCHANGED <<items, primitives, latest, found, begun, next, searched, sender, m_should_stop,
                    ppc, mpc, isReady, dpc, ends, tries>>
    BY <1>6 DEF Ask, CaughtUp, Answer, TimeOut, Take
  <2>2. window' \in Windows \cup {<<0, 0>>}
    BY <1>6 DEF Ask, CaughtUp, Answer, TimeOut, Take, TpTypeOK
  <2>3. answer' \subseteq Hit
    <3>1. ToSet(primitives) \subseteq Hit
      BY LenProperties, ElementOfSeq DEF ToSet, TpTypeOK
    <3>. QED BY <1>6, <3>1 DEF Ask, CaughtUp, Answer, TimeOut, Take, TpTypeOK
  <2>4. measured' \in {measured, begun, FALSE}
    BY <1>6 DEF Ask, CaughtUp, Answer, TimeOut, Take
  <2>5. measured' \in BOOLEAN
    BY <2>4 DEF TpTypeOK
  <2>6. qpc' \in {"idle", "waiting", "ready", "answered", "timedOut"}
    BY <1>6 DEF Ask, CaughtUp, Answer, TimeOut, Take
  <2>. QED BY <2>1, <2>2, <2>3, <2>5, <2>6 DEF TpTypeOK
<1>7. CASE Stop \/ ResetSender \/ SubscriberJoined \/ DestroyFinder \/ EndsWritten
           \/ ProcessingJoined \/ MetricsJoined
  <2>1. UNCHANGED <<items, primitives, latest, found, begun, next, searched, isReady,
                    ppc, mpc, qpc, window, answer, measured, ends, tries>>
    BY <1>7 DEF Stop, ResetSender, SubscriberJoined, DestroyFinder, EndsWritten,
                ProcessingJoined, MetricsJoined
  <2>2. /\ dpc' \in {"stopping", "stopped", "subscriberEnded", "ending", "joinProcessing",
                     "joinMetrics", "gone"}
        /\ sender' \in {FALSE, sender} /\ m_should_stop' \in {TRUE, FALSE, m_should_stop}
    BY <1>7 DEF Stop, ResetSender, SubscriberJoined, DestroyFinder, EndsWritten,
                ProcessingJoined, MetricsJoined
  <2>3. sender' \in BOOLEAN /\ m_should_stop' \in BOOLEAN
    BY <2>2 DEF TpTypeOK
  <2>. QED BY <2>1, <2>2, <2>3 DEF TpTypeOK
<1>8. CASE WriteEnd
  <2>1. PICK m : m = [ts |-> END_OF_MESSAGES, hits |-> 0]
    OBVIOUS
  <2>2. m \in Item
    BY <2>1 DEF Item
  <2>3. items' \in Seq(Item) /\ Len(items') <= ItemRoom
    <3>1. CASE Len(items) < ItemRoom
      <4>1. items' = Append(items, m)
        BY <1>8, <2>1, <3>1 DEF WriteEnd
      <4>2. Len(items) + 1 <= ItemRoom
        BY <3>1, ItemsAre
      <4>. QED BY <2>2, <4>1, <4>2, AppendedItem
    <3>2. CASE ~(Len(items) < ItemRoom)
      BY <1>8, <3>2 DEF WriteEnd, TpTypeOK
    <3>. QED BY <3>1, <3>2
  <2>4. tries' \in 0..EndMessages /\ ends' \in 0..EndMessages
    BY <1>8 DEF WriteEnd, TpTypeOK, QueueRight
  <2>5. UNCHANGED <<primitives, latest, found, begun, next, searched, sender, m_should_stop, ppc,
                    qpc, window, answer, measured, dpc, isReady, mpc>>
    BY <1>8 DEF WriteEnd
  <2>. QED BY <2>3, <2>4, <2>5 DEF TpTypeOK
<1>. QED BY <1>1, <1>2, <1>3, <1>4, <1>5, <1>6, <1>7, <1>8 DEF TpNext, Process, Destruction

\* a step that touches no message and no hit, and what it may do to the processing thread
Quiet ==
  /\ UNCHANGED <<items, primitives, latest, found, begun, next, searched, ends, tries>>
  /\ dpc \in Ending => dpc' \in Ending
  /\ \/ ppc' = ppc
     \/ ppc' \in {"waiting", "none", "ended", "dead"} /\ ~Taken
     \/ ppc' = "found" /\ items # <<>> /\ ~Taken
     \/ ppc = "found" /\ ppc' = "message" /\ ~IsEnd(Head(items))
     \/ ppc = "sending" /\ ppc' \in {"queued", "dead"}

LEMMA StepIs ==
  ASSUME TpNext
  PROVE  \/ Quiet \/ SeeEnd \/ PopItem \/ AddHits \/ StoreLatest \/ WriteEnd
         \/ \E n \in HitCounts : AddMessage(n)
<1>. USE DEF finder, query, owner, input, Taken, Ending
<1>1. CASE Ready \/ Look
  BY <1>1 DEF Ready, Look, Quiet
<1>2. CASE SeeStop
  BY <1>2 DEF SeeStop, Quiet
<1>3. CASE SeeMessage
  BY <1>3 DEF SeeMessage, Quiet
<1>4. CASE Send
  BY <1>4 DEF Send, Quiet
<1>5. CASE MetricsSee \/ (\E w \in Windows : Ask(w)) \/ CaughtUp \/ Answer \/ TimeOut \/ Take
  BY <1>5 DEF MetricsSee, Ask, CaughtUp, Answer, TimeOut, Take, Quiet
<1>6. CASE Stop \/ ResetSender \/ SubscriberJoined \/ DestroyFinder \/ EndsWritten
           \/ ProcessingJoined \/ MetricsJoined
  BY <1>6 DEF Stop, ResetSender, SubscriberJoined, DestroyFinder, EndsWritten,
              ProcessingJoined, MetricsJoined, Quiet
<1>. QED BY <1>1, <1>2, <1>3, <1>4, <1>5, <1>6 DEF TpNext, Process, Destruction

\* what the subscriber adds, and what the destructor
LEMMA MessageIs ==
  ASSUME TpTypeOK, NEW n \in HitCounts, AddMessage(n)
  PROVE  \E m \in Item :
           /\ m.ts = next /\ m.hits = n /\ ~IsEnd(m) /\ dpc \notin Ending /\ next' = next + 1
           /\ UNCHANGED <<primitives, latest, found, begun, ppc, dpc, ends, tries, qpc, window,
                          answer, measured>>
           /\ \/ items' = items /\ searched' = searched
              \/ items' = Append(items, m) /\ searched' = searched \cup ToSet(HitsOf(m))
<1>. USE TpNumbers
<1>1. PICK m : m = [ts |-> next, hits |-> n]
  OBVIOUS
<1>2. m \in Item /\ m.ts = next /\ m.hits = n /\ next \in 1..MaxMessages /\ ~IsEnd(m)
  BY <1>1 DEF AddMessage, Item, TpTypeOK, IsEnd
<1>3. ToSet(HitsOf(m)) = {HitsOf(m)[k] : k \in 1..n}
  <2>1. m.ts \in 1..END_OF_MESSAGES /\ m.hits \in Nat
    BY <1>2
  <2>. QED BY <1>2, <2>1, HitsAre
<1>4. dpc \notin Ending /\ next' = next + 1
  BY DEF AddMessage, Ending
<1>5. UNCHANGED <<primitives, latest, found, begun, ppc, dpc, ends, tries, qpc, window,
                  answer, measured>>
  BY DEF AddMessage, query, owner
<1>6. \/ items' = items /\ searched' = searched
      \/ items' = Append(items, m) /\ searched' = searched \cup ToSet(HitsOf(m))
  BY <1>1, <1>3 DEF AddMessage
<1>. QED BY <1>2, <1>4, <1>5, <1>6

LEMMA EndIs ==
  ASSUME TpTypeOK, WriteEnd
  PROVE  \E m \in Item :
           /\ IsEnd(m) /\ m.hits = 0 /\ dpc \in Ending
           /\ UNCHANGED <<primitives, latest, found, begun, ppc, dpc, qpc, window, answer, measured,
                          next, searched>>
           /\ \/ items' = items /\ ends' = ends /\ tries' = tries + 1
              \/ items' = Append(items, m) /\ ends' = ends + 1 /\ tries' = tries + 1
<1>1. PICK m : m = [ts |-> END_OF_MESSAGES, hits |-> 0]
  OBVIOUS
<1>2. m \in Item /\ m.hits = 0 /\ IsEnd(m)
  BY <1>1, TpNumbers DEF Item, IsEnd
<1>. QED BY <1>1, <1>2 DEF WriteEnd, Ending, query, input

LEMMA QueueStays ==
  ASSUME TpTypeOK, QueueRight, TpNext
  PROVE  QueueRight'
<1>. USE TpNumbers DEF QueueRight
<1>0. /\ next \in Nat /\ Len(items) \in Nat /\ ends \in Nat /\ tries \in Nat
      /\ \A i \in 1..Len(items) : items[i].ts \in Nat
  BY ItemsAre DEF TpTypeOK
<1>1. CASE Quiet
  <2>1. /\ UNCHANGED <<items, next, ends, tries>>
        /\ \A m : IsEnd(m)' <=> IsEnd(m)
    BY <1>1 DEF Quiet, IsEnd, END_OF_MESSAGES
  <2>2. ppc' \in {"found", "message", "sending", "queued", "stored"} => Len(items) > 0
    BY <1>1, ItemsAre DEF Quiet
  <2>3. ppc' \in {"message", "sending", "queued", "stored"} => ~IsEnd(items[1])
    BY <1>1, ItemsAre DEF Quiet
  <2>4. dpc \in Ending => dpc' \in Ending
    BY <1>1 DEF Quiet
  <2>. QED BY <2>1, <2>2, <2>3, <2>4 DEF IsEnd
<1>2. CASE SeeEnd \/ PopItem
  <2>1. /\ items' = Tail(items) /\ ppc' \in {"ended", "waiting"} /\ Len(items) > 0
        /\ UNCHANGED <<next, dpc, ends, tries>>
    BY <1>2 DEF SeeEnd, PopItem, owner, input
  <2>2. PICK t : t = Tail(items)
    OBVIOUS
  <2>3. /\ Len(t) = Len(items) - 1 /\ Len(t) \in Nat
        /\ \A i \in 1..Len(t) : i + 1 \in 1..Len(items) /\ t[i] = items[i + 1]
    BY <1>0, <2>1, <2>2, PoppedItem
  <2>4. \A i \in 1..Len(t) : IF IsEnd(t[i]) THEN dpc \in Ending /\ t[i].hits = 0 ELSE t[i].ts < next
    BY <2>3
  <2>5. \A i, j \in 1..Len(t) : i < j => t[i].ts < t[j].ts \/ IsEnd(t[j])
    <3>1. ASSUME NEW i \in 1..Len(t), NEW j \in 1..Len(t), i < j
          PROVE  t[i].ts < t[j].ts \/ IsEnd(t[j])
      <4>1. i + 1 \in 1..Len(items) /\ j + 1 \in 1..Len(items) /\ i + 1 < j + 1
        BY <2>3, <3>1
      <4>. QED BY <2>3, <4>1
    <3>. QED BY <3>1
  <2>. QED BY <2>1, <2>2, <2>4, <2>5 DEF IsEnd
<1>3. CASE AddHits
  <2>1. /\ UNCHANGED <<items, next, ends, tries, dpc>> /\ ppc = "message" /\ ppc' \in {"queued", "sending"}
    BY <1>3 DEF AddHits, owner, input
  <2>. QED BY <2>1 DEF IsEnd
<1>4. CASE StoreLatest
  <2>1. /\ UNCHANGED <<items, next, ends, tries, dpc>> /\ ppc = "queued" /\ ppc' = "stored"
    BY <1>4 DEF StoreLatest, owner, input
  <2>. QED BY <2>1 DEF IsEnd
<1>5. CASE \E n \in HitCounts : AddMessage(n)
  <2>1. PICK m \in Item :
           /\ m.ts = next /\ ~IsEnd(m) /\ dpc \notin Ending /\ next' = next + 1
           /\ UNCHANGED <<ppc, dpc, ends, tries>>
           /\ items' = items \/ items' = Append(items, m)
    BY <1>5, MessageIs
  <2>2. CASE items' = items
    BY <1>0, <2>1, <2>2 DEF IsEnd
  <2>3. CASE items' = Append(items, m)
    <3>1. PICK t : t = Append(items, m)
      OBVIOUS
    <3>2. /\ Len(t) = Len(items) + 1 /\ t[Len(items) + 1] = m
          /\ \A i \in 1..Len(items) : t[i] = items[i]
      BY <3>1, AppendedItem
    <3>3. \A i \in 1..Len(t) : i \in 1..Len(items) \/ i = Len(items) + 1
      BY <1>0, <3>2
    <3>4. \A i \in 1..Len(items) : items[i].ts < next
      BY <2>1
    <3>5. \A i \in 1..Len(t) : ~IsEnd(t[i]) /\ t[i].ts < next + 1
      BY <1>0, <2>1, <3>2, <3>3, <3>4
    <3>6. \A i, j \in 1..Len(t) : i < j => t[i].ts < t[j].ts \/ IsEnd(t[j])
      <4>1. ASSUME NEW i \in 1..Len(t), NEW j \in 1..Len(t), i < j
            PROVE  t[i].ts < t[j].ts \/ IsEnd(t[j])
        <5>1. CASE j \in 1..Len(items)
          <6>1. i \in 1..Len(items)
            BY <1>0, <4>1, <5>1
          <6>. QED BY <3>2, <4>1, <5>1, <6>1
        <5>2. CASE j = Len(items) + 1
          <6>1. i \in 1..Len(items)
            BY <1>0, <4>1, <5>2
          <6>. QED BY <2>1, <3>2, <3>4, <5>2, <6>1
        <5>. QED BY <3>3, <5>1, <5>2
      <4>. QED BY <4>1
    <3>7. /\ ppc' \in {"found", "message", "sending", "queued", "stored"} => Len(t) > 0
          /\ ppc' \in {"message", "sending", "queued", "stored"} => ~IsEnd(t[1])
      BY <1>0, <2>1, <3>2, <3>5
    <3>. QED BY <2>1, <2>3, <3>1, <3>5, <3>6, <3>7 DEF IsEnd
  <2>. QED BY <2>1, <2>2, <2>3
<1>6. CASE WriteEnd
  <2>1. PICK m \in Item :
           /\ IsEnd(m) /\ m.hits = 0 /\ dpc \in Ending
           /\ UNCHANGED <<ppc, dpc, next>>
           /\ \/ items' = items /\ ends' = ends /\ tries' = tries + 1
              \/ items' = Append(items, m) /\ ends' = ends + 1 /\ tries' = tries + 1
    BY <1>6, EndIs
  <2>2. CASE items' = items /\ ends' = ends
    BY <1>0, <2>1, <2>2 DEF IsEnd
  <2>3. CASE items' = Append(items, m) /\ ends' = ends + 1
    <3>1. PICK t : t = Append(items, m)
      OBVIOUS
    <3>2. /\ Len(t) = Len(items) + 1 /\ t[Len(items) + 1] = m
          /\ \A i \in 1..Len(items) : t[i] = items[i]
      BY <3>1, AppendedItem
    <3>3. \A i \in 1..Len(t) : i \in 1..Len(items) \/ i = Len(items) + 1
      BY <1>0, <3>2
    <3>5. \A i \in 1..Len(t) : IF IsEnd(t[i]) THEN dpc \in Ending /\ t[i].hits = 0 ELSE t[i].ts < next
      BY <2>1, <3>2, <3>3
    <3>6. \A i, j \in 1..Len(t) : i < j => t[i].ts < t[j].ts \/ IsEnd(t[j])
      <4>1. ASSUME NEW i \in 1..Len(t), NEW j \in 1..Len(t), i < j
            PROVE  t[i].ts < t[j].ts \/ IsEnd(t[j])
        <5>1. CASE j \in 1..Len(items)
          <6>1. i \in 1..Len(items)
            BY <1>0, <4>1, <5>1
          <6>. QED BY <3>2, <4>1, <5>1, <6>1
        <5>2. CASE j = Len(items) + 1
          BY <2>1, <3>2, <5>2
        <5>. QED BY <3>3, <5>1, <5>2
      <4>. QED BY <4>1
    <3>7. /\ ppc' \in {"found", "message", "sending", "queued", "stored"} => Len(t) > 0
          /\ ppc' \in {"message", "sending", "queued", "stored"} => ~IsEnd(t[1])
      <4>1. Len(t) > 0
        BY <1>0, <3>2
      <4>2. Len(items) > 0 => t[1] = items[1]
        BY <1>0, <3>2
      <4>. QED BY <2>1, <4>1, <4>2
    <3>8. ends' <= tries'
      BY <1>0, <2>1, <2>3
    <3>. QED BY <2>1, <2>3, <3>1, <3>5, <3>6, <3>7, <3>8 DEF IsEnd
  <2>. QED BY <2>1, <2>2, <2>3
<1>. QED BY <1>1, <1>2, <1>3, <1>4, <1>5, <1>6, StepIs

LEMMA HitsOfFirst ==
  ASSUME TpTypeOK
  PROVE  \A i \in 1..Len(items) : /\ \A h \in ToSet(HitsOf(items[i])) : h[1] = items[i].ts
                                  /\ items[i].hits = 0 => ToSet(HitsOf(items[i])) = {}
BY ItemsAre, HitsAre

LEMMA SearchedStays ==
  ASSUME TpTypeOK, QueueRight, SearchedAre, TpNext
  PROVE  SearchedAre'
<1>. USE DEF SearchedAre, Taken
<1>0. Len(items) \in Nat
  BY ItemsAre
<1>1. CASE Quiet
  <2>1. UNCHANGED <<items, found, searched>>
    BY <1>1 DEF Quiet
  <2>2. \A m : HitsOf(m)' = HitsOf(m)
    BY DEF HitsOf
  <2>3. Taken' => Taken
    BY <1>1 DEF Quiet
  <2>. QED BY <2>1, <2>2, <2>3 DEF ToSet, HitsOf
<1>2. CASE SeeEnd
  <2>1. items' = Tail(items) /\ UNCHANGED <<found, searched>> /\ ppc' = "ended"
        /\ Len(items) > 0 /\ IsEnd(items[1]) /\ ppc = "found"
    BY <1>2, ItemsAre DEF SeeEnd, input, QueueRight
  <2>2. PICK t : t = Tail(items)
    OBVIOUS
  <2>3. /\ Len(t) = Len(items) - 1
        /\ \A i \in 1..Len(t) : i + 1 \in 1..Len(items) /\ t[i] = items[i + 1]
    BY <2>1, <2>2, PoppedItem
  <2>4. ToSet(HitsOf(items[1])) = {}
    <3>1. 1 \in 1..Len(items) /\ items[1].hits = 0
      BY <2>1, <1>0 DEF QueueRight
    <3>. QED BY <3>1, HitsOfFirst
  <2>5. \A i \in 1..Len(t) : ToSet(HitsOf(t[i])) \subseteq searched
    BY <2>3
  <2>6. ASSUME NEW h \in searched, h \notin ToSet(found)
        PROVE  \E i \in 1..Len(t) : h \in ToSet(HitsOf(t[i]))
    <3>1. PICK i \in 1..Len(items) : h \in ToSet(HitsOf(items[i]))
      BY <2>6
    <3>2. i # 1
      BY <2>4, <3>1
    <3>3. i - 1 \in 1..Len(t) /\ (i - 1) + 1 = i
      BY <1>0, <2>3, <3>2
    <3>. QED BY <2>3, <3>1, <3>3
  <2>7. \A m : HitsOf(m)' = HitsOf(m)
    BY DEF HitsOf
  <2>8. /\ items' = t /\ UNCHANGED <<found, searched>> /\ ~Taken'
        /\ \A h \in searched : h \in ToSet(found) \/ \E i \in 1..Len(t) : h \in ToSet(HitsOf(t[i]))
    BY <2>1, <2>2, <2>6
  <2>9. PICK q, f : q = searched /\ f = ToSet(found) /\ f \subseteq q
    OBVIOUS
  <2>10. searched' = q /\ ToSet(found)' = f
    BY <2>8, <2>9 DEF ToSet
  <2>11. (ToSet(found) \subseteq searched)'
    BY <2>9, <2>10
  <2>12. (\A i \in 1..Len(items) : ToSet(HitsOf(items[i])) \subseteq searched)'
    BY <2>5, <2>8, <2>9, <2>10 DEF ToSet, HitsOf
  <2>13. (\A h \in searched : \/ h \in ToSet(found)
                              \/ \E i \in 1..Len(items) : (i > 1 \/ ~Taken) /\ h \in ToSet(HitsOf(items[i])))'
    <3>1. \A h \in q : h \in f \/ \E i \in 1..Len(t) : h \in ToSet(HitsOf(t[i]))
      BY <2>8, <2>9
    <3>. QED BY <2>8, <2>10, <3>1 DEF ToSet, HitsOf
  <2>. QED BY <2>11, <2>12, <2>13
<1>3. CASE PopItem
  <2>1. items' = Tail(items) /\ UNCHANGED <<found, searched>> /\ ppc' = "waiting"
        /\ Len(items) > 0 /\ ppc = "stored"
    BY <1>3, ItemsAre DEF PopItem, input, QueueRight
  <2>2. PICK t : t = Tail(items)
    OBVIOUS
  <2>3. /\ Len(t) = Len(items) - 1
        /\ \A i \in 1..Len(t) : i + 1 \in 1..Len(items) /\ t[i] = items[i + 1]
    BY <2>1, <2>2, PoppedItem
  <2>5. \A i \in 1..Len(t) : ToSet(HitsOf(t[i])) \subseteq searched
    BY <2>3
  <2>6. ASSUME NEW h \in searched, h \notin ToSet(found)
        PROVE  \E i \in 1..Len(t) : h \in ToSet(HitsOf(t[i]))
    <3>1. PICK i \in 1..Len(items) : i > 1 /\ h \in ToSet(HitsOf(items[i]))
      BY <2>1, <2>6
    <3>3. i - 1 \in 1..Len(t) /\ (i - 1) + 1 = i
      BY <1>0, <2>3, <3>1
    <3>. QED BY <2>3, <3>1, <3>3
  <2>7. \A m : HitsOf(m)' = HitsOf(m)
    BY DEF HitsOf
  <2>8. /\ items' = t /\ UNCHANGED <<found, searched>> /\ ~Taken'
        /\ \A h \in searched : h \in ToSet(found) \/ \E i \in 1..Len(t) : h \in ToSet(HitsOf(t[i]))
    BY <2>1, <2>2, <2>6
  <2>9. PICK q, f : q = searched /\ f = ToSet(found) /\ f \subseteq q
    OBVIOUS
  <2>10. searched' = q /\ ToSet(found)' = f
    BY <2>8, <2>9 DEF ToSet
  <2>11. (ToSet(found) \subseteq searched)'
    BY <2>9, <2>10
  <2>12. (\A i \in 1..Len(items) : ToSet(HitsOf(items[i])) \subseteq searched)'
    BY <2>5, <2>8, <2>9, <2>10 DEF ToSet, HitsOf
  <2>13. (\A h \in searched : \/ h \in ToSet(found)
                              \/ \E i \in 1..Len(items) : (i > 1 \/ ~Taken) /\ h \in ToSet(HitsOf(items[i])))'
    <3>1. \A h \in q : h \in f \/ \E i \in 1..Len(t) : h \in ToSet(HitsOf(t[i]))
      BY <2>8, <2>9
    <3>. QED BY <2>8, <2>10, <3>1 DEF ToSet, HitsOf
  <2>. QED BY <2>11, <2>12, <2>13
<1>4. CASE AddHits
  <2>1. /\ FirstHits \in Seq(Hit) /\ found' = found \o FirstHits
        /\ FirstHits = HitsOf(items[1]) /\ 1 \in 1..Len(items)
    BY <1>4, AddedAre
  <2>2. /\ UNCHANGED <<items, searched>> /\ ppc = "message" /\ ppc' \in {"queued", "sending"}
    BY <1>4 DEF AddHits, input
  <2>3. ToSet(found \o FirstHits) = ToSet(found) \cup ToSet(HitsOf(items[1]))
    BY <2>1, ToSetConcat DEF TpTypeOK
  <2>4. ToSet(found \o FirstHits) \subseteq searched
    BY <2>1, <2>3
  <2>5. ASSUME NEW h \in searched, h \notin ToSet(found \o FirstHits)
        PROVE  \E i \in 1..Len(items) : i > 1 /\ h \in ToSet(HitsOf(items[i]))
    <3>1. PICK i \in 1..Len(items) : h \in ToSet(HitsOf(items[i]))
      BY <2>3, <2>5
    <3>2. i # 1
      BY <2>3, <2>5, <3>1
    <3>. QED BY <1>0, <3>1, <3>2
  <2>6. PICK f : f = found \o FirstHits
    OBVIOUS
  <2>7. \A m : HitsOf(m)' = HitsOf(m)
    BY DEF HitsOf
  <2>8. found' = f /\ ToSet(f) \subseteq searched
        /\ \A h \in searched : h \in ToSet(f) \/ \E i \in 1..Len(items) : i > 1 /\ h \in ToSet(HitsOf(items[i]))
    BY <2>1, <2>4, <2>5, <2>6
  <2>9. (ToSet(found) \subseteq searched)'
    BY <2>2, <2>8 DEF ToSet
  <2>10. (\A i \in 1..Len(items) : ToSet(HitsOf(items[i])) \subseteq searched)'
    BY <2>2 DEF ToSet, HitsOf
  <2>11. (\A h \in searched : \/ h \in ToSet(found)
                              \/ \E i \in 1..Len(items) : (i > 1 \/ ~Taken) /\ h \in ToSet(HitsOf(items[i])))'
    BY <2>2, <2>8 DEF ToSet, HitsOf
  <2>. QED BY <2>9, <2>10, <2>11
<1>5. CASE StoreLatest
  <2>1. UNCHANGED <<items, found, searched>> /\ ppc = "queued" /\ ppc' = "stored"
    BY <1>5 DEF StoreLatest, input
  <2>2. \A m : HitsOf(m)' = HitsOf(m)
    BY DEF HitsOf
  <2>. QED BY <2>1, <2>2 DEF ToSet, HitsOf
<1>6. CASE (\E n \in HitCounts : AddMessage(n)) \/ WriteEnd
  <2>1. PICK m \in Item :
          /\ UNCHANGED <<ppc, found>>
          /\ \/ items' = items /\ searched' = searched
             \/ items' = Append(items, m) /\ searched' = searched \cup ToSet(HitsOf(m))
    <3>1. CASE \E n \in HitCounts : AddMessage(n)
      BY <3>1, MessageIs
    <3>2. CASE WriteEnd
      <4>1. PICK m \in Item :
              /\ m.hits = 0 /\ UNCHANGED <<ppc, found, searched>>
              /\ items' = items \/ items' = Append(items, m)
        BY <3>2, EndIs
      <4>2. ToSet(HitsOf(m)) = {}
        <5>1. m.ts \in 1..END_OF_MESSAGES /\ m.hits \in Nat
          BY DEF Item
        <5>. QED BY <4>1, <5>1, HitsAre
      <4>. QED BY <4>1, <4>2
    <3>. QED BY <1>6, <3>1, <3>2
  <2>2. \A x : HitsOf(x)' = HitsOf(x)
    BY DEF HitsOf
  <2>3. CASE items' = items /\ searched' = searched
    BY <2>1, <2>2, <2>3 DEF ToSet, HitsOf
  <2>4. CASE items' = Append(items, m) /\ searched' = searched \cup ToSet(HitsOf(m))
    <3>1. PICK t, n : t = Append(items, m) /\ n = Len(items)
      OBVIOUS
    <3>2. /\ Len(t) = n + 1 /\ t[n + 1] = m
          /\ \A i \in 1..n : t[i] = items[i]
      BY <3>1, AppendedItem
    <3>3. /\ \A i \in 1..Len(t) : i \in 1..n \/ i = n + 1
          /\ n + 1 \in 1..Len(t) /\ \A i \in 1..n : i \in 1..Len(t)
      BY <1>0, <3>1, <3>2
    <3>4. PICK q : q = searched \cup ToSet(HitsOf(m))
      OBVIOUS
    <3>5. \A i \in 1..Len(t) : ToSet(HitsOf(t[i])) \subseteq q
      BY <3>1, <3>2, <3>3, <3>4
    <3>6. ASSUME NEW h \in q, h \notin ToSet(found)
          PROVE  \E i \in 1..Len(t) : (i > 1 \/ ~Taken) /\ h \in ToSet(HitsOf(t[i]))
      <4>1. CASE h \in searched
        <5>1. PICK i \in 1..n : (i > 1 \/ ~Taken) /\ h \in ToSet(HitsOf(items[i]))
          BY <3>1, <3>6, <4>1
        <5>. QED BY <3>2, <3>3, <5>1
      <4>2. CASE h \in ToSet(HitsOf(m))
        <5>1. n + 1 > 1 \/ ~Taken
          BY <1>0, <3>1 DEF QueueRight
        <5>. QED BY <3>2, <3>3, <4>2, <5>1
      <4>. QED BY <3>4, <3>6, <4>1, <4>2
    <3>7. items' = t /\ searched' = q /\ UNCHANGED <<ppc, found>>
      BY <2>1, <2>4, <3>1, <3>4
    <3>8. (ToSet(found) \subseteq searched)'
      BY <3>4, <3>7 DEF ToSet
    <3>9. (\A i \in 1..Len(items) : ToSet(HitsOf(items[i])) \subseteq searched)'
      BY <3>5, <3>7 DEF ToSet, HitsOf
    <3>10. (\A h \in searched : \/ h \in ToSet(found)
                                \/ \E i \in 1..Len(items) : (i > 1 \/ ~Taken) /\ h \in ToSet(HitsOf(items[i])))'
      BY <3>6, <3>7 DEF ToSet, HitsOf
    <3>. QED BY <3>8, <3>9, <3>10
  <2>. QED BY <2>1, <2>3, <2>4
<1>. QED BY <1>1, <1>2, <1>3, <1>4, <1>5, <1>6, StepIs

LEMMA LatestStays ==
  ASSUME TpTypeOK, QueueRight, LatestRight, TpNext
  PROVE  LatestRight'
<1>. USE DEF LatestRight
<1>0. /\ Len(items) \in Nat /\ next \in Nat /\ latest \in Nat
      /\ \A i \in 1..Len(items) : items[i].ts \in Nat
  BY ItemsAre, TpNumbers DEF TpTypeOK
<1>1. CASE Quiet \/ AddHits
  <2>1. UNCHANGED <<items, latest, begun, next>> /\ (ppc = "stored" => ppc' = "stored")
    BY <1>1 DEF Quiet, Taken, AddHits, input
  <2>. QED BY <2>1
<1>2. CASE SeeEnd \/ PopItem
  <2>1. items' = Tail(items) /\ UNCHANGED <<latest, begun, next>> /\ Len(items) > 0
    BY <1>2 DEF SeeEnd, PopItem, input, QueueRight
  <2>2. PICK t : t = Tail(items)
    OBVIOUS
  <2>3. /\ Len(t) = Len(items) - 1
        /\ \A i \in 1..Len(t) : i + 1 \in 1..Len(items) /\ t[i] = items[i + 1] /\ i + 1 # 1
    BY <2>1, <2>2, PoppedItem
  <2>. QED BY <2>1, <2>2, <2>3
<1>3. CASE StoreLatest
  <2>1. /\ UNCHANGED <<items, next>> /\ ppc' = "stored" /\ Len(items) > 0 /\ ~IsEnd(items[1])
        /\ latest' = Head(items).ts
    BY <1>3 DEF StoreLatest, input, QueueRight
  <2>2. 1 \in 1..Len(items) /\ latest' = items[1].ts
    BY <2>1, ItemsAre
  <2>3. items[1].ts < next
    BY <2>1, <2>2 DEF QueueRight
  <2>4. ASSUME NEW i \in 1..Len(items), i # 1 PROVE items[1].ts < items[i].ts
    <3>1. 1 < i
      BY <2>4, <1>0
    <3>2. items[1].ts < items[i].ts \/ IsEnd(items[i])
      BY <2>2, <3>1 DEF QueueRight
    <3>3. items[1].ts \in 1..END_OF_MESSAGES /\ items[1].ts # END_OF_MESSAGES
      BY <2>1, <2>2, ItemsAre DEF IsEnd
    <3>. QED BY <3>2, <3>3, TpNumbers DEF IsEnd
  <2>5. PICK u : u = items[1].ts
    OBVIOUS
  <2>6. latest' = u /\ u < next /\ \A i \in 1..Len(items) : u < items[i].ts \/ (i = 1 /\ u = items[1].ts)
    BY <2>2, <2>3, <2>4, <2>5
  <2>. QED BY <2>1, <2>6
<1>4. CASE \E n \in HitCounts : AddMessage(n)
  <2>1. PICK m \in Item :
           /\ m.ts = next /\ next' = next + 1
           /\ UNCHANGED <<ppc, latest, begun>>
           /\ items' = items \/ items' = Append(items, m)
    BY <1>4, MessageIs
  <2>2. CASE items' = items
    BY <1>0, <2>1, <2>2
  <2>3. CASE items' = Append(items, m)
    <3>1. PICK t, n : t = Append(items, m) /\ n = Len(items)
      OBVIOUS
    <3>2. /\ Len(t) = n + 1 /\ t[n + 1] = m
          /\ \A i \in 1..n : t[i] = items[i]
      BY <3>1, AppendedItem
    <3>3. \A i \in 1..Len(t) : i \in 1..n \/ i = n + 1
      BY <1>0, <3>1, <3>2
    <3>4. begun => latest < next + 1 /\ \A i \in 1..Len(t) : \/ latest < t[i].ts
                                                             \/ i = 1 /\ ppc = "stored" /\ latest = t[1].ts
      <4>1. ASSUME begun, NEW i \in 1..Len(t)
            PROVE  latest < t[i].ts \/ (i = 1 /\ ppc = "stored" /\ latest = t[1].ts)
        BY <1>0, <2>1, <3>1, <3>2, <3>3, <4>1
      <4>2. begun => latest < next + 1
        BY <1>0
      <4>. QED BY <4>1, <4>2
    <3>. QED BY <2>1, <2>3, <3>1, <3>4
  <2>. QED BY <2>1, <2>2, <2>3
<1>5. CASE WriteEnd
  <2>1. PICK m \in Item :
           /\ IsEnd(m) /\ UNCHANGED <<ppc, latest, begun, next>>
           /\ items' = items \/ items' = Append(items, m)
    BY <1>5, EndIs
  <2>2. CASE items' = items
    BY <2>1, <2>2
  <2>3. CASE items' = Append(items, m)
    <3>1. PICK t, n : t = Append(items, m) /\ n = Len(items)
      OBVIOUS
    <3>2. /\ Len(t) = n + 1 /\ t[n + 1] = m
          /\ \A i \in 1..n : t[i] = items[i]
      BY <3>1, AppendedItem
    <3>3. \A i \in 1..Len(t) : i \in 1..n \/ i = n + 1
      BY <1>0, <3>1, <3>2
    <3>4. next <= m.ts
      BY <2>1, TpNumbers DEF TpTypeOK, IsEnd
    <3>5. begun => \A i \in 1..Len(t) : \/ latest < t[i].ts
                                        \/ i = 1 /\ ppc = "stored" /\ latest = t[1].ts
      <4>1. ASSUME begun, NEW i \in 1..Len(t)
            PROVE  latest < t[i].ts \/ (i = 1 /\ ppc = "stored" /\ latest = t[1].ts)
        <5>1. CASE i \in 1..n
          BY <3>1, <3>2, <4>1, <5>1
        <5>2. CASE i = n + 1
          BY <1>0, <2>1, <3>2, <3>4, <4>1, <5>2, TpNumbers DEF IsEnd
        <5>. QED BY <3>3, <5>1, <5>2
      <4>. QED BY <4>1
    <3>. QED BY <2>1, <2>3, <3>1, <3>5
  <2>. QED BY <2>1, <2>2, <2>3
<1>. QED BY <1>1, <1>2, <1>3, <1>4, <1>5, StepIs

LEMMA NewestStay ==
  ASSUME TpTypeOK, QueueRight, NewestKept, TpNext
  PROVE  NewestKept'
<1>1. CASE AddHits
  <2>1. /\ FirstHits \in Seq(Hit) /\ found' = found \o FirstHits
        /\ primitives \o FirstHits \in Seq(Hit) /\ primitives' = Kept(primitives \o FirstHits)
        /\ found \in Seq(Hit) /\ primitives \in Seq(Hit)
    BY <1>1, AddedAre DEF TpTypeOK
  <2>2. PICK p, f, h, q, g, k : /\ p = primitives /\ f = found /\ h = FirstHits /\ q = p \o h
                                /\ g = f \o h /\ k = Kept(q)
    OBVIOUS
  <2>3. /\ Len(p) \in Nat /\ Len(f) \in Nat /\ Len(h) \in Nat /\ Len(q) = Len(p) + Len(h)
        /\ \A i \in 1..Len(p) : q[i] = p[i]
        /\ \A i \in 1 .. Len(p) + Len(h) : i > Len(p) => q[i] = h[i - Len(p)]
    BY <2>1, <2>2, ConcatProperties, LenProperties
  <2>4. /\ Len(g) = Len(f) + Len(h)
        /\ \A i \in 1..Len(f) : g[i] = f[i]
        /\ \A i \in 1 .. Len(f) + Len(h) : i > Len(f) => g[i] = h[i - Len(f)]
    BY <2>1, <2>2, ConcatProperties, LenProperties
  <2>5. /\ Len(k) = IF Len(q) > MaxHits THEN MaxHits ELSE Len(q)
        /\ \A i \in 1..Len(k) : k[i] = q[Len(q) - Len(k) + i]
    BY <2>1, <2>2, KeptAre
  <2>6. /\ Len(p) = IF Len(f) > MaxHits THEN MaxHits ELSE Len(f)
        /\ \A i \in 1..Len(p) : p[i] = f[Len(f) - Len(p) + i]
    BY <2>2 DEF NewestKept
  <2>7. PICK a, b, n, l : a = Len(p) /\ b = Len(f) /\ n = Len(h) /\ l = Len(k)
    OBVIOUS
  <2>8. /\ a \in Nat /\ b \in Nat /\ n \in Nat /\ l \in Nat /\ a <= b /\ l <= a + n
        /\ l = IF b + n > MaxHits THEN MaxHits ELSE b + n
    <3>1. a \in Nat /\ b \in Nat /\ n \in Nat /\ MaxHits \in Nat
      BY <2>3, <2>7, TpNumbers
    <3>2. /\ a = IF b > MaxHits THEN MaxHits ELSE b
          /\ l = IF a + n > MaxHits THEN MaxHits ELSE a + n
      BY <2>3, <2>5, <2>6, <2>7
    <3>. QED BY <3>1, <3>2
  <2>9. ASSUME NEW i \in 1..l PROVE k[i] = g[(b + n) - l + i]
    <3>1. k[i] = q[(a + n) - l + i]
      BY <2>3, <2>5, <2>7
    <3>2. PICK j : j = (a + n) - l + i
      OBVIOUS
    <3>3. j \in 1 .. a + n /\ (b + n) - l + i = b - a + j
      BY <2>8, <3>2
    <3>4. CASE j \in 1..a
      <4>1. q[j] = p[j] /\ p[j] = f[b - a + j]
        BY <2>3, <2>6, <2>7, <3>4
      <4>2. b - a + j \in 1..b
        BY <2>8, <3>4
      <4>. QED BY <2>4, <2>7, <3>1, <3>2, <3>3, <4>1, <4>2
    <3>5. CASE j > a
      <4>1. q[j] = h[j - a]
        BY <2>3, <2>7, <3>3, <3>5
      <4>2. /\ b - a + j \in 1 .. b + n /\ b - a + j > b /\ (b - a + j) - b = j - a
        BY <2>8, <3>3, <3>5
      <4>3. g[b - a + j] = h[(b - a + j) - b]
        BY <2>4, <2>7, <4>2
      <4>. QED BY <3>1, <3>2, <3>3, <4>1, <4>2, <4>3
    <3>. QED BY <2>8, <3>3, <3>4, <3>5
  <2>10. primitives' = k /\ found' = g /\ Len(g) = b + n
    BY <2>1, <2>2, <2>4, <2>7
  <2>11. /\ Len(k) = IF Len(g) > MaxHits THEN MaxHits ELSE Len(g)
         /\ \A i \in 1..Len(k) : k[i] = g[Len(g) - Len(k) + i]
    BY <2>7, <2>8, <2>9, <2>10
  <2>. QED BY <2>10, <2>11 DEF NewestKept
<1>2. CASE ~AddHits
  <2>1. UNCHANGED <<primitives, found>>
    BY <1>2, StepIs DEF Quiet, SeeEnd, PopItem, StoreLatest, WriteEnd, AddMessage
  <2>. QED BY <2>1 DEF NewestKept
<1>. QED BY <1>1, <1>2

LEMMA WindowIs == ASSUME TpTypeOK PROVE window[1] \in Nat /\ window[2] \in Nat
<1>1. CASE window \in Windows
  <2>1. window \in (0..MaxMessages) \X (0..MaxMessages)
    BY <1>1 DEF Windows
  <2>. QED BY <2>1, TpNumbers
<1>2. CASE window = <<0, 0>>
  BY <1>2
<1>. QED BY <1>1, <1>2 DEF TpTypeOK

LEMMA CameStays ==
  ASSUME TpTypeOK, QueueRight, LatestRight, CameSoFar, TpNext
  PROVE  CameSoFar'
<1>. USE DEF CameSoFar, finder, query, owner, input
<1>0. latest \in Nat /\ window[2] \in Nat /\ \A i \in 1..Len(items) : items[i].ts \in Nat
  BY ItemsAre, WindowIs, TpNumbers DEF TpTypeOK
<1>1. CASE StoreLatest
  <2>1. /\ ppc = "queued" /\ Len(items) > 0 /\ latest' = Head(items).ts /\ begun' = TRUE
        /\ UNCHANGED <<qpc, window, measured>>
    BY <1>1 DEF StoreLatest, QueueRight
  <2>2. 1 \in 1..Len(items) /\ latest' = items[1].ts
    BY <2>1, ItemsAre
  <2>3. begun => latest < items[1].ts
    BY <2>1, <2>2 DEF LatestRight
  <2>. QED BY <1>0, <2>1, <2>2, <2>3
<1>2. CASE CaughtUp
  BY <1>2 DEF CaughtUp, EndReached
<1>3. CASE (\E w \in Windows : Ask(w)) \/ Answer \/ TimeOut \/ Take
  BY <1>3 DEF Ask, Answer, TimeOut, Take
<1>4. CASE Ready \/ Look \/ SeeStop \/ SeeMessage \/ SeeEnd \/ AddHits \/ Send \/ PopItem \/ MetricsSee
  BY <1>4 DEF Ready, Look, SeeStop, SeeMessage, SeeEnd, AddHits, Send, PopItem, MetricsSee
<1>5. CASE (\E n \in HitCounts : AddMessage(n)) \/ Stop \/ ResetSender \/ SubscriberJoined
           \/ DestroyFinder \/ Destruction
  BY <1>5 DEF AddMessage, Stop, ResetSender, SubscriberJoined, DestroyFinder, Destruction,
              WriteEnd, EndsWritten, ProcessingJoined, MetricsJoined
<1>. QED BY <1>1, <1>2, <1>3, <1>4, <1>5 DEF TpNext, Process

\* what the matcher is given when the processing has come as far as the end of its window
LEMMA AnswerComplete ==
  ASSUME TpTypeOK, QueueRight, SearchedAre, LatestRight, NewestKept, CameSoFar, measured, Answer
  PROVE  LET a == {h \in ToSet(primitives) : Inside(h, window)}
         IN  /\ \A h \in a : h \in searched /\ Inside(h, window)
             /\ \A h \in searched : Inside(h, window) => h \in a \/ Pushed(h)
<1>0. /\ latest \in Nat /\ window[2] \in Nat /\ begun /\ latest >= window[2]
      /\ \A i \in 1..Len(items) : items[i].ts \in Nat
  <2>1. latest \in Nat
    BY TpNumbers DEF TpTypeOK
  <2>2. begun /\ latest >= window[2]
    BY DEF CameSoFar, Answer
  <2>3. \A i \in 1..Len(items) : items[i].ts \in 1..END_OF_MESSAGES
    BY ItemsAre
  <2>. QED BY <2>1, <2>2, <2>3, WindowIs, TpNumbers
<1>1. /\ DOMAIN primitives = 1..Len(primitives) /\ Len(primitives) \in Nat
      /\ DOMAIN found = 1..Len(found) /\ Len(found) \in Nat
      /\ Len(primitives) <= Len(found)
      /\ \A i \in 1..Len(found) : found[i] \in Hit
  BY LenProperties, ElementOfSeq, TpNumbers DEF TpTypeOK, NewestKept
<1>2. ToSet(primitives) \subseteq ToSet(found)
  <2>1. ASSUME NEW i \in 1..Len(primitives) PROVE primitives[i] \in ToSet(found)
    <3>1. Len(found) - Len(primitives) + i \in 1..Len(found)
      BY <1>1
    <3>. QED BY <1>1, <3>1 DEF NewestKept, ToSet
  <2>. QED BY <1>1, <2>1 DEF ToSet
<1>3. ASSUME NEW h \in searched, Inside(h, window)
      PROVE  h \in ToSet(primitives) \/ Pushed(h)
  <2>1. h \in ToSet(found)
    <3>1. SUFFICES ASSUME NEW i \in 1..Len(items), i > 1 \/ ~Taken, h \in ToSet(HitsOf(items[i]))
                   PROVE  FALSE
      BY DEF SearchedAre
    <3>2. h[1] = items[i].ts
      BY <3>1, HitsOfFirst
    <3>3. items[i].ts < window[2]
      BY <1>3, <3>2 DEF Inside
    <3>4. latest < items[i].ts
      BY <1>0, <3>1 DEF LatestRight, Taken
    <3>. QED BY <1>0, <3>3, <3>4
  <2>2. PICK j \in 1..Len(found) : h = found[j]
    BY <1>1, <2>1 DEF ToSet
  <2>3. PICK i : i = j - (Len(found) - Len(primitives))
    OBVIOUS
  <2>4. CASE i >= 1
    <3>1. i \in 1..Len(primitives) /\ Len(found) - Len(primitives) + i = j
      BY <1>1, <2>3, <2>4
    <3>2. primitives[i] = h
      BY <2>2, <3>1 DEF NewestKept
    <3>. QED BY <1>1, <3>1, <3>2 DEF ToSet
  <2>5. CASE i < 1
    <3>1. Len(found) - j >= Len(primitives) /\ Len(found) # Len(primitives)
      <4>1. PICK a, b : a = Len(primitives) /\ b = Len(found)
        OBVIOUS
      <4>2. a \in Nat /\ b \in Nat /\ j \in 1..b /\ i = j - (b - a)
        BY <1>1, <2>3, <4>1
      <4>3. b - j >= a /\ b # a
        BY <2>5, <4>2
      <4>. QED BY <4>1, <4>3
    <3>2. Len(primitives) = MaxHits
      BY <3>1 DEF NewestKept
    <3>. QED BY <1>1, <2>2, <3>1, <3>2 DEF Pushed
  <2>6. i \in Int
    BY <1>1, <2>3
  <2>. QED BY <2>4, <2>5, <2>6
<1>4. ASSUME NEW h \in ToSet(primitives) PROVE h \in searched
  BY <1>2, <1>4 DEF SearchedAre
<1>. QED BY <1>3, <1>4

LEMMA CompleteStays ==
  ASSUME TpTypeOK, QueueRight, SearchedAre, LatestRight, NewestKept, CameSoFar, HitsComplete, TpNext
  PROVE  HitsComplete'
<1>. USE DEF finder, query, owner, input
<1>1. CASE Answer
  <2>1. SUFFICES ASSUME measured
                 PROVE  /\ \A h \in answer' : h \in searched' /\ Inside(h, window')
                        /\ \A h \in searched' : Inside(h, window') => h \in answer' \/ Pushed(h)'
    <3>1. measured' = measured
      BY <1>1 DEF Answer
    <3>. QED BY <3>1 DEF HitsComplete, Inside
  <2>2. /\ answer' = {h \in ToSet(primitives) : Inside(h, window)}
        /\ UNCHANGED <<window, searched, found>>
    BY <1>1 DEF Answer
  <2>3. \A h : Pushed(h)' <=> Pushed(h)
    BY <2>2 DEF Pushed
  <2>. QED BY <1>1, <2>1, <2>2, <2>3, AnswerComplete
<1>2. CASE \E n \in HitCounts : AddMessage(n)
  <2>1. PICK m \in Item :
           /\ m.ts = next /\ UNCHANGED <<found, qpc, window, answer, measured>>
           /\ searched' = searched \/ searched' = searched \cup ToSet(HitsOf(m))
    BY <1>2, MessageIs
  <2>2. \A h : Pushed(h)' <=> Pushed(h)
    BY <2>1 DEF Pushed
  <2>3. ASSUME qpc = "answered", measured, NEW h \in ToSet(HitsOf(m)), Inside(h, window)
        PROVE  FALSE
    <3>1. begun /\ latest >= window[2] /\ latest < next
      BY <2>3 DEF CameSoFar, LatestRight
    <3>2. h[1] = next
      <4>1. m.ts \in 1..END_OF_MESSAGES /\ m.hits \in Nat
        BY DEF Item
      <4>. QED BY <2>1, <2>3, <4>1, HitsAre
    <3>3. latest \in Nat /\ next \in Nat /\ window[2] \in Nat
      BY WindowIs, TpNumbers DEF TpTypeOK
    <3>. QED BY <2>3, <3>1, <3>2, <3>3 DEF Inside
  <2>4. PICK q, x : q = searched' /\ x = ToSet(HitsOf(m))
    OBVIOUS
  <2>5. qpc = "answered" /\ measured =>
          /\ \A h \in answer : h \in q /\ Inside(h, window)
          /\ \A h \in q : Inside(h, window) => h \in answer \/ Pushed(h)
    BY <2>1, <2>3, <2>4 DEF HitsComplete
  <2>. QED BY <2>1, <2>2, <2>4, <2>5 DEF HitsComplete, Inside
<1>3. CASE AddHits
  <2>1. /\ FirstHits \in Seq(Hit) /\ found' = found \o FirstHits /\ found \in Seq(Hit)
    BY <1>3, AddedAre DEF TpTypeOK
  <2>2. UNCHANGED <<searched, qpc, window, answer, measured>>
    BY <1>3 DEF AddHits
  <2>3. ASSUME NEW h, Pushed(h) PROVE Pushed(h)'
    <3>1. /\ Len(found) \in Nat /\ Len(FirstHits) \in Nat
          /\ Len(found \o FirstHits) = Len(found) + Len(FirstHits)
          /\ DOMAIN found = 1..Len(found)
          /\ DOMAIN (found \o FirstHits) = 1 .. Len(found) + Len(FirstHits)
          /\ \A i \in 1..Len(found) : (found \o FirstHits)[i] = found[i]
      BY <2>1, ConcatProperties, LenProperties
    <3>2. PICK i \in 1..Len(found) : found[i] = h /\ Len(found) - i >= MaxHits
      BY <2>3, <3>1 DEF Pushed
    <3>3. PICK f, l : f = found' /\ l = Len(found) + Len(FirstHits)
      OBVIOUS
    <3>4. /\ i \in 1..l /\ l - i >= MaxHits /\ f[i] = h /\ DOMAIN f = 1..l /\ Len(f) = l
      BY <2>1, <3>1, <3>2, <3>3, TpNumbers
    <3>. QED BY <3>3, <3>4 DEF Pushed
  <2>. QED BY <2>2, <2>3 DEF HitsComplete, Inside
<1>4. CASE (\E w \in Windows : Ask(w)) \/ CaughtUp \/ TimeOut \/ Take
  <2>1. qpc' # "answered"
    BY <1>4 DEF Ask, CaughtUp, TimeOut, Take
  <2>. QED BY <2>1 DEF HitsComplete
<1>5. CASE Ready \/ Look \/ SeeStop \/ SeeMessage \/ SeeEnd \/ Send \/ StoreLatest \/ PopItem \/ MetricsSee
  <2>1. UNCHANGED <<searched, found, qpc, window, answer, measured>>
    BY <1>5 DEF Ready, Look, SeeStop, SeeMessage, SeeEnd, Send, StoreLatest, PopItem, MetricsSee
  <2>. QED BY <2>1 DEF HitsComplete, Pushed, Inside
<1>6. CASE Stop \/ ResetSender \/ SubscriberJoined \/ DestroyFinder \/ Destruction
  <2>1. UNCHANGED <<searched, found, qpc, window, answer, measured>>
    BY <1>6 DEF Stop, ResetSender, SubscriberJoined, DestroyFinder, Destruction,
                WriteEnd, EndsWritten, ProcessingJoined, MetricsJoined
  <2>. QED BY <2>1 DEF HitsComplete, Pushed, Inside
<1>. QED BY <1>1, <1>2, <1>3, <1>4, <1>5, <1>6 DEF TpNext, Process

LEMMA FinderInitially == ASSUME TpInit PROVE FinderInv
<1>. USE TpNumbers
<1>1. TpTypeOK
  <2>1. isReady \in BOOLEAN /\ m_should_stop \in BOOLEAN /\ sender \in BOOLEAN
    BY DEF TpInit
  <2>2. begun \in BOOLEAN /\ measured \in BOOLEAN
    BY DEF TpInit
  <2>3. items \in Seq(Item) /\ Len(items) = 0 /\ primitives \in Seq(Hit) /\ Len(primitives) = 0
        /\ found \in Seq(Hit)
    BY EmptySeq DEF TpInit
  <2>4. /\ latest \in AnyStamp /\ ppc = "starting" /\ mpc = "loop" /\ qpc = "idle"
        /\ window = <<0, 0>> /\ answer = {} /\ dpc = "using" /\ searched = {}
    BY DEF TpInit
  <2>5. 0 \in 0..EndMessages /\ 1 \in 1..(MaxMessages + 1)
    OBVIOUS
  <2>6. ends \in 0..EndMessages /\ tries \in 0..EndMessages /\ next \in 1..(MaxMessages + 1)
    BY <2>5, Zenon DEF TpInit
  <2>. QED BY <2>1, <2>2, <2>3, <2>4, <2>6 DEF TpTypeOK
<1>2. /\ Len(items) = 0 /\ Len(primitives) = 0 /\ Len(found) = 0 /\ ToSet(found) = {}
  BY DEF TpInit, ToSet
<1>. QED BY <1>1, <1>2 DEF TpInit, FinderInv, QueueRight, SearchedAre, LatestRight, NewestKept,
                       CameSoFar, HitsComplete

LEMMA FinderKept == ASSUME FinderInv, [TpNext]_tpVars PROVE FinderInv'
<1>1. CASE TpNext
  BY <1>1, TpTyped, QueueStays, SearchedStays, LatestStays, NewestStay, CameStays, CompleteStays
     DEF FinderInv
<1>2. CASE UNCHANGED tpVars
  <2>. USE <1>2 DEF tpVars, FinderInv
  <2>1. TpTypeOK' /\ NewestKept' /\ CameSoFar'
    BY DEF TpTypeOK, NewestKept, CameSoFar
  <2>2. QueueRight'
    BY DEF QueueRight, IsEnd
  <2>3. SearchedAre'
    BY DEF SearchedAre, ToSet, HitsOf, Taken
  <2>4. LatestRight'
    BY DEF LatestRight
  <2>5. HitsComplete'
    BY DEF HitsComplete, Inside, Pushed
  <2>. QED BY <2>1, <2>2, <2>3, <2>4, <2>5
<1>. QED BY <1>1, <1>2

(* Whatever the sizes of the queue and of the hits kept: an answer in time *)
(* has hits of the window only and all those of the messages accepted,     *)
(* save those that MaxHits newer ones have pushed out.                     *)
THEOREM FinderHitsComplete == TpSpec => []HitsComplete
<1>1. FinderInv => HitsComplete
  BY DEF FinderInv
<1>2. TpSpec => []FinderInv
  BY FinderInitially, FinderKept, PTL DEF TpSpec
<1>. QED BY <1>1, <1>2, PTL
=============================================================================
