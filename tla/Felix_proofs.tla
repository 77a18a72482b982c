---------------------------- MODULE Felix_proofs ----------------------------
(***************************************************************************)
(* Proofs about Felix, for every frame and message size, window, offset,   *)
(* queue and number of triggers: types, who may write to a fragment, the   *)
(* arithmetic by which a fragment covers the window of its trigger, and    *)
(* how the messages of the queue are shared out among the triggers.        *)
(* Then what the hit finder of a link follows its wires with, for every    *)
(* sequence of samples, limit of the accumulators and first spread; the    *)
(* sets of primitives of a single finder, for every size of a set; and the *)
(* events the matchers of the links fill together in the on-host mode.     *)
(***************************************************************************)
EXTENDS Felix, OnHost, HitFinder, HitSets, RequestReceiver_proofs

(***************************************************************************)
(* Arithmetic.                                                             *)
(***************************************************************************)

\* What integer division leaves.
LEMMA DivBounds ==
  ASSUME NEW a \in Nat, NEW b \in Nat \ {0}
  PROVE  /\ a \div b \in Nat
         /\ b * (a \div b) <= a
         /\ a < b * (a \div b) + b
OBVIOUS

\* Multiplication by a natural number keeps the order.
LEMMA MulMono ==
  ASSUME NEW a \in Nat, NEW b \in Nat, NEW c \in Nat, a <= b
  PROVE  a * c <= b * c
OBVIOUS

\* Rounding down twice loses at most what rounding the sum down loses.
LEMMA DivSum ==
  ASSUME NEW a \in Nat, NEW b \in Nat, NEW f \in Nat \ {0}
  PROVE  a \div f + b \div f <= (a + b) \div f
OBVIOUS

\* The window begins x after the first frame of the oldest message, lasts W frames
\* of T each, and a message holds F frames: the message at which the matcher begins
\* to copy is not after the window, and the last one it copies is not before its end.
LEMMA WindowArithmetic ==
  ASSUME NEW F \in Nat \ {0}, NEW T \in Nat \ {0}, NEW W \in Nat, NEW x \in Nat
  PROVE  LET d == x \div T
             s == d \div F
             n == W \div F + 2
         IN /\ d \in Nat /\ s \in Nat /\ n \in Nat
            /\ s * F * T <= x
            /\ x + W * T <= (s + n) * F * T
<1> DEFINE d == x \div T
           s == d \div F
           w == W \div F
<1>1. d \in Nat /\ T * d <= x /\ x < T * d + T
  BY DivBounds
<1> HIDE DEF d
<1>2. s \in Nat /\ F * s <= d /\ d < F * s + F
  BY <1>1, DivBounds
<1>3. w \in Nat /\ F * w <= W /\ W < F * w + F
  BY DivBounds
<1> HIDE DEF s, w
<1>4. s * F * T <= x
  <2>1. s * F \in Nat /\ s * F = F * s
    BY <1>2
  <2>2. (s * F) * T <= d * T
    BY <1>1, <1>2, <2>1, MulMono
  <2>3. QED
    BY <1>1, <2>1, <2>2
<1>5. x + W * T <= (s + (w + 2)) * F * T
  <2>1. (s + (w + 2)) * F = F * s + F * w + F + F /\ (s + (w + 2)) * F \in Nat
    BY <1>2, <1>3
  <2>2. F * s \in Nat /\ F * w \in Nat
    BY <1>2, <1>3
  <2>3. d + W + 1 <= (s + (w + 2)) * F
    BY <1>1, <1>2, <1>3, <2>1, <2>2
  <2>4. (d + W + 1) * T <= ((s + (w + 2)) * F) * T
    BY <1>1, <2>1, <2>3, MulMono
  <2>5. (d + W + 1) * T = T * d + W * T + T
    BY <1>1
  <2>6. T * d \in Nat /\ W * T \in Nat /\ ((s + (w + 2)) * F) * T \in Nat
    BY <1>1, <2>1
  <2>7. QED
    BY <1>1, <2>4, <2>5, <2>6
<1>6. QED
  BY <1>1, <1>2, <1>3, <1>4, <1>5 DEF d, s, w

(***************************************************************************)
(* Constants and types.                                                    *)
(***************************************************************************)

LEMMA Constants ==
  /\ TickDist \in Nat \ {0} /\ FramesPerMsg \in Nat \ {0}
  /\ QueueCap \in Nat /\ RequestCap \in Nat /\ TimeWindow \in Nat
  /\ WindowOffset \in Nat /\ Margin \in Nat /\ Margin >= 3
  /\ MaxMsgs \in Nat /\ MaxRuns \in Nat /\ NumMessages \in Nat
  /\ TriggerTimes \subseteq Nat /\ Link \in Threads
  /\ \A ts \in TriggerTimes : ts >= WindowOffset * TickDist /\ ts > 0
<1>1. Threads # {}
  BY FelixAssumption
<1>2. Link \in Threads
  BY <1>1 DEF Link
<1>3. TickDist \in Nat \ {0} /\ FramesPerMsg \in Nat \ {0} /\ QueueCap \in Nat /\ RequestCap \in Nat
  BY FelixAssumption, RequestAssumption
<1>4. /\ TimeWindow \in Nat /\ WindowOffset \in Nat /\ Margin \in Nat /\ MaxMsgs \in Nat
      /\ MaxRuns \in Nat
  BY FelixAssumption
<1>5. NumMessages \in Nat
  BY <1>3, <1>4, DivBounds DEF NumMessages
<1>6. QED
  BY <1>2, <1>3, <1>4, <1>5, FelixAssumption, RequestAssumption

\* A trigger's window begins at a natural time.
LEMMA WindowType ==
  ASSUME NEW r \in Request
  PROVE  WindowStart(r) \in Nat /\ r # NoTrigger
<1>1. r.timestamp \in Nat /\ r.timestamp >= WindowOffset * TickDist /\ r.timestamp > 0
  BY Constants DEF Request
<1>2. WindowOffset * TickDist \in Nat
  BY Constants
<1>3. QED
  BY <1>1, <1>2, RequestIsOne DEF WindowStart, NoTrigger

\* What popXFront() leaves of a queue.
LEMMA DropType ==
  ASSUME NEW S, NEW q \in Seq(S), NEW n \in Nat
  PROVE  /\ Drop(q, n) \in Seq(S)
         /\ Len(Drop(q, n)) \in Nat
         /\ Len(Drop(q, n)) <= Len(q)
         /\ n <= Len(q) => Len(Drop(q, n)) = Len(q) - n
         /\ \A i \in 1..Len(Drop(q, n)) : Drop(q, n)[i] = q[n + i]
<1>1. Len(q) \in Nat
  BY LenProperties
<1>2. \A i \in (n + 1)..Len(q) : q[i] \in S
  <2>. SUFFICES ASSUME NEW i \in (n + 1)..Len(q) PROVE q[i] \in S
    OBVIOUS
  <2>1. i \in 1..Len(q)
    BY <1>1
  <2>. QED BY <2>1, ElementOfSeq
<1>3. QED
  BY <1>1, <1>2, SubSeqProperties DEF Drop

\* Which steps leave the variables of which thread alone.
LEMMA CallerFrame ==
  ASSUME \/ Functor \/ Loop \/ WakeUp \/ Subscriber
         \/ RequestsEnd \/ RequestArrives \/ Unheard \/ UNCHANGED vars
  PROVE  UNCHANGED caller
BY DEF Functor, QueueEmpty, Cull, DataGone, LookAtFront, DataLate, SkipToWindow, CopyMessage,
       CopyDone, Return, Others, Loop, WakeUp, Subscriber, Receive, CheckBusy, PopHalf,
       RequestsEnd, RequestArrives, Unheard, caller, vars

LEMMA RequestFrame ==
  ASSUME \/ Functor \/ Loop \/ WakeUp \/ Subscriber \/ Unheard \/ UNCHANGED vars
         \/ StartMatchers \/ Subscribe \/ GetNext \/ Offer \/ WorkersDone \/ StopCommand
         \/ JoinRequests \/ Unsubscribe \/ FlushQueues \/ DestroyMatcher \/ JoinMatcher
  PROVE  UNCHANGED requests
BY DEF Functor, QueueEmpty, Cull, DataGone, LookAtFront, DataLate, SkipToWindow, CopyMessage,
       CopyDone, Return, Others, Loop, WakeUp, Subscriber, Receive, CheckBusy, PopHalf,
       Unheard, StartMatchers, Subscribe, GetNext, Offer, WorkersDone, StopCommand,
       JoinRequests, Unsubscribe, FlushQueues, DestroyMatcher, JoinMatcher, requests, vars

LEMMA StreamFrame ==
  ASSUME \/ Loop \/ WakeUp \/ RequestsEnd \/ RequestArrives \/ UNCHANGED vars
         \/ QueueEmpty \/ DataGone \/ LookAtFront \/ DataLate \/ CopyDone
         \/ StartMatchers \/ StartRequests \/ GetNext \/ TakeRequest \/ WorkersDone
         \/ StopCommand \/ StopRequests \/ JoinRequests \/ DestroyMatcher \/ JoinMatcher
  PROVE  UNCHANGED <<stream, subscriber>>
BY DEF QueueEmpty, DataGone, LookAtFront, DataLate, CopyDone, Return, Others, Loop, WakeUp,
       RequestsEnd, RequestArrives, StartMatchers, StartRequests, GetNext, TakeRequest,
       WorkersDone, StopCommand, StopRequests, JoinRequests, DestroyMatcher, JoinMatcher,
       stream, subscriber, vars

LEMMA MatcherFrame ==
  ASSUME \/ Loop \/ WakeUp \/ Subscriber \/ RequestsEnd \/ RequestArrives \/ Unheard
         \/ UNCHANGED vars \/ StartMatchers \/ StartRequests \/ Subscribe \/ WorkersDone
         \/ StopCommand \/ StopSteps
  PROVE  UNCHANGED matcher
BY DEF Loop, WakeUp, Subscriber, Receive, CheckBusy, PopHalf, RequestsEnd, RequestArrives,
       Unheard, StartMatchers, StartRequests, Subscribe, WorkersDone, StopCommand, StopSteps,
       StopRequests, JoinRequests, Unsubscribe, FlushQueues, DestroyMatcher, JoinMatcher,
       matcher, vars

LEMMA ThreadFrame ==
  ASSUME \/ Subscriber \/ RequestsEnd \/ RequestArrives \/ Unheard \/ UNCHANGED vars
         \/ StartRequests \/ Subscribe \/ GetNext \/ TakeRequest \/ WorkersDone \/ StopCommand
         \/ StopRequests \/ JoinRequests \/ Unsubscribe \/ FlushQueues \/ JoinMatcher
         \/ LookAtFront \/ SkipToWindow \/ CopyMessage
  PROVE  UNCHANGED rtVars
BY DEF Subscriber, Receive, CheckBusy, PopHalf, RequestsEnd, RequestArrives, Unheard,
       StartRequests, Subscribe, GetNext, TakeRequest, WorkersDone, StopCommand, StopRequests,
       JoinRequests, Unsubscribe, FlushQueues, JoinMatcher, LookAtFront, SkipToWindow,
       CopyMessage, rtVars, vars

LEMMA OneLink ==
  /\ Threads = {Link}
  /\ NotBusy <=> pause[Link]
<1>1. Threads = {Link}
  BY FelixAssumption DEF Link
<1>2. QED
  BY <1>1 DEF NotBusy, Readiness

(***************************************************************************)
(* The inductive invariant.                                                *)
(***************************************************************************)

\* A job in the matcher's hands has come from a triggerWorkers() that still waits.
FlagsMatch ==
  /\ ~pause[Link] => cpc = "busy" /\ ready[Link]
  /\ wpc[Link] = "run" => ~pause[Link]
  /\ wpc[Link] = "clear" => pause[Link] /\ ready[Link]

\* Where the functor is goes with the trigger, the fragment and the time it has read.
MatcherPlace ==
  /\ mpc # "begin" => wpc[Link] = "run" /\ trig # NoTrigger
  /\ mpc = "wait" => lastTS <= WindowStart(trig)
  /\ cpc \in {"request", "offer"} => frag = <<>>
  /\ cpc = "busy" /\ trig = NoTrigger => frag = <<>>
  /\ ~pause[Link] /\ mpc # "copy" => frag = <<>>

\* A pop of the subscriber under a working matcher is recorded.
RaceSeen == ~raced /\ ~pause[Link] => spc # "pop"

\* What the matcher has seen at the front of the queue is still there.
AtFront ==
  mpc = "wait" /\ ~raced =>
    /\ Len(dataQ) > 0 /\ lastTS = TimeOf(dataQ[1])

\* n messages from p on cover the window, and the fragment holds the first of them.
Piece(p) ==
  /\ TimeOf(p) <= WindowStart(trig)
  /\ WindowEnd(trig) <= TimeOf(p + NumMessages)
  /\ \A i \in 1..Len(frag) : frag[i] = p + i - 1

\* While the matcher copies, the rest of the piece is at the front of the queue, and
\* the message after it.
Cutting ==
  mpc = "copy" /\ whole /\ ~raced =>
    \E p \in Nat :
      /\ Piece(p)
      /\ Len(frag) + Len(dataQ) > NumMessages
      /\ \A i \in 1..NumMessages + 1 - Len(frag) : dataQ[i] = p + Len(frag) + i - 1

\* When the matcher is idle again, the fragment is empty or complete.
CutDone ==
  cpc = "busy" /\ pause[Link] /\ whole /\ ~raced /\ frag # <<>> =>
    Len(frag) = NumMessages /\ \E p \in Nat : Piece(p)

AllCovered(s) == \A i \in 1..Len(s) : Covered(s[i])
Delivered == AllCovered(served) /\ AllCovered(discarded)

Control == TypeOK /\ FlagsMatch /\ MatcherPlace
IInv == Control /\ RaceSeen /\ AtFront /\ Cutting /\ CutDone /\ Delivered

(***************************************************************************)
(* Types.                                                                  *)
(***************************************************************************)

LEMMA TypeInit == Init => TypeOK
<1> SUFFICES ASSUME Init PROVE TypeOK
  OBVIOUS
<1>1. RTTypes
  BY ThreadAssumption DEF Init, Born, RTTypes
<1>2. <<>> \in Seq(Request) /\ <<>> \in Seq(Nat) /\ <<>> \in Seq(Int) /\ <<>> \in Seq(Fragments)
      /\ Len(<<>>) = 0
  BY EmptySeq
<1>3. 0 \in 0..MaxRuns
  BY Constants
<1>4. CallerTypes
  BY <1>2, <1>3 DEF Init, CallerTypes
<1>5. 0 <= RequestCap /\ 0 <= QueueCap /\ 0 <= NumMessages
  BY Constants
<1>6. RequestTypes /\ StreamTypes
  BY <1>2, <1>5, RequestInitTypes DEF Init, StreamTypes
<1>7. MatcherTypes
  BY <1>2, <1>5 DEF Init, MatcherTypes, Excuses
<1>8. QED
  BY <1>1, <1>4, <1>6, <1>7 DEF TypeOK

\* The fragment getNext_() returns or drops.
LEMMA FragmentType ==
  ASSUME TypeOK, trig # NoTrigger
  PROVE  Fragment \in Fragments
<1>1. trig \in Request /\ frag \in Seq(Int) /\ floor \in Nat
  BY DEF TypeOK, CallerTypes, StreamTypes, MatcherTypes
<1>2. (whole /\ ~raced) \in BOOLEAN
  OBVIOUS
<1>3. excuse \in Excuses
  BY DEF TypeOK, MatcherTypes
<1>4. QED
  BY <1>1, <1>2, <1>3 DEF Fragment, Fragments, Request

LEMMA ThreadTypesKept ==
  ASSUME RTTypes, [Next]_vars
  PROVE  RTTypes'
<1>1. CASE UNCHANGED rtVars
  BY <1>1 DEF RTTypes, rtVars
<1>2. CASE StartMatchers
  BY <1>2, ThreadAssumption DEF StartMatchers, Reborn, RTTypes
<1>3. CASE Offer
  BY <1>3, Constants DEF Offer, SetWork, Accepts, Notified, RTTypes, rtVars
<1>4. CASE DestroyMatcher
  BY <1>4, Constants DEF DestroyMatcher, Quit, Notified, RTTypes
<1>5. CASE QueueEmpty \/ Cull \/ DataGone \/ DataLate \/ CopyDone
  BY <1>5, Constants
     DEF QueueEmpty, Cull, DataGone, DataLate, CopyDone, Return, FinishWork, Goto, RTTypes
<1>6. CASE Loop
  BY <1>6, Constants DEF Loop, Test, Wait, ClearReady, Goto, RTTypes
<1>7. CASE WakeUp
  BY <1>7, Constants DEF WakeUp, SpuriousWakeup, Goto, RTTypes
<1>8. QED
  BY <1>1, <1>2, <1>3, <1>4, <1>5, <1>6, <1>7, ThreadFrame
     DEF Next, RunSteps, StopSteps, Functor, Environment

LEMMA CallerTypesKept ==
  ASSUME TypeOK, [Next]_vars
  PROVE  CallerTypes'
<1> USE DEF TypeOK, CallerTypes
<1>1. CASE UNCHANGED caller
  BY <1>1 DEF caller
<1>2. CASE StartMatchers
  <2>1. run + 1 \in 0..MaxRuns
    BY <1>2, Constants DEF StartMatchers
  <2>2. QED
    BY <1>2, <2>1 DEF StartMatchers
<1>3. CASE StartRequests \/ Subscribe \/ GetNext \/ Offer \/ StopCommand
  BY <1>3 DEF StartRequests, Subscribe, GetNext, Offer, StopCommand
<1>4. CASE TakeRequest
  <2>1. trig' \in Request \cup {NoTrigger}
    BY <1>4, RemoveKeeps DEF TakeRequest, NoTrigger
  <2>2. QED
    BY <1>4, <2>1 DEF TakeRequest
<1>5. CASE WorkersDone
  <2>1. trig # NoTrigger =>
          Append(served, Fragment) \in Seq(Fragments) /\ Append(discarded, Fragment) \in Seq(Fragments)
    BY FragmentType, AppendProperties
  <2>2. served' \in Seq(Fragments) /\ discarded' \in Seq(Fragments)
    BY <1>5, <2>1 DEF WorkersDone
  <2>3. QED
    BY <1>5, <2>2 DEF WorkersDone
<1>6. CASE StopSteps
  BY <1>6 DEF StopSteps, StopRequests, JoinRequests, Unsubscribe, FlushQueues, DestroyMatcher,
              JoinMatcher
<1>7. QED
  BY <1>1, <1>2, <1>3, <1>4, <1>5, <1>6, CallerFrame DEF Next, RunSteps, Environment

LEMMA RequestTypesKept ==
  ASSUME TypeOK, [Next]_vars
  PROVE  RequestTypes'
<1> USE DEF TypeOK
<1>1. CASE UNCHANGED requests
  BY <1>1 DEF requests, RequestTypes
<1>2. CASE StartRequests \/ StopRequests \/ RequestsEnd
  BY <1>2, ReceiverKeeps DEF StartRequests, StopRequests, RequestsEnd
<1>3. CASE TakeRequest
  BY <1>3, RemoveKeeps DEF TakeRequest
<1>4. CASE RequestArrives
  BY <1>4, ArrivesKeeps DEF RequestArrives
<1>5. QED
  BY <1>1, <1>2, <1>3, <1>4, RequestFrame
     DEF Next, RunSteps, StopSteps, Environment

\* The number of messages the matcher skips.
LEMMA SkipType ==
  ASSUME Control, mpc = "wait"
  PROVE  /\ trig \in Request
         /\ WindowStart(trig) - lastTS \in Nat
         /\ TickDiff \in Nat /\ ToSkip \in Nat
<1>1. trig \in Request /\ lastTS \in Nat /\ lastTS <= WindowStart(trig)
  BY DEF Control, TypeOK, CallerTypes, MatcherTypes, MatcherPlace
<1>2. WindowStart(trig) - lastTS \in Nat
  BY <1>1, WindowType
<1>3. TickDiff \in Nat
  BY <1>2, DivBounds, Constants DEF TickDiff
<1>4. ToSkip \in Nat
  BY <1>3, DivBounds, Constants DEF ToSkip
<1>5. QED
  BY <1>1, <1>2, <1>3, <1>4

LEMMA StreamTypesKept ==
  ASSUME Control, [Next]_vars
  PROVE  StreamTypes'
<1> USE DEF Control, TypeOK, StreamTypes
<1>1. CASE UNCHANGED <<stream, subscriber>>
  BY <1>1 DEF stream, subscriber
<1>2. CASE Subscribe \/ Unsubscribe
  BY <1>2 DEF Subscribe, Unsubscribe, stream
<1>3. CASE Offer
  BY <1>3 DEF Offer, Accepts, subscriber
<1>4. CASE FlushQueues
  <2>1. <<>> \in Seq(Nat) /\ Len(<<>>) <= QueueCap
    BY EmptySeq, Constants
  <2>2. QED
    BY <1>4, <2>1 DEF FlushQueues, subscriber
<1>5. \A q \in Seq(Nat), n \in Nat : FrontOr(q, n) \in Nat
  BY HeadTailProperties DEF FrontOr
<1>6. CASE Receive
  <2>1. nMsg + 1 \in Nat
    OBVIOUS
  <2>2. dataQ' \in Seq(Nat) /\ Len(dataQ') <= QueueCap
    <3>1. CASE dataQ' = dataQ
      BY <3>1
    <3>2. CASE HasRoom /\ dataQ' = Append(dataQ, nMsg)
      BY <3>2, AppendProperties, LenProperties, Constants DEF HasRoom
    <3>3. QED
      BY <1>6, <3>1, <3>2 DEF Receive
  <2>3. spc' \in {"recv", "full"}
    BY <1>6 DEF Receive
  <2>4. QED
    BY <1>6, <2>1, <2>2, <2>3 DEF Receive, caller
<1>7. CASE CheckBusy \/ Unheard
  BY <1>7 DEF CheckBusy, Unheard, stream
<1>8. CASE PopHalf
  <2>1. QueueCap \div 2 \in Nat
    BY Constants, DivBounds
  <2>2. dataQ' \in Seq(Nat) /\ Len(dataQ') <= QueueCap
    BY <1>8, <2>1, DropType, LenProperties, Constants DEF PopHalf
  <2>3. QED
    BY <1>8, <1>5, <2>2 DEF PopHalf
<1>9. CASE Cull
  <2>1. Len(dataQ) \in Nat
    BY LenProperties
  <2>2. (8 * Len(dataQ)) \div 10 \in Nat
    BY <2>1, DivBounds
  <2>3. dataQ' \in Seq(Nat) /\ Len(dataQ') <= QueueCap
    BY <1>9, <2>1, <2>2, DropType, Constants DEF Cull
  <2>4. floor' = floor \/ floor' = FrontOr(dataQ', nMsg)
    BY <1>9 DEF Cull
  <2>5. UNCHANGED <<raced, spc, subscribed, nMsg>>
    BY <1>9 DEF Cull, Return, Others, subscriber
  <2>6. QED
    BY <1>5, <2>3, <2>4, <2>5
<1>10. CASE SkipToWindow
  <2>1. dataQ' \in Seq(Nat) /\ Len(dataQ') <= QueueCap
    BY <1>10, SkipType, DropType, LenProperties, Constants DEF SkipToWindow
  <2>2. QED
    BY <1>10, <2>1 DEF SkipToWindow, Others, subscriber
<1>11. CASE CopyMessage
  <2>1. dataQ' \in Seq(Nat) /\ Len(dataQ') <= QueueCap
    BY <1>11, HeadTailProperties, LenProperties, Constants DEF CopyMessage
  <2>2. QED
    BY <1>11, <2>1 DEF CopyMessage, Others, subscriber
<1>12. QED
  BY <1>1, <1>2, <1>4, <1>6, <1>7, <1>8, <1>9, <1>10, <1>11, <1>3, StreamFrame
     DEF Next, RunSteps, StopSteps, Subscriber, Functor, Environment

LEMMA MatcherTypesKept ==
  ASSUME Control, [Next]_vars
  PROVE  MatcherTypes'
<1> USE DEF Control, TypeOK, MatcherTypes, Excuses
<1>1. CASE UNCHANGED matcher
  BY <1>1 DEF matcher
<1>2. CASE GetNext
  <2>1. <<>> \in Seq(Int) /\ Len(<<>>) <= NumMessages
    BY EmptySeq, Constants
  <2>2. QED
    BY <1>2, <2>1 DEF GetNext
<1>3. CASE TakeRequest \/ Offer
  BY <1>3 DEF TakeRequest, Offer
<1>4. \A q \in Seq(Nat) : q # <<>> => TimeOf(Head(q)) \in Nat
  BY HeadTailProperties, Constants DEF TimeOf
<1>5. CASE QueueEmpty \/ Cull \/ DataLate \/ CopyDone
  BY <1>5 DEF QueueEmpty, Cull, DataLate, CopyDone, Return
<1>6. CASE DataGone \/ LookAtFront
  BY <1>6, <1>4 DEF DataGone, LookAtFront, Return, StreamTypes
<1>7. CASE SkipToWindow
  BY <1>7 DEF SkipToWindow, NoGap
<1>8. CASE CopyMessage
  <2>1. FrontOr(dataQ, -1) \in Int
    BY HeadTailProperties DEF FrontOr, StreamTypes
  <2>2. frag' \in Seq(Int) /\ Len(frag') = Len(frag) + 1
    BY <1>8, <2>1, AppendProperties DEF CopyMessage
  <2>3. QED
    BY <1>8, <2>2, LenProperties, Constants DEF CopyMessage
<1>9. QED
  BY <1>1, <1>2, <1>5, <1>6, <1>7, <1>8, <1>3, MatcherFrame
     DEF Next, RunSteps, Functor, Environment

LEMMA TypesKept ==
  ASSUME Control, [Next]_vars
  PROVE  TypeOK'
BY ThreadTypesKept, CallerTypesKept, RequestTypesKept, StreamTypesKept, MatcherTypesKept
   DEF Control, TypeOK

(***************************************************************************)
(* Control: the matcher runs only for a caller that waits for it.          *)
(***************************************************************************)

LEMMA ControlInit == Init => Control
<1> SUFFICES ASSUME Init PROVE Control
  OBVIOUS
<1>1. FlagsMatch
  BY Constants DEF Init, Born, FlagsMatch
<1>2. MatcherPlace
  BY DEF Init, MatcherPlace
<1>3. QED
  BY <1>1, <1>2, TypeInit DEF Control

LEMMA FlagsKept ==
  ASSUME Control, [Next]_vars
  PROVE  FlagsMatch'
<1> USE DEF Control, FlagsMatch
<1>1. RTTypes /\ Link \in Threads
  BY Constants DEF TypeOK
<1>2. CASE UNCHANGED rtVars /\ (cpc = "busy" => cpc' = "busy" \/ pause[Link])
  BY <1>2 DEF rtVars
<1>3. CASE \/ Subscriber \/ RequestsEnd \/ RequestArrives \/ Unheard \/ UNCHANGED vars
           \/ LookAtFront \/ SkipToWindow \/ CopyMessage
  BY <1>2, <1>3, CallerFrame, ThreadFrame DEF Functor, caller
<1>4. CASE StartRequests \/ Subscribe \/ GetNext \/ TakeRequest \/ StopCommand
  <2>1. cpc = "busy" => cpc' = "busy"
    BY <1>4 DEF StartRequests, Subscribe, GetNext, TakeRequest, StopCommand
  <2>2. QED
    BY <1>2, <1>4, <2>1, ThreadFrame
<1>5. CASE WorkersDone
  BY <1>2, <1>5, OneLink, ThreadFrame DEF WorkersDone, WaitOver
<1>6. CASE StopRequests \/ JoinRequests \/ Unsubscribe \/ FlushQueues \/ JoinMatcher
  <2>1. cpc # "busy"
    BY <1>6 DEF StopRequests, JoinRequests, Unsubscribe, FlushQueues, JoinMatcher
  <2>2. QED
    BY <1>2, <1>6, <2>1, ThreadFrame
<1>7. CASE StartMatchers
  BY <1>1, <1>7 DEF StartMatchers, Reborn
<1>8. CASE Offer
  <2>1. cpc # "busy" /\ cpc' = "busy"
    BY <1>8 DEF Offer
  <2>2. pause[Link]
    BY <2>1
  <2>3. CASE Accepts(Link)
    BY <1>1, <1>8, <2>1, <2>2, <2>3 DEF Offer, SetWork, Accepts, Notified, RTTypes
  <2>4. CASE ~Accepts(Link)
    BY <1>8, <2>1, <2>2, <2>4 DEF Offer, SetWork, rtVars
  <2>5. QED
    BY <2>3, <2>4
<1>9. CASE DestroyMatcher
  BY <1>1, <1>9 DEF DestroyMatcher, Quit, Notified, RTTypes
<1>10. CASE QueueEmpty \/ Cull \/ DataGone \/ DataLate \/ CopyDone
  BY <1>1, <1>10, CallerFrame
     DEF QueueEmpty, Cull, DataGone, DataLate, CopyDone, Return, FinishWork, Goto, Functor,
         RTTypes, caller
<1>11. CASE Loop
  BY <1>1, <1>11, CallerFrame DEF Loop, Test, Wait, ClearReady, Goto, RTTypes, caller
<1>12. CASE WakeUp
  BY <1>1, <1>12, CallerFrame DEF WakeUp, SpuriousWakeup, Goto, RTTypes, caller
<1>13. QED
  BY <1>3, <1>4, <1>5, <1>6, <1>7, <1>8, <1>9, <1>10, <1>11, <1>12
     DEF Next, RunSteps, StopSteps, Functor, Environment

LEMMA PlaceKept ==
  ASSUME Control, [Next]_vars
  PROVE  MatcherPlace'
<1> USE DEF Control, FlagsMatch, MatcherPlace
<1>1. RTTypes /\ Link \in Threads
  BY Constants DEF TypeOK
<1>2. CASE UNCHANGED <<matcher, wpc, pause, trig>> /\ (cpc' # cpc => cpc' \notin {"request", "offer", "busy"})
  BY <1>2 DEF matcher, WindowStart
<1>3. CASE Subscriber \/ RequestsEnd \/ RequestArrives \/ Unheard \/ UNCHANGED vars
  BY <1>2, <1>3, CallerFrame, ThreadFrame, MatcherFrame DEF caller, rtVars
<1>4. CASE \/ StartRequests \/ Subscribe \/ StopCommand \/ StopRequests \/ JoinRequests
           \/ Unsubscribe \/ FlushQueues \/ JoinMatcher
  <2>1. UNCHANGED trig /\ (cpc' # cpc => cpc' \notin {"request", "offer", "busy"})
    BY <1>4 DEF StartRequests, Subscribe, StopCommand, StopRequests, JoinRequests,
                Unsubscribe, FlushQueues, JoinMatcher
  <2>2. QED
    BY <1>2, <1>4, <2>1, ThreadFrame, MatcherFrame DEF StopSteps, rtVars
<1>5. CASE StartMatchers
  <2>1. cpc = "stopped" /\ cpc' = "startRequests" /\ UNCHANGED <<trig, matcher>>
        /\ pause'[Link] /\ mpc = "begin"
    BY <1>1, <1>5 DEF StartMatchers, Reborn
  <2>2. QED
    BY <2>1 DEF matcher
<1>6. CASE GetNext
  BY <1>6, ThreadFrame DEF GetNext, rtVars
<1>7. CASE TakeRequest
  BY <1>7, ThreadFrame DEF TakeRequest, rtVars
<1>8. CASE WorkersDone
  <2>1. pause[Link] /\ UNCHANGED <<rtVars, matcher, trig>> /\ mpc = "begin"
    BY <1>8, OneLink DEF WorkersDone, WaitOver
  <2>2. cpc' = "between" \/ (cpc' = "request" /\ trig = NoTrigger /\ cpc = "busy")
    BY <1>8 DEF WorkersDone
  <2>3. QED
    BY <2>1, <2>2 DEF rtVars, matcher
<1>9. CASE Offer
  <2>1. cpc = "offer" /\ frag = <<>> /\ mpc = "begin" /\ UNCHANGED <<mpc, frag>>
    BY <1>9 DEF Offer
  <2>2. QED
    BY <2>1
<1>10. CASE DestroyMatcher
  <2>1. mpc = "begin" /\ pause[Link] /\ UNCHANGED <<mpc, frag, pause>> /\ cpc' = "joinMatcher"
    BY <1>10, MatcherFrame DEF DestroyMatcher, Quit, StopSteps, matcher
  <2>2. QED
    BY <2>1
<1>11. CASE QueueEmpty \/ Cull \/ DataGone \/ DataLate \/ CopyDone
  <2>1. mpc' = "begin" /\ pause'[Link] /\ UNCHANGED <<frag, caller>>
    BY <1>1, <1>11
       DEF QueueEmpty, Cull, DataGone, DataLate, CopyDone, Return, Others, FinishWork, Goto,
           RTTypes
  <2>2. QED
    BY <2>1 DEF caller
<1>12. CASE LookAtFront
  <2>1. TimeOf(Head(dataQ)) <= WindowStart(trig)
    <3>1. trig \in Request /\ dataQ \in Seq(Nat) /\ dataQ # <<>>
      BY <1>12 DEF LookAtFront, TypeOK, CallerTypes, StreamTypes
    <3>2. WindowStart(trig) \in Nat /\ TimeOf(Head(dataQ)) \in Nat
      BY <3>1, WindowType, HeadTailProperties, Constants DEF TimeOf
    <3>3. QED
      BY <1>12, <3>2 DEF LookAtFront, TooOld
  <2>2. UNCHANGED <<frag, caller, rtVars>> /\ mpc' = "wait" /\ mpc = "begin" /\ trig # NoTrigger
        /\ lastTS' = TimeOf(Head(dataQ)) /\ wpc[Link] = "run"
    BY <1>12 DEF LookAtFront, Others
  <2>3. QED
    BY <2>1, <2>2 DEF caller, rtVars, WindowStart
<1>13. CASE SkipToWindow
  <2>1. UNCHANGED <<frag, caller, rtVars>> /\ mpc' = "copy" /\ mpc = "wait"
    BY <1>13 DEF SkipToWindow, Others
  <2>2. QED
    BY <2>1 DEF caller, rtVars
<1>14. CASE CopyMessage
  <2>1. UNCHANGED <<caller, rtVars>> /\ mpc' = "copy" /\ mpc = "copy"
    BY <1>14 DEF CopyMessage, Others
  <2>2. cpc = "busy" /\ trig # NoTrigger /\ wpc[Link] = "run"
    BY <2>1
  <2>3. QED
    BY <2>1, <2>2 DEF caller, rtVars
<1>15. CASE Loop
  <2>1. wpc[Link] # "run" /\ UNCHANGED <<pause, caller, matcher>>
    BY <1>15, CallerFrame, MatcherFrame DEF Loop, Test, Wait, ClearReady, Goto
  <2>2. QED
    BY <2>1 DEF caller, matcher
<1>16. CASE WakeUp
  <2>1. wpc[Link] # "run" /\ UNCHANGED <<pause, caller, matcher>>
    BY <1>16, CallerFrame, MatcherFrame DEF WakeUp, SpuriousWakeup, Goto
  <2>2. QED
    BY <2>1 DEF caller, matcher
<1>17. QED
  BY <1>3, <1>4, <1>5, <1>6, <1>7, <1>8, <1>9, <1>10, <1>11, <1>12, <1>13, <1>14, <1>15, <1>16
     DEF Next, RunSteps, StopSteps, Functor, Environment

LEMMA ControlKept ==
  ASSUME Control, [Next]_vars
  PROVE  Control'
BY TypesKept, FlagsKept, PlaceKept DEF Control

(* Every variable keeps its type, and the queues and the fragment their capacity. *)
THEOREM TypeCorrect == Spec => []TypeOK
<1>1. Control /\ [Next]_vars => Control'
  BY ControlKept
<1>2. Control => TypeOK
  BY DEF Control
<1>3. QED
  BY <1>1, <1>2, ControlInit, PTL DEF Spec

(* The matcher, which writes through a pointer into the frame of triggerWorkers(), *)
(* runs only while triggerWorkers() waits for it.                                  *)
THEOREM Quiet == Spec => []QuietBetweenTriggers
<1>1. Control /\ [Next]_vars => Control'
  BY ControlKept
<1>2. Control => QuietBetweenTriggers
  BY DEF Control, FlagsMatch, QuietBetweenTriggers
<1>3. QED
  BY <1>1, <1>2, ControlInit, PTL DEF Spec

(***************************************************************************)
(* The queue under a working matcher.                                      *)
(***************************************************************************)

\* The steps that are possible while the matcher has begun with a trigger.
LEMMA WhileMatching ==
  ASSUME Control, [Next]_vars, mpc # "begin"
  PROVE  /\ \/ Subscriber \/ RequestArrives \/ RequestsEnd \/ Unheard \/ StopCommand
            \/ DataLate \/ SkipToWindow \/ CopyMessage \/ CopyDone \/ UNCHANGED vars
         /\ cpc = "busy" /\ ~pause[Link] /\ wpc[Link] = "run"
<1>1. cpc = "busy" /\ ~pause[Link] /\ wpc[Link] = "run"
  BY DEF Control, FlagsMatch, MatcherPlace
<1>2. ~RunSteps /\ ~StopSteps
  BY <1>1, OneLink DEF RunSteps, StopSteps, StartRequests, Subscribe, GetNext, TakeRequest, Offer,
                       WorkersDone, WaitOver, StopRequests, JoinRequests, Unsubscribe,
                       FlushQueues, DestroyMatcher, JoinMatcher
<1>3. ~Loop /\ ~WakeUp /\ ~StartMatchers
  BY <1>1 DEF Loop, Test, Wait, ClearReady, WakeUp, SpuriousWakeup, Goto, StartMatchers
<1>4. ~QueueEmpty /\ ~Cull /\ ~DataGone /\ ~LookAtFront
  BY DEF QueueEmpty, Cull, DataGone, LookAtFront
<1>5. QED
  BY <1>1, <1>2, <1>3, <1>4 DEF Next, Functor, Environment

\* The subscriber only adds to the queue of a working matcher.
LEMMA QueueGrows ==
  ASSUME Control, RaceSeen, mpc # "begin", ~raced,
         \/ Subscriber \/ RequestArrives \/ RequestsEnd \/ Unheard \/ StopCommand
         \/ DataLate \/ CopyDone \/ UNCHANGED vars
  PROVE  /\ Len(dataQ') >= Len(dataQ)
         /\ \A i \in 1..Len(dataQ) : dataQ'[i] = dataQ[i]
         /\ UNCHANGED <<trig, lastTS, frag, whole>>
<1>1. ~pause[Link] /\ spc # "pop"
  BY DEF Control, FlagsMatch, MatcherPlace, RaceSeen
<1>2. dataQ \in Seq(Nat) /\ nMsg \in Nat /\ Len(dataQ) \in Nat
  BY LenProperties DEF Control, TypeOK, StreamTypes
<1>3. CASE Receive
  <2>1. dataQ' = dataQ \/ dataQ' = Append(dataQ, nMsg)
    BY <1>3 DEF Receive
  <2>2. UNCHANGED <<trig, lastTS, frag, whole>>
    BY <1>3 DEF Receive, caller, matcher
  <2>3. QED
    BY <1>2, <2>1, <2>2, AppendProperties
<1>4. ~PopHalf
  BY <1>1 DEF PopHalf
<1>5. CASE CheckBusy \/ RequestArrives \/ RequestsEnd \/ Unheard \/ StopCommand
  BY <1>2, <1>5
     DEF CheckBusy, RequestArrives, RequestsEnd, Unheard, StopCommand, caller, matcher, stream
<1>6. CASE DataLate \/ CopyDone \/ UNCHANGED vars
  BY <1>2, <1>6 DEF DataLate, CopyDone, Return, Others, caller, stream, vars
<1>7. QED
  BY <1>3, <1>4, <1>5, <1>6 DEF Subscriber

LEMMA BeginsAtFront ==
  ASSUME Control, [Next]_vars, mpc = "begin", mpc' # "begin"
  PROVE  LookAtFront
<1>1. CASE UNCHANGED mpc
  BY <1>1
<1>2. CASE QueueEmpty \/ Cull \/ DataGone
  BY <1>2 DEF QueueEmpty, Cull, DataGone, Return
<1>3. CASE DataLate \/ SkipToWindow \/ CopyMessage \/ CopyDone
  BY <1>3 DEF DataLate, SkipToWindow, CopyMessage, CopyDone
<1>4. CASE GetNext \/ TakeRequest \/ Offer
  BY <1>4 DEF GetNext, TakeRequest, Offer
<1>5. QED
  BY <1>1, <1>2, <1>3, <1>4, MatcherFrame DEF Next, RunSteps, Functor, Environment, matcher

LEMMA RacedStays ==
  ASSUME Control, [Next]_vars, raced
  PROVE  raced'
<1>1. CASE UNCHANGED <<stream, subscriber>>
  BY <1>1 DEF stream
<1>2. CASE Subscribe \/ Unsubscribe \/ Offer \/ FlushQueues
  BY <1>2 DEF Subscribe, Unsubscribe, Offer, FlushQueues, stream
<1>3. CASE Subscriber \/ Unheard
  BY <1>3 DEF Subscriber, Receive, CheckBusy, PopHalf, Unheard, stream
<1>4. CASE Cull \/ SkipToWindow \/ CopyMessage
  BY <1>4 DEF Cull, SkipToWindow, CopyMessage
<1>5. QED
  BY <1>1, <1>2, <1>3, <1>4, StreamFrame DEF Next, RunSteps, StopSteps, Functor, Environment

\* A matcher gets to work by an offer alone.
LEMMA PauseSteps ==
  ASSUME Control, [Next]_vars, pause[Link]
  PROVE  pause'[Link] \/ Offer
<1>0. RTTypes /\ Link \in Threads
  BY Constants DEF Control, TypeOK
<1>1. CASE UNCHANGED rtVars
  BY <1>1 DEF rtVars
<1>2. CASE StartMatchers
  BY <1>0, <1>2 DEF StartMatchers, Reborn
<1>3. CASE DestroyMatcher
  BY <1>3 DEF DestroyMatcher, Quit
<1>4. CASE QueueEmpty \/ Cull \/ DataGone \/ DataLate \/ CopyDone
  BY <1>0, <1>4
     DEF QueueEmpty, Cull, DataGone, DataLate, CopyDone, Return, FinishWork, Goto, RTTypes
<1>5. CASE Loop \/ WakeUp
  BY <1>5 DEF Loop, Test, Wait, ClearReady, WakeUp, SpuriousWakeup, Goto
<1>6. QED
  BY <1>1, <1>2, <1>3, <1>4, <1>5, ThreadFrame
     DEF Next, RunSteps, StopSteps, Functor, Environment

LEMMA RaceKept ==
  ASSUME Control, RaceSeen, [Next]_vars
  PROVE  RaceSeen'
<1> SUFFICES ASSUME ~raced', ~pause'[Link], spc' = "pop"
             PROVE  FALSE
  BY DEF RaceSeen
<1>1. ~raced
  BY RacedStays
<1>2. RTTypes /\ Link \in Threads
  BY Constants DEF Control, TypeOK
<1>3. CASE Offer
  <2>1. cpc # "busy" /\ pause[Link] /\ spc = "pop"
    BY <1>3 DEF Offer, Control, FlagsMatch, subscriber
  <2>2. Accepts(Link)
    BY <1>3, <2>1 DEF Offer, SetWork, rtVars
  <2>3. QED
    BY <1>3, <2>1, <2>2 DEF Offer
<1>4. pause[Link] => pause'[Link] \/ Offer
  BY PauseSteps
<1>5. spc' = spc \/ (spc' = "pop" => pause[Link])
  <2>1. CASE UNCHANGED <<stream, subscriber>>
    BY <2>1 DEF subscriber
  <2>2. CASE Unsubscribe \/ Offer \/ FlushQueues \/ Unheard
    BY <2>2 DEF Unsubscribe, Offer, FlushQueues, Unheard, subscriber
  <2>3. CASE Subscribe
    BY <2>3 DEF Subscribe
  <2>4. CASE Subscriber
    BY <2>4, OneLink DEF Subscriber, Receive, CheckBusy, PopHalf
  <2>5. CASE Cull \/ SkipToWindow \/ CopyMessage
    BY <2>5 DEF Cull, SkipToWindow, CopyMessage, Return, Others, subscriber
  <2>6. QED
    BY <2>1, <2>2, <2>3, <2>4, <2>5, StreamFrame
       DEF Next, RunSteps, StopSteps, Functor, Environment
<1>6. QED
  BY <1>1, <1>3, <1>4, <1>5 DEF RaceSeen

LEMMA FrontKept ==
  ASSUME Control, RaceSeen, AtFront, [Next]_vars
  PROVE  AtFront'
<1> SUFFICES ASSUME mpc' = "wait", ~raced'
             PROVE  Len(dataQ') > 0 /\ lastTS' = TimeOf(dataQ'[1])
  BY DEF AtFront, TimeOf
<1>1. ~raced
  BY RacedStays
<1>2. dataQ \in Seq(Nat) /\ Len(dataQ) \in Nat
  BY LenProperties DEF Control, TypeOK, StreamTypes
<1>3. CASE mpc = "begin"
  <2>1. LookAtFront
    BY <1>3, BeginsAtFront
  <2>2. dataQ # <<>> /\ dataQ' = dataQ /\ lastTS' = TimeOf(Head(dataQ))
    BY <2>1 DEF LookAtFront, stream
  <2>3. Head(dataQ) = dataQ[1] /\ Len(dataQ) > 0
    BY <1>2, <2>2, HeadTailProperties, LenProperties
  <2>4. QED
    BY <2>2, <2>3
<1>4. CASE mpc # "begin"
  <2>1. ~SkipToWindow /\ ~CopyMessage
    BY DEF SkipToWindow, CopyMessage
  <2>2. mpc = "wait"
    BY <1>4, <2>1, WhileMatching, MatcherFrame
       DEF matcher, Functor, DataLate, CopyDone, Return, vars
  <2>3. /\ Len(dataQ') >= Len(dataQ) /\ \A i \in 1..Len(dataQ) : dataQ'[i] = dataQ[i]
        /\ lastTS' = lastTS
    BY <1>1, <1>4, <2>1, WhileMatching, QueueGrows
  <2>4. Len(dataQ) > 0 /\ lastTS = TimeOf(dataQ[1])
    BY <1>1, <2>2 DEF AtFront
  <2>5. dataQ'[1] = dataQ[1] /\ Len(dataQ') > 0
    BY <1>2, <2>3, <2>4
  <2>6. QED
    BY <2>3, <2>4, <2>5
<1>5. QED
  BY <1>3, <1>4

(***************************************************************************)
(* The piece of the stream that a fragment holds.                          *)
(***************************************************************************)

\* The messages that a matcher waits for are more than it skips and copies.
LEMMA RoomToCopy ==
  ASSUME Control, mpc = "wait", Len(dataQ) >= MinQueueSize
  PROVE  ToSkip + NumMessages < Len(dataQ)
<1>1. TickDiff \in Nat /\ ToSkip \in Nat /\ Len(dataQ) \in Nat
  BY SkipType, LenProperties DEF Control, TypeOK, StreamTypes
<1>2. TickDiff \div FramesPerMsg + TimeWindow \div FramesPerMsg
        <= (TickDiff + TimeWindow) \div FramesPerMsg
  BY <1>1, DivSum, Constants
<1>3. /\ TimeWindow \div FramesPerMsg \in Nat
      /\ (TickDiff + TimeWindow) \div FramesPerMsg \in Nat
  BY <1>1, DivBounds, Constants
<1>4. QED
  BY <1>1, <1>2, <1>3, Constants DEF MinQueueSize, ToSkip, NumMessages

\* Where the matcher skips to, a piece begins.
LEMMA PieceBegins ==
  ASSUME Control, AtFront, ~raced, SkipToWindow, whole'
  PROVE  Cutting'
<1> DEFINE first == dataQ[1]
           x == WindowStart(trig) - lastTS
<1>1. mpc = "wait" /\ frag = <<>> /\ UNCHANGED <<trig, frag>> /\ NoGap(dataQ)
      /\ dataQ' = Drop(dataQ, ToSkip) /\ Len(dataQ) >= MinQueueSize
  BY DEF SkipToWindow, Others, caller, Control, FlagsMatch, MatcherPlace
<1>2. dataQ \in Seq(Nat) /\ Len(dataQ) \in Nat /\ Len(dataQ) > 0
      /\ lastTS = TimeOf(first) /\ lastTS \in Nat
  BY <1>1, LenProperties DEF Control, TypeOK, StreamTypes, MatcherTypes, AtFront
<1>3. first \in Nat /\ Head(dataQ) = first
  BY <1>2, HeadTailProperties, ElementOfSeq
<1>4. trig \in Request /\ x \in Nat /\ TickDiff \in Nat /\ ToSkip \in Nat
      /\ WindowStart(trig) \in Nat
  BY <1>1, SkipType, WindowType
<1>5. /\ ToSkip * FramesPerMsg * TickDist <= x
      /\ x + TimeWindow * TickDist <= (ToSkip + NumMessages) * FramesPerMsg * TickDist
  BY <1>4, WindowArithmetic, Constants DEF ToSkip, TickDiff, NumMessages
<1> HIDE DEF first
<1>6. PICK p \in Nat : p = first + ToSkip
  BY <1>3, <1>4
<1>7. TimeOf(p) <= WindowStart(trig)
  <2>1. TimeOf(p) = TimeOf(first) + ToSkip * FramesPerMsg * TickDist
    BY <1>3, <1>4, <1>6, Constants DEF TimeOf
  <2>2. TimeOf(first) \in Nat /\ ToSkip * FramesPerMsg * TickDist \in Nat
    BY <1>3, <1>4, Constants DEF TimeOf
  <2>3. QED
    BY <1>2, <1>4, <1>5, <2>1, <2>2
<1>8. WindowEnd(trig) <= TimeOf(p + NumMessages)
  <2>1. TimeOf(p + NumMessages)
          = TimeOf(first) + (ToSkip + NumMessages) * FramesPerMsg * TickDist
    BY <1>3, <1>4, <1>6, Constants DEF TimeOf
  <2>2. TimeOf(first) \in Nat /\ (ToSkip + NumMessages) * FramesPerMsg * TickDist \in Nat
        /\ TimeWindow * TickDist \in Nat
    BY <1>3, <1>4, Constants DEF TimeOf
  <2>3. QED
    BY <1>2, <1>4, <1>5, <2>1, <2>2 DEF WindowEnd
<1>9. ToSkip + NumMessages < Len(dataQ)
  BY <1>1, RoomToCopy
<1>10. /\ Len(dataQ') = Len(dataQ) - ToSkip
       /\ \A i \in 1..Len(dataQ') : dataQ'[i] = dataQ[ToSkip + i]
  <2>1. ToSkip <= Len(dataQ)
    BY <1>2, <1>4, <1>9, Constants
  <2>2. QED
    BY <1>1, <1>2, <1>4, <2>1, DropType
<1>11. \A i \in 1..NumMessages + 1 : dataQ'[i] = p + i - 1
  <2> SUFFICES ASSUME NEW i \in 1..NumMessages + 1 PROVE dataQ'[i] = p + i - 1
    OBVIOUS
  <2>1. i \in 1..Len(dataQ') /\ ToSkip + i \in 1..Len(dataQ)
    <3>1. /\ ToSkip \in Nat /\ NumMessages \in Nat /\ Len(dataQ) \in Nat
          /\ Len(dataQ') = Len(dataQ) - ToSkip
      BY <1>2, <1>4, <1>10, Constants
    <3>2. i \in Nat /\ 1 <= i /\ i <= NumMessages + 1
      BY <3>1
    <3>3. i <= Len(dataQ') /\ Len(dataQ') \in Nat
      BY <1>9, <3>1, <3>2
    <3>4. ToSkip + i <= Len(dataQ) /\ ToSkip + i \in Nat /\ 1 <= ToSkip + i
      BY <1>9, <3>1, <3>2
    <3>5. QED
      BY <3>1, <3>2, <3>3, <3>4
  <2>2. dataQ[ToSkip + i] = first + (ToSkip + i) - 1
    BY <1>1, <1>3, <2>1 DEF NoGap
  <2>3. QED
    BY <1>3, <1>4, <1>6, <1>10, <2>1, <2>2
<1>12. Len(frag') = 0
  BY <1>1, EmptySeq
<1>13. Piece(p)'
  BY <1>1, <1>7, <1>8, <1>12 DEF Piece, TimeOf, WindowStart, WindowEnd
<1>14. Len(frag') + Len(dataQ') > NumMessages
  BY <1>2, <1>4, <1>9, <1>10, <1>12, Constants
<1>15. \A i \in 1..NumMessages + 1 - Len(frag') : dataQ'[i] = p + Len(frag') + i - 1
  BY <1>6, <1>11, <1>12, Constants
<1>16. QED
  BY <1>6, <1>13, <1>14, <1>15 DEF Cutting

\* A message moved from the queue to the fragment is the next one of the piece.
LEMMA PieceGrows ==
  ASSUME Control, Cutting, whole, ~raced, CopyMessage
  PROVE  Cutting'
<1>1. mpc = "copy" /\ Len(frag) < NumMessages /\ UNCHANGED trig
      /\ frag' = Append(frag, FrontOr(dataQ, -1))
      /\ dataQ' = IF dataQ = <<>> THEN dataQ ELSE Tail(dataQ)
  BY DEF CopyMessage, Others, caller
<1>2. PICK p \in Nat :
        /\ Piece(p) /\ Len(frag) + Len(dataQ) > NumMessages
        /\ \A i \in 1..NumMessages + 1 - Len(frag) : dataQ[i] = p + Len(frag) + i - 1
  BY <1>1 DEF Cutting
<1>3. dataQ \in Seq(Nat) /\ Len(dataQ) \in Nat /\ frag \in Seq(Int) /\ Len(frag) \in Nat
      /\ NumMessages \in Nat
  BY LenProperties, Constants DEF Control, TypeOK, StreamTypes, MatcherTypes
<1>4. dataQ # <<>> /\ dataQ[1] = p + Len(frag)
  <2>1. Len(dataQ) > 0 /\ 1 \in 1..NumMessages + 1 - Len(frag)
    BY <1>1, <1>2, <1>3
  <2>2. dataQ # <<>>
    BY <1>3, <2>1, EmptySeq
  <2>3. QED
    BY <1>2, <1>3, <2>1, <2>2
<1>5. FrontOr(dataQ, -1) = p + Len(frag) /\ dataQ' = Tail(dataQ)
  BY <1>1, <1>3, <1>4, HeadTailProperties DEF FrontOr
<1>6. /\ Len(frag') = Len(frag) + 1
      /\ \A i \in 1..Len(frag) : frag'[i] = frag[i]
      /\ frag'[Len(frag) + 1] = p + Len(frag)
  BY <1>1, <1>2, <1>3, <1>5, AppendProperties
<1>7. /\ Len(dataQ') = Len(dataQ) - 1
      /\ \A i \in 1..Len(dataQ') : dataQ'[i] = dataQ[i + 1]
  BY <1>3, <1>4, <1>5, HeadTailProperties
<1>8. \A i \in 1..Len(frag') : frag'[i] = p + i - 1
  <2> SUFFICES ASSUME NEW i \in 1..Len(frag') PROVE frag'[i] = p + i - 1
    OBVIOUS
  <2>1. CASE i \in 1..Len(frag)
    BY <1>2, <1>6, <2>1 DEF Piece
  <2>2. CASE i = Len(frag) + 1
    BY <1>2, <1>3, <1>6, <2>2
  <2>3. QED
    BY <1>3, <1>6, <2>1, <2>2
<1>9. Piece(p)'
  BY <1>1, <1>2, <1>8 DEF Piece, TimeOf, WindowStart, WindowEnd
<1>10. Len(frag') + Len(dataQ') > NumMessages
  BY <1>2, <1>3, <1>6, <1>7
<1>11. \A i \in 1..NumMessages + 1 - Len(frag') : dataQ'[i] = p + Len(frag') + i - 1
  <2> SUFFICES ASSUME NEW i \in 1..NumMessages + 1 - Len(frag')
               PROVE  dataQ'[i] = p + Len(frag') + i - 1
    OBVIOUS
  <2>1. i \in 1..Len(dataQ') /\ i + 1 \in 1..NumMessages + 1 - Len(frag)
    BY <1>2, <1>3, <1>6, <1>7
  <2>2. dataQ[i + 1] = p + Len(frag) + (i + 1) - 1
    BY <1>2, <2>1
  <2>3. QED
    BY <1>2, <1>3, <1>6, <1>7, <2>1, <2>2
<1>12. QED
  BY <1>2, <1>9, <1>10, <1>11 DEF Cutting

LEMMA CuttingKept ==
  ASSUME Control, RaceSeen, AtFront, Cutting, [Next]_vars
  PROVE  Cutting'
<1> SUFFICES ASSUME mpc' = "copy", whole', ~raced'
             PROVE  Cutting'
  BY DEF Cutting
<1>1. ~raced
  BY RacedStays
<1>2. mpc # "begin"
  BY BeginsAtFront DEF LookAtFront
<1>3. CASE SkipToWindow
  BY <1>1, <1>3, PieceBegins
<1>4. CASE CopyMessage
  BY <1>1, <1>4, PieceGrows DEF CopyMessage
<1>5. CASE ~SkipToWindow /\ ~CopyMessage
  <2>1. /\ \/ Subscriber \/ RequestArrives \/ RequestsEnd \/ Unheard \/ StopCommand
           \/ DataLate \/ CopyDone \/ UNCHANGED vars
    BY <1>2, <1>5, WhileMatching
  <2>2. /\ Len(dataQ') >= Len(dataQ) /\ \A i \in 1..Len(dataQ) : dataQ'[i] = dataQ[i]
        /\ UNCHANGED <<trig, frag, whole>>
    BY <1>1, <1>2, <2>1, QueueGrows
  <2>3. mpc = "copy"
    BY <2>1, MatcherFrame DEF matcher, DataLate, CopyDone, Return, vars
  <2>4. PICK p \in Nat :
          /\ Piece(p) /\ Len(frag) + Len(dataQ) > NumMessages
          /\ \A i \in 1..NumMessages + 1 - Len(frag) : dataQ[i] = p + Len(frag) + i - 1
    BY <1>1, <2>2, <2>3 DEF Cutting
  <2>5. Len(dataQ) \in Nat /\ Len(frag) \in Nat /\ Len(dataQ') \in Nat /\ NumMessages \in Nat
    BY LenProperties, TypesKept, Constants DEF Control, TypeOK, StreamTypes, MatcherTypes
  <2>6. \A i \in 1..NumMessages + 1 - Len(frag) : dataQ'[i] = p + Len(frag) + i - 1
    <3> SUFFICES ASSUME NEW i \in 1..NumMessages + 1 - Len(frag)
                 PROVE  dataQ'[i] = p + Len(frag) + i - 1
      OBVIOUS
    <3>1. i \in 1..Len(dataQ)
      BY <2>4, <2>5
    <3>2. QED
      BY <2>2, <2>4, <3>1
  <2>7. Len(frag') + Len(dataQ') > NumMessages
    BY <2>2, <2>4, <2>5
  <2>8. Piece(p)'
    BY <2>2, <2>4 DEF Piece, TimeOf, WindowStart, WindowEnd
  <2>9. QED
    BY <2>2, <2>4, <2>6, <2>7, <2>8 DEF Cutting
<1>6. QED
  BY <1>3, <1>4, <1>5

LEMMA CutDoneKept ==
  ASSUME Control, Cutting, CutDone, [Next]_vars
  PROVE  CutDone'
<1> SUFFICES ASSUME cpc' = "busy", pause'[Link], whole', ~raced', frag' # <<>>
             PROVE  Len(frag') = NumMessages /\ \E p \in Nat : Piece(p)'
  BY DEF CutDone
<1>1. ~raced
  BY RacedStays
<1>2. RTTypes /\ Link \in Threads
  BY Constants DEF Control, TypeOK
<1>3. CASE cpc = "busy" /\ pause[Link] /\ UNCHANGED <<trig, frag, whole>>
  <2>1. Len(frag) = NumMessages /\ \E p \in Nat : Piece(p)
    BY <1>1, <1>3 DEF CutDone
  <2>2. QED
    BY <1>3, <2>1 DEF Piece, TimeOf, WindowStart, WindowEnd
<1>4. CASE CopyDone
  <2>1. mpc = "copy" /\ Len(frag) = NumMessages /\ UNCHANGED <<trig, frag, whole>>
    BY <1>4 DEF CopyDone, Return, Others, caller
  <2>2. PICK p \in Nat : Piece(p)
    BY <1>1, <2>1 DEF Cutting
  <2>3. QED
    BY <2>1, <2>2 DEF Piece, TimeOf, WindowStart, WindowEnd
<1>5. CASE QueueEmpty \/ Cull \/ DataGone \/ DataLate
  <2>1. wpc[Link] = "run" /\ mpc # "copy" /\ UNCHANGED frag
    BY <1>5 DEF QueueEmpty, Cull, DataGone, DataLate, Return
  <2>2. QED
    BY <2>1 DEF Control, FlagsMatch, MatcherPlace
<1>6. CASE LookAtFront \/ SkipToWindow \/ CopyMessage
  <2>1. wpc[Link] = "run" /\ UNCHANGED pause
    BY <1>6 DEF LookAtFront, SkipToWindow, CopyMessage, rtVars
  <2>2. QED
    BY <2>1 DEF Control, FlagsMatch
<1>7. CASE Offer
  BY <1>7 DEF Offer, Control, MatcherPlace
<1>8. CASE Loop \/ WakeUp \/ Subscriber \/ RequestsEnd \/ RequestArrives \/ Unheard \/ UNCHANGED vars
  <2>1. UNCHANGED <<caller, matcher>>
    BY <1>8, CallerFrame, MatcherFrame
  <2>2. UNCHANGED pause
    BY <1>8, ThreadFrame DEF Loop, Test, Wait, ClearReady, WakeUp, SpuriousWakeup, Goto, rtVars
  <2>3. QED
    BY <1>3, <2>1, <2>2 DEF caller, matcher
<1>9. CASE StopCommand
  BY <1>3, <1>9 DEF StopCommand, rtVars, matcher
<1>10. CASE \/ StartRequests \/ Subscribe \/ GetNext \/ TakeRequest \/ WorkersDone \/ StopSteps
            \/ StartMatchers
  BY <1>10 DEF StartRequests, Subscribe, GetNext, TakeRequest, WorkersDone, StopSteps,
               StopRequests, JoinRequests, Unsubscribe, FlushQueues, DestroyMatcher,
               JoinMatcher, StartMatchers
<1>11. QED
  BY <1>4, <1>5, <1>6, <1>7, <1>8, <1>9, <1>10
     DEF Next, RunSteps, Functor, Environment

\* A fragment that leaves getNext_() covers its window.
LEMMA FragmentCovered ==
  ASSUME Control, CutDone, WorkersDone, trig # NoTrigger
  PROVE  Covered(Fragment)
<1> SUFFICES ASSUME whole, ~raced, frag # <<>>
             PROVE  /\ NoGap(frag)
                    /\ TimeOf(Head(frag)) <= WindowStart(trig)
                    /\ WindowEnd(trig) <= EndOf(Last(frag))
  BY DEF Covered, Fragment, WindowStart, WindowEnd
<1>1. cpc = "busy" /\ pause[Link]
  BY OneLink DEF WorkersDone, WaitOver
<1>2. PICK p \in Nat : Piece(p) /\ Len(frag) = NumMessages
  BY <1>1 DEF CutDone
<1>3. frag \in Seq(Int) /\ Len(frag) \in Nat \ {0}
  BY EmptySeq, LenProperties DEF Control, TypeOK, MatcherTypes
<1>4. Head(frag) = frag[1] /\ Last(frag) = frag[Len(frag)]
  BY <1>3, HeadTailProperties DEF Last
<1>5. Head(frag) = p /\ Last(frag) = p + NumMessages - 1
  BY <1>2, <1>3, <1>4 DEF Piece
<1>6. NoGap(frag)
  BY <1>2, <1>3, <1>5 DEF Piece, NoGap
<1>7. Last(frag) + 1 = p + NumMessages
  BY <1>2, <1>5, Constants
<1>8. QED
  BY <1>2, <1>5, <1>6, <1>7 DEF Piece, EndOf

LEMMA DeliveredKept ==
  ASSUME Control, CutDone, Delivered, [Next]_vars
  PROVE  Delivered'
<1>1. served \in Seq(Fragments) /\ discarded \in Seq(Fragments)
  BY DEF Control, TypeOK, CallerTypes
<1>2. CASE UNCHANGED <<served, discarded>>
  BY <1>2 DEF Delivered, AllCovered, Covered, NoGap, TimeOf, EndOf, WindowStart, WindowEnd
<1>3. CASE WorkersDone /\ trig # NoTrigger
  <2>1. Covered(Fragment) /\ Fragment \in Fragments
    BY <1>3, FragmentCovered, FragmentType DEF Control
  <2>2. \A s \in Seq(Fragments) : AllCovered(s) => AllCovered(Append(s, Fragment))
    <3> SUFFICES ASSUME NEW s \in Seq(Fragments), AllCovered(s),
                        NEW i \in 1..Len(Append(s, Fragment))
                 PROVE  Covered(Append(s, Fragment)[i])
      BY DEF AllCovered
    <3>1. /\ Len(s) \in Nat /\ Len(Append(s, Fragment)) = Len(s) + 1
          /\ \A j \in 1..Len(s) : Append(s, Fragment)[j] = s[j]
          /\ Append(s, Fragment)[Len(s) + 1] = Fragment
      BY <2>1, LenProperties, AppendProperties
    <3>2. CASE i \in 1..Len(s)
      BY <3>1, <3>2 DEF AllCovered
    <3>3. CASE i = Len(s) + 1
      BY <2>1, <3>1, <3>3
    <3>4. QED
      BY <3>1, <3>2, <3>3
  <2>3. /\ served' = served \/ served' = Append(served, Fragment)
        /\ discarded' = discarded \/ discarded' = Append(discarded, Fragment)
    BY <1>3 DEF WorkersDone
  <2>4. AllCovered(served') /\ AllCovered(discarded')
    BY <1>1, <2>2, <2>3 DEF Delivered
  <2>5. QED
    BY <2>4 DEF Delivered, AllCovered, Covered, NoGap, TimeOf, EndOf, WindowStart, WindowEnd
<1>4. CASE WorkersDone /\ trig = NoTrigger
  BY <1>2, <1>4 DEF WorkersDone
<1>5. CASE StartMatchers \/ StartRequests \/ Subscribe \/ GetNext \/ TakeRequest \/ Offer
           \/ StopCommand \/ StopSteps
  BY <1>2, <1>5
     DEF StartMatchers, StartRequests, Subscribe, GetNext, TakeRequest, Offer, StopCommand,
         StopSteps, StopRequests, JoinRequests, Unsubscribe, FlushQueues, DestroyMatcher,
         JoinMatcher
<1>6. CASE ~(StartMatchers \/ RunSteps \/ StopCommand \/ StopSteps)
  BY <1>2, <1>6, CallerFrame DEF Next, Environment, caller
<1>7. QED
  BY <1>3, <1>4, <1>5, <1>6 DEF RunSteps

LEMMA IInvInit == Init => IInv
<1> SUFFICES ASSUME Init PROVE IInv
  OBVIOUS
<1>1. RaceSeen /\ AtFront /\ Cutting /\ CutDone
  BY DEF Init, RaceSeen, AtFront, Cutting, CutDone
<1>2. Delivered
  BY EmptySeq DEF Init, Delivered, AllCovered
<1>3. QED
  BY <1>1, <1>2, ControlInit DEF IInv

THEOREM Invariance == Spec => []IInv
<1>1. IInv /\ [Next]_vars => IInv'
  BY ControlKept, RaceKept, FrontKept, CuttingKept, CutDoneKept, DeliveredKept DEF IInv
<1>2. QED
  BY <1>1, IInvInit, PTL DEF Spec

(* A fragment with data holds, without a gap, the messages that cover the whole *)
(* window of its trigger, whatever the subscriber did while they were copied.   *)
THEOREM WindowCorrect == Spec => []WindowCovered
<1>1. IInv => WindowCovered
  <2> SUFFICES ASSUME IInv, NEW f \in ToSet(Outcomes)
               PROVE  Covered(f)
    BY DEF WindowCovered
  <2>1. served \in Seq(Fragments) /\ discarded \in Seq(Fragments)
        /\ Len(served) \in Nat /\ Len(discarded) \in Nat
    BY LenProperties DEF IInv, Control, TypeOK, CallerTypes
  <2>2. PICK i \in DOMAIN Outcomes : f = Outcomes[i]
    BY DEF ToSet
  <2>3. /\ DOMAIN Outcomes = 1..Len(served) + Len(discarded)
        /\ \A j \in 1..Len(served) + Len(discarded) :
             Outcomes[j] = IF j <= Len(served) THEN served[j] ELSE discarded[j - Len(served)]
    BY <2>1, ConcatProperties, LenProperties DEF Outcomes
  <2>4. CASE i <= Len(served)
    BY <2>1, <2>2, <2>3, <2>4 DEF IInv, Delivered, AllCovered
  <2>5. CASE i > Len(served)
    BY <2>1, <2>2, <2>3, <2>5 DEF IInv, Delivered, AllCovered
  <2>6. QED
    BY <2>1, <2>3, <2>4, <2>5
<1>2. QED
  BY <1>1, Invariance, PTL
(***************************************************************************)
(* What is shared out among the triggers.                                  *)
(***************************************************************************)

Answers == ToSet(served) \cup ToSet(discarded)
AsRequest(f) == [seqID |-> f.seqID, timestamp |-> f.timestamp]

\* Each trigger is taken after those that have been answered, and before those to come.
TriggersPast ==
  /\ InOrder(reqQ, lastReq) /\ Past(trig, reqQ, lastReq)
  /\ \A g \in Answers : Past(AsRequest(g), reqQ, lastReq)
  /\ cpc \in {"offer", "busy"} /\ trig # NoTrigger => \A g \in Answers : g.seqID < trig.seqID
  /\ \A i, j \in 1..Len(served) : i < j => served[i].seqID < served[j].seqID

\* A queue of messages q whose link will send n next is in the order of the stream.
Rising(q, n) ==
  /\ \A i, j \in 1..Len(q) : i < j => q[i] < q[j]
  /\ \A i \in 1..Len(q) : q[i] < n

\* Message m is older than all that are queued or to come.
Before(m, q, n) == m < n /\ \A i \in 1..Len(q) : m < q[i]

\* Of a queue, what may be left a step later: messages went at its front, at most
\* one came.
Moved(q, n, q2, n2) ==
  /\ n <= n2
  /\ \E k \in Nat : \A i \in 1..Len(q2) : \/ k + i \in 1..Len(q) /\ q2[i] = q[k + i]
                                          \/ i = Len(q2) /\ q2[i] = n /\ n < n2

StreamRight == Rising(dataQ, nMsg) /\ floor <= FrontOr(dataQ, nMsg)

\* What has been taken is not there any more, and what is being taken was not before.
TakenBefore(m) == \A g \in Answers : g.data # <<>> => Last(g.data) < m
DataPast ==
  /\ \A g \in Answers : g.data # <<>> => Before(Last(g.data), dataQ, nMsg)
  /\ cpc = "busy" => \A i \in 1..Len(frag) : Before(frag[i], dataQ, nMsg)
  /\ cpc = "busy" /\ ~raced => \A i \in 1..Len(frag) : TakenBefore(frag[i])
  /\ \A i, j \in 1..Len(served) :
       i < j /\ served[j].whole /\ served[i].data # <<>> /\ served[j].data # <<>>
         => Last(served[i].data) < Head(served[j].data)

\* The matcher never empties the queue.
CopyRoom == mpc = "copy" /\ ~raced => Len(frag) + Len(dataQ) > NumMessages

\* The messages before n were thrown away untouched, or some answer has gone that far.
TakenTo(n) ==
  \/ \E g \in Answers : g.data # <<>> /\ n <= Last(g.data) + 1
  \/ cpc = "busy" /\ frag # <<>> /\ n <= Last(frag) + 1
FrontExplained ==
  whole /\ ~raced /\ mpc # "copy" =>
    FrontOr(dataQ, nMsg) <= floor \/ TakenTo(FrontOr(dataQ, nMsg))

\* Data of time t were thrown away, before the floor fl, or taken for a trigger before n.
GoneFor(A, t, fl, n) ==
  t < TimeOf(fl) \/ \E g \in A : g.data # <<>> /\ g.seqID < n /\ t < EndOf(Last(g.data))

OldExplained ==
  /\ ~pause[Link] => excuse # "old"
  /\ cpc = "busy" /\ trig # NoTrigger /\ excuse = "old" /\ whole /\ ~raced =>
       GoneFor(Answers, WindowStart(trig), floor, trig.seqID)
  /\ \A f \in Answers : f.whole /\ f.excuse = "old" => GoneFor(Answers, WindowStart(f), f.floor, f.seqID)

SharedInv ==
  /\ IInv /\ TriggersPast /\ StreamRight /\ DataPast /\ CopyRoom /\ FrontExplained /\ OldExplained

(***************************************************************************)
(* The answers.                                                            *)
(***************************************************************************)

LEMMA AnswerTypes ==
  ASSUME TypeOK
  PROVE  /\ Answers = ToSet(Outcomes)
         /\ \A g \in Answers :
              /\ g \in Fragments /\ AsRequest(g) \in Request /\ g.seqID \in Nat
              /\ g.data \in Seq(Int) /\ g.floor \in Nat
              /\ g.data # <<>> => Head(g.data) \in Int /\ Last(g.data) \in Int
<1>1. served \in Seq(Fragments) /\ discarded \in Seq(Fragments)
      /\ Len(served) \in Nat /\ Len(discarded) \in Nat
  BY LenProperties DEF TypeOK, CallerTypes
<1>2. PICK s, d : s = Len(served) /\ d = Len(discarded)
  OBVIOUS
<1>3. DOMAIN served = 1..s /\ DOMAIN discarded = 1..d
  BY <1>1, <1>2, LenProperties
<1>4. /\ DOMAIN Outcomes = 1..s + d
      /\ \A j \in 1..s + d : Outcomes[j] = IF j <= s THEN served[j] ELSE discarded[j - s]
  BY <1>1, <1>2, ConcatProperties, LenProperties DEF Outcomes
<1>5. Answers = ToSet(Outcomes)
  <2>1. ASSUME NEW g \in Answers PROVE g \in ToSet(Outcomes)
    <3>1. CASE \E i \in 1..s : g = served[i]
      <4>1. PICK i \in 1..s : g = served[i]
        BY <3>1
      <4>2. i \in 1..s + d /\ Outcomes[i] = g
        BY <1>1, <1>2, <1>4, <4>1
      <4>. QED BY <1>4, <4>2 DEF ToSet
    <3>2. CASE \E i \in 1..d : g = discarded[i]
      <4>1. PICK i \in 1..d : g = discarded[i]
        BY <3>2
      <4>2. s + i \in 1..s + d /\ ~(s + i <= s) /\ (s + i) - s = i
        BY <1>1, <1>2, <4>1
      <4>3. Outcomes[s + i] = g
        BY <1>4, <4>1, <4>2
      <4>. QED BY <1>4, <4>2, <4>3 DEF ToSet
    <3>. QED BY <1>3, <3>1, <3>2 DEF Answers, ToSet
  <2>2. ASSUME NEW g \in ToSet(Outcomes) PROVE g \in Answers
    <3>1. PICK j \in 1..s + d : g = Outcomes[j]
      BY <1>4 DEF ToSet
    <3>2. CASE j <= s
      <4>1. j \in 1..s /\ g = served[j]
        BY <1>1, <1>2, <1>4, <3>1, <3>2
      <4>. QED BY <1>3, <4>1 DEF Answers, ToSet
    <3>3. CASE ~(j <= s)
      <4>1. j - s \in 1..d /\ g = discarded[j - s]
        BY <1>1, <1>2, <1>4, <3>1, <3>3
      <4>. QED BY <1>3, <4>1 DEF Answers, ToSet
    <3>. QED BY <3>2, <3>3
  <2>. QED BY <2>1, <2>2
<1>6. \A g \in Answers : g \in Fragments
  BY <1>1, <1>2, <1>3, ElementOfSeq DEF Answers, ToSet
<1>7. ASSUME NEW g \in Fragments
      PROVE  /\ AsRequest(g) \in Request /\ g.seqID \in Nat /\ g.data \in Seq(Int) /\ g.floor \in Nat
  BY DEF Fragments, AsRequest, Request
<1>8. ASSUME NEW q \in Seq(Int), q # <<>> PROVE Head(q) \in Int /\ Last(q) \in Int
  <2>1. Len(q) \in Nat /\ Len(q) >= 1
    BY <1>8, EmptySeq, LenProperties
  <2>2. Len(q) \in 1..Len(q)
    BY <2>1
  <2>. QED BY <1>8, <2>2, HeadTailProperties, ElementOfSeq DEF Last
<1>. QED BY <1>5, <1>6, <1>7, <1>8

\* An answer is made by WorkersDone, of the trigger and the fragment it has then.
Answered(f) ==
  /\ f.seqID = trig.seqID /\ f.timestamp = trig.timestamp /\ f.data = frag
  /\ f.excuse = excuse /\ (f.whole <=> (whole /\ ~raced)) /\ f.floor = floor

\* s is the sequence q or the sequence q and e.
Longer(s, q, e) ==
  \/ s = q
  \/ Len(s) = Len(q) + 1 /\ s[Len(q) + 1] = e /\ \A i \in 1..Len(q) : s[i] = q[i]

LEMMA AnswerSteps ==
  ASSUME TypeOK, [Next]_vars
  PROVE  \/ UNCHANGED <<served, discarded>> /\ (WorkersDone => trig = NoTrigger)
         \/ WorkersDone /\ trig # NoTrigger
<1>1. CASE StartMatchers \/ StartRequests \/ Subscribe \/ GetNext \/ TakeRequest \/ Offer
           \/ StopCommand \/ StopSteps
  <2>1. UNCHANGED <<served, discarded>>
    BY <1>1 DEF StartMatchers, StartRequests, Subscribe, GetNext, TakeRequest, Offer, StopCommand,
         StopSteps, StopRequests, JoinRequests, Unsubscribe, FlushQueues, DestroyMatcher,
         JoinMatcher
  <2>. QED BY <2>1
<1>2. CASE ~(StartMatchers \/ RunSteps \/ StopCommand \/ StopSteps)
  BY <1>2, CallerFrame DEF Next, Environment, caller
<1>3. CASE WorkersDone
  BY <1>3 DEF WorkersDone
<1>. QED BY <1>1, <1>2, <1>3 DEF RunSteps

LEMMA NewAnswer ==
  ASSUME TypeOK, WorkersDone, trig # NoTrigger
  PROVE  \E f \in Fragments :
           /\ Answered(f) /\ Answers' = Answers \cup {f}
           /\ Longer(served', served, f)
<1>1. PICK f : f = Fragment
  OBVIOUS
<1>2. f \in Fragments /\ Answered(f)
  BY <1>1, FragmentType DEF Fragment, Answered
<1>3. served \in Seq(Fragments) /\ discarded \in Seq(Fragments)
  BY DEF TypeOK, CallerTypes
<1>4. ASSUME NEW s \in Seq(Fragments), NEW t, t = Append(s, f)
      PROVE  Longer(t, s, f) /\ ToSet(t) = ToSet(s) \cup {f}
  <2>1. PICK n : n = Len(s)
    OBVIOUS
  <2>2. /\ n \in Nat /\ Len(t) = n + 1 /\ t[n + 1] = f /\ \A i \in 1..n : t[i] = s[i]
    BY <1>2, <1>4, <2>1, AppendProperties, LenProperties
  <2>3. 1..(n + 1) = 1..n \cup {n + 1}
    BY <2>2
  <2>4. {t[i] : i \in 1..(n + 1)} = {t[i] : i \in 1..n} \cup {t[n + 1]}
    BY <2>3
  <2>5. {t[i] : i \in 1..n} = {s[i] : i \in 1..n}
    BY <2>2
  <2>6. DOMAIN t = 1..(n + 1) /\ DOMAIN s = 1..n
    BY <1>2, <1>4, <2>1, <2>2, AppendProperties, LenProperties
  <2>7. ToSet(t) = ToSet(s) \cup {f}
    BY <2>2, <2>4, <2>5, <2>6 DEF ToSet
  <2>. QED BY <2>1, <2>2, <2>7 DEF Longer
<1>5. \/ served' = Append(served, f) /\ discarded' = discarded
      \/ served' = served /\ discarded' = Append(discarded, f)
  BY <1>1 DEF WorkersDone
<1>6. CASE served' = Append(served, f) /\ discarded' = discarded
  <2>1. Longer(served', served, f) /\ ToSet(served') = ToSet(served) \cup {f}
    BY <1>3, <1>4, <1>6
  <2>2. Answers' = Answers \cup {f}
    BY <1>6, <2>1 DEF Answers
  <2>. QED BY <1>2, <2>1, <2>2
<1>7. CASE served' = served /\ discarded' = Append(discarded, f)
  <2>1. ToSet(discarded') = ToSet(discarded) \cup {f}
    BY <1>3, <1>4, <1>7
  <2>2. Answers' = Answers \cup {f}
    BY <1>7, <2>1 DEF Answers
  <2>3. Longer(served', served, f)
    BY <1>7 DEF Longer
  <2>. QED BY <1>2, <2>2, <2>3
<1>. QED BY <1>5, <1>6, <1>7

(***************************************************************************)
(* The stream.                                                             *)
(***************************************************************************)

\* What a queue keeps when it moves.
LEMMA MovedKeeps ==
  ASSUME NEW q \in Seq(Nat), NEW n \in Nat, NEW q2 \in Seq(Nat), NEW n2 \in Nat,
         Moved(q, n, q2, n2)
  PROVE  /\ \A m \in Int : Before(m, q, n) => Before(m, q2, n2)
         /\ Rising(q, n) => Rising(q2, n2) /\ FrontOr(q, n) <= FrontOr(q2, n2)
<1>1. PICK k \in Nat : \A i \in 1..Len(q2) : \/ k + i \in 1..Len(q) /\ q2[i] = q[k + i]
                                             \/ i = Len(q2) /\ q2[i] = n /\ n < n2
  BY DEF Moved
<1>2. PICK a, b : a = Len(q) /\ b = Len(q2)
  OBVIOUS
<1>3. /\ a \in Nat /\ b \in Nat /\ n <= n2
      /\ \A i \in 1..a : q[i] \in Nat
      /\ \A i \in 1..b : q2[i] \in Nat
  BY <1>2, LenProperties, ElementOfSeq DEF Moved
<1>4. \A i \in 1..b : (k + i \in 1..a /\ q2[i] = q[k + i]) \/ (i = b /\ q2[i] = n /\ n < n2)
  BY <1>1, <1>2
<1>5. ASSUME NEW m \in Int, Before(m, q, n) PROVE Before(m, q2, n2)
  <2>1. m < n /\ \A i \in 1..a : m < q[i]
    BY <1>2, <1>5 DEF Before
  <2>2. ASSUME NEW i \in 1..b PROVE m < q2[i]
    <3>1. CASE k + i \in 1..a /\ q2[i] = q[k + i]
      BY <2>1, <3>1
    <3>. QED BY <1>4, <2>1, <3>1
  <2>3. m < n2
    BY <1>3, <2>1
  <2>. QED BY <1>2, <2>2, <2>3 DEF Before
<1>6. ASSUME Rising(q, n) PROVE Rising(q2, n2)
  <2>1. /\ \A i, j \in 1..a : i < j => q[i] < q[j]
        /\ \A i \in 1..a : q[i] < n
    BY <1>2, <1>6 DEF Rising
  <2>2. ASSUME NEW i \in 1..b PROVE q2[i] < n2
    <3>1. CASE k + i \in 1..a /\ q2[i] = q[k + i]
      <4>1. q[k + i] < n /\ q[k + i] \in Nat
        BY <1>3, <2>1, <3>1
      <4>. QED BY <1>3, <3>1, <4>1
    <3>2. CASE q2[i] = n /\ n < n2
      BY <3>2
    <3>. QED BY <1>4, <3>1, <3>2
  <2>3. ASSUME NEW i \in 1..b, NEW j \in 1..b, i < j PROVE q2[i] < q2[j]
    <3>1. k + i \in 1..a /\ q2[i] = q[k + i]
      BY <1>3, <1>4, <2>3
    <3>2. CASE k + j \in 1..a /\ q2[j] = q[k + j]
      <4>1. k + i < k + j
        BY <2>3
      <4>. QED BY <2>1, <3>1, <3>2, <4>1
    <3>3. CASE q2[j] = n
      BY <2>1, <3>1, <3>3
    <3>. QED BY <1>4, <3>2, <3>3
  <2>. QED BY <1>2, <2>2, <2>3 DEF Rising
<1>7. ASSUME Rising(q, n) PROVE FrontOr(q, n) <= FrontOr(q2, n2)
  <2>1. /\ \A i, j \in 1..a : i < j => q[i] < q[j]
        /\ \A i \in 1..a : q[i] < n
    BY <1>2, <1>7 DEF Rising
  <2>2. PICK x, y : x = FrontOr(q, n) /\ y = FrontOr(q2, n2)
    OBVIOUS
  <2>3. /\ q = <<>> => x = n /\ a = 0
        /\ q # <<>> => x = q[1] /\ 1 \in 1..a
    BY <1>2, <1>3, <2>2, HeadTailProperties, LenProperties, EmptySeq DEF FrontOr
  <2>4. /\ q2 = <<>> => y = n2
        /\ q2 # <<>> => y = q2[1] /\ 1 \in 1..b
    BY <1>2, <1>3, <2>2, HeadTailProperties, LenProperties, EmptySeq DEF FrontOr
  <2>5. x <= n /\ x \in Nat
    BY <1>3, <2>1, <2>3
  <2>6. CASE q2 = <<>>
    BY <1>3, <2>2, <2>4, <2>5, <2>6
  <2>7. CASE q2 # <<>> /\ q2[1] = n
    BY <2>2, <2>4, <2>5, <2>7
  <2>8. CASE q2 # <<>> /\ k + 1 \in 1..a /\ q2[1] = q[k + 1]
    <3>1. q # <<>> /\ 1 \in 1..a /\ x = q[1]
      BY <1>3, <2>3, <2>8
    <3>2. q[1] <= q[k + 1]
      <4>1. CASE k = 0
        BY <1>3, <3>1, <4>1
      <4>2. CASE k > 0
        <5>1. 1 < k + 1
          BY <4>2
        <5>2. q[1] < q[k + 1]
          BY <2>1, <2>8, <3>1, <5>1
        <5>. QED BY <1>3, <2>8, <3>1, <5>2
      <4>. QED BY <4>1, <4>2
    <3>. QED BY <2>2, <2>4, <2>8, <3>1, <3>2
  <2>. QED BY <1>4, <2>4, <2>6, <2>7, <2>8
<1>. QED BY <1>5, <1>6, <1>7

\* Nothing, an arrival, and the loss of k messages are moves.
LEMMA Moves ==
  ASSUME NEW q \in Seq(Nat), NEW n \in Nat
  PROVE  /\ Moved(q, n, q, n) /\ Moved(q, n, q, n + 1)
         /\ Moved(q, n, Append(q, n), n + 1)
         /\ \A k \in Nat : Moved(q, n, Drop(q, k), n)
         /\ Moved(q, n, <<>>, n) /\ (q # <<>> => Moved(q, n, Tail(q), n))
<1>1. Len(q) \in Nat /\ Len(<<>>) = 0
  BY LenProperties, EmptySeq
<1>2. Moved(q, n, q, n) /\ Moved(q, n, q, n + 1)
  <2>1. \A i \in 1..Len(q) : 0 + i \in 1..Len(q) /\ q[i] = q[0 + i]
    BY <1>1
  <2>2. 0 \in Nat /\ n <= n /\ n <= n + 1
    OBVIOUS
  <2>. QED BY <2>1, <2>2 DEF Moved
<1>3. Moved(q, n, Append(q, n), n + 1)
  <2>1. PICK a : a = Append(q, n)
    OBVIOUS
  <2>2. Len(a) = Len(q) + 1 /\ a[Len(q) + 1] = n /\ \A i \in 1..Len(q) : a[i] = q[i]
    BY <2>1, AppendProperties, <1>1
  <2>3. \A i \in 1..Len(a) : \/ 0 + i \in 1..Len(q) /\ a[i] = q[0 + i]
                             \/ i = Len(a) /\ a[i] = n /\ n < n + 1
    BY <1>1, <2>2
  <2>4. 0 \in Nat /\ n <= n + 1
    OBVIOUS
  <2>. QED BY <2>1, <2>3, <2>4 DEF Moved
<1>4. ASSUME NEW k \in Nat PROVE Moved(q, n, Drop(q, k), n)
  <2>1. PICK a : a = Drop(q, k)
    OBVIOUS
  <2>2. /\ Len(a) \in Nat /\ Len(a) <= Len(q)
        /\ k <= Len(q) => Len(a) = Len(q) - k
        /\ \A i \in 1..Len(a) : a[i] = q[k + i]
    BY <2>1, DropType
  <2>3. k > Len(q) => Len(a) = 0
    BY <1>1, <2>1, SubSeqProperties DEF Drop
  <2>4. \A i \in 1..Len(a) : k + i \in 1..Len(q) /\ a[i] = q[k + i]
    BY <1>1, <2>2, <2>3
  <2>5. n <= n
    OBVIOUS
  <2>6. Moved(q, n, a, n)
    BY <2>4, <2>5 DEF Moved
  <2>. QED BY <2>1, <2>6
<1>5. Moved(q, n, <<>>, n)
  BY <1>1 DEF Moved
<1>6. ASSUME q # <<>> PROVE Moved(q, n, Tail(q), n)
  <2>1. PICK a : a = Tail(q)
    OBVIOUS
  <2>2. Len(a) = Len(q) - 1 /\ \A i \in 1..Len(a) : a[i] = q[i + 1]
    BY <1>6, <2>1, HeadTailProperties
  <2>3. \A i \in 1..Len(a) : 1 + i \in 1..Len(q) /\ a[i] = q[1 + i]
    BY <1>1, <2>2
  <2>4. 1 \in Nat /\ n <= n
    OBVIOUS
  <2>5. Moved(q, n, a, n)
    BY <2>3, <2>4 DEF Moved
  <2>. QED BY <2>1, <2>5
<1>. QED BY <1>2, <1>3, <1>4, <1>5, <1>6

\* Every step moves the queue, and leaves the floor or puts it at the front.
LEMMA QueueMoves ==
  ASSUME Control, [Next]_vars
  PROVE  /\ Moved(dataQ, nMsg, dataQ', nMsg')
         /\ floor' = floor \/ floor' = FrontOr(dataQ', nMsg')
<1>1. dataQ \in Seq(Nat) /\ nMsg \in Nat
  BY DEF Control, TypeOK, StreamTypes
<1>2. CASE UNCHANGED <<dataQ, nMsg, floor>>
  BY <1>1, <1>2, Moves
<1>3. CASE UNCHANGED <<stream, subscriber>>
  BY <1>2, <1>3 DEF stream, subscriber
<1>4. CASE Subscribe \/ Unsubscribe \/ Offer \/ CheckBusy
  BY <1>2, <1>4 DEF Subscribe, Unsubscribe, Offer, CheckBusy, stream, subscriber
<1>5. CASE FlushQueues
  BY <1>1, <1>5, Moves DEF FlushQueues, subscriber, FrontOr
<1>6. CASE Receive
  BY <1>1, <1>6, Moves DEF Receive
<1>7. CASE Unheard
  BY <1>1, <1>7, Moves DEF Unheard, FrontOr
<1>8. CASE PopHalf
  <2>1. PICK k : k = QueueCap \div 2
    OBVIOUS
  <2>2. k \in Nat
    BY <2>1, Constants, DivBounds
  <2>3. dataQ' = Drop(dataQ, k) /\ nMsg' = nMsg /\ floor' = FrontOr(dataQ', nMsg')
    BY <1>8, <2>1 DEF PopHalf
  <2>4. Moved(dataQ, nMsg, Drop(dataQ, k), nMsg)
    BY <1>1, <2>2, Moves
  <2>. QED BY <2>3, <2>4
<1>9. CASE Cull
  <2>1. Len(dataQ) \in Nat
    BY <1>1, LenProperties
  <2>2. PICK k : k = (8 * Len(dataQ)) \div 10
    OBVIOUS
  <2>3. k \in Nat
    BY <2>1, <2>2, DivBounds
  <2>4. nMsg' = nMsg
    BY <1>9 DEF Cull, Return, Others, subscriber
  <2>5. /\ dataQ' = dataQ \/ dataQ' = Drop(dataQ, k)
        /\ floor' = floor \/ floor' = FrontOr(dataQ', nMsg)
    BY <1>9, <2>2 DEF Cull
  <2>6. Moved(dataQ, nMsg, dataQ, nMsg) /\ Moved(dataQ, nMsg, Drop(dataQ, k), nMsg)
    BY <1>1, <2>3, Moves
  <2>. QED BY <2>4, <2>5, <2>6
<1>10. CASE SkipToWindow
  BY <1>1, <1>10, SkipType, Moves DEF SkipToWindow, Others, subscriber
<1>11. CASE CopyMessage
  BY <1>1, <1>11, Moves DEF CopyMessage, Others, subscriber
<1>. QED BY <1>3, <1>4, <1>5, <1>6, <1>7, <1>8, <1>9, <1>10, <1>11, StreamFrame
         DEF Next, RunSteps, StopSteps, Subscriber, Functor, Environment

LEMMA FrontType ==
  ASSUME TypeOK
  PROVE  FrontOr(dataQ, nMsg) \in Nat /\ dataQ \in Seq(Nat) /\ nMsg \in Nat /\ floor \in Nat
BY HeadTailProperties DEF FrontOr, TypeOK, StreamTypes

LEMMA StreamKept ==
  ASSUME Control, StreamRight, [Next]_vars
  PROVE  /\ StreamRight' /\ floor <= floor'
         /\ FrontOr(dataQ, nMsg) <= FrontOr(dataQ', nMsg')
         /\ \A m \in Int : Before(m, dataQ, nMsg) => Before(m, dataQ', nMsg')
<1>1. TypeOK /\ TypeOK'
  BY TypesKept DEF Control
<1>2. PICK x, y : x = FrontOr(dataQ, nMsg) /\ y = FrontOr(dataQ', nMsg')
  OBVIOUS
<1>3. /\ x \in Nat /\ dataQ \in Seq(Nat) /\ nMsg \in Nat /\ floor \in Nat
      /\ dataQ' \in Seq(Nat) /\ nMsg' \in Nat /\ floor' \in Nat
  BY <1>1, <1>2, FrontType DEF TypeOK, StreamTypes
<1>4. y \in Nat
  BY <1>2, <1>3, HeadTailProperties DEF FrontOr
<1>5. /\ Rising(dataQ', nMsg') /\ x <= y
      /\ \A m \in Int : Before(m, dataQ, nMsg) => Before(m, dataQ', nMsg')
  BY <1>2, <1>3, QueueMoves, MovedKeeps DEF StreamRight
<1>6. floor <= x /\ (floor' = floor \/ floor' = y)
  BY <1>2, QueueMoves DEF StreamRight
<1>7. floor' <= y /\ floor <= floor'
  BY <1>3, <1>4, <1>5, <1>6
<1>8. FrontOr(dataQ, nMsg)' = y
  BY <1>2 DEF FrontOr
<1>9. Rising(dataQ, nMsg)'
  BY <1>5 DEF Rising
<1>. QED BY <1>2, <1>5, <1>7, <1>8, <1>9 DEF StreamRight

(***************************************************************************)
(* The order of the answers.                                               *)
(***************************************************************************)

LEMMA RequestThreadSteps ==
  ASSUME [Next]_vars
  PROVE  StartReceiver \/ SignalReceiver \/ Ends \/ Arrives \/ RemoveRequest \/ UNCHANGED requests
BY RequestFrame
   DEF Next, RunSteps, StopSteps, Environment, StartRequests, StopRequests, RequestsEnd,
       RequestArrives, TakeRequest

\* The trigger is changed when a request is taken, and only then.
LEMMA TriggerSteps ==
  ASSUME [Next]_vars
  PROVE  TakeRequest \/ (trig' = trig /\ (cpc' \in {"offer", "busy"} => cpc \in {"offer", "busy"}))
<1>1. CASE StartMatchers \/ StartRequests \/ Subscribe \/ GetNext \/ Offer \/ StopCommand \/ WorkersDone
  BY <1>1 DEF StartMatchers, StartRequests, Subscribe, GetNext, Offer, StopCommand, WorkersDone
<1>2. CASE StopSteps
  BY <1>2 DEF StopSteps, StopRequests, JoinRequests, Unsubscribe, FlushQueues, DestroyMatcher,
              JoinMatcher
<1>3. CASE ~(StartMatchers \/ RunSteps \/ StopCommand \/ StopSteps)
  BY <1>3, CallerFrame DEF Next, Environment, caller
<1>. QED BY <1>1, <1>2, <1>3 DEF RunSteps

LEMMA TriggersPastKept ==
  ASSUME TypeOK, TriggersPast, [Next]_vars
  PROVE  TriggersPast'
<1>1. /\ RequestTypes /\ InOrder(reqQ, lastReq) /\ trig \in Request \cup {NoRequest}
      /\ Past(trig, reqQ, lastReq)
  BY DEF TypeOK, CallerTypes, TriggersPast, NoTrigger
<1>2. /\ InOrder(reqQ', lastReq')
      /\ \A r \in Request \cup {NoRequest} : Past(r, reqQ, lastReq) => Past(r, reqQ', lastReq')
  BY <1>1, RequestThreadSteps, OrderStays
<1>3. \A g \in Answers : /\ AsRequest(g) \in Request /\ Past(AsRequest(g), reqQ, lastReq)
                         /\ Past(AsRequest(g), reqQ', lastReq')
  BY <1>2, AnswerTypes DEF TriggersPast
<1>4. CASE TakeRequest
  <2>1. /\ trig' = NextRequest /\ RemoveRequest /\ UNCHANGED <<served, discarded>>
    BY <1>4 DEF TakeRequest
  <2>2. Past(NextRequest, reqQ', lastReq')
    BY <1>1, <2>1, NextInOrder
  <2>3. NextRequest # NoRequest => \A g \in Answers : Newer(AsRequest(g), NextRequest)
    BY <1>1, <1>3, <2>1, NextInOrder
  <2>4. NextRequest # NoRequest => \A g \in Answers : g.seqID < NextRequest.seqID
    BY <2>3 DEF Newer, AsRequest
  <2>5. Answers' = Answers
    BY <2>1 DEF Answers
  <2>. QED BY <1>2, <1>3, <2>1, <2>2, <2>4, <2>5 DEF TriggersPast, NoTrigger, AsRequest
<1>5. CASE trig' = trig /\ UNCHANGED <<served, discarded>>
           /\ (cpc' \in {"offer", "busy"} => cpc \in {"offer", "busy"})
  <2>1. Answers' = Answers
    BY <1>5 DEF Answers
  <2>. QED BY <1>1, <1>2, <1>3, <1>5, <2>1 DEF TriggersPast, AsRequest
<1>6. CASE WorkersDone /\ trig # NoTrigger
  <2>1. PICK f \in Fragments :
          Answered(f) /\ Answers' = Answers \cup {f} /\ Longer(served', served, f)
    BY <1>6, NewAnswer
  <2>2. trig' = trig /\ cpc = "busy" /\ cpc' \in {"between", "request"} /\ UNCHANGED requests
    BY <1>6 DEF WorkersDone
  <2>3. \A g \in Answers : g.seqID < trig.seqID
    BY <1>6, <2>2 DEF TriggersPast
  <2>4. Past(AsRequest(f), reqQ', lastReq')
    <3>1. AsRequest(f).seqID = trig.seqID /\ AsRequest(f).timestamp = trig.timestamp
      BY <2>1 DEF Answered, AsRequest
    <3>2. Past(trig, reqQ', lastReq')
      BY <1>1, <1>2
    <3>. QED BY <3>1, <3>2 DEF Past, Newer
  <2>5. \A i, j \in 1..Len(served') : i < j => served'[i].seqID < served'[j].seqID
    <3>1. CASE served' = served
      BY <3>1 DEF TriggersPast
    <3>2. CASE Len(served') = Len(served) + 1 /\ served'[Len(served) + 1] = f
               /\ \A i \in 1..Len(served) : served'[i] = served[i]
      <4>. SUFFICES ASSUME NEW i \in 1..Len(served'), NEW j \in 1..Len(served'), i < j
                    PROVE  served'[i].seqID < served'[j].seqID
        OBVIOUS
      <4>1. Len(served) \in Nat /\ DOMAIN served = 1..Len(served)
        BY LenProperties DEF TypeOK, CallerTypes
      <4>2. i \in 1..Len(served) /\ (j \in 1..Len(served) \/ j = Len(served) + 1)
        BY <3>2, <4>1
      <4>3. CASE j \in 1..Len(served)
        BY <3>2, <4>2, <4>3 DEF TriggersPast
      <4>4. CASE j = Len(served) + 1
        <5>1. served[i] \in Answers
          BY <4>1, <4>2 DEF Answers, ToSet
        <5>. QED BY <2>1, <2>3, <3>2, <4>2, <4>4, <5>1 DEF Answered
      <4>. QED BY <4>2, <4>3, <4>4
    <3>. QED BY <2>1, <3>1, <3>2 DEF Longer
  <2>6. \A g \in Answers' : Past(AsRequest(g), reqQ', lastReq')
    BY <1>3, <2>1, <2>4
  <2>. QED BY <1>1, <1>2, <2>2, <2>5, <2>6 DEF TriggersPast, AsRequest
<1>. QED BY <1>4, <1>5, <1>6, TriggerSteps, AnswerSteps

(***************************************************************************)
(* The data of the answers.                                                *)
(***************************************************************************)

\* The fragment is emptied by getNext_() and grows by CopyMessage.
LEMMA FragmentSteps ==
  ASSUME Control, [Next]_vars
  PROVE  /\ frag' = frag \/ (GetNext /\ frag' = <<>>) \/ CopyMessage
         /\ cpc' = "busy" => cpc = "busy" \/ (Offer /\ frag = <<>>)
<1>1. CASE GetNext
  BY <1>1 DEF GetNext
<1>2. CASE TakeRequest \/ Offer
  BY <1>2 DEF TakeRequest, Offer, Control, MatcherPlace
<1>3. CASE StartMatchers \/ StartRequests \/ Subscribe \/ WorkersDone \/ StopCommand \/ StopSteps
  <2>1. frag' = frag
    BY <1>3, MatcherFrame DEF matcher
  <2>2. cpc' = "busy" => cpc = "busy"
    BY <1>3 DEF StartMatchers, StartRequests, Subscribe, WorkersDone, StopCommand, StopSteps,
                StopRequests, JoinRequests, Unsubscribe, FlushQueues, DestroyMatcher, JoinMatcher
  <2>. QED BY <2>1, <2>2
<1>4. CASE Functor
  <2>1. cpc' = cpc
    BY <1>4, CallerFrame DEF caller
  <2>2. frag' = frag \/ CopyMessage
    BY <1>4 DEF Functor, QueueEmpty, Cull, DataGone, LookAtFront, DataLate, SkipToWindow, CopyDone
  <2>. QED BY <2>1, <2>2
<1>5. CASE \/ Loop \/ WakeUp \/ Subscriber \/ RequestsEnd \/ RequestArrives \/ Unheard
           \/ UNCHANGED vars
  BY <1>5, CallerFrame, MatcherFrame DEF caller, matcher
<1>. QED BY <1>1, <1>2, <1>3, <1>4, <1>5 DEF Next, RunSteps, Environment

LEMMA CopyRoomKept ==
  ASSUME Control, RaceSeen, CopyRoom, [Next]_vars
  PROVE  CopyRoom'
<1> SUFFICES ASSUME mpc' = "copy", ~raced'
             PROVE  Len(frag') + Len(dataQ') > NumMessages
  BY DEF CopyRoom, NumMessages
<1>1. ~raced
  BY RacedStays
<1>2. mpc # "begin"
  BY BeginsAtFront DEF LookAtFront
<1>3. /\ dataQ \in Seq(Nat) /\ Len(dataQ) \in Nat /\ frag \in Seq(Int) /\ Len(frag) \in Nat
      /\ NumMessages \in Nat
  BY LenProperties, Constants DEF Control, TypeOK, StreamTypes, MatcherTypes
<1>4. CASE SkipToWindow
  <2>1. /\ mpc = "wait" /\ frag = <<>> /\ frag' = frag /\ Len(dataQ) >= MinQueueSize
        /\ dataQ' = Drop(dataQ, ToSkip)
    BY <1>4 DEF SkipToWindow, Control, FlagsMatch, MatcherPlace
  <2>2. ToSkip \in Nat /\ ToSkip + NumMessages < Len(dataQ)
    BY <2>1, SkipType, RoomToCopy
  <2>3. Len(dataQ') = Len(dataQ) - ToSkip
    BY <1>3, <2>1, <2>2, DropType
  <2>4. Len(frag') = 0
    BY <2>1, EmptySeq
  <2>. QED BY <1>3, <2>2, <2>3, <2>4
<1>5. CASE CopyMessage
  <2>1. Len(frag) < NumMessages /\ mpc = "copy"
    BY <1>5 DEF CopyMessage
  <2>2. Len(frag) + Len(dataQ) > NumMessages
    BY <1>1, <2>1 DEF CopyRoom
  <2>3. dataQ # <<>>
    BY <1>3, <2>1, <2>2, EmptySeq
  <2>4. dataQ' = Tail(dataQ) /\ frag' = Append(frag, FrontOr(dataQ, -1))
    BY <1>5, <2>3 DEF CopyMessage
  <2>5. Len(dataQ') = Len(dataQ) - 1 /\ Len(frag') = Len(frag) + 1
    BY <1>3, <2>3, <2>4, HeadTailProperties, AppendProperties
  <2>. QED BY <1>3, <2>2, <2>5
<1>6. CASE ~SkipToWindow /\ ~CopyMessage
  <2>1. /\ \/ Subscriber \/ RequestArrives \/ RequestsEnd \/ Unheard \/ StopCommand
           \/ DataLate \/ CopyDone \/ UNCHANGED vars
    BY <1>2, <1>6, WhileMatching
  <2>2. Len(dataQ') >= Len(dataQ) /\ UNCHANGED frag
    BY <1>1, <1>2, <2>1, QueueGrows
  <2>3. mpc = "copy"
    BY <2>1, MatcherFrame DEF matcher, DataLate, CopyDone, Return, vars
  <2>4. Len(frag) + Len(dataQ) > NumMessages
    BY <1>1, <2>3 DEF CopyRoom
  <2>5. Len(dataQ') \in Nat
    BY TypesKept, LenProperties DEF TypeOK, StreamTypes
  <2>. QED BY <1>3, <2>2, <2>4, <2>5
<1>. QED BY <1>4, <1>5, <1>6

\* What is copied is newer than what has been taken, and is not in the queue any more.
LEMMA CopyIsNew ==
  ASSUME Control, StreamRight, DataPast, CopyRoom, CopyMessage
  PROVE  \E x \in Int, n \in Nat :
           /\ n = Len(frag) /\ Len(frag') = n + 1 /\ frag'[n + 1] = x
           /\ \A i \in 1..n : frag'[i] = frag[i]
           /\ Before(x, dataQ', nMsg') /\ (~raced => TakenBefore(x))
<1>1. /\ dataQ \in Seq(Nat) /\ Len(dataQ) \in Nat /\ frag \in Seq(Int) /\ Len(frag) \in Nat
      /\ NumMessages \in Nat /\ nMsg \in Nat
  BY LenProperties, Constants DEF Control, TypeOK, StreamTypes, MatcherTypes
<1>2. PICK x, n : x = FrontOr(dataQ, -1) /\ n = Len(frag)
  OBVIOUS
<1>3. /\ frag' = Append(frag, x) /\ n < NumMessages /\ mpc = "copy" /\ nMsg' = nMsg
      /\ dataQ' = IF dataQ = <<>> THEN dataQ ELSE Tail(dataQ)
  BY <1>2 DEF CopyMessage, Others, subscriber
<1>4. x \in Int
  BY <1>1, <1>2, HeadTailProperties DEF FrontOr
<1>5. /\ n \in Nat /\ Len(frag') = n + 1 /\ frag'[n + 1] = x
      /\ \A i \in 1..n : frag'[i] = frag[i]
  BY <1>1, <1>2, <1>3, <1>4, AppendProperties
<1>6. CASE dataQ = <<>>
  <2>1. x = -1 /\ dataQ' = <<>> /\ Len(dataQ') = 0
    BY <1>2, <1>3, <1>6, EmptySeq DEF FrontOr
  <2>2. Before(x, dataQ', nMsg')
    BY <1>1, <1>3, <2>1 DEF Before
  <2>3. raced
    BY <1>1, <1>2, <1>3, <1>6, EmptySeq DEF CopyRoom
  <2>. QED BY <1>2, <1>4, <1>5, <2>2, <2>3
<1>7. CASE dataQ # <<>>
  <2>1. /\ x = dataQ[1] /\ 1 \in 1..Len(dataQ) /\ Len(dataQ') = Len(dataQ) - 1
        /\ \A i \in 1..Len(dataQ') : dataQ'[i] = dataQ[i + 1]
    BY <1>1, <1>2, <1>3, <1>7, HeadTailProperties, EmptySeq DEF FrontOr
  <2>2. \A i \in 1..Len(dataQ') : x < dataQ'[i]
    <3> SUFFICES ASSUME NEW i \in 1..Len(dataQ') PROVE x < dataQ'[i]
      OBVIOUS
    <3>1. i + 1 \in 1..Len(dataQ) /\ 1 < i + 1
      BY <1>1, <2>1
    <3>. QED BY <2>1, <3>1 DEF StreamRight, Rising
  <2>3. Before(x, dataQ', nMsg')
    BY <1>3, <2>1, <2>2 DEF StreamRight, Rising, Before
  <2>4. TakenBefore(x)
    BY <2>1 DEF DataPast, Before, TakenBefore
  <2>. QED BY <1>2, <1>4, <1>5, <2>3, <2>4
<1>. QED BY <1>6, <1>7

LEMMA DataPastKept ==
  ASSUME Control, StreamRight, DataPast, CopyRoom, [Next]_vars
  PROVE  DataPast'
<1>1. /\ \A m \in Int : Before(m, dataQ, nMsg) => Before(m, dataQ', nMsg')
      /\ raced => raced'
  BY StreamKept, RacedStays
<1>2. /\ \A g \in Answers : g.data # <<>> => Last(g.data) \in Int /\ Before(Last(g.data), dataQ', nMsg')
      /\ frag \in Seq(Int) /\ Len(frag) \in Nat /\ \A i \in 1..Len(frag) : frag[i] \in Int
  BY <1>1, AnswerTypes, LenProperties, ElementOfSeq DEF Control, TypeOK, DataPast, MatcherTypes
<1>3. cpc = "busy" => \A i \in 1..Len(frag) : Before(frag[i], dataQ', nMsg')
  BY <1>1, <1>2 DEF DataPast
<1>4. CASE UNCHANGED <<served, discarded>>
  <2>1. Answers' = Answers
    BY <1>4 DEF Answers
  <2>2. \A i, j \in 1..Len(served') :
          i < j /\ served'[j].whole /\ served'[i].data # <<>> /\ served'[j].data # <<>>
            => Last(served'[i].data) < Head(served'[j].data)
    BY <1>4 DEF DataPast
  <2>3. CASE cpc' # "busy"
    BY <1>2, <2>1, <2>2, <2>3 DEF DataPast, Before
  <2>4. CASE cpc' = "busy" /\ frag' = frag /\ (cpc = "busy" \/ frag = <<>>)
    <3>1. CASE frag = <<>>
      <4>1. Len(frag') = 0
        BY <2>4, <3>1, EmptySeq
      <4>. QED BY <1>2, <2>1, <2>2, <4>1 DEF DataPast, Before, TakenBefore
    <3>2. CASE cpc = "busy"
      <4>1. \A i \in 1..Len(frag') : Before(frag'[i], dataQ', nMsg')
        BY <1>3, <2>4, <3>2
      <4>2. ~raced' => \A i \in 1..Len(frag') : TakenBefore(frag'[i])
        BY <1>1, <2>4, <3>2 DEF DataPast
      <4>. QED BY <1>2, <2>1, <2>2, <4>1, <4>2 DEF DataPast, Before, TakenBefore
    <3>. QED BY <2>4, <3>1, <3>2
  <2>5. CASE CopyMessage /\ cpc' = "busy"
    <3>1. PICK x \in Int, n \in Nat :
           /\ n = Len(frag) /\ Len(frag') = n + 1 /\ frag'[n + 1] = x
           /\ \A i \in 1..n : frag'[i] = frag[i]
           /\ Before(x, dataQ', nMsg') /\ (~raced => TakenBefore(x))
      BY <2>5, CopyIsNew
    <3>2. cpc = "busy"
      BY <2>5 DEF CopyMessage, Control, FlagsMatch
    <3>3. \A i \in 1..Len(frag') : i \in 1..n \/ i = n + 1
      BY <3>1
    <3>4. \A i \in 1..Len(frag') : Before(frag'[i], dataQ', nMsg')
      BY <1>3, <3>1, <3>2, <3>3
    <3>5. ~raced' => \A i \in 1..Len(frag') : TakenBefore(frag'[i])
      BY <1>1, <3>1, <3>2, <3>3 DEF DataPast
    <3>. QED BY <1>2, <2>1, <2>2, <3>4, <3>5 DEF DataPast, Before, TakenBefore
  <2>6. ~(GetNext /\ cpc' = "busy")
    BY DEF GetNext
  <2>. QED BY <2>3, <2>4, <2>5, <2>6, FragmentSteps
<1>5. CASE WorkersDone /\ trig # NoTrigger
  <2>1. PICK f \in Fragments :
          Answered(f) /\ Answers' = Answers \cup {f} /\ Longer(served', served, f)
    BY <1>5, NewAnswer DEF Control
  <2>2. cpc = "busy" /\ cpc' # "busy" /\ f.data = frag /\ (f.whole => ~raced)
    BY <1>5, <2>1 DEF WorkersDone, Answered
  <2>3. frag # <<>> => /\ Len(frag) \in 1..Len(frag) /\ 1 \in 1..Len(frag)
                       /\ Last(frag) = frag[Len(frag)] /\ Head(frag) = frag[1]
    BY <1>2, HeadTailProperties, EmptySeq DEF Last
  <2>4. f.data # <<>> => Before(Last(f.data), dataQ', nMsg')
    BY <1>3, <2>2, <2>3
  <2>5. \A g \in Answers' : g.data # <<>> => Before(Last(g.data), dataQ', nMsg')
    BY <1>2, <2>1, <2>4
  <2>6. f.whole /\ f.data # <<>> => TakenBefore(Head(f.data))
    BY <2>2, <2>3 DEF DataPast
  <2>7. \A i, j \in 1..Len(served') :
          i < j /\ served'[j].whole /\ served'[i].data # <<>> /\ served'[j].data # <<>>
            => Last(served'[i].data) < Head(served'[j].data)
    <3>1. CASE served' = served
      BY <3>1 DEF DataPast
    <3>2. CASE Len(served') = Len(served) + 1 /\ served'[Len(served) + 1] = f
               /\ \A i \in 1..Len(served) : served'[i] = served[i]
      <4>. SUFFICES ASSUME NEW i \in 1..Len(served'), NEW j \in 1..Len(served'), i < j,
                           served'[j].whole, served'[i].data # <<>>, served'[j].data # <<>>
                    PROVE  Last(served'[i].data) < Head(served'[j].data)
        OBVIOUS
      <4>1. Len(served) \in Nat /\ DOMAIN served = 1..Len(served)
        BY LenProperties DEF Control, TypeOK, CallerTypes
      <4>2. i \in 1..Len(served) /\ (j \in 1..Len(served) \/ j = Len(served) + 1)
        BY <3>2, <4>1
      <4>3. CASE j \in 1..Len(served)
        BY <3>2, <4>2, <4>3 DEF DataPast
      <4>4. CASE j = Len(served) + 1
        <5>1. served[i] \in Answers
          BY <4>1, <4>2 DEF Answers, ToSet
        <5>. QED BY <2>6, <3>2, <4>2, <4>4, <5>1 DEF TakenBefore
      <4>. QED BY <4>2, <4>3, <4>4
    <3>. QED BY <2>1, <3>1, <3>2 DEF Longer
  <2>. QED BY <2>2, <2>5, <2>7 DEF DataPast, Before
<1>. QED BY <1>4, <1>5, AnswerSteps DEF Control

(***************************************************************************)
(* What is missing, and why.                                               *)
(***************************************************************************)

LEMMA TimeOrder ==
  ASSUME NEW a \in Nat, NEW b \in Nat, a <= b
  PROVE  TimeOf(a) \in Nat /\ TimeOf(b) \in Nat /\ TimeOf(a) <= TimeOf(b)
<1>1. PICK k : k = FramesPerMsg * TickDist
  OBVIOUS
<1>2. k \in Nat /\ FramesPerMsg \in Nat /\ TickDist \in Nat
  BY <1>1, Constants
<1>3. TimeOf(a) = a * k /\ TimeOf(b) = b * k
  BY <1>1, <1>2 DEF TimeOf
<1>4. a * k \in Nat /\ b * k \in Nat /\ a * k <= b * k
  BY <1>2, MulMono
<1>. QED BY <1>3, <1>4

\* The front of the queue stays, or is the floor.
LEMMA FrontSteps ==
  ASSUME Control, [Next]_vars, ~SkipToWindow, ~CopyMessage
  PROVE  \/ FrontOr(dataQ', nMsg') = FrontOr(dataQ, nMsg)
         \/ floor' = FrontOr(dataQ', nMsg')
<1>1. /\ dataQ \in Seq(Nat) /\ nMsg \in Nat /\ Len(dataQ) \in Nat
      /\ QueueCap \in Nat \ {0}
  BY LenProperties, FelixAssumption DEF Control, TypeOK, StreamTypes
<1>2. CASE UNCHANGED <<stream, subscriber>>
  BY <1>2 DEF stream, subscriber
<1>3. CASE Subscribe \/ Unsubscribe \/ Offer \/ CheckBusy
  BY <1>3 DEF Subscribe, Unsubscribe, Offer, CheckBusy, stream, subscriber
<1>4. CASE FlushQueues \/ Unheard
  BY <1>4 DEF FlushQueues, Unheard, subscriber, FrontOr
<1>5. CASE PopHalf
  BY <1>5 DEF PopHalf
<1>6. CASE Cull
  <2>1. nMsg' = nMsg
    BY <1>6 DEF Cull, Return, Others, subscriber
  <2>2. dataQ' = dataQ \/ floor' = FrontOr(dataQ', nMsg)
    BY <1>6 DEF Cull
  <2>. QED BY <2>1, <2>2
<1>7. CASE Receive
  <2>1. CASE dataQ' = Append(dataQ, nMsg)
    <3>1. PICK a : a = Append(dataQ, nMsg)
      OBVIOUS
    <3>2. /\ a \in Seq(Nat) /\ Len(a) = Len(dataQ) + 1 /\ a[Len(dataQ) + 1] = nMsg
          /\ \A i \in 1..Len(dataQ) : a[i] = dataQ[i]
      BY <1>1, <3>1, AppendProperties
    <3>3. a # <<>> /\ Head(a) = a[1]
      BY <1>1, <3>2, EmptySeq, HeadTailProperties
    <3>4. CASE dataQ = <<>>
      <4>1. Len(dataQ) = 0
        BY <3>4, EmptySeq
      <4>2. a[1] = nMsg
        BY <3>2, <4>1
      <4>. QED BY <2>1, <3>1, <3>3, <3>4, <4>2 DEF FrontOr
    <3>5. CASE dataQ # <<>>
      <4>1. 1 \in 1..Len(dataQ) /\ Head(dataQ) = dataQ[1]
        BY <1>1, <3>5, EmptySeq, HeadTailProperties
      <4>. QED BY <2>1, <3>1, <3>2, <3>3, <3>5, <4>1 DEF FrontOr
    <3>. QED BY <3>4, <3>5
  <2>2. CASE dataQ' = dataQ /\ ~HasRoom
    <3>1. dataQ # <<>>
      BY <1>1, <2>2, EmptySeq DEF HasRoom
    <3>. QED BY <2>2, <3>1 DEF FrontOr
  <2>. QED BY <1>7, <2>1, <2>2 DEF Receive
<1>. QED BY <1>2, <1>3, <1>4, <1>5, <1>6, <1>7, StreamFrame
         DEF Next, RunSteps, StopSteps, Subscriber, Functor, Environment

\* Answers are not taken back.
LEMMA AnswersStay ==
  ASSUME Control, [Next]_vars
  PROVE  /\ Answers \subseteq Answers'
         /\ cpc = "busy" => \/ cpc' = "busy" /\ Answers' = Answers
                            \/ WorkersDone
<1>1. CASE UNCHANGED <<served, discarded>>
  <2>1. Answers' = Answers
    BY <1>1 DEF Answers
  <2>2. cpc = "busy" => cpc' = "busy" \/ WorkersDone
    <3>1. CASE \/ StartMatchers \/ StartRequests \/ Subscribe \/ GetNext \/ TakeRequest \/ Offer
               \/ StopCommand \/ StopSteps
      BY <3>1 DEF StartMatchers, StartRequests, Subscribe, GetNext, TakeRequest, Offer, StopCommand,
              StopSteps, StopRequests, JoinRequests, Unsubscribe, FlushQueues, DestroyMatcher,
              JoinMatcher
    <3>2. CASE ~(StartMatchers \/ RunSteps \/ StopCommand \/ StopSteps)
      BY <3>2, CallerFrame DEF Next, Environment, caller
    <3>. QED BY <3>1, <3>2 DEF RunSteps
  <2>. QED BY <2>1, <2>2
<1>2. CASE WorkersDone /\ trig # NoTrigger
  BY <1>2, NewAnswer DEF Control
<1>. QED BY <1>1, <1>2, AnswerSteps DEF Control

\* The message that follows a complete fragment is at the front.
LEMMA NextAtFront ==
  ASSUME Control, Cutting, CopyDone, whole, ~raced
  PROVE  frag # <<>> /\ FrontOr(dataQ, nMsg) = Last(frag) + 1
<1>1. mpc = "copy" /\ Len(frag) = NumMessages
  BY DEF CopyDone
<1>2. PICK p \in Nat :
        /\ Piece(p) /\ Len(frag) + Len(dataQ) > NumMessages
        /\ \A i \in 1..NumMessages + 1 - Len(frag) : dataQ[i] = p + Len(frag) + i - 1
  BY <1>1 DEF Cutting
<1>3. /\ dataQ \in Seq(Nat) /\ Len(dataQ) \in Nat /\ frag \in Seq(Int) /\ Len(frag) \in Nat
  BY LenProperties DEF Control, TypeOK, StreamTypes, MatcherTypes
<1>4. NumMessages \in Nat /\ NumMessages >= 2
  BY Constants, DivBounds DEF NumMessages
<1>5. 1 \in 1..NumMessages + 1 - Len(frag) /\ Len(dataQ) > 0
  BY <1>1, <1>2, <1>3, <1>4
<1>6. dataQ # <<>> /\ dataQ[1] = p + NumMessages
  BY <1>1, <1>2, <1>3, <1>4, <1>5, EmptySeq
<1>7. frag # <<>> /\ frag[NumMessages] = p + NumMessages - 1
  BY <1>1, <1>2, <1>4, EmptySeq DEF Piece
<1>8. FrontOr(dataQ, nMsg) = dataQ[1] /\ Last(frag) = frag[NumMessages]
  BY <1>1, <1>3, <1>6, HeadTailProperties DEF FrontOr, Last
<1>. QED BY <1>4, <1>6, <1>7, <1>8

LEMMA WholeSteps ==
  ASSUME [Next]_vars, ~SkipToWindow
  PROVE  whole' = whole
<1>1. CASE GetNext \/ TakeRequest \/ Offer
  BY <1>1 DEF GetNext, TakeRequest, Offer
<1>2. CASE Functor
  BY <1>2 DEF Functor, QueueEmpty, Cull, DataGone, LookAtFront, DataLate, CopyMessage, CopyDone
<1>. QED BY <1>1, <1>2, MatcherFrame DEF Next, RunSteps, Environment, matcher

LEMMA FrontExplainedKept ==
  ASSUME Control, StreamRight, Cutting, FrontExplained, [Next]_vars
  PROVE  FrontExplained'
<1>1. PICK x, y : x = FrontOr(dataQ, nMsg) /\ y = FrontOr(dataQ', nMsg')
  OBVIOUS
<1> SUFFICES ASSUME whole', ~raced', mpc' # "copy"
             PROVE  y <= floor' \/ TakenTo(y)'
  BY <1>1 DEF FrontExplained, FrontOr, TakenTo
<1>2. ~raced /\ ~SkipToWindow /\ ~CopyMessage /\ whole
  BY RacedStays, WholeSteps DEF SkipToWindow, CopyMessage
<1>3. x \in Nat /\ floor \in Nat /\ floor' \in Nat /\ floor <= floor'
  BY <1>1, FrontType, StreamKept, TypesKept DEF Control, TypeOK, StreamTypes
<1>4. CASE CopyDone
  <2>1. frag # <<>> /\ x = Last(frag) + 1
    BY <1>1, <1>2, <1>4, NextAtFront
  <2>2. UNCHANGED <<caller, frag, dataQ, nMsg>> /\ cpc = "busy"
    BY <1>4 DEF CopyDone, Return, Others, subscriber, stream, Control, FlagsMatch
  <2>3. Last(frag) + 1 <= Last(frag) + 1
    BY <1>3, <2>1
  <2>. QED BY <1>1, <2>1, <2>2, <2>3 DEF TakenTo, caller
<1>5. CASE mpc = "copy" /\ ~CopyDone
  <2>1. mpc' = mpc
    BY <1>2, <1>5, WhileMatching, MatcherFrame DEF matcher, DataLate, vars
  <2>. QED BY <1>5, <2>1
<1>6. CASE mpc # "copy"
  <2>1. x <= floor \/ TakenTo(x)
    BY <1>1, <1>2, <1>6 DEF FrontExplained
  <2>2. CASE floor' = y
    BY <1>3, <2>2
  <2>3. CASE x = y /\ x <= floor
    BY <1>3, <2>3
  <2>4. CASE x = y /\ \E g \in Answers : g.data # <<>> /\ x <= Last(g.data) + 1
    <3>1. \E g \in Answers' : g.data # <<>> /\ x <= Last(g.data) + 1
      BY <2>4, AnswersStay
    <3>. QED BY <2>4, <3>1 DEF TakenTo
  <2>5. CASE x = y /\ cpc = "busy" /\ frag # <<>> /\ x <= Last(frag) + 1
    <3>1. CASE cpc' = "busy"
      <4>1. frag' = frag
        BY <1>2, <2>5, FragmentSteps DEF GetNext
      <4>. QED BY <2>5, <3>1, <4>1 DEF TakenTo
    <3>2. CASE WorkersDone
      <4>1. trig # NoTrigger
        BY <2>5 DEF Control, MatcherPlace
      <4>2. PICK f \in Fragments : Answered(f) /\ Answers' = Answers \cup {f}
        BY <3>2, <4>1, NewAnswer DEF Control
      <4>3. f \in Answers' /\ f.data # <<>> /\ y <= Last(f.data) + 1
        BY <2>5, <4>2 DEF Answered
      <4>. QED BY <4>3 DEF TakenTo
    <3>. QED BY <2>5, <3>1, <3>2, AnswersStay
  <2>6. x = y \/ floor' = y
    BY <1>1, <1>2, FrontSteps
  <2>. QED BY <2>1, <2>2, <2>3, <2>4, <2>5, <2>6 DEF TakenTo
<1>. QED BY <1>4, <1>5, <1>6

\* Data are never gone because of less than they were.
LEMMA GoneForMore ==
  ASSUME NEW A, NEW B, A \subseteq B, NEW t \in Int, NEW fl \in Nat, NEW fm \in Nat, fl <= fm,
         NEW n, GoneFor(A, t, fl, n)
  PROVE  GoneFor(B, t, fm, n)
<1>1. CASE t < TimeOf(fl)
  <2>1. TimeOf(fl) \in Nat /\ TimeOf(fm) \in Nat /\ TimeOf(fl) <= TimeOf(fm)
    BY TimeOrder
  <2>. QED BY <1>1, <2>1 DEF GoneFor
<1>2. CASE \E g \in A : g.data # <<>> /\ g.seqID < n /\ t < EndOf(Last(g.data))
  BY <1>2 DEF GoneFor
<1>. QED BY <1>1, <1>2 DEF GoneFor

LEMMA ExcuseSteps ==
  ASSUME Control, [Next]_vars, excuse' = "old"
  PROVE  DataGone \/ (excuse = "old" /\ ~Offer /\ ~TakeRequest)
<1>1. ~TakeRequest /\ ~Offer
  BY DEF TakeRequest, Offer
<1>2. CASE GetNext
  BY <1>1, <1>2 DEF GetNext
<1>3. CASE Functor
  BY <1>1, <1>3 DEF Functor, QueueEmpty, Cull, LookAtFront, DataLate, SkipToWindow, CopyMessage,
              CopyDone, Return
<1>. QED BY <1>1, <1>2, <1>3, MatcherFrame DEF Next, RunSteps, Environment, matcher

\* The data that DataGone misses were taken before or thrown away.
LEMMA GoneExplained ==
  ASSUME Control, StreamRight, TriggersPast, FrontExplained, DataGone, whole, ~raced
  PROVE  GoneFor(Answers, WindowStart(trig), floor, trig.seqID)
<1>1. /\ wpc[Link] = "run" /\ mpc = "begin" /\ dataQ # <<>> /\ trig # NoTrigger
      /\ TimeOf(Head(dataQ)) > WindowStart(trig)
  BY DEF DataGone, TooOld
<1>2. cpc = "busy" /\ frag = <<>> /\ trig \in Request
  BY <1>1 DEF Control, TypeOK, CallerTypes, FlagsMatch, MatcherPlace
<1>3. PICK x, w : x = Head(dataQ) /\ w = WindowStart(trig)
  OBVIOUS
<1>4. /\ x = FrontOr(dataQ, nMsg) /\ x \in Nat /\ floor \in Nat /\ w \in Nat /\ TimeOf(x) > w
  BY <1>1, <1>2, <1>3, FrontType, WindowType DEF FrontOr, Control
<1>5. CASE x <= floor
  <2>1. w < TimeOf(floor)
    BY <1>4, <1>5, TimeOrder
  <2>. QED BY <1>3, <2>1 DEF GoneFor
<1>6. CASE \E g \in Answers : g.data # <<>> /\ x <= Last(g.data) + 1
  <2>1. PICK g \in Answers : g.data # <<>> /\ x <= Last(g.data) + 1
    BY <1>6
  <2>2. Last(g.data) \in Int
    BY <2>1, AnswerTypes DEF Control
  <2>3. Last(g.data) + 1 \in Nat
    BY <1>4, <2>1, <2>2
  <2>4. w < EndOf(Last(g.data))
    BY <1>4, <2>1, <2>3, TimeOrder DEF EndOf
  <2>5. g.seqID < trig.seqID
    BY <1>1, <1>2 DEF TriggersPast
  <2>. QED BY <1>3, <2>1, <2>4, <2>5 DEF GoneFor
<1>. QED BY <1>1, <1>2, <1>4, <1>5, <1>6 DEF FrontExplained, TakenTo

LEMMA OldExplainedKept ==
  ASSUME Control, StreamRight, TriggersPast, FrontExplained, OldExplained, [Next]_vars
  PROVE  OldExplained'
<1>1. Answers \subseteq Answers' /\ floor \in Nat /\ floor' \in Nat /\ floor <= floor'
  BY AnswersStay, StreamKept, TypesKept DEF Control, TypeOK, StreamTypes
<1>2. ~pause'[Link] => excuse' # "old"
  <2> SUFFICES ASSUME ~pause'[Link], excuse' = "old" PROVE FALSE
    OBVIOUS
  <2>1. ~DataGone
    BY Constants DEF DataGone, Return, FinishWork, Control, TypeOK, RTTypes
  <2>2. excuse = "old" /\ ~Offer
    BY <2>1, ExcuseSteps
  <2>3. pause[Link]
    BY <2>2 DEF OldExplained
  <2>. QED BY <2>2, <2>3, PauseSteps
<1>3. ASSUME cpc' = "busy", trig' # NoTrigger, excuse' = "old", whole', ~raced'
      PROVE  GoneFor(Answers', WindowStart(trig'), floor', trig'.seqID)
  <2>1. ~raced
    BY <1>3, RacedStays
  <2>2. CASE DataGone
    <3>1. UNCHANGED <<trig, served, discarded, whole, floor>>
      BY <2>2 DEF DataGone, Return, Others, caller, stream
    <3>2. GoneFor(Answers, WindowStart(trig), floor, trig.seqID)
      BY <1>3, <2>1, <2>2, <3>1, GoneExplained
    <3>3. Answers' = Answers
      BY <3>1 DEF Answers
    <3>. QED BY <3>1, <3>2, <3>3
  <2>3. CASE excuse = "old" /\ ~Offer /\ ~TakeRequest
    <3>1. cpc = "busy" /\ trig' = trig
      BY <1>3, <2>3, FragmentSteps, TriggerSteps
    <3>2. ~SkipToWindow
      BY <2>3 DEF SkipToWindow, OldExplained, Control, FlagsMatch
    <3>3. whole
      BY <1>3, <3>2, WholeSteps
    <3>4. GoneFor(Answers, WindowStart(trig), floor, trig.seqID)
      BY <1>3, <2>1, <2>3, <3>1, <3>3 DEF OldExplained
    <3>5. trig \in Request /\ WindowStart(trig) \in Int
      BY <1>3, <3>1, WindowType DEF Control, TypeOK, CallerTypes
    <3>. QED BY <1>1, <3>1, <3>4, <3>5, GoneForMore
  <2>. QED BY <1>3, <2>2, <2>3, ExcuseSteps
<1>4. ASSUME NEW f \in Answers', f.whole, f.excuse = "old"
      PROVE  GoneFor(Answers', WindowStart(f), f.floor, f.seqID)
  <2>1. CASE f \in Answers
    <3>1. GoneFor(Answers, WindowStart(f), f.floor, f.seqID)
      BY <1>4, <2>1 DEF OldExplained
    <3>2. f.floor \in Nat /\ f.floor <= f.floor
      BY <2>1, AnswerTypes DEF Control
    <3>3. WindowStart(f) \in Int
      <4>1. f.timestamp \in Nat
        BY <2>1, AnswerTypes, RequestAssumption DEF Control, Fragments
      <4>. QED BY <4>1, Constants DEF WindowStart
    <3>. QED BY <1>1, <3>1, <3>2, <3>3, GoneForMore
  <2>2. CASE f \notin Answers
    <3>1. WorkersDone /\ trig # NoTrigger
      <4>1. CASE UNCHANGED <<served, discarded>>
        BY <2>2, <4>1 DEF Answers
      <4>. QED BY <4>1, AnswerSteps DEF Control
    <3>2. Answered(f)
      BY <2>2, <3>1, NewAnswer DEF Control
    <3>3. cpc = "busy" /\ whole /\ ~raced /\ excuse = "old"
      BY <1>4, <3>1, <3>2 DEF Answered, WorkersDone
    <3>4. GoneFor(Answers, WindowStart(trig), floor, trig.seqID)
      BY <3>1, <3>3 DEF OldExplained
    <3>5. WindowStart(f) = WindowStart(trig) /\ f.floor = floor /\ f.seqID = trig.seqID
      BY <3>2 DEF Answered, WindowStart
    <3>6. WindowStart(trig) \in Int
      BY <3>1, WindowType DEF Control, TypeOK, CallerTypes
    <3>7. floor <= floor
      BY <1>1
    <3>. QED BY <1>1, <3>4, <3>5, <3>6, <3>7, GoneForMore
  <2>. QED BY <2>1, <2>2
<1>. QED BY <1>2, <1>3, <1>4 DEF OldExplained, GoneFor, WindowStart, TimeOf, EndOf

LEMMA SharedInitially == Init => SharedInv
<1> SUFFICES ASSUME Init PROVE SharedInv
  OBVIOUS
<1>1. IInv
  BY IInvInit
<1>2. served = <<>> /\ discarded = <<>> /\ Len(served) = 0 /\ dataQ = <<>> /\ Len(dataQ) = 0
      /\ nMsg = 0 /\ floor = 0 /\ mpc = "begin" /\ cpc = "stopped" /\ excuse = "none"
      /\ trig = NoTrigger /\ RequestInit
  BY EmptySeq DEF Init
<1>3. Answers = {}
  BY <1>2 DEF Answers, ToSet
<1>4. InOrder(reqQ, lastReq) /\ Past(trig, reqQ, lastReq)
  BY <1>2, OrderInitially DEF InOrder, NoTrigger
<1>5. TriggersPast
  BY <1>2, <1>3, <1>4 DEF TriggersPast
<1>6. StreamRight /\ DataPast /\ CopyRoom
  BY <1>2, <1>3 DEF StreamRight, Rising, FrontOr, DataPast, CopyRoom
<1>7. FrontExplained /\ OldExplained
  BY <1>2, <1>3 DEF FrontExplained, FrontOr, OldExplained
<1>. QED BY <1>1, <1>5, <1>6, <1>7 DEF SharedInv

LEMMA SharedImplies == SharedInv => SharedInOrder
<1> SUFFICES ASSUME SharedInv PROVE SharedInOrder
  OBVIOUS
<1>1. Answers = ToSet(Outcomes) /\ DOMAIN served = 1..Len(served)
  BY AnswerTypes, LenProperties DEF SharedInv, IInv, Control, TypeOK, CallerTypes
<1>2. OldOnlyIfTaken
  BY <1>1 DEF SharedInv, OldExplained, GoneFor, OldOnlyIfTaken
<1>3. ServedInOrder
  BY <1>1 DEF SharedInv, TriggersPast, DataPast, ServedInOrder
<1>. QED BY <1>2, <1>3 DEF SharedInOrder

(* Whatever the sizes and whatever the order of the steps: a message goes to    *)
(* the first trigger that wants it and to no other, the triggers are answered   *)
(* in their order, and data that a matcher misses were thrown away untouched or *)
(* taken for a trigger before, as long as no pop came between.                  *)
THEOREM SharedCorrect == Spec => []SharedInOrder
<1>1. SharedInv /\ [Next]_vars => SharedInv'
  <2> SUFFICES ASSUME SharedInv, [Next]_vars PROVE SharedInv'
    OBVIOUS
  <2>1. /\ IInv /\ Control /\ TypeOK /\ RaceSeen /\ Cutting
        /\ TriggersPast /\ StreamRight /\ DataPast /\ CopyRoom /\ FrontExplained /\ OldExplained
    BY DEF SharedInv, IInv, Control
  <2>2. IInv'
    BY <2>1, ControlKept, RaceKept, FrontKept, CuttingKept, CutDoneKept, DeliveredKept DEF IInv
  <2>. QED BY <2>1, <2>2, TriggersPastKept, StreamKept, DataPastKept, CopyRoomKept,
              FrontExplainedKept, OldExplainedKept DEF SharedInv
<1>. QED BY <1>1, SharedInitially, SharedImplies, PTL DEF Spec

(***************************************************************************)
(* The hit finder.                                                         *)
(***************************************************************************)

\* the estimates of a wire
Trackers == {"median", "q25", "q75"}
EstimateType == [m : Int, acc : -AccLimit..AccLimit]

(* The 25th percentile gets ahead of the median by at most one: it moves up   *)
(* only below it, and when the median moves down it has been told to as well. *)
LowerBehind(e, c) ==
  /\ e.m <= c.m + 1
  /\ e.m = c.m => e.acc - c.acc <= AccLimit
  /\ e.m = c.m + 1 => e.acc <= c.acc
UpperAhead(e, c) ==
  /\ e.m >= c.m - 1
  /\ e.m = c.m => c.acc - e.acc <= AccLimit
  /\ e.m = c.m - 1 => c.acc <= e.acc

Ordered(c) ==
  /\ Trackers \subseteq DOMAIN c
  /\ c.median \in EstimateType /\ c.q25 \in EstimateType /\ c.q75 \in EstimateType
  /\ LowerBehind(c.q25, c.median) /\ UpperAhead(c.q75, c.median) /\ c.q25.m <= c.q75.m

SameTrackers(c, d) == c.median = d.median /\ c.q25 = d.q25 /\ c.q75 = d.q75

\* An update moves an estimate by one at most and keeps its accumulator within the limit.
LEMMA UpdateBounds ==
  ASSUME AccLimit \in Nat, NEW e \in EstimateType, NEW s \in Int
  PROVE  Update(e, s) \in EstimateType
BY DEF Update, Estimate, EstimateType

\* The update of a register is that of the plain version in a lane, and nothing where masked out.
LEMMA MaskedUpdates ==
  ASSUME AccLimit \in Nat, NEW e \in EstimateType, NEW s \in Int
  PROVE  /\ Masked(e, s, TRUE) = Update(e, s)
         /\ Masked(e, s, FALSE) = e
BY DEF Masked, Update, Estimate, EstimateType

\* Following a wire writes its three trackers.
LEMMA FollowedFields ==
  ASSUME NEW c, Trackers \subseteq DOMAIN c, NEW s
  PROVE  /\ DOMAIN Followed(c, s) = DOMAIN c
         /\ Followed(c, s).q25 = IF s < c.median.m THEN Update(c.q25, s) ELSE c.q25
         /\ Followed(c, s).q75 = IF s > c.median.m THEN Update(c.q75, s) ELSE c.q75
         /\ Followed(c, s).median = Update(c.median, s)
BY DEF Followed, Trackers

\* A sample leaves the trackers of a wire in order.
LEMMA StaysOrdered ==
  ASSUME AccLimit \in Nat, NEW c, Ordered(c), NEW s \in Int
  PROVE  Ordered(Followed(c, s))
<1> DEFINE f == Followed(c, s)
<1>1. /\ DOMAIN f = DOMAIN c
      /\ f.q25 = IF s < c.median.m THEN Update(c.q25, s) ELSE c.q25
      /\ f.q75 = IF s > c.median.m THEN Update(c.q75, s) ELSE c.q75
      /\ f.median = Update(c.median, s)
  BY FollowedFields DEF Ordered
<1>2. f.q25 \in EstimateType /\ f.q75 \in EstimateType /\ f.median \in EstimateType
  BY <1>1, UpdateBounds DEF Ordered
<1> HIDE DEF f
<1>3. LowerBehind(f.q25, f.median)
  BY <1>1 DEF Ordered, LowerBehind, Update, Estimate, EstimateType
<1>4. UpperAhead(f.q75, f.median)
  BY <1>1 DEF Ordered, UpperAhead, Update, Estimate, EstimateType
<1>5. f.q25.m <= f.q75.m
  BY <1>1 DEF Ordered, LowerBehind, UpperAhead, Update, Estimate, EstimateType
<1>6. QED
  BY <1>1, <1>2, <1>3, <1>4, <1>5 DEF Ordered, f

\* Only the trackers matter to their order.
LEMMA OrderedFields ==
  ASSUME NEW c, NEW d, Ordered(c), Trackers \subseteq DOMAIN d, SameTrackers(c, d)
  PROVE  Ordered(d)
BY DEF Ordered, SameTrackers

\* What the search for hits writes is nothing of the trackers.
LEMMA HitFields ==
  ASSUME NEW c, Trackers \subseteq DOMAIN c, NEW x, NEW y
  PROVE  /\ LET d == [c EXCEPT !.charge = x, !.tover = y] IN
              Trackers \subseteq DOMAIN d /\ SameTrackers(c, d)
         /\ \A k : LET d == [c EXCEPT !.over = x, !.prev[k] = y] IN
              Trackers \subseteq DOMAIN d /\ SameTrackers(c, d)
BY DEF Trackers, SameTrackers

\* The rest of a step of the plain version writes nothing of them.
LEMMA PlainFields ==
  ASSUME NEW c, Trackers \subseteq DOMAIN c, NEW s
  PROVE  /\ Trackers \subseteq DOMAIN PlainStep(c, s)
         /\ SameTrackers(Followed(c, s), PlainStep(c, s))
<1> DEFINE f == Followed(c, s)
           h == PlainHit(f, PlainOver(f))
<1>1. Trackers \subseteq DOMAIN f
  BY FollowedFields
<1> HIDE DEF f
<1>2. Trackers \subseteq DOMAIN h /\ SameTrackers(f, h)
  BY <1>1 DEF PlainHit, Trackers, SameTrackers
<1> HIDE DEF h
<1>3. LET d == [h EXCEPT !.prev[Slot] = Clean(f, s)] IN
        Trackers \subseteq DOMAIN d /\ SameTrackers(h, d)
  BY <1>2 DEF Trackers, SameTrackers
<1>4. PlainStep(c, s) = [h EXCEPT !.prev[Slot] = Clean(f, s)]
  BY DEF PlainStep, f, h
<1>5. QED
  BY <1>2, <1>3, <1>4 DEF SameTrackers, f

\* In every lane a register follows its wire as the plain version does.
LEMMA FollowedAllFields ==
  ASSUME AccLimit \in Nat, NEW l \in Lane, Ordered(avx[l]), NEW r \in [Lane -> Int]
  PROVE  /\ Trackers \subseteq DOMAIN FollowedAll(r)[l]
         /\ SameTrackers(FollowedAll(r)[l], Followed(avx[l], r[l]))
<1> DEFINE c == avx[l]
           s == r[l]
<1>1. s \in Int /\ Trackers \subseteq DOMAIN c
  BY DEF Ordered
<1>2. c.median \in EstimateType /\ c.q25 \in EstimateType /\ c.q75 \in EstimateType
  BY DEF Ordered
<1>3. FollowedAll(r)[l] = [c EXCEPT !.q25 = Masked(@, s, s < c.median.m),
                                    !.q75 = Masked(@, s, s > c.median.m),
                                    !.median = Masked(@, s, TRUE)]
  BY DEF FollowedAll
<1>4. /\ Trackers \subseteq DOMAIN FollowedAll(r)[l]
      /\ FollowedAll(r)[l].q25 = Masked(c.q25, s, s < c.median.m)
      /\ FollowedAll(r)[l].q75 = Masked(c.q75, s, s > c.median.m)
      /\ FollowedAll(r)[l].median = Masked(c.median, s, TRUE)
  <2> HIDE DEF c, s
  <2>1. QED BY <1>1, <1>3 DEF Trackers
<1>5. Masked(c.q25, s, s < c.median.m) = IF s < c.median.m THEN Update(c.q25, s) ELSE c.q25
  <2>1. CASE s < c.median.m
    <3>1. (s < c.median.m) = TRUE BY <2>1
    <3>2. QED BY <2>1, <3>1, <1>1, <1>2, MaskedUpdates
  <2>2. CASE ~(s < c.median.m)
    <3>1. (s < c.median.m) = FALSE BY <2>2
    <3>2. QED BY <2>2, <3>1, <1>1, <1>2, MaskedUpdates
  <2>3. QED BY <2>1, <2>2
<1>6. Masked(c.q75, s, s > c.median.m) = IF s > c.median.m THEN Update(c.q75, s) ELSE c.q75
  <2>1. CASE s > c.median.m
    <3>1. (s > c.median.m) = TRUE BY <2>1
    <3>2. QED BY <2>1, <3>1, <1>1, <1>2, MaskedUpdates
  <2>2. CASE ~(s > c.median.m)
    <3>1. (s > c.median.m) = FALSE BY <2>2
    <3>2. QED BY <2>2, <3>1, <1>1, <1>2, MaskedUpdates
  <2>3. QED BY <2>1, <2>2
<1>7. Masked(c.median, s, TRUE) = Update(c.median, s)
  BY <1>1, <1>2, MaskedUpdates
<1>8. QED
  BY <1>1, <1>4, <1>5, <1>6, <1>7, FollowedFields DEF SameTrackers

\* Both versions follow each wire in order, and alike.
TrackersInv ==
  \A l \in Lane : Ordered(avx[l]) /\ Ordered(naive[l]) /\ SameTrackers(avx[l], naive[l])

\* setState() begins in order.
LEMMA TrackersInit == HitInit => TrackersInv
<1> SUFFICES ASSUME HitInit, NEW l \in Lane
             PROVE  Ordered(avx[l]) /\ Ordered(naive[l]) /\ SameTrackers(avx[l], naive[l])
  BY DEF TrackersInv
<1>1. PICK r \in Registers : avx = [k \in Lane |-> NewLane(r[k])]
  BY DEF HitInit
<1>2. r[l] \in Nat /\ Spread \in Nat /\ AccLimit \in Nat
  BY HitFinderAssumption, <1>1 DEF HitFinderAssumption
<1>3. avx[l] = NewLane(r[l]) /\ naive[l] = avx[l]
  BY <1>1 DEF HitInit
<1>4. Ordered(NewLane(r[l]))
  BY <1>2 DEF NewLane, Ordered, Trackers, Estimate, EstimateType, LowerBehind, UpperAhead
<1>5. QED
  BY <1>3, <1>4 DEF SameTrackers

\* A sample of every lane keeps it so.
LEMMA SampleKeeps ==
  ASSUME TrackersInv, NEW r \in Registers, Sample(r)
  PROVE  TrackersInv'
<1> SUFFICES ASSUME NEW l \in Lane
             PROVE  Ordered(avx'[l]) /\ Ordered(naive'[l]) /\ SameTrackers(avx'[l], naive'[l])
  BY DEF TrackersInv
<1>1. r \in [Lane -> Int] /\ AccLimit \in Nat
  BY HitFinderAssumption DEF HitFinderAssumption
<1>2. Ordered(avx[l]) /\ Ordered(naive[l]) /\ SameTrackers(avx[l], naive[l])
  BY DEF TrackersInv
<1> DEFINE c == FollowedAll(r)[l]
           over == Overs(FollowedAll(r))
           added == Charged(FollowedAll(r), Filters(FollowedAll(r)), over)
           left == [k \in Lane |-> avx[k].over /\ ~over[k]]
           kept == IF left[l] THEN Reset(added[l]) ELSE added[l]
<1>3. Trackers \subseteq DOMAIN c /\ SameTrackers(c, Followed(avx[l], r[l]))
  BY <1>1, <1>2, FollowedAllFields
<1>4. avx'[l] = [kept EXCEPT !.over = over[l], !.prev[Slot] = Clean(c, r[l])]
  BY DEF Sample
<1>5. Trackers \subseteq DOMAIN added[l] /\ SameTrackers(c, added[l])
  BY <1>3, HitFields DEF Charged
<1>6. Trackers \subseteq DOMAIN kept /\ SameTrackers(c, kept)
  <2> HIDE DEF added, left, c
  <2>1. QED BY <1>5, HitFields DEF Reset, SameTrackers
<1>7. Trackers \subseteq DOMAIN avx'[l] /\ SameTrackers(c, avx'[l])
  <2> HIDE DEF kept, c, over
  <2>1. QED BY <1>4, <1>6, HitFields DEF SameTrackers
<1>8. Ordered(Followed(avx[l], r[l])) /\ Ordered(Followed(naive[l], r[l]))
  BY <1>1, <1>2, StaysOrdered
<1>9. SameTrackers(Followed(avx[l], r[l]), Followed(naive[l], r[l]))
  BY <1>2, FollowedFields DEF Ordered, SameTrackers
<1>10. /\ Trackers \subseteq DOMAIN naive'[l]
       /\ SameTrackers(Followed(naive[l], r[l]), naive'[l])
  <2>1. naive'[l] = PlainStep(naive[l], r[l]) BY DEF Sample
  <2>2. QED BY <1>2, <2>1, PlainFields DEF Ordered
<1>11. SameTrackers(Followed(avx[l], r[l]), avx'[l])
  BY <1>3, <1>7 DEF SameTrackers
<1>12. Ordered(avx'[l])
  BY <1>7, <1>8, <1>11, OrderedFields
<1>13. Ordered(naive'[l])
  BY <1>8, <1>10, OrderedFields
<1>14. SameTrackers(avx'[l], naive'[l])
  BY <1>9, <1>10, <1>11 DEF SameTrackers
<1>15. QED
  BY <1>12, <1>13, <1>14

\* The registers and the plain version have the same pedestals and quartiles, at every sample:
\* the 25th percentile is ahead of the median by at most one, and the median of the 75th.
THEOREM TrackersAgree == HitSpec => []TrackersInv
<1>1. TrackersInv /\ [HitNext]_hitVars => TrackersInv'
  <2> SUFFICES ASSUME TrackersInv, [HitNext]_hitVars PROVE TrackersInv'
    OBVIOUS
  <2>1. CASE \E r \in Registers : Sample(r)
    BY <2>1, SampleKeeps
  <2>2. CASE NextMessage
    BY <2>2 DEF NextMessage, TrackersInv
  <2>3. CASE UNCHANGED hitVars
    BY <2>3 DEF hitVars, TrackersInv
  <2>4. QED
    BY <2>1, <2>2, <2>3 DEF HitNext
<1>2. QED
  BY <1>1, TrackersInit, PTL DEF HitSpec

\* The quartiles never cross: what is multiplied into the thresholds of a register is not
\* negative, so that nothing is borrowed from the lane of another wire.
THEOREM DistanceIsNatural == HitSpec => []QuartilesInOrder
<1>1. TrackersInv => QuartilesInOrder
  BY DEF TrackersInv, QuartilesInOrder, Ordered, EstimateType, Distance
<1>2. QED
  BY <1>1, TrackersAgree, PTL
(***************************************************************************)
(* The sets of a finder that is alone.                                     *)
(***************************************************************************)

\* the hits of messages a to b of a link whose messages have so many
HitsBetween(ns, a, b) == UNION {HitsOfMsg(t, ns[t]) : t \in a..b}

WholeSet(ns, k) ==
  [start |-> (k - 1) * MsgsPerSet + 1, span |-> MsgsPerSet,
   hits |-> HitsBetween(ns, (k - 1) * MsgsPerSet + 1, k * MsgsPerSet)]

\* groups of messages that have been sent, of n messages of which m are in the next
Place(f, q) ==
  LET n == Len(counts[f]) IN
  /\ msgsInSet \in Nat /\ loaded[f] \in Nat
  /\ apc[f] = "waiting" => n = q * MsgsPerSet + msgsInSet /\ msgsInSet < MsgsPerSet
  /\ apc[f] \in {"counting", "storing"} =>
       n = q * MsgsPerSet + msgsInSet + 1 /\ msgsInSet < MsgsPerSet
  /\ apc[f] = "storing" => loaded[f] = msgsInSet
  /\ apc[f] = "comparing" =>
       /\ n = q * MsgsPerSet + msgsInSet /\ msgsInSet <= MsgsPerSet
       /\ loaded[f] + 1 = msgsInSet
  /\ apc[f] = "sending" => n = q * MsgsPerSet + msgsInSet /\ msgsInSet = MsgsPerSet

Gathered(f, q) ==
  LET n == Len(counts[f]) IN
  /\ n > q * MsgsPerSet => current[f].start = q * MsgsPerSet + 1
  /\ current[f].hits = HitsBetween(counts[f], q * MsgsPerSet + 1, n)
  /\ sets[f] = {s \in {WholeSet(counts[f], k) : k \in 1..q} : s.hits # {}}

SetsType(f) ==
  /\ counts \in [{f} -> Seq(Nat)] /\ DOMAIN current = {f} /\ DOMAIN sets = {f}
  /\ apc \in [{f} -> {"waiting", "counting", "storing", "comparing", "sending"}]
  /\ DOMAIN loaded = {f} /\ DOMAIN current[f] = {"start", "hits"}

SetsInv(f) == SetsType(f) /\ \E q \in Nat : Place(f, q) /\ Gathered(f, q)

\* The messages counted keep their hits when another one comes.
LEMMA HitsKept ==
  ASSUME NEW ns \in Seq(Nat), NEW x \in Nat, NEW a \in Nat \ {0}, NEW b \in Nat, b <= Len(ns)
  PROVE  HitsBetween(Append(ns, x), a, b) = HitsBetween(ns, a, b)
<1>1. \A t \in a..b : Append(ns, x)[t] = ns[t]
  OBVIOUS
<1>2. {HitsOfMsg(t, Append(ns, x)[t]) : t \in a..b} = {HitsOfMsg(t, ns[t]) : t \in a..b}
  BY <1>1
<1>3. QED BY <1>2 DEF HitsBetween

\* The message that comes adds its own.
LEMMA HitsAdded ==
  ASSUME NEW ns \in Seq(Nat), NEW x \in Nat, NEW a \in Nat \ {0}, a <= Len(ns) + 1
  PROVE  HitsBetween(Append(ns, x), a, Len(ns) + 1)
           = HitsBetween(ns, a, Len(ns)) \cup HitsOfMsg(Len(ns) + 1, x)
<1> DEFINE n == Len(ns)
<1>1. n \in Nat /\ a..(n + 1) = (a..n) \cup {n + 1}
  OBVIOUS
<1>2. Append(ns, x)[n + 1] = x
  OBVIOUS
<1>3. HitsBetween(Append(ns, x), a, n + 1)
        = HitsBetween(Append(ns, x), a, n) \cup HitsOfMsg(n + 1, Append(ns, x)[n + 1])
  <2> HIDE DEF n
  <2>1. QED BY <1>1 DEF HitsBetween
<1>4. QED BY <1>1, <1>2, <1>3, HitsKept

\* No messages have no hits.
LEMMA NoHits ==
  ASSUME NEW ns, NEW a \in Int, NEW b \in Int, b < a
  PROVE  HitsBetween(ns, a, b) = {}
<1>1. a..b = {} OBVIOUS
<1>2. QED BY <1>1 DEF HitsBetween

\* The groups before the q-th end before it.
LEMMA GroupBounds ==
  ASSUME NEW q \in Nat, NEW k \in 1..q, NEW g \in Nat \ {0}
  PROVE  /\ k * g \in Nat /\ k * g <= q * g
         /\ (k - 1) * g + 1 \in Nat \ {0}
<1>1. \E d \in Nat : q = k + d
  <2>1. q - k \in Nat /\ q = k + (q - k) OBVIOUS
  <2>2. QED BY <2>1
<1>2. PICK d \in Nat : q = k + d BY <1>1
<1>3. q * g = k * g + d * g BY <1>2
<1>4. d * g \in Nat /\ k * g \in Nat /\ (k - 1) * g \in Nat OBVIOUS
<1>5. QED BY <1>3, <1>4

\* So many groups are whole.
LEMMA GroupsOf ==
  ASSUME NEW q \in Nat, NEW m \in Nat, NEW g \in Nat \ {0}, m < g
  PROVE  (q * g + m) \div g = q
OBVIOUS

\* What is of whole groups stays as it is when a message comes.
LEMMA WholeKept ==
  ASSUME NEW ns \in Seq(Nat), NEW x \in Nat, NEW q \in Nat, MsgsPerSet \in Nat \ {0},
         q * MsgsPerSet <= Len(ns), NEW k \in 1..q
  PROVE  WholeSet(Append(ns, x), k) = WholeSet(ns, k)
<1>1. /\ k * MsgsPerSet \in Nat /\ k * MsgsPerSet <= q * MsgsPerSet
      /\ (k - 1) * MsgsPerSet + 1 \in Nat \ {0}
  BY GroupBounds
<1>2. k * MsgsPerSet <= Len(ns) /\ q * MsgsPerSet \in Nat
  BY <1>1
<1>3. QED BY <1>1, <1>2, HitsKept DEF WholeSet

\* At first no message has been counted.
LEMMA SetsInitial ==
  ASSUME NEW f, Finders = {f}, SetsInit PROVE SetsInv(f)
<1>1. MsgsPerSet \in Nat \ {0} BY HitSetsAssumption DEF HitSetsAssumption
<1>2. SetsType(f)
  <2>1. counts \in [{f} -> Seq(Nat)] /\ DOMAIN sets = {f} /\ DOMAIN loaded = {f}
    BY DEF SetsInit
  <2>2. DOMAIN current = {f} /\ current[f] = EmptySet
    BY DEF SetsInit
  <2>3. DOMAIN EmptySet = {"start", "hits"}
    BY DEF EmptySet
  <2>4. apc \in [{f} -> {"waiting", "counting", "storing", "comparing", "sending"}]
    BY DEF SetsInit
  <2>5. QED BY <2>1, <2>2, <2>3, <2>4 DEF SetsType
<1>3. Place(f, 0) BY <1>1 DEF SetsInit, Place
<1>4. HitsBetween(counts[f], 1, 0) = {} BY NoHits
<1>5. Gathered(f, 0)
  <2>1. /\ counts[f] = <<>> /\ Len(counts[f]) = 0 /\ sets[f] = {} /\ current[f].hits = {}
        /\ 0 * MsgsPerSet = 0
    BY <1>1 DEF SetsInit, EmptySet
  <2>2. {s \in {WholeSet(counts[f], k) : k \in 1..0} : s.hits # {}} = {}
    OBVIOUS
  <2> HIDE DEF HitsBetween
  <2>3. QED BY <1>4, <2>1, <2>2 DEF Gathered
<1>6. QED BY <1>2, <1>3, <1>5 DEF SetsInv

\* A message goes into the current set.
LEMMA FillKeeps ==
  ASSUME NEW f, Finders = {f}, SetsInv(f), NEW n \in HitsInMsg, FillSet(f, n)
  PROVE  SetsInv(f)'
<1> DEFINE ns == counts[f]
           g == MsgsPerSet
<1>1. g \in Nat \ {0} /\ n \in Nat BY HitSetsAssumption DEF HitSetsAssumption
<1>2. PICK q \in Nat : Place(f, q) /\ Gathered(f, q) BY DEF SetsInv
<1>3. ns \in Seq(Nat) /\ SetsType(f) BY DEF SetsInv, SetsType
<1>4. q * g \in Nat /\ Len(ns) \in Nat BY <1>1, <1>3
<1>5. Len(ns) = q * g + msgsInSet /\ msgsInSet < g /\ msgsInSet \in Nat
  BY <1>2 DEF FillSet, Place
<1>6. counts'[f] = Append(ns, n) /\ Len(counts'[f]) = Len(ns) + 1
  BY <1>3 DEF FillSet, SetsType
<1>7. SetsType(f)'
  <2>1. counts' \in [{f} -> Seq(Nat)] BY <1>1, <1>3, <1>6 DEF FillSet, SetsType
  <2>2. DOMAIN current' = {f} BY <1>3 DEF FillSet, SetsType
  <2>3. current'[f] = [start |-> IF msgsInSet = 0 THEN Len(ns) + 1 ELSE current[f].start,
                       hits |-> current[f].hits \cup HitsOfMsg(Len(ns) + 1, n)]
    BY <1>3 DEF FillSet, SetsType
  <2>4. DOMAIN current'[f] = {"start", "hits"} BY <2>3
  <2>5. QED BY <1>3, <2>1, <2>2, <2>4 DEF FillSet, SetsType
<1>8. Place(f, q)'
  BY <1>2, <1>3, <1>5, <1>6 DEF FillSet, Place, SetsType
<1>9. current'[f].start = IF msgsInSet = 0 THEN Len(ns) + 1 ELSE current[f].start
  BY <1>3 DEF FillSet, SetsType
<1>10. current'[f].hits = current[f].hits \cup HitsOfMsg(Len(ns) + 1, n)
  BY <1>3 DEF FillSet, SetsType
<1>11. current'[f].hits = HitsBetween(counts'[f], q * g + 1, Len(ns) + 1)
  <2>1. q * g + 1 \in Nat \ {0} /\ q * g + 1 <= Len(ns) + 1
    BY <1>4, <1>5
  <2>2. current[f].hits = HitsBetween(ns, q * g + 1, Len(ns))
    BY <1>2 DEF Gathered
  <2>3. HitsBetween(Append(ns, n), q * g + 1, Len(ns) + 1)
          = HitsBetween(ns, q * g + 1, Len(ns)) \cup HitsOfMsg(Len(ns) + 1, n)
    BY <1>1, <1>3, <2>1, HitsAdded
  <2>4. QED BY <1>6, <1>10, <2>2, <2>3
<1>12. sets'[f] = {s \in {WholeSet(counts'[f], k) : k \in 1..q} : s.hits # {}}
  <2>1. q * g <= Len(ns)
    BY <1>4, <1>5
  <2>2. \A k \in 1..q : WholeSet(Append(ns, n), k) = WholeSet(ns, k)
    BY <1>1, <1>3, <2>1, WholeKept
  <2>3. {WholeSet(counts'[f], k) : k \in 1..q} = {WholeSet(ns, k) : k \in 1..q}
    BY <1>6, <2>2
  <2>4. QED BY <1>2, <2>3 DEF FillSet, Gathered
<1>13. current'[f].start = q * g + 1
  BY <1>2, <1>4, <1>5, <1>9 DEF Gathered
<1>14. Gathered(f, q)'
  BY <1>6, <1>11, <1>12, <1>13 DEF Gathered
<1>15. QED BY <1>7, <1>8, <1>14 DEF SetsInv

\* It is counted.
LEMMA CountKeeps ==
  ASSUME NEW f, Finders = {f}, SetsInv(f), LoadCount(f) \/ StoreCount(f) \/ Compare(f)
  PROVE  SetsInv(f)'
<1>1. MsgsPerSet \in Nat \ {0} BY HitSetsAssumption DEF HitSetsAssumption
<1>2. PICK q \in Nat : Place(f, q) /\ Gathered(f, q) BY DEF SetsInv
<1>3. SetsType(f) /\ q * MsgsPerSet \in Nat /\ Len(counts[f]) \in Nat BY <1>1 DEF SetsInv, SetsType
<1>4. Gathered(f, q)'
  BY <1>2 DEF Gathered, LoadCount, StoreCount, Compare
<1>5. SetsType(f)'
  BY <1>3 DEF SetsType, LoadCount, StoreCount, Compare
<1>6. CASE LoadCount(f)
  <2>1. Place(f, q)' BY <1>2, <1>3, <1>6 DEF Place, LoadCount, SetsType
  <2>2. QED BY <1>4, <1>5, <2>1 DEF SetsInv
<1>7. CASE StoreCount(f)
  <2>1. Place(f, q)' BY <1>1, <1>2, <1>3, <1>7 DEF Place, StoreCount, SetsType
  <2>2. QED BY <1>4, <1>5, <2>1 DEF SetsInv
<1>8. CASE Compare(f)
  <2>1. Place(f, q)' BY <1>1, <1>2, <1>3, <1>8 DEF Place, Compare, IsComplete, SetsType
  <2>2. QED BY <1>4, <1>5, <2>1 DEF SetsInv
<1>9. QED BY <1>6, <1>7, <1>8

\* The set that is sent is that of the next group.
LEMMA SendKeeps ==
  ASSUME NEW f, Finders = {f}, SetsInv(f), SendSet(f)
  PROVE  SetsInv(f)'
<1> DEFINE ns == counts[f]
           g == MsgsPerSet
<1>1. g \in Nat \ {0} BY HitSetsAssumption DEF HitSetsAssumption
<1>2. PICK q \in Nat : Place(f, q) /\ Gathered(f, q) BY DEF SetsInv
<1>3. SetsType(f) /\ ns \in Seq(Nat) /\ q * g \in Nat BY <1>1 DEF SetsInv, SetsType
<1>4. Len(ns) = q * g + g /\ counts' = counts
  BY <1>2 DEF Place, SendSet
<1>5. (q + 1) * g = q * g + g /\ ((q + 1) - 1) * g = q * g
  BY <1>1
<1>6. SetsType(f)'
  <2>1. DOMAIN current' = {f} /\ current'[f] = EmptySet BY <1>3 DEF SetsType, SendSet
  <2>2. DOMAIN EmptySet = {"start", "hits"} BY DEF EmptySet
  <2>3. DOMAIN sets' = {f} /\ UNCHANGED <<loaded, counts>> BY <1>3 DEF SetsType, SendSet
  <2>4. apc' \in [{f} -> {"waiting", "counting", "storing", "comparing", "sending"}]
    BY <1>3 DEF SetsType, SendSet
  <2>5. QED BY <1>3, <2>1, <2>2, <2>3, <2>4 DEF SetsType
<1>7. Place(f, q + 1)'
  BY <1>1, <1>2, <1>3, <1>4, <1>5 DEF Place, SendSet, SetsType
<1>8. current'[f] = EmptySet
  BY <1>3 DEF SendSet, SetsType
<1>9. current'[f].hits = HitsBetween(ns, (q + 1) * g + 1, Len(ns))
  BY <1>3, <1>4, <1>5, <1>8, <1>1, NoHits DEF EmptySet
<1>10. WholeSet(ns, q + 1) =
         [start |-> current[f].start, span |-> Len(ns) + 1 - current[f].start,
          hits |-> current[f].hits]
  <2>1. Len(ns) > q * g /\ Len(ns) + 1 - (q * g + 1) = g
    BY <1>1, <1>3, <1>4
  <2>2. current[f].start = q * g + 1 /\ current[f].hits = HitsBetween(ns, q * g + 1, Len(ns))
    BY <1>2, <2>1 DEF Gathered
  <2>3. WholeSet(ns, q + 1) = [start |-> q * g + 1, span |-> g,
                               hits |-> HitsBetween(ns, q * g + 1, Len(ns))]
    BY <1>4, <1>5 DEF WholeSet
  <2>4. QED BY <2>1, <2>2, <2>3
<1>11. sets'[f] = IF current[f].hits = {} THEN sets[f] ELSE sets[f] \cup {WholeSet(ns, q + 1)}
  BY <1>3, <1>10 DEF SendSet, SetsType
<1>12. sets'[f] = {s \in {WholeSet(ns, k) : k \in 1..(q + 1)} : s.hits # {}}
  <2>1. 1..(q + 1) = (1..q) \cup {q + 1} OBVIOUS
  <2>2. WholeSet(ns, q + 1).hits = current[f].hits BY <1>10
  <2>3. sets[f] = {s \in {WholeSet(ns, k) : k \in 1..q} : s.hits # {}} BY <1>2 DEF Gathered
  <2>4. {WholeSet(ns, k) : k \in 1..(q + 1)}
          = {WholeSet(ns, k) : k \in 1..q} \cup {WholeSet(ns, q + 1)}
    BY <2>1
  <2>5. QED BY <1>11, <2>2, <2>3, <2>4
<1>13. Gathered(f, q + 1)'
  BY <1>1, <1>3, <1>4, <1>5, <1>9, <1>12 DEF Gathered
<1>14. QED BY <1>6, <1>7, <1>13 DEF SetsInv

\* Between messages, what has been sent is what is promised.
LEMMA GroupsAre ==
  ASSUME NEW f, SetsInv(f), apc[f] = "waiting"
  PROVE  sets[f] = {s \in {SetOf(f, k) : k \in 1..(Len(counts[f]) \div MsgsPerSet)} : s.hits # {}}
<1>1. MsgsPerSet \in Nat \ {0} BY HitSetsAssumption DEF HitSetsAssumption
<1>2. PICK q \in Nat : Place(f, q) /\ Gathered(f, q) BY DEF SetsInv
<1>3. Len(counts[f]) \div MsgsPerSet = q
  BY <1>1, <1>2, GroupsOf DEF Place
<1>4. \A k \in 1..q : SetOf(f, k) = WholeSet(counts[f], k)
  <2> TAKE k \in 1..q
  <2>1. (k - 1) * MsgsPerSet + 1 + MsgsPerSet - 1 = k * MsgsPerSet BY <1>1
  <2>2. QED BY <2>1 DEF SetOf, WholeSet, HitsBetween
<1>5. {SetOf(f, k) : k \in 1..q} = {WholeSet(counts[f], k) : k \in 1..q}
  BY <1>4
<1>6. QED BY <1>2, <1>3, <1>5 DEF Gathered

\* A finder that is alone in its process sends a set for every so many messages, with their
\* hits and their time, for every size of a set and numbers of hits.
THEOREM OneFinderSendsWhole ==
  ASSUME NEW f, Finders = {f} PROVE SetsSpec => []SetsWhole
<1>1. SetsInit => SetsInv(f) BY SetsInitial
<1>2. SetsInv(f) /\ [SetsNext]_setVars => SetsInv(f)'
  <2> SUFFICES ASSUME SetsInv(f), [SetsNext]_setVars PROVE SetsInv(f)'
    OBVIOUS
  <2>1. CASE \E n \in HitsInMsg : FillSet(f, n) BY <2>1, FillKeeps
  <2>2. CASE LoadCount(f) \/ StoreCount(f) \/ Compare(f) BY <2>2, CountKeeps
  <2>3. CASE SendSet(f) BY <2>3, SendKeeps
  <2>4. CASE UNCHANGED setVars
    <3>1. PICK q \in Nat : Place(f, q) /\ Gathered(f, q) BY DEF SetsInv
    <3>2. Place(f, q)' /\ Gathered(f, q)' BY <2>4, <3>1 DEF setVars, Place, Gathered
    <3>3. SetsType(f)' BY <2>4 DEF setVars, SetsInv, SetsType
    <3>4. QED BY <3>2, <3>3 DEF SetsInv
  <2>5. QED BY <2>1, <2>2, <2>3, <2>4 DEF SetsNext
<1>3. SetsInv(f) => SetsWhole BY GroupsAre DEF SetsWhole
<1>4. QED BY <1>1, <1>2, <1>3, PTL DEF SetsSpec

(***************************************************************************)
(* The events of the on-host mode.                                         *)
(***************************************************************************)

Event == [trigger : Request \cup {NoRequest}, frags : [Links -> HostFragment]]

HostTypes ==
  /\ RequestTypes /\ matchers \in [Links -> {"idle", "works", "clears"}]
  /\ hostAt \in {"stopped", "between", "offer", "busy", "join"} /\ offering \in Nat
  /\ trigger \in Request \cup {NoRequest} /\ filling \in [Links -> HostFragment]
  /\ events \in Seq(Event) /\ produced \in [Links -> Nat] /\ linkQ \in [Links -> Seq(Nat)]
  /\ refusedMsgs \in [Links -> SUBSET Nat] /\ culled \in [Links -> SUBSET Nat]

\* The loop of TriggerWorkers() has been to the link.
Offered(l) == hostAt = "busy" \/ (hostAt = "offer" /\ l < offering)

\* A matcher works for the event being made and no other, and fills its own fragment once.
MatchersPlaced ==
  /\ hostAt = "offer" => offering \in Links
  /\ \A l \in Links :
       /\ ~Offered(l) => matchers[l] # "works" /\ filling[l] = Blank
       /\ matchers[l] = "works" => filling[l] = Blank
       /\ Offered(l) /\ matchers[l] # "works" => filling[l].why # "new"

\* a fragment that was filled, for trigger t
FilledFor(f, t) ==
  IF f.why = "refused" THEN f.msgs = <<>>
  ELSE f.why # "new" => f.seqID = t.seqID /\ f.timestamp = t.timestamp

TriggersInOrder ==
  /\ InOrder(reqQ, lastReq) /\ Past(trigger, reqQ, lastReq)
  /\ \A i \in 1..Len(events) : Past(events[i].trigger, reqQ, lastReq)
  /\ \A i, j \in 1..Len(events) :
       i < j /\ events[j].trigger # NoRequest => Newer(events[i].trigger, events[j].trigger)
  /\ hostAt \in {"offer", "busy"} /\ trigger # NoRequest =>
       \A i \in 1..Len(events) : Newer(events[i].trigger, trigger)

\* A queue q of a link that has produced p messages and was refused those of R: in
\* order, and with no gap but for what was refused.
LinkRight(q, p, R) ==
  /\ \A i \in 1..Len(q) : q[i] < p
  /\ \A m \in R : m < p
  /\ \A i, j \in 1..Len(q) : i < j => q[i] < q[j]
  /\ \A i, j \in 1..Len(q) : i < j =>
       q[j] - q[i] = j - i \/ \E m \in R : q[i] < m /\ m < q[j]
  /\ Len(q) > 0 => \A m \in (q[Len(q)] + 1)..(p - 1) : m \in R

QueuesRight == \A l \in Links : LinkRight(linkQ[l], produced[l], refusedMsgs[l])

\* the fragments of link l that artdaq has
Given(l) == {events[i].frags[l] : i \in 1..Len(events)}
Filled(l) == Given(l) \cup {filling[l]}

\* Message m went with the data of f, in them or skipped before them.
Took(f, m) == f.msgs # <<>> /\ f.front <= m /\ m <= Last(f.msgs)

Accounted ==
  \A l \in Links : \A m \in 0..(produced[l] - 1) :
    \/ \E i \in 1..Len(linkQ[l]) : linkQ[l][i] = m
    \/ m \in refusedMsgs[l] \cup culled[l]
    \/ \E f \in Filled(l) : Took(f, m)

\* What the fragments have is behind the queue.
Spent ==
  \A l \in Links : \A f \in Filled(l) : f.msgs # <<>> =>
    /\ Last(f.msgs) < produced[l]
    /\ \A i \in 1..Len(linkQ[l]) : Last(f.msgs) < linkQ[l][i]

\* Messages between the front of the queue and the end of the data are in R.
HoleIn(R, f) == \E m \in R : f.front <= m /\ m <= Last(f.msgs)

Held(R, f) ==
  f.msgs # <<>> /\ ~HoleIn(R, f) =>
    /\ \A i \in DOMAIN f.msgs : f.msgs[i] = f.msgs[1] + i - 1
    /\ TimeOfMsg(f.msgs[1]) <= StartOf(f.timestamp)
    /\ StartOf(f.timestamp) + WindowFrames * HostTick <= TimeOfMsg(Last(f.msgs) + 1)

WindowsHeld == \A l \in Links : \A f \in Filled(l) : Held(refusedMsgs[l], f)

\* The data f did without were culled (C), refused (R) or given before (E).
GoneBy(f, C, R, E) ==
  f.why = "old" =>
    \/ FirstWanted(f) \in C \cup R
    \/ \E g \in E : g.msgs # <<>> /\ (HoleIn(R, g) \/ FirstWanted(f) \in ToSet(g.msgs))

After(f, g) == f.msgs # <<>> /\ g.msgs # <<>> => Last(f.msgs) < g.front

GivenBefore(l, n) == {events[i].frags[l] : i \in 1..(n - 1)}

EventsRight ==
  /\ \A i \in 1..Len(events) :
       /\ OfOneTrigger(events[i])
       /\ \A l \in Links : GoneBy(events[i].frags[l], culled[l], refusedMsgs[l], GivenBefore(l, i))
  /\ \A i, j \in 1..Len(events) : i < j =>
       \A l \in Links : After(events[i].frags[l], events[j].frags[l])

FillingRight ==
  \A l \in Links :
    /\ FilledFor(filling[l], trigger)
    /\ GoneBy(filling[l], culled[l], refusedMsgs[l], Given(l))
    /\ \A g \in Given(l) : After(g, filling[l])

HostInv ==
  /\ HostTypes /\ MatchersPlaced /\ TriggersInOrder /\ QueuesRight /\ Accounted /\ Spent
  /\ WindowsHeld /\ EventsRight /\ FillingRight

(***************************************************************************)
(* Numbers, sequences, and the queue of a link.                            *)
(***************************************************************************)

LEMMA HostNumbers ==
  /\ HostTick \in Nat \ {0} /\ NumLinks \in Nat \ {0} /\ FramesPerMessage \in Nat \ {0}
  /\ LinkRoom \in Nat \ {0} /\ WindowFrames \in Nat /\ OffsetFrames \in Nat
  /\ MaxEvents \in Nat /\ SpareMessages \in Nat /\ SpareMessages >= 2
  /\ OffsetFrames * HostTick \in Nat
  /\ \A ts \in TriggerTimes : ts \in Nat /\ ts >= OffsetFrames * HostTick
<1>1. /\ HostTick \in Nat \ {0} /\ NumLinks \in Nat \ {0} /\ FramesPerMessage \in Nat \ {0}
      /\ LinkRoom \in Nat \ {0} /\ WindowFrames \in Nat /\ OffsetFrames \in Nat
      /\ MaxEvents \in Nat /\ SpareMessages \in Nat /\ SpareMessages >= 2
  BY OnHostAssumption
<1>2. \A ts \in TriggerTimes : ts \in Nat /\ ts >= OffsetFrames * HostTick
  BY OnHostAssumption, RequestAssumption
<1>. QED BY <1>1, <1>2

\* What popXFront() leaves of a queue.
LEMMA PopIs ==
  ASSUME NEW q \in Seq(Nat), NEW n \in Nat
  PROVE  /\ PopFront(q, n) \in Seq(Nat) /\ Len(PopFront(q, n)) \in Nat
         /\ Len(PopFront(q, n)) <= Len(q)
         /\ n <= Len(q) => Len(PopFront(q, n)) = Len(q) - n
         /\ \A i \in 1..Len(PopFront(q, n)) :
              PopFront(q, n)[i] = q[n + i] /\ n + i \in 1..Len(q)
         /\ \A k \in 1..Len(q) : k > n =>
              k - n \in 1..Len(PopFront(q, n)) /\ PopFront(q, n)[k - n] = q[k]
<1>1. Len(q) \in Nat /\ \A i \in 1..Len(q) : q[i] \in Nat
  BY LenProperties, ElementOfSeq
<1>2. \A i \in (n + 1)..Len(q) : q[i] \in Nat
  BY <1>1
<1>3. /\ PopFront(q, n) \in Seq(Nat)
      /\ Len(PopFront(q, n)) \in Nat /\ Len(PopFront(q, n)) <= Len(q)
      /\ n <= Len(q) => Len(PopFront(q, n)) = Len(q) - n
      /\ n >= Len(q) => Len(PopFront(q, n)) = 0
      /\ \A i \in 1..Len(PopFront(q, n)) : PopFront(q, n)[i] = q[n + i]
  <2>1. PICK b : b = PopFront(q, n)
    OBVIOUS
  <2>2. b = SubSeq(q, n + 1, Len(q))
    BY <2>1 DEF PopFront
  <2>3. b \in Seq(Nat)
    BY <1>1, <1>2, <2>2, SubSeqProperties
  <2>4. Len(b) = IF n + 1 <= Len(q) THEN Len(q) - n ELSE 0
    BY <1>1, <2>2, SubSeqProperties
  <2>5. \A i \in 1..Len(b) : b[i] = q[n + i]
    <3>1. \A i \in 1..(Len(q) - n) : b[i] = q[n + i]
      BY <1>1, <2>2, SubSeqProperties
    <3>. QED BY <1>1, <2>4, <3>1
  <2>6. Len(b) \in Nat /\ Len(b) <= Len(q)
    BY <1>1, <2>4
  <2>. QED BY <1>1, <2>1, <2>3, <2>4, <2>5, <2>6
<1>4. PICK a, l : a = PopFront(q, n) /\ l = Len(PopFront(q, n))
  OBVIOUS
<1>5. /\ l \in Nat /\ l <= Len(q) /\ (n <= Len(q) => l = Len(q) - n) /\ (n >= Len(q) => l = 0)
      /\ \A i \in 1..l : a[i] = q[n + i]
  BY <1>3, <1>4
<1>6. \A i \in 1..l : n + i \in 1..Len(q)
  BY <1>1, <1>5
<1>7. \A k \in 1..Len(q) : k > n => k - n \in 1..l /\ a[k - n] = q[k]
  <2>. SUFFICES ASSUME NEW k \in 1..Len(q), k > n PROVE k - n \in 1..l /\ a[k - n] = q[k]
    OBVIOUS
  <2>1. k - n \in 1..l /\ n + (k - n) = k
    BY <1>1, <1>5
  <2>. QED BY <1>5, <2>1
<1>. QED BY <1>3, <1>4, <1>5, <1>6, <1>7

LEMMA QueueNumbers ==
  ASSUME NEW q \in Seq(Nat)
  PROVE  Len(q) \in Nat /\ \A i \in 1..Len(q) : q[i] \in Nat
BY LenProperties, ElementOfSeq

\* The next message is queued.
LEMMA RightAppended ==
  ASSUME NEW q \in Seq(Nat), NEW p \in Nat, NEW R \in SUBSET Nat, LinkRight(q, p, R)
  PROVE  LinkRight(Append(q, p), p + 1, R)
<1>0. PICK a, n : a = Append(q, p) /\ n = Len(q)
  OBVIOUS
<1>1. /\ n \in Nat /\ Len(a) = n + 1 /\ a[n + 1] = p
      /\ \A i \in 1..n : a[i] = q[i] /\ q[i] \in Nat
  BY <1>0, AppendProperties, QueueNumbers
<1>2. /\ \A i \in 1..n : q[i] < p
      /\ \A m \in R : m \in Nat /\ m < p
      /\ \A i, j \in 1..n : i < j => q[i] < q[j]
      /\ \A i, j \in 1..n : i < j =>
           q[j] - q[i] = j - i \/ \E m \in R : q[i] < m /\ m < q[j]
      /\ n > 0 => \A m \in (q[n] + 1)..(p - 1) : m \in R
  BY <1>0 DEF LinkRight
<1>3. ASSUME NEW i \in 1..n
      PROVE  p - q[i] = n + 1 - i \/ \E m \in R : q[i] < m /\ m < p
  <2>1. n \in 1..n /\ q[n] \in Nat /\ q[i] \in Nat /\ q[n] < p
    BY <1>1, <1>2
  <2>2. CASE q[n] + 1 = p
    <3>1. CASE i = n
      BY <1>1, <2>1, <2>2, <3>1
    <3>2. CASE i < n
      <4>1. CASE q[n] - q[i] = n - i
        <5>1. \A x, y \in Nat : y - x = n - i /\ y + 1 = p => p - x = n + 1 - i
          BY <1>1
        <5>. QED BY <2>1, <2>2, <4>1, <5>1
      <4>2. CASE \E m \in R : q[i] < m /\ m < q[n]
        BY <1>2, <2>1, <2>2, <4>2
      <4>. QED BY <1>2, <2>1, <3>2, <4>1, <4>2
    <3>. QED BY <1>1, <3>1, <3>2
  <2>3. CASE q[n] + 1 # p
    <3>1. q[i] <= q[n]
      BY <1>1, <1>2, <2>1
    <3>2. p - 1 \in (q[n] + 1)..(p - 1)
      BY <2>1, <2>3
    <3>3. p - 1 \in R
      BY <1>1, <1>2, <2>1, <3>2
    <3>4. \A x, y \in Nat : x <= y /\ y < p /\ y + 1 # p => x < p - 1 /\ p - 1 < p
      OBVIOUS
    <3>5. q[i] < p - 1 /\ p - 1 < p
      BY <2>1, <2>3, <3>1, <3>4
    <3>. QED BY <3>3, <3>5
  <2>. QED BY <2>2, <2>3
<1>4. \A i, j \in 1..(n + 1) : i < j =>
        /\ a[i] < a[j]
        /\ a[j] - a[i] = j - i \/ \E m \in R : a[i] < m /\ m < a[j]
  <2>. SUFFICES ASSUME NEW i \in 1..(n + 1), NEW j \in 1..(n + 1), i < j
                PROVE  /\ a[i] < a[j]
                       /\ a[j] - a[i] = j - i \/ \E m \in R : a[i] < m /\ m < a[j]
    OBVIOUS
  <2>1. i \in 1..n /\ a[i] = q[i]
    BY <1>1
  <2>2. CASE j \in 1..n
    BY <1>1, <1>2, <2>1, <2>2
  <2>3. CASE j = n + 1
    <3>1. a[j] = p
      BY <1>1, <2>3
    <3>2. q[i] < p
      BY <1>2, <2>1
    <3>3. p - q[i] = j - i \/ \E m \in R : q[i] < m /\ m < p
      <4>1. j - i = n + 1 - i
        BY <1>1, <2>3
      <4>2. p - q[i] = n + 1 - i \/ \E m \in R : q[i] < m /\ m < p
        BY <1>3, <2>1, Zenon
      <4>. QED BY <4>1, <4>2, Zenon
    <3>. QED BY <2>1, <3>1, <3>2, <3>3, Zenon
  <2>. QED BY <1>1, <2>2, <2>3
<1>5. \A i \in 1..(n + 1) : a[i] < p + 1
  <2>1. \A i \in 1..(n + 1) : i \in 1..n \/ i = n + 1
    BY <1>1
  <2>2. \A x \in Nat : x < p => x < p + 1
    OBVIOUS
  <2>3. \A i \in 1..n : a[i] < p + 1
    BY <1>1, <1>2, <2>2
  <2>4. a[n + 1] < p + 1
    BY <1>1
  <2>. QED BY <2>1, <2>3, <2>4
<1>6. \A m \in (a[n + 1] + 1)..(p + 1 - 1) : m \in R
  <2>1. a[n + 1] + 1 = p + 1 /\ p + 1 - 1 = p
    BY <1>1
  <2>2. \A m \in (p + 1)..p : FALSE
    OBVIOUS
  <2>. QED BY <2>1, <2>2
<1>7. \A m \in R : m < p + 1
  BY <1>2
<1>8. LinkRight(a, p + 1, R)
  BY <1>1, <1>4, <1>5, <1>6, <1>7 DEF LinkRight
<1>. QED BY <1>0, <1>8

\* The next message is refused.
LEMMA RightRefused ==
  ASSUME NEW q \in Seq(Nat), NEW p \in Nat, NEW R \in SUBSET Nat, LinkRight(q, p, R)
  PROVE  LinkRight(q, p + 1, R \cup {p})
<1>1. /\ \A i \in 1..Len(q) : q[i] \in Nat /\ q[i] < p + 1
      /\ \A m \in R \cup {p} : m < p + 1
  BY QueueNumbers DEF LinkRight
<1>2. ASSUME Len(q) > 0, NEW m \in (q[Len(q)] + 1)..(p + 1 - 1)
      PROVE  m \in R \cup {p}
  <2>1. Len(q) \in 1..Len(q)
    BY <1>2, QueueNumbers
  <2>2. m = p \/ m \in (q[Len(q)] + 1)..(p - 1)
    BY <1>1, <1>2, <2>1
  <2>. QED BY <1>2, <2>2 DEF LinkRight
<1>. QED BY <1>1, <1>2 DEF LinkRight

\* Messages are popped.
LEMMA RightPopped ==
  ASSUME NEW q \in Seq(Nat), NEW p \in Nat, NEW R \in SUBSET Nat, LinkRight(q, p, R),
         NEW n \in Nat
  PROVE  LinkRight(PopFront(q, n), p, R)
<1> DEFINE a == PopFront(q, n)
<1>1. /\ Len(a) \in Nat /\ Len(q) \in Nat
      /\ \A i \in 1..Len(a) : a[i] = q[n + i] /\ n + i \in 1..Len(q)
      /\ \A k \in 1..Len(q) : k > n => k - n \in 1..Len(a) /\ a[k - n] = q[k]
  BY PopIs, QueueNumbers
<1>2. Len(a) > 0 => n + Len(a) = Len(q)
  <2>1. CASE Len(a) > 0
    <3>1. n + Len(a) \in 1..Len(q)
      BY <1>1, <2>1
    <3>2. Len(q) - n \in 1..Len(a)
      BY <1>1, <2>1, <3>1
    <3>. QED BY <1>1, <3>1, <3>2
  <2>. QED BY <2>1
<1>3. Len(a) > 0 => Len(q) > 0 /\ a[Len(a)] = q[Len(q)]
  BY <1>1, <1>2
<1>4. \A i, j \in 1..Len(a) : i < j =>
        /\ a[i] < a[j]
        /\ a[j] - a[i] = j - i \/ \E m \in R : a[i] < m /\ m < a[j]
  <2>. SUFFICES ASSUME NEW i \in 1..Len(a), NEW j \in 1..Len(a), i < j
                PROVE  /\ a[i] < a[j]
                       /\ a[j] - a[i] = j - i \/ \E m \in R : a[i] < m /\ m < a[j]
    OBVIOUS
  <2>1. /\ n + i \in 1..Len(q) /\ n + j \in 1..Len(q) /\ n + i < n + j
        /\ (n + j) - (n + i) = j - i
    BY <1>1
  <2>2. /\ q[n + i] < q[n + j]
        /\ \/ q[n + j] - q[n + i] = (n + j) - (n + i)
           \/ \E m \in R : q[n + i] < m /\ m < q[n + j]
    BY <2>1 DEF LinkRight
  <2>. QED BY <1>1, <2>1, <2>2
<1>. QED BY <1>1, <1>3, <1>4 DEF LinkRight

(***************************************************************************)
(* A window is cut out of a queue.                                         *)
(***************************************************************************)

\* A queue holds enough for the messages to skip and those of the window.
LEMMA WantedEnough ==
  ASSUME NEW F \in Nat \ {0}, NEW W \in Nat, NEW x \in Nat, NEW s \in Nat, s >= 2,
         NEW n \in Nat, n >= (x + W) \div F + s
  PROVE  x \div F + (W \div F + 2) <= n
<1>1. x \div F \in Nat /\ W \div F \in Nat /\ (x + W) \div F \in Nat /\ x + W \in Nat
  BY DivBounds
<1>2. x \div F + W \div F <= (x + W) \div F
  BY DivSum
<1>. QED BY <1>1, <1>2

\* The first message is h, its time not after the window's start t; the message at
\* which the copy begins is not after it, and the last one not before its end.
LEMMA WindowCut ==
  ASSUME NEW h \in Nat, NEW t \in Nat, TimeOfMsg(h) <= t
  PROVE  LET d == (t - TimeOfMsg(h)) \div HostTick
             s == d \div FramesPerMessage
         IN /\ TimeOfMsg(h) \in Nat /\ d \in Nat /\ s \in Nat /\ WindowMessages \in Nat
            /\ TimeOfMsg(h + s) <= t
            /\ t + WindowFrames * HostTick <= TimeOfMsg(h + s + WindowMessages)
<1>. USE HostNumbers
<1>1. PICK x, d, s, w : /\ x = t - TimeOfMsg(h) /\ d = x \div HostTick
                       /\ s = d \div FramesPerMessage /\ w = WindowMessages
  OBVIOUS
<1>2. TimeOfMsg(h) \in Nat /\ x \in Nat
  BY <1>1 DEF TimeOfMsg
<1>3. /\ d \in Nat /\ s \in Nat /\ w \in Nat
      /\ s * FramesPerMessage * HostTick <= x
      /\ x + WindowFrames * HostTick <= (s + w) * FramesPerMessage * HostTick
  BY <1>1, <1>2, WindowArithmetic DEF WindowMessages
<1>4. /\ TimeOfMsg(h + s) = TimeOfMsg(h) + s * FramesPerMessage * HostTick
      /\ TimeOfMsg(h + s + w) = TimeOfMsg(h) + (s + w) * FramesPerMessage * HostTick
      /\ s * FramesPerMessage * HostTick \in Nat /\ WindowFrames * HostTick \in Nat
      /\ (s + w) * FramesPerMessage * HostTick \in Nat
  BY <1>3 DEF TimeOfMsg
<1>5. t = TimeOfMsg(h) + x
  BY <1>1, <1>2
<1>. QED BY <1>1, <1>2, <1>3, <1>4, <1>5

(***************************************************************************)
(* Types and places.                                                       *)
(***************************************************************************)

LEMMA BlankIs ==
  /\ Blank \in HostFragment /\ Blank.msgs = <<>> /\ Blank.why = "new"
<1>1. <<>> \in Seq(Nat)
  BY EmptySeq
<1>. QED BY <1>1 DEF Blank, HostFragment, Reasons

\* What a matcher fills its fragment with.
LEMMA MatchedIs ==
  ASSUME HostTypes, NEW l \in Links, NEW ms \in Seq(Nat), NEW fr \in Int,
         NEW y \in Reasons
  PROVE  /\ Matched(l, ms, fr, y) \in HostFragment
         /\ Matched(l, ms, fr, y).msgs = ms /\ Matched(l, ms, fr, y).front = fr
         /\ Matched(l, ms, fr, y).why = y
         /\ Matched(l, ms, fr, y).seqID = trigger.seqID
         /\ Matched(l, ms, fr, y).timestamp = trigger.timestamp
<1>1. trigger.seqID \in Int /\ trigger.timestamp \in Int
  BY RequestNumbers DEF HostTypes
<1>. QED BY <1>1 DEF Matched, HostFragment

\* ... when it has no data.
LEMMA NothingMatched ==
  ASSUME HostTypes, NEW l \in Links, NEW fr \in Int, NEW y \in {"empty", "none", "old", "late"}
  PROVE  /\ Matched(l, <<>>, fr, y) \in HostFragment /\ Matched(l, <<>>, fr, y).msgs = <<>>
         /\ Matched(l, <<>>, fr, y).why = y
         /\ Matched(l, <<>>, fr, y).seqID = trigger.seqID
         /\ Matched(l, <<>>, fr, y).timestamp = trigger.timestamp
<1>1. <<>> \in Seq(Nat) /\ y \in Reasons
  BY EmptySeq DEF Reasons
<1>2. trigger.seqID \in Int /\ trigger.timestamp \in Int
  BY RequestNumbers DEF HostTypes
<1>. QED BY <1>1, <1>2 DEF Matched, HostFragment

\* A request's window begins at a natural time.
LEMMA StartIs ==
  ASSUME NEW r \in Request
  PROVE  StartOf(r.timestamp) \in Nat
<1>1. r.timestamp \in Nat /\ r.timestamp >= OffsetFrames * HostTick
  BY HostNumbers DEF Request
<1>. QED BY <1>1, HostNumbers DEF StartOf

\* The matcher of link l skips s messages and fills f with ms, the last of them the
\* nth of the queue, which leaves a.
Cut(l, s, n, ms, f, a) ==
  /\ s = SkipCount(l) /\ n = s + WindowMessages
  /\ n <= Len(linkQ[l]) /\ WindowMessages \in Nat /\ WindowMessages >= 2
  /\ Len(ms) = WindowMessages /\ Last(ms) = linkQ[l][n]
  /\ \A i \in 1..WindowMessages : ms[i] = linkQ[l][s + i]
  /\ a = PopFront(PopFront(linkQ[l], s), WindowMessages)
  /\ Len(a) = Len(linkQ[l]) - n /\ \A i \in 1..Len(a) : a[i] = linkQ[l][n + i]
  /\ f.msgs = ms /\ f.front = linkQ[l][1] /\ f.why = "none"
  /\ f.seqID = trigger.seqID /\ f.timestamp = trigger.timestamp
  /\ filling' = [filling EXCEPT ![l] = f]
  /\ linkQ' = [linkQ EXCEPT ![l] = a]
  /\ TimeOfMsg(linkQ[l][1] + s) <= StartOf(trigger.timestamp)
  /\ StartOf(trigger.timestamp) + WindowFrames * HostTick <= TimeOfMsg(linkQ[l][1] + n)

\* The matcher cuts a window: what it copies, and what it leaves of the queue.
LEMMA CutIs ==
  ASSUME HostTypes, NEW l \in Links, CopyWindow(l)
  PROVE  \E s, n \in Nat, ms \in Seq(Nat), f \in HostFragment, a \in Seq(Nat) :
           Cut(l, s, n, ms, f, a)
<1>. USE HostNumbers
<1>1. PICK q, k : q = linkQ[l] /\ k = Len(linkQ[l])
  OBVIOUS
<1>2. /\ q \in Seq(Nat) /\ q # <<>> /\ k \in Nat /\ k > 0 /\ k = Len(q) /\ Head(q) = q[1]
      /\ \A i \in 1..k : q[i] \in Nat
  <2>1. q \in Seq(Nat) /\ q # <<>>
    BY <1>1 DEF HostTypes, CopyWindow, Requested
  <2>. QED BY <1>1, <2>1, LenProperties, ElementOfSeq, HeadTailProperties
<1>3. /\ trigger \in Request /\ TimeOfMsg(q[1]) <= StartOf(trigger.timestamp)
      /\ k >= WantedSize(l)
  BY <1>1, <1>2 DEF CopyWindow, Requested, HostTypes, FrontTime
<1>4. PICK h, t, d, s, w :
        /\ h = q[1] /\ t = StartOf(trigger.timestamp) /\ d = FramesToSkip(l)
        /\ s = SkipCount(l) /\ w = WindowMessages
  OBVIOUS
<1>5. h \in Nat /\ t \in Nat /\ TimeOfMsg(h) <= t
  BY <1>2, <1>3, <1>4, StartIs
<1>6. /\ d = (t - TimeOfMsg(h)) \div HostTick /\ s = d \div FramesPerMessage
  BY <1>1, <1>2, <1>4 DEF FramesToSkip, SkipCount, FrontTime
<1>7. /\ d \in Nat /\ s \in Nat /\ w \in Nat /\ TimeOfMsg(h + s) <= t
      /\ t + WindowFrames * HostTick <= TimeOfMsg(h + s + w)
  BY <1>4, <1>5, <1>6, WindowCut
<1>8. s + w <= k /\ w >= 2
  <2>1. k >= (d + WindowFrames) \div FramesPerMessage + SpareMessages
    BY <1>3, <1>4 DEF WantedSize
  <2>2. w = WindowFrames \div FramesPerMessage + 2 /\ WindowFrames \div FramesPerMessage \in Nat
    BY <1>4, DivBounds DEF WindowMessages
  <2>3. d \div FramesPerMessage + (WindowFrames \div FramesPerMessage + 2) <= k
    BY <1>2, <1>7, <2>1, WantedEnough
  <2>. QED BY <1>6, <2>2, <2>3
<1>9. PICK b, lb : b = PopFront(q, s) /\ lb = Len(PopFront(q, s))
  OBVIOUS
<1>10. /\ b \in Seq(Nat) /\ lb = k - s /\ lb = Len(b) /\ lb \in Nat /\ w <= lb
       /\ \A i \in 1..lb : b[i] = q[s + i]
  <2>1. /\ b \in Seq(Nat) /\ lb = Len(b) /\ lb \in Nat /\ (s <= Len(q) => lb = Len(q) - s)
        /\ \A i \in 1..lb : b[i] = q[s + i]
    BY <1>2, <1>7, <1>9, PopIs
  <2>2. s <= k /\ w <= k - s
    BY <1>2, <1>7, <1>8
  <2>. QED BY <1>2, <2>1, <2>2
<1>11. PICK ms, a : ms = SubSeq(b, 1, w) /\ a = PopFront(b, w)
  OBVIOUS
<1>12. /\ ms \in Seq(Nat) /\ Len(ms) = w /\ \A i \in 1..w : ms[i] = q[s + i]
  <2>1. \A i \in 1..w : b[i] \in Nat
    BY <1>7, <1>10, QueueNumbers
  <2>2. /\ SubSeq(b, 1, w) \in Seq(Nat) /\ Len(SubSeq(b, 1, w)) = w
        /\ \A i \in 1..w : SubSeq(b, 1, w)[i] = b[i]
    BY <1>7, <1>8, <2>1, SubSeqProperties
  <2>3. \A i \in 1..w : i \in 1..lb
    BY <1>7, <1>10
  <2>. QED BY <1>10, <1>11, <2>2, <2>3
<1>13. Last(ms) = q[s + w]
  BY <1>7, <1>8, <1>12 DEF Last
<1>14. /\ a \in Seq(Nat) /\ Len(a) = k - (s + w) /\ \A i \in 1..Len(a) : a[i] = q[(s + w) + i]
  <2>1. /\ a \in Seq(Nat) /\ Len(a) \in Nat /\ (w <= Len(b) => Len(a) = Len(b) - w)
        /\ \A i \in 1..Len(a) : a[i] = b[w + i] /\ w + i \in 1..Len(b)
    <3>1. w \in Nat /\ b \in Seq(Nat) /\ a = PopFront(b, w)
      BY <1>7, <1>10, <1>11
    <3>. QED BY <3>1, PopIs
  <2>2. ASSUME NEW i \in 1..Len(a) PROVE a[i] = q[s + (w + i)]
    <3>1. a[i] = b[w + i] /\ w + i \in 1..lb
      BY <1>10, <2>1
    <3>. QED BY <1>10, <3>1
  <2>3. \A i \in Nat : s + (w + i) = (s + w) + i
    BY <1>7
  <2>4. Len(a) = k - (s + w)
    <3>1. Len(b) = k - s /\ w <= Len(b)
      BY <1>10
    <3>2. Len(a) = (k - s) - w
      BY <2>1, <3>1
    <3>. QED BY <1>2, <1>7, <3>2
  <2>5. \A i \in 1..Len(a) : a[i] = q[(s + w) + i]
    BY <2>1, <2>2, <2>3
  <2>. QED BY <2>1, <2>4, <2>5
<1>15. PICK f : f = Matched(l, ms, q[1], "none")
  OBVIOUS
<1>16. /\ f \in HostFragment /\ f.msgs = ms /\ f.front = q[1] /\ f.why = "none"
       /\ f.seqID = trigger.seqID /\ f.timestamp = trigger.timestamp
  <2>1. "none" \in Reasons /\ q[1] \in Int
    BY <1>2 DEF Reasons
  <2>. QED BY <1>12, <1>15, <2>1, MatchedIs
<1>17. filling' = [filling EXCEPT ![l] = f] /\ linkQ' = [linkQ EXCEPT ![l] = a]
  BY <1>1, <1>2, <1>4, <1>9, <1>11, <1>15 DEF CopyWindow, FunctorReturns
<1>18. PICK n : n = s + w
  OBVIOUS
<1>19. n \in Nat /\ h + s + w = h + n
  BY <1>5, <1>7, <1>18
<1>20. a = PopFront(PopFront(linkQ[l], s), WindowMessages)
  BY <1>1, <1>4, <1>9, <1>11
<1>21. Cut(l, s, n, ms, f, a)
  BY <1>1, <1>4, <1>7, <1>8, <1>12, <1>13, <1>14, <1>16, <1>17, <1>18, <1>19, <1>20 DEF Cut
<1>. QED BY <1>7, <1>12, <1>14, <1>16, <1>19, <1>21

\* Four fifths of a queue are no more than the queue, and are its front.
LEMMA CulledAre ==
  ASSUME NEW q \in Seq(Nat), NEW n,
         n = IF 2 * Len(q) > LinkRoom THEN (8 * Len(q)) \div 10 ELSE 0
  PROVE  /\ n \in Nat /\ n <= Len(q)
         /\ ToSet(SubSeq(q, 1, n)) \subseteq Nat
         /\ \A i \in 1..n : q[i] \in ToSet(SubSeq(q, 1, n))
<1>1. Len(q) \in Nat /\ \A i \in 1..Len(q) : q[i] \in Nat
  BY QueueNumbers
<1>2. n \in Nat /\ n <= Len(q)
  <2>1. PICK k : k = Len(q)
    OBVIOUS
  <2>2. PICK d : d = (8 * k) \div 10
    OBVIOUS
  <2>3. k \in Nat /\ 8 * k \in Nat
    BY <1>1, <2>1
  <2>4. d \in Nat /\ 10 * d <= 8 * k
    BY <2>2, <2>3, DivBounds
  <2>. QED BY <2>1, <2>2, <2>3, <2>4
<1>3. \A i \in 1..n : q[i] \in Nat
  BY <1>1, <1>2
<1>4. PICK a : a = SubSeq(q, 1, n)
  OBVIOUS
<1>5. a \in Seq(Nat) /\ Len(a) = n /\ \A i \in 1..n : a[i] = q[i]
  BY <1>2, <1>3, <1>4, SubSeqProperties
<1>6. DOMAIN a = 1..n /\ \A i \in 1..n : a[i] \in Nat
  BY <1>3, <1>5, LenProperties
<1>. QED BY <1>2, <1>4, <1>5, <1>6 DEF ToSet

\* A functor that gives no data.
NoData(l) == EmptyQueue(l) \/ WithoutTrigger(l) \/ OldRequest(l) \/ LateData(l)

Without(l, f, n) ==
  /\ filling' = [filling EXCEPT ![l] = f]
  /\ f.msgs = <<>> /\ f.why \in {"empty", "none", "old", "late"}
  /\ f.seqID = trigger.seqID /\ f.timestamp = trigger.timestamp
  /\ f.why = "old" => OldRequest(l)
  /\ linkQ' = linkQ \/ linkQ' = [linkQ EXCEPT ![l] = PopFront(linkQ[l], n)]

LEMMA NoDataIs ==
  ASSUME HostTypes, NEW l \in Links, NoData(l)
  PROVE  \E f \in HostFragment, n \in Nat : Without(l, f, n)
<1>1. -1 \in Int
  OBVIOUS
<1>2. linkQ[l] \in Seq(Nat)
  BY DEF HostTypes
<1>3. linkQ[l] # <<>> => Head(linkQ[l]) \in Int
  BY <1>2, HeadTailProperties
<1>4. CASE EmptyQueue(l)
  <2>1. PICK f : f = Matched(l, <<>>, -1, "empty")
    OBVIOUS
  <2>2. filling' = [filling EXCEPT ![l] = f] /\ linkQ' = linkQ
    BY <1>4, <2>1 DEF EmptyQueue, FunctorReturns
  <2>3. /\ f \in HostFragment /\ f.msgs = <<>> /\ f.why = "empty"
        /\ f.seqID = trigger.seqID /\ f.timestamp = trigger.timestamp
    BY <1>1, <2>1, NothingMatched
  <2>4. Without(l, f, 0)
    BY <2>2, <2>3 DEF Without
  <2>. QED BY <2>3, <2>4
<1>5. CASE WithoutTrigger(l)
  <2>1. PICK f : f = Matched(l, <<>>, -1, "none")
    OBVIOUS
  <2>2. PICK n : n = IF 2 * Len(linkQ[l]) > LinkRoom THEN (8 * Len(linkQ[l])) \div 10 ELSE 0
    OBVIOUS
  <2>3. n \in Nat
    BY <1>2, <2>2, CulledAre
  <2>4. filling' = [filling EXCEPT ![l] = f] /\ linkQ' = [linkQ EXCEPT ![l] = PopFront(linkQ[l], n)]
    BY <1>5, <2>1, <2>2 DEF WithoutTrigger, FunctorReturns
  <2>5. /\ f \in HostFragment /\ f.msgs = <<>> /\ f.why = "none"
        /\ f.seqID = trigger.seqID /\ f.timestamp = trigger.timestamp
    BY <1>1, <2>1, NothingMatched
  <2>6. Without(l, f, n)
    BY <2>4, <2>5 DEF Without
  <2>. QED BY <2>3, <2>5, <2>6
<1>6. CASE OldRequest(l)
  <2>1. PICK f : f = Matched(l, <<>>, Head(linkQ[l]), "old")
    OBVIOUS
  <2>2. filling' = [filling EXCEPT ![l] = f] /\ linkQ' = linkQ /\ linkQ[l] # <<>>
    BY <1>6, <2>1 DEF OldRequest, Requested, FunctorReturns
  <2>3. /\ f \in HostFragment /\ f.msgs = <<>> /\ f.why = "old"
        /\ f.seqID = trigger.seqID /\ f.timestamp = trigger.timestamp
    BY <1>1, <1>3, <2>1, <2>2, NothingMatched
  <2>4. Without(l, f, 0)
    BY <1>6, <2>2, <2>3 DEF Without
  <2>. QED BY <2>3, <2>4
<1>7. CASE LateData(l)
  <2>1. PICK f : f = Matched(l, <<>>, Head(linkQ[l]), "late")
    OBVIOUS
  <2>2. filling' = [filling EXCEPT ![l] = f] /\ linkQ' = linkQ /\ linkQ[l] # <<>>
    BY <1>7, <2>1 DEF LateData, Requested, FunctorReturns
  <2>3. /\ f \in HostFragment /\ f.msgs = <<>> /\ f.why = "late"
        /\ f.seqID = trigger.seqID /\ f.timestamp = trigger.timestamp
    BY <1>1, <1>3, <2>1, <2>2, NothingMatched
  <2>4. Without(l, f, 0)
    BY <2>2, <2>3 DEF Without
  <2>. QED BY <2>3, <2>4
<1>. QED BY <1>4, <1>5, <1>6, <1>7 DEF NoData

\* The steps that make and take no data, of the artdaq thread and of the others.
HostQuiet ==
  \/ HostStart \/ HostStop \/ StopHostRequests \/ JoinHostRequests \/ ReceiverSteps
  \/ \E l \in Links : MatcherIdle(l)

LEMMA HostCases ==
  ASSUME [HostNext]_hostVars
  PROVE  \/ HostQuiet \/ UNCHANGED hostVars \/ TakeTrigger \/ OfferLink \/ EventDone
         \/ \E l \in Links : Dispatch(l) \/ NoData(l) \/ CopyWindow(l)
BY DEF HostNext, HostQuiet, NoData, FunctorOf

LEMMA QuietLeaves ==
  ASSUME HostQuiet \/ UNCHANGED hostVars
  PROVE  UNCHANGED <<offering, trigger, filling, events, linkQ, produced, refusedMsgs, culled>>
BY DEF HostQuiet, HostStart, HostStop, StopHostRequests, JoinHostRequests, ReceiverSteps,
       MatcherIdle, hostVars, linkData, hostFlow

LEMMA WorkLeaves ==
  ASSUME NEW l \in Links, Dispatch(l) \/ NoData(l) \/ CopyWindow(l)
  PROVE  UNCHANGED <<rqpc, rqStop, reqQ, lastReq, hostAt, offering, trigger, events>>
BY DEF Dispatch, NoData, CopyWindow, EmptyQueue, WithoutTrigger, OldRequest, LateData,
       FunctorReturns, hostFlow, requests

LEMMA FunctorLeaves ==
  ASSUME NEW l \in Links, NoData(l) \/ CopyWindow(l)
  PROVE  /\ UNCHANGED <<produced, refusedMsgs>>
         /\ matchers[l] = "works" /\ matchers' = [matchers EXCEPT ![l] = "clears"]
         /\ WithoutTrigger(l) \/ culled' = culled
BY DEF NoData, CopyWindow, EmptyQueue, WithoutTrigger, OldRequest, LateData, Requested,
       FunctorReturns

LEMMA EventAppended ==
  ASSUME HostTypes, EventDone
  PROVE  \E e \in Event, n \in Nat :
           /\ e.trigger = trigger /\ e.frags = filling
           /\ n = Len(events) /\ Len(events') = n + 1 /\ events'[n + 1] = e
           /\ \A i \in 1..n : events'[i] = events[i]
           /\ events' \in Seq(Event)
<1>1. PICK e : e = [trigger |-> trigger, frags |-> filling]
  OBVIOUS
<1>2. e \in Event /\ e.trigger = trigger /\ e.frags = filling
  BY <1>1 DEF HostTypes, Event
<1>3. events' = Append(events, e) /\ events \in Seq(Event)
  BY <1>1 DEF EventDone, HostTypes
<1>4. PICK n : n = Len(events)
  OBVIOUS
<1>5. /\ n \in Nat /\ Len(events') = n + 1 /\ events'[n + 1] = e /\ events' \in Seq(Event)
      /\ \A i \in 1..n : events'[i] = events[i]
  BY <1>2, <1>3, <1>4, AppendProperties, LenProperties
<1>. QED BY <1>2, <1>4, <1>5

LEMMA RequestSteps ==
  ASSUME HostTypes, [HostNext]_hostVars
  PROVE  StartReceiver \/ SignalReceiver \/ Ends \/ Arrives \/ RemoveRequest \/ UNCHANGED requests
<1>1. CASE HostQuiet
  BY <1>1 DEF HostQuiet, HostStart, HostStop, StopHostRequests, JoinHostRequests, ReceiverSteps,
              MatcherIdle, requests
<1>2. CASE UNCHANGED hostVars
  BY <1>2 DEF hostVars, requests
<1>3. CASE TakeTrigger
  BY <1>3 DEF TakeTrigger
<1>4. CASE OfferLink \/ EventDone
  BY <1>4 DEF OfferLink, EventDone, requests
<1>5. CASE \E l \in Links : Dispatch(l) \/ NoData(l) \/ CopyWindow(l)
  BY <1>5, WorkLeaves DEF requests
<1>. QED BY <1>1, <1>2, <1>3, <1>4, <1>5, HostCases

LEMMA HostTyped ==
  ASSUME HostTypes, MatchersPlaced, [HostNext]_hostVars
  PROVE  HostTypes'
<1>1. RequestTypes'
  <2>1. RequestTypes
    BY DEF HostTypes
  <2>2. CASE UNCHANGED requests
    BY <2>1, <2>2 DEF RequestTypes, requests
  <2>. QED BY <2>1, <2>2, RequestSteps, ReceiverKeeps, RemoveKeeps, ArrivesKeeps
<1>2. CASE HostQuiet
  <2>1. matchers' \in [Links -> {"idle", "works", "clears"}] /\ hostAt' \in {"stopped", "between", "offer", "busy", "join"}
    BY <1>2 DEF HostQuiet, HostStart, HostStop, StopHostRequests, JoinHostRequests, ReceiverSteps,
                MatcherIdle, hostFlow, HostTypes
  <2>. QED BY <1>1, <1>2, <2>1, QuietLeaves DEF HostTypes
<1>3. CASE UNCHANGED hostVars
  BY <1>1, <1>3 DEF HostTypes, hostVars
<1>4. CASE TakeTrigger
  <2>1. trigger' \in Request \cup {NoRequest}
    BY <1>4, RemoveKeeps DEF TakeTrigger, HostTypes
  <2>. QED BY <1>1, <1>4, <2>1, BlankIs DEF TakeTrigger, HostTypes, linkData
<1>5. CASE OfferLink
  <2>1. filling' \in [Links -> HostFragment]
    <3>1. CASE filling' = filling
      BY <3>1 DEF HostTypes
    <3>2. CASE filling' = [filling EXCEPT ![offering].why = "refused"]
      <4>1. offering \in Links /\ filling[offering] \in HostFragment /\ "refused" \in Reasons
        BY <1>5 DEF OfferLink, MatchersPlaced, HostTypes, Reasons
      <4>2. [filling[offering] EXCEPT !.why = "refused"] \in HostFragment
        BY <4>1 DEF HostFragment
      <4>. QED BY <3>2, <4>1, <4>2 DEF HostTypes
    <3>. QED BY <1>5, <3>1, <3>2 DEF OfferLink
  <2>2. matchers' \in [Links -> {"idle", "works", "clears"}] /\ hostAt' \in {"busy", "offer"} /\ offering' \in Nat
    BY <1>5 DEF OfferLink, HostTypes
  <2>. QED BY <1>1, <1>5, <2>1, <2>2 DEF OfferLink, HostTypes, linkData
<1>6. CASE EventDone
  <2>1. events' \in Seq(Event)
    BY <1>6, EventAppended
  <2>. QED BY <1>1, <1>6, <2>1, BlankIs DEF EventDone, HostTypes, linkData
<1>7. ASSUME NEW l \in Links, Dispatch(l) PROVE HostTypes'
  <2>1. /\ linkQ[l] \in Seq(Nat) /\ produced[l] \in Nat /\ refusedMsgs[l] \subseteq Nat
        /\ Append(linkQ[l], produced[l]) \in Seq(Nat) /\ produced[l] + 1 \in Nat
    BY AppendProperties DEF HostTypes
  <2>2. /\ linkQ' \in [Links -> Seq(Nat)] /\ produced' \in [Links -> Nat]
        /\ refusedMsgs' \in [Links -> SUBSET Nat]
    <3>1. PICK a, m, R :
            /\ a = Append(linkQ[l], produced[l]) /\ m = produced[l] + 1
            /\ R = refusedMsgs[l] \cup {produced[l]}
      OBVIOUS
    <3>2. a \in Seq(Nat) /\ m \in Nat /\ R \in SUBSET Nat
      BY <2>1, <3>1
    <3>3. /\ produced' = [produced EXCEPT ![l] = m]
          /\ linkQ' = linkQ \/ linkQ' = [linkQ EXCEPT ![l] = a]
          /\ refusedMsgs' = refusedMsgs \/ refusedMsgs' = [refusedMsgs EXCEPT ![l] = R]
      BY <1>7, <3>1 DEF Dispatch
    <3>. QED BY <3>2, <3>3 DEF HostTypes
  <2>3. UNCHANGED <<matchers, filling, culled>>
    BY <1>7 DEF Dispatch
  <2>. QED BY <1>1, <1>7, <2>2, <2>3, WorkLeaves DEF HostTypes
<1>8. ASSUME NEW l \in Links, NoData(l) \/ CopyWindow(l) PROVE HostTypes'
  <2>1. filling' \in [Links -> HostFragment] /\ linkQ' \in [Links -> Seq(Nat)]
    <3>1. CASE NoData(l)
      <4>1. PICK f \in HostFragment, n \in Nat : Without(l, f, n)
        BY <3>1, NoDataIs
      <4>2. PopFront(linkQ[l], n) \in Seq(Nat)
        BY PopIs DEF HostTypes
      <4>. QED BY <4>1, <4>2 DEF Without, HostTypes
    <3>2. CASE CopyWindow(l)
      <4>1. PICK s, n \in Nat, ms \in Seq(Nat), f \in HostFragment, a \in Seq(Nat) :
              Cut(l, s, n, ms, f, a)
        BY <3>2, CutIs
      <4>. QED BY <4>1 DEF Cut, HostTypes
    <3>. QED BY <1>8, <3>1, <3>2
  <2>2. matchers' \in [Links -> {"idle", "works", "clears"}]
    BY <1>8, FunctorLeaves DEF HostTypes
  <2>3. culled' \in [Links -> SUBSET Nat]
    <3>1. CASE WithoutTrigger(l)
      <4>1. PICK n : culled' = [culled EXCEPT ![l] = @ \cup ToSet(SubSeq(linkQ[l], 1, n))]
                     /\ n = IF 2 * Len(linkQ[l]) > LinkRoom THEN (8 * Len(linkQ[l])) \div 10 ELSE 0
        BY <3>1 DEF WithoutTrigger
      <4>2. ToSet(SubSeq(linkQ[l], 1, n)) \subseteq Nat
        <5>1. linkQ[l] \in Seq(Nat)
          BY DEF HostTypes
        <5>. QED BY <4>1, <5>1, CulledAre
      <4>. QED BY <4>1, <4>2 DEF HostTypes
    <3>. QED BY <1>8, <3>1, FunctorLeaves DEF HostTypes
  <2>. QED BY <1>1, <1>8, <2>1, <2>2, <2>3, WorkLeaves, FunctorLeaves DEF HostTypes
<1>. QED BY <1>2, <1>3, <1>4, <1>5, <1>6, <1>7, <1>8, HostCases

LEMMA PlacesKept ==
  ASSUME HostTypes, MatchersPlaced, [HostNext]_hostVars
  PROVE  MatchersPlaced'
<1>1. CASE UNCHANGED hostVars
  BY <1>1 DEF hostVars, MatchersPlaced, Offered
<1>2. CASE HostQuiet
  <2>1. \/ hostAt' = hostAt /\ matchers' = matchers
        \/ hostAt' = hostAt /\ \E l \in Links : MatcherIdle(l)
        \/ /\ hostAt \in {"stopped", "between", "join"} /\ hostAt' \in {"stopped", "between", "join"}
           /\ matchers' = matchers
    BY <1>2 DEF HostQuiet, HostStart, HostStop, StopHostRequests, JoinHostRequests, ReceiverSteps,
                MatcherIdle, hostFlow
  <2>2. UNCHANGED <<offering, filling>>
    BY <1>2, QuietLeaves
  <2>3. \A l \in Links : /\ matchers'[l] = "works" => matchers[l] = "works"
                         /\ matchers'[l] # "works" => matchers[l] # "works"
    BY <2>1 DEF MatcherIdle, HostTypes
  <2>4. hostAt' = "offer" => hostAt = "offer"
    BY <2>1
  <2>5. \A l \in Links : Offered(l)' <=> Offered(l)
    BY <2>1, <2>2 DEF Offered
  <2>. QED BY <2>2, <2>3, <2>4, <2>5 DEF MatchersPlaced
<1>3. CASE TakeTrigger
  <2>1. \A l \in Links : ~Offered(l)
    BY <1>3 DEF TakeTrigger, Offered
  <2>2. /\ matchers' = matchers /\ offering' = 1 /\ hostAt' = "offer"
        /\ \A l \in Links : filling'[l] = Blank
    BY <1>3 DEF TakeTrigger
  <2>3. 1 \in Links /\ \A l \in Links : ~(l < 1)
    BY HostNumbers DEF Links
  <2>4. \A l \in Links : ~Offered(l)'
    BY <2>2, <2>3 DEF Offered
  <2>. QED BY <2>1, <2>2, <2>3, <2>4 DEF MatchersPlaced
<1>4. CASE OfferLink
  <2>1. /\ offering \in Links /\ offering' = offering + 1 /\ hostAt = "offer"
        /\ hostAt' = IF offering = NumLinks THEN "busy" ELSE "offer"
    BY <1>4 DEF OfferLink, MatchersPlaced
  <2>2. \A l \in Links : l \in Nat /\ l <= NumLinks /\ (l < offering + 1 <=> l < offering \/ l = offering)
    BY <2>1, HostNumbers DEF Links
  <2>3. hostAt' = "offer" => offering' \in Links
    BY <2>1, <2>2, HostNumbers DEF Links
  <2>4. \A l \in Links : Offered(l)' <=> Offered(l) \/ l = offering
    <3>1. CASE offering = NumLinks
      <4>1. \A l \in Links : l < offering \/ l = offering
        BY <2>1, <2>2, <3>1, HostNumbers DEF Links
      <4>. QED BY <2>1, <3>1, <4>1 DEF Offered
    <3>2. CASE offering # NumLinks
      BY <2>1, <2>2, <3>2 DEF Offered
    <3>. QED BY <3>1, <3>2
  <2>5. ~Offered(offering) /\ filling[offering] = Blank /\ matchers[offering] # "works"
    <3>1. ~Offered(offering)
      BY <2>1, <2>2 DEF Offered
    <3>. QED BY <2>1, <3>1 DEF MatchersPlaced
  <2>6. \A l \in Links : l # offering => matchers'[l] = matchers[l] /\ filling'[l] = filling[l]
    BY <1>4 DEF OfferLink, HostTypes
  <2>7. CASE matchers[offering] = "idle"
    <3>1. matchers'[offering] = "works" /\ filling'[offering] = Blank
      BY <1>4, <2>1, <2>5, <2>7 DEF OfferLink, HostTypes
    <3>. QED BY <2>3, <2>4, <2>6, <3>1 DEF MatchersPlaced
  <2>8. CASE matchers[offering] # "idle"
    <3>1. filling[offering] \in HostFragment
      BY <2>1 DEF HostTypes
    <3>2. filling'[offering] = [filling[offering] EXCEPT !.why = "refused"]
      BY <1>4, <2>1, <2>8 DEF OfferLink, HostTypes
    <3>3. matchers'[offering] # "works" /\ filling'[offering].why = "refused"
      BY <1>4, <2>5, <2>8, <3>1, <3>2 DEF OfferLink, HostFragment
    <3>. QED BY <2>3, <2>4, <2>6, <3>3 DEF MatchersPlaced
  <2>. QED BY <2>7, <2>8
<1>5. CASE EventDone
  <2>1. /\ \A l \in Links : matchers'[l] # "works" /\ filling'[l] = Blank
        /\ hostAt' = "between"
    BY <1>5 DEF EventDone, NoneBusy
  <2>. QED BY <2>1 DEF MatchersPlaced, Offered
<1>6. ASSUME NEW l \in Links, Dispatch(l) PROVE MatchersPlaced'
  <2>1. UNCHANGED <<matchers, filling, hostAt, offering>>
    BY <1>6, WorkLeaves DEF Dispatch
  <2>. QED BY <2>1 DEF MatchersPlaced, Offered
<1>7. ASSUME NEW l \in Links, NoData(l) \/ CopyWindow(l) PROVE MatchersPlaced'
  <2>1. PICK f \in HostFragment : filling' = [filling EXCEPT ![l] = f] /\ f.why # "new"
    <3>1. CASE NoData(l)
      BY <3>1, NoDataIs DEF Without
    <3>2. CASE CopyWindow(l)
      BY <3>2, CutIs DEF Cut
    <3>. QED BY <1>7, <3>1, <3>2
  <2>2. /\ filling'[l].why # "new" /\ matchers[l] = "works" /\ matchers'[l] # "works"
        /\ \A k \in Links : k # l => filling'[k] = filling[k] /\ matchers'[k] = matchers[k]
    BY <1>7, <2>1, FunctorLeaves DEF HostTypes
  <2>3. UNCHANGED <<hostAt, offering>>
    BY <1>7, WorkLeaves
  <2>4. \A k \in Links : Offered(k)' <=> Offered(k)
    BY <2>3 DEF Offered
  <2>5. Offered(l)
    BY <2>2 DEF MatchersPlaced
  <2>. QED BY <2>2, <2>3, <2>4, <2>5 DEF MatchersPlaced
<1>. QED BY <1>1, <1>2, <1>3, <1>4, <1>5, <1>6, <1>7, HostCases

LEMMA TriggersKept ==
  ASSUME HostTypes, TriggersInOrder, [HostNext]_hostVars
  PROVE  TriggersInOrder'
<1>1. RequestTypes /\ InOrder(reqQ, lastReq) /\ trigger \in Request \cup {NoRequest}
  BY DEF HostTypes, TriggersInOrder
<1>2. /\ InOrder(reqQ', lastReq')
      /\ \A r \in Request \cup {NoRequest} : Past(r, reqQ, lastReq) => Past(r, reqQ', lastReq')
  BY <1>1, RequestSteps, OrderStays
<1>3. \A i \in 1..Len(events) : /\ events[i].trigger \in Request \cup {NoRequest}
                                /\ Past(events[i].trigger, reqQ, lastReq)
                                /\ Past(events[i].trigger, reqQ', lastReq')
  <2>1. \A i \in 1..Len(events) : events[i].trigger \in Request \cup {NoRequest}
    <3>1. \A i \in 1..Len(events) : events[i] \in Event
      BY ElementOfSeq DEF HostTypes
    <3>. QED BY <3>1 DEF Event
  <2>. QED BY <1>2, <2>1 DEF TriggersInOrder
<1>4. Past(trigger, reqQ', lastReq')
  BY <1>1, <1>2 DEF TriggersInOrder
<1>5. ASSUME UNCHANGED <<trigger, events>>, hostAt' \in {"offer", "busy"} => hostAt \in {"offer", "busy"}
      PROVE  TriggersInOrder'
  BY <1>2, <1>3, <1>4, <1>5 DEF TriggersInOrder
<1>6. CASE HostQuiet \/ UNCHANGED hostVars
  <2>1. hostAt' \in {"offer", "busy"} => hostAt \in {"offer", "busy"}
    BY <1>6 DEF HostQuiet, HostStart, HostStop, StopHostRequests, JoinHostRequests, ReceiverSteps,
                MatcherIdle, hostFlow, hostVars
  <2>. QED BY <1>5, <1>6, <2>1, QuietLeaves
<1>7. CASE OfferLink
  BY <1>5, <1>7 DEF OfferLink
<1>8. CASE \E l \in Links : Dispatch(l) \/ NoData(l) \/ CopyWindow(l)
  BY <1>5, <1>8, WorkLeaves
<1>9. CASE TakeTrigger
  <2>1. trigger' = NextRequest /\ RemoveRequest /\ events' = events
    BY <1>9 DEF TakeTrigger
  <2>2. Past(NextRequest, reqQ', lastReq')
    BY <1>1, <2>1, NextInOrder
  <2>3. NextRequest # NoRequest => \A i \in 1..Len(events) : Newer(events[i].trigger, NextRequest)
    BY <1>1, <1>3, <2>1, NextInOrder
  <2>. QED BY <1>2, <1>3, <2>1, <2>2, <2>3 DEF TriggersInOrder
<1>10. CASE EventDone
  <2>1. PICK e \in Event, n \in Nat :
          /\ e.trigger = trigger /\ e.frags = filling
          /\ n = Len(events) /\ Len(events') = n + 1 /\ events'[n + 1] = e
          /\ \A i \in 1..n : events'[i] = events[i]
    BY <1>10, EventAppended
  <2>2. \A i \in 1..Len(events') : i \in 1..n \/ i = n + 1
    BY <2>1
  <2>3. \A i \in 1..Len(events') : Past(events'[i].trigger, reqQ', lastReq')
    BY <1>3, <1>4, <2>1, <2>2
  <2>4. trigger' = trigger /\ hostAt' = "between" /\ hostAt = "busy"
    BY <1>10 DEF EventDone
  <2>5. ASSUME NEW i \in 1..Len(events'), NEW j \in 1..Len(events'), i < j,
               events'[j].trigger # NoRequest
        PROVE  Newer(events'[i].trigger, events'[j].trigger)
    <3>1. i \in 1..n
      BY <2>1, <2>5
    <3>2. CASE j \in 1..n
      BY <2>1, <2>5, <3>1, <3>2 DEF TriggersInOrder
    <3>3. CASE j = n + 1
      BY <2>1, <2>4, <2>5, <3>1, <3>3 DEF TriggersInOrder
    <3>. QED BY <2>2, <3>2, <3>3
  <2>. QED BY <1>2, <1>4, <2>3, <2>4, <2>5 DEF TriggersInOrder
<1>. QED BY <1>6, <1>7, <1>8, <1>9, <1>10, HostCases

(***************************************************************************)
(* The queues and the data.                                                *)
(***************************************************************************)

LEMMA QueuesKept ==
  ASSUME HostTypes, QueuesRight, [HostNext]_hostVars
  PROVE  QueuesRight'
<1>1. CASE UNCHANGED <<linkQ, produced, refusedMsgs>>
  BY <1>1 DEF QueuesRight
<1>2. ASSUME NEW l \in Links,
             \A k \in Links : k # l => /\ linkQ'[k] = linkQ[k] /\ produced'[k] = produced[k]
                                       /\ refusedMsgs'[k] = refusedMsgs[k],
             LinkRight(linkQ'[l], produced'[l], refusedMsgs'[l])
      PROVE  QueuesRight'
  BY <1>2 DEF QueuesRight
<1>3. \A l \in Links : /\ linkQ[l] \in Seq(Nat) /\ produced[l] \in Nat /\ refusedMsgs[l] \in SUBSET Nat
                       /\ LinkRight(linkQ[l], produced[l], refusedMsgs[l])
  BY DEF HostTypes, QueuesRight
<1>4. ASSUME NEW l \in Links, Dispatch(l) PROVE QueuesRight'
  <2>1. \/ /\ linkQ' = [linkQ EXCEPT ![l] = Append(linkQ[l], produced[l])] /\ refusedMsgs' = refusedMsgs
        \/ /\ refusedMsgs' = [refusedMsgs EXCEPT ![l] = refusedMsgs[l] \cup {produced[l]}]
           /\ linkQ' = linkQ
    BY <1>4 DEF Dispatch
  <2>2. produced' = [produced EXCEPT ![l] = produced[l] + 1]
    BY <1>4 DEF Dispatch
  <2>3. /\ \A k \in Links : k # l => /\ linkQ'[k] = linkQ[k] /\ produced'[k] = produced[k]
                                     /\ refusedMsgs'[k] = refusedMsgs[k]
        /\ produced'[l] = produced[l] + 1
        /\ \/ linkQ'[l] = Append(linkQ[l], produced[l]) /\ refusedMsgs'[l] = refusedMsgs[l]
           \/ refusedMsgs'[l] = refusedMsgs[l] \cup {produced[l]} /\ linkQ'[l] = linkQ[l]
    BY <2>1, <2>2 DEF HostTypes
  <2>4. CASE linkQ'[l] = Append(linkQ[l], produced[l]) /\ refusedMsgs'[l] = refusedMsgs[l]
    <3>1. LinkRight(Append(linkQ[l], produced[l]), produced[l] + 1, refusedMsgs[l])
      BY <1>3, RightAppended
    <3>. QED BY <1>2, <2>3, <2>4, <3>1
  <2>5. CASE linkQ'[l] = linkQ[l] /\ refusedMsgs'[l] = refusedMsgs[l] \cup {produced[l]}
    <3>1. LinkRight(linkQ[l], produced[l] + 1, refusedMsgs[l] \cup {produced[l]})
      BY <1>3, RightRefused
    <3>. QED BY <1>2, <2>3, <2>5, <3>1
  <2>. QED BY <2>3, <2>4, <2>5
<1>5. ASSUME NEW l \in Links, NoData(l) PROVE QueuesRight'
  <2>1. PICK n \in Nat : linkQ' = linkQ \/ linkQ' = [linkQ EXCEPT ![l] = PopFront(linkQ[l], n)]
    BY <1>5, NoDataIs DEF Without
  <2>2. UNCHANGED <<produced, refusedMsgs>>
    BY <1>5, FunctorLeaves
  <2>3. CASE linkQ' = [linkQ EXCEPT ![l] = PopFront(linkQ[l], n)]
    <3>1. /\ \A k \in Links : k # l => linkQ'[k] = linkQ[k]
          /\ linkQ'[l] = PopFront(linkQ[l], n)
      BY <2>3 DEF HostTypes
    <3>2. LinkRight(linkQ'[l], produced'[l], refusedMsgs'[l])
      BY <1>3, <2>2, <3>1, RightPopped
    <3>. QED BY <1>2, <2>2, <3>1, <3>2
  <2>. QED BY <1>1, <2>1, <2>2, <2>3
<1>6. ASSUME NEW l \in Links, CopyWindow(l) PROVE QueuesRight'
  <2>1. PICK s, n \in Nat, ms \in Seq(Nat), f \in HostFragment, a \in Seq(Nat) :
          Cut(l, s, n, ms, f, a)
    BY <1>6, CutIs
  <2>2. UNCHANGED <<produced, refusedMsgs>>
    BY <1>6, FunctorLeaves
  <2>3. PICK b : b = PopFront(linkQ[l], s)
    OBVIOUS
  <2>4. b \in Seq(Nat) /\ LinkRight(b, produced[l], refusedMsgs[l])
    BY <1>3, <2>3, PopIs, RightPopped
  <2>5. a = PopFront(b, WindowMessages) /\ WindowMessages \in Nat
    BY <2>1, <2>3 DEF Cut
  <2>6. LinkRight(a, produced[l], refusedMsgs[l])
    BY <1>3, <2>4, <2>5, RightPopped
  <2>7. linkQ'[l] = a /\ \A k \in Links : k # l => linkQ'[k] = linkQ[k]
    BY <2>1 DEF Cut, HostTypes
  <2>. QED BY <1>2, <2>2, <2>6, <2>7
<1>7. CASE HostQuiet \/ UNCHANGED hostVars \/ TakeTrigger \/ OfferLink \/ EventDone
  <2>1. UNCHANGED <<linkQ, produced, refusedMsgs>>
    BY <1>7, QuietLeaves DEF TakeTrigger, OfferLink, EventDone, linkData
  <2>. QED BY <1>1, <2>1
<1>. QED BY <1>4, <1>5, <1>6, <1>7, HostCases

\* Nothing refused, culled or produced is ever not.
LEMMA OnlyMore ==
  ASSUME HostTypes, [HostNext]_hostVars, NEW l \in Links
  PROVE  /\ refusedMsgs[l] \subseteq refusedMsgs'[l] /\ culled[l] \subseteq culled'[l]
         /\ produced[l] <= produced'[l]
<1>1. produced[l] \in Nat
  BY DEF HostTypes
<1>2. CASE \E k \in Links : Dispatch(k)
  BY <1>1, <1>2 DEF Dispatch, HostTypes
<1>3. CASE \E k \in Links : NoData(k) \/ CopyWindow(k)
  <2>1. PICK k \in Links : NoData(k) \/ CopyWindow(k)
    BY <1>3
  <2>2. UNCHANGED <<produced, refusedMsgs>> /\ (WithoutTrigger(k) \/ culled' = culled)
    BY <2>1, FunctorLeaves
  <2>3. culled[l] \subseteq culled'[l]
    BY <2>2 DEF WithoutTrigger, HostTypes
  <2>. QED BY <1>1, <2>2, <2>3
<1>4. CASE HostQuiet \/ UNCHANGED hostVars \/ TakeTrigger \/ OfferLink \/ EventDone
  <2>1. UNCHANGED <<produced, refusedMsgs, culled>>
    BY <1>4, QuietLeaves DEF TakeTrigger, OfferLink, EventDone, linkData
  <2>. QED BY <1>1, <2>1
<1>. QED BY <1>2, <1>3, <1>4, HostCases

\* A matcher finds its fragment blank.
LEMMA WorksOnBlank ==
  ASSUME HostTypes, MatchersPlaced, NEW l \in Links, NoData(l) \/ CopyWindow(l)
  PROVE  filling[l].msgs = <<>> /\ filling[l].why = "new"
BY FunctorLeaves, BlankIs DEF MatchersPlaced

\* ... and fills no other, nor touches another's queue.
LEMMA FillsOwn ==
  ASSUME HostTypes, NEW l \in Links, NoData(l) \/ CopyWindow(l), NEW k \in Links, k # l
  PROVE  filling'[k] = filling[k] /\ linkQ'[k] = linkQ[k]
<1>1. CASE NoData(l)
  BY <1>1, NoDataIs DEF Without, HostTypes
<1>2. CASE CopyWindow(l)
  BY <1>2, CutIs DEF Cut, HostTypes
<1>. QED BY <1>1, <1>2

\* Data filled in stay, until artdaq has them and then.
LEMMA DataStay ==
  ASSUME HostTypes, MatchersPlaced, [HostNext]_hostVars, NEW l \in Links, NEW f \in Filled(l),
         f.msgs # <<>>
  PROVE  f \in Filled(l)'
<1>1. CASE UNCHANGED <<events, filling>>
  BY <1>1 DEF Filled, Given
<1>2. CASE TakeTrigger
  <2>1. filling[l].msgs = <<>> /\ events' = events
    BY <1>2, BlankIs DEF TakeTrigger, MatchersPlaced, Offered
  <2>. QED BY <2>1 DEF Filled, Given
<1>3. CASE OfferLink
  <2>1. events' = events
    BY <1>3 DEF OfferLink
  <2>2. CASE l = offering
    <3>1. filling[l].msgs = <<>>
      <4>1. ~Offered(l)
        BY <1>3, <2>2, HostNumbers DEF OfferLink, Offered, Links
      <4>. QED BY <4>1, BlankIs DEF MatchersPlaced
    <3>. QED BY <2>1, <3>1 DEF Filled, Given
  <2>3. CASE l # offering
    <3>1. filling'[l] = filling[l]
      BY <1>3, <2>3 DEF OfferLink, HostTypes
    <3>. QED BY <2>1, <3>1 DEF Filled, Given
  <2>. QED BY <2>2, <2>3
<1>4. CASE EventDone
  <2>1. PICK e \in Event, n \in Nat :
          /\ e.trigger = trigger /\ e.frags = filling
          /\ n = Len(events) /\ Len(events') = n + 1 /\ events'[n + 1] = e
          /\ \A i \in 1..n : events'[i] = events[i]
    BY <1>4, EventAppended
  <2>2. /\ events'[n + 1].frags[l] = filling[l] /\ n + 1 \in 1..Len(events')
        /\ \A i \in 1..n : events'[i].frags[l] = events[i].frags[l] /\ i \in 1..Len(events')
    BY <2>1
  <2>. QED BY <2>1, <2>2 DEF Filled, Given
<1>5. ASSUME NEW k \in Links, NoData(k) \/ CopyWindow(k)
      PROVE  f \in Filled(l)'
  <2>1. events' = events
    BY <1>5, WorkLeaves
  <2>2. CASE k = l
    BY <1>5, <2>1, <2>2, WorksOnBlank DEF Filled, Given
  <2>3. CASE k # l
    <3>1. filling'[l] = filling[l]
      BY <1>5, <2>3, FillsOwn
    <3>. QED BY <2>1, <3>1 DEF Filled, Given
  <2>. QED BY <2>2, <2>3
<1>6. CASE HostQuiet \/ UNCHANGED hostVars \/ \E k \in Links : Dispatch(k)
  <2>1. UNCHANGED <<events, filling>>
    BY <1>6, QuietLeaves DEF Dispatch
  <2>. QED BY <1>1, <2>1
<1>. QED BY <1>2, <1>3, <1>4, <1>5, <1>6, HostCases

\* Only a window that is cut makes data that were not there.
LEMMA DataAreOld ==
  ASSUME HostTypes, MatchersPlaced, [HostNext]_hostVars, NEW l \in Links, ~CopyWindow(l),
         NEW f \in Filled(l)', f.msgs # <<>>
  PROVE  f \in Filled(l)
<1>1. CASE UNCHANGED <<events, filling>>
  BY <1>1 DEF Filled, Given
<1>2. CASE TakeTrigger
  <2>1. filling'[l] = Blank /\ events' = events
    BY <1>2 DEF TakeTrigger
  <2>. QED BY <2>1, BlankIs DEF Filled, Given
<1>3. CASE OfferLink
  <2>1. events' = events /\ offering \in Links /\ filling[l] \in HostFragment
    BY <1>3 DEF OfferLink, HostTypes, MatchersPlaced
  <2>2. filling'[l] = filling[l] \/ filling'[l].msgs = filling[l].msgs
    BY <1>3, <2>1 DEF OfferLink, HostTypes, HostFragment
  <2>3. l = offering => filling[l].msgs = <<>>
    <3>1. l = offering => ~Offered(l)
      BY <1>3, HostNumbers DEF OfferLink, Offered, Links
    <3>. QED BY <3>1, BlankIs DEF MatchersPlaced
  <2>4. l # offering => filling'[l] = filling[l]
    BY <1>3 DEF OfferLink, HostTypes
  <2>. QED BY <2>1, <2>2, <2>3, <2>4 DEF Filled, Given
<1>4. CASE EventDone
  <2>1. PICK e \in Event, n \in Nat :
          /\ e.trigger = trigger /\ e.frags = filling
          /\ n = Len(events) /\ Len(events') = n + 1 /\ events'[n + 1] = e
          /\ \A i \in 1..n : events'[i] = events[i]
    BY <1>4, EventAppended
  <2>2. filling'[l] = Blank
    BY <1>4 DEF EventDone
  <2>3. PICK i \in 1..Len(events') : f = events'[i].frags[l]
    BY <2>2, BlankIs DEF Filled, Given
  <2>4. i \in 1..n \/ i = n + 1
    BY <2>1
  <2>. QED BY <2>1, <2>3, <2>4 DEF Filled, Given
<1>5. ASSUME NEW k \in Links, NoData(k) \/ CopyWindow(k)
      PROVE  f \in Filled(l)
  <2>1. events' = events
    BY <1>5, WorkLeaves
  <2>2. CASE k = l
    <3>1. filling'[l].msgs = <<>>
      BY <1>5, <2>2, NoDataIs DEF Without, HostTypes
    <3>. QED BY <2>1, <3>1 DEF Filled, Given
  <2>3. CASE k # l
    <3>1. filling'[l] = filling[l]
      BY <1>5, <2>3, FillsOwn
    <3>. QED BY <2>1, <3>1 DEF Filled, Given
  <2>. QED BY <2>2, <2>3
<1>6. CASE HostQuiet \/ UNCHANGED hostVars \/ \E k \in Links : Dispatch(k)
  <2>1. UNCHANGED <<events, filling>>
    BY <1>6, QuietLeaves DEF Dispatch
  <2>. QED BY <1>1, <2>1
<1>. QED BY <1>2, <1>3, <1>4, <1>5, <1>6, HostCases

LEMMA FilledAre ==
  ASSUME HostTypes, NEW l \in Links, NEW f \in Filled(l)
  PROVE  /\ f \in HostFragment /\ f.msgs \in Seq(Nat) /\ f.front \in Int
         /\ f.msgs # <<>> => /\ Last(f.msgs) \in Nat /\ Len(f.msgs) \in Nat /\ Len(f.msgs) >= 1
                             /\ Last(f.msgs) = f.msgs[Len(f.msgs)]
                             /\ \A i \in 1..Len(f.msgs) : f.msgs[i] \in Nat
<1>1. \A i \in 1..Len(events) : events[i].frags[l] \in HostFragment
  <2>1. \A i \in 1..Len(events) : events[i] \in Event
    BY ElementOfSeq DEF HostTypes
  <2>. QED BY <2>1 DEF Event
<1>2. f \in HostFragment
  BY <1>1 DEF Filled, Given, HostTypes
<1>3. f.msgs \in Seq(Nat) /\ f.front \in Int
  BY <1>2 DEF HostFragment
<1>4. PICK ms : ms = f.msgs
  OBVIOUS
<1>5. Len(ms) \in Nat /\ \A i \in 1..Len(ms) : ms[i] \in Nat
  BY <1>3, <1>4, QueueNumbers
<1>6. ms # <<>> => Len(ms) >= 1
  BY <1>3, <1>4, <1>5, EmptySeq
<1>. QED BY <1>2, <1>3, <1>4, <1>5, <1>6 DEF Last

\* What is in a queue was in it, or is what its link has produced.
LEMMA QueueElements ==
  ASSUME HostTypes, [HostNext]_hostVars, NEW l \in Links, NEW i \in 1..Len(linkQ'[l])
  PROVE  \/ \E j \in 1..Len(linkQ[l]) : linkQ'[l][i] = linkQ[l][j]
         \/ linkQ'[l][i] = produced[l] /\ produced'[l] = produced[l] + 1
<1>1. CASE linkQ'[l] = linkQ[l]
  BY <1>1
<1>2. CASE Dispatch(l)
  <2>1. linkQ[l] \in Seq(Nat) /\ produced[l] \in Nat
    BY DEF HostTypes
  <2>2. produced'[l] = produced[l] + 1 /\ (linkQ'[l] = linkQ[l] \/ linkQ'[l] = Append(linkQ[l], produced[l]))
    BY <1>2 DEF Dispatch, HostTypes
  <2>3. CASE linkQ'[l] = Append(linkQ[l], produced[l])
    <3>1. PICK a, n : a = linkQ'[l] /\ n = Len(linkQ[l])
      OBVIOUS
    <3>2. /\ n \in Nat /\ Len(a) = n + 1 /\ a[n + 1] = produced[l]
          /\ \A j \in 1..n : a[j] = linkQ[l][j]
      BY <2>1, <2>3, <3>1, AppendProperties, LenProperties
    <3>3. i \in 1..n \/ i = n + 1
      BY <3>1, <3>2
    <3>. QED BY <2>2, <3>1, <3>2, <3>3
  <2>. QED BY <1>1, <2>2, <2>3
<1>3. CASE NoData(l)
  <2>1. PICK n \in Nat : linkQ' = linkQ \/ linkQ' = [linkQ EXCEPT ![l] = PopFront(linkQ[l], n)]
    BY <1>3, NoDataIs DEF Without
  <2>2. linkQ[l] \in Seq(Nat)
    BY DEF HostTypes
  <2>3. linkQ'[l] = linkQ[l] \/ linkQ'[l] = PopFront(linkQ[l], n)
    BY <2>1 DEF HostTypes
  <2>4. CASE linkQ'[l] = PopFront(linkQ[l], n)
    <3>1. linkQ'[l][i] = linkQ[l][n + i] /\ n + i \in 1..Len(linkQ[l])
      <4>1. i \in 1..Len(PopFront(linkQ[l], n))
        BY <2>4
      <4>2. PICK a : a = linkQ[l]
        OBVIOUS
      <4>3. a \in Seq(Nat) /\ linkQ'[l] = PopFront(a, n) /\ i \in 1..Len(PopFront(a, n))
        BY <2>2, <2>4, <4>1, <4>2
      <4>4. PopFront(a, n)[i] = a[n + i] /\ n + i \in 1..Len(a)
        BY <4>3, PopIs
      <4>. QED BY <4>2, <4>3, <4>4
    <3>. QED BY <3>1
  <2>. QED BY <1>1, <2>3, <2>4
<1>4. CASE CopyWindow(l)
  <2>1. PICK s, n \in Nat, ms \in Seq(Nat), f \in HostFragment, a \in Seq(Nat) :
          Cut(l, s, n, ms, f, a)
    BY <1>4, CutIs
  <2>2. PICK k : k = Len(linkQ[l])
    OBVIOUS
  <2>3. /\ linkQ'[l] = a /\ Len(a) = k - n /\ a[i] = linkQ[l][n + i] /\ k \in Nat /\ i \in 1..Len(a)
    BY <2>1, <2>2, LenProperties DEF Cut, HostTypes
  <2>4. n + i \in 1..k
    BY <2>3
  <2>. QED BY <2>2, <2>3, <2>4
<1>5. CASE HostQuiet \/ UNCHANGED hostVars \/ TakeTrigger \/ OfferLink \/ EventDone
  <2>1. linkQ' = linkQ
    BY <1>5, QuietLeaves DEF TakeTrigger, OfferLink, EventDone, linkData
  <2>. QED BY <1>1, <2>1
<1>6. ASSUME NEW k \in Links, k # l, Dispatch(k) \/ NoData(k) \/ CopyWindow(k)
      PROVE  linkQ'[l] = linkQ[l]
  BY <1>6, FillsOwn DEF Dispatch, HostTypes
<1>. QED BY <1>1, <1>2, <1>3, <1>4, <1>5, <1>6, HostCases

\* The steps that a link's queue is not left alone by.
LEMMA QueueAlone ==
  ASSUME HostTypes, [HostNext]_hostVars, NEW l \in Links,
         ~Dispatch(l), ~WithoutTrigger(l), ~CopyWindow(l)
  PROVE  linkQ'[l] = linkQ[l] /\ produced'[l] = produced[l]
<1>1. CASE HostQuiet \/ UNCHANGED hostVars \/ TakeTrigger \/ OfferLink \/ EventDone
  BY <1>1, QuietLeaves DEF TakeTrigger, OfferLink, EventDone, linkData
<1>2. ASSUME NEW k \in Links, Dispatch(k)
      PROVE  linkQ'[l] = linkQ[l] /\ produced'[l] = produced[l]
  BY <1>2 DEF Dispatch, HostTypes
<1>3. ASSUME NEW k \in Links, NoData(k) \/ CopyWindow(k)
      PROVE  linkQ'[l] = linkQ[l] /\ produced'[l] = produced[l]
  <2>1. produced' = produced
    BY <1>3, FunctorLeaves
  <2>2. CASE k # l
    BY <1>3, <2>1, <2>2, FillsOwn
  <2>3. CASE k = l
    BY <1>3, <2>1, <2>3 DEF NoData, EmptyQueue, OldRequest, LateData
  <2>. QED BY <2>2, <2>3
<1>. QED BY <1>1, <1>2, <1>3, HostCases

LEMMA AccountedKept ==
  ASSUME HostTypes, MatchersPlaced, QueuesRight, Accounted, [HostNext]_hostVars
  PROVE  Accounted'
<1>. SUFFICES ASSUME NEW l \in Links, NEW m \in 0..(produced'[l] - 1)
              PROVE  \/ \E i \in 1..Len(linkQ'[l]) : linkQ'[l][i] = m
                     \/ m \in refusedMsgs'[l] \cup culled'[l]
                     \/ \E f \in Filled(l)' : Took(f, m)
  BY DEF Accounted, Took
<1>1. /\ linkQ[l] \in Seq(Nat) /\ produced[l] \in Nat
  BY DEF HostTypes
<1>2. m \in 0..(produced[l] - 1) =>
        \/ \E i \in 1..Len(linkQ[l]) : linkQ[l][i] = m
        \/ m \in refusedMsgs'[l] \cup culled'[l]
        \/ \E f \in Filled(l)' : Took(f, m)
  <2>. SUFFICES ASSUME m \in 0..(produced[l] - 1)
                PROVE  \/ \E i \in 1..Len(linkQ[l]) : linkQ[l][i] = m
                       \/ m \in refusedMsgs'[l] \cup culled'[l]
                       \/ \E f \in Filled(l)' : Took(f, m)
    OBVIOUS
  <2>1. CASE \E f \in Filled(l) : Took(f, m)
    <3>1. PICK f \in Filled(l) : Took(f, m)
      BY <2>1
    <3>2. f \in Filled(l)'
      BY <3>1, DataStay DEF Took
    <3>. QED BY <3>1, <3>2
  <2>. QED BY <2>1, OnlyMore DEF Accounted
<1>3. CASE linkQ'[l] = linkQ[l] /\ produced'[l] = produced[l]
  BY <1>2, <1>3
<1>4. CASE Dispatch(l)
  <2>1. /\ produced'[l] = produced[l] + 1
        /\ \/ linkQ'[l] = Append(linkQ[l], produced[l])
           \/ linkQ'[l] = linkQ[l] /\ produced[l] \in refusedMsgs'[l]
    BY <1>4 DEF Dispatch, HostTypes
  <2>2. m \in 0..(produced[l] - 1) \/ m = produced[l]
    BY <1>1, <2>1
  <2>3. CASE linkQ'[l] = Append(linkQ[l], produced[l])
    <3>1. PICK a, n : a = linkQ'[l] /\ n = Len(linkQ[l])
      OBVIOUS
    <3>2. /\ n \in Nat /\ Len(a) = n + 1 /\ a[n + 1] = produced[l]
          /\ \A j \in 1..n : a[j] = linkQ[l][j]
      BY <1>1, <2>3, <3>1, AppendProperties, LenProperties
    <3>3. n + 1 \in 1..Len(a) /\ \A j \in 1..n : j \in 1..Len(a)
      BY <3>2
    <3>. QED BY <1>2, <2>2, <3>1, <3>2, <3>3
  <2>. QED BY <1>2, <2>1, <2>2, <2>3
<1>5. CASE WithoutTrigger(l)
  <2>1. PICK n : /\ n = IF 2 * Len(linkQ[l]) > LinkRoom THEN (8 * Len(linkQ[l])) \div 10 ELSE 0
                 /\ linkQ' = [linkQ EXCEPT ![l] = PopFront(linkQ[l], n)]
                 /\ culled' = [culled EXCEPT ![l] = @ \cup ToSet(SubSeq(linkQ[l], 1, n))]
    BY <1>5 DEF WithoutTrigger
  <2>2. n \in Nat /\ \A i \in 1..n : linkQ[l][i] \in ToSet(SubSeq(linkQ[l], 1, n))
    BY <1>1, <2>1, CulledAre
  <2>3. linkQ'[l] = PopFront(linkQ[l], n) /\ \A i \in 1..n : linkQ[l][i] \in culled'[l]
    BY <2>1, <2>2 DEF HostTypes
  <2>4. produced'[l] = produced[l]
    BY <1>5, FunctorLeaves DEF NoData
  <2>5. ASSUME NEW i \in 1..Len(linkQ[l])
        PROVE  linkQ[l][i] \in culled'[l] \/ \E j \in 1..Len(linkQ'[l]) : linkQ'[l][j] = linkQ[l][i]
    <3>1. Len(linkQ[l]) \in Nat
      BY <1>1, LenProperties
    <3>2. i \in 1..n \/ i > n
      BY <2>2, <3>1
    <3>3. i > n => i - n \in 1..Len(linkQ'[l]) /\ linkQ'[l][i - n] = linkQ[l][i]
      BY <1>1, <2>2, <2>3, PopIs
    <3>. QED BY <2>3, <3>2, <3>3
  <2>. QED BY <1>2, <2>4, <2>5
<1>6. CASE CopyWindow(l)
  <2>1. PICK s, n \in Nat, ms \in Seq(Nat), f \in HostFragment, a \in Seq(Nat) :
          Cut(l, s, n, ms, f, a)
    BY <1>6, CutIs
  <2>2. PICK q, k : q = linkQ[l] /\ k = Len(linkQ[l])
    OBVIOUS
  <2>3. /\ k \in Nat /\ n <= k /\ n >= 2 /\ Len(a) = k - n
        /\ \A i \in 1..Len(a) : a[i] = q[n + i]
        /\ f.msgs = ms /\ Len(ms) >= 2 /\ Last(ms) = q[n] /\ f.front = q[1]
    BY <1>1, <2>1, <2>2, LenProperties DEF Cut
  <2>4. linkQ'[l] = a /\ filling'[l] = f /\ produced'[l] = produced[l]
    BY <1>6, <2>1, FunctorLeaves DEF Cut, HostTypes
  <2>5. f \in Filled(l)' /\ f.msgs # <<>>
    BY <2>3, <2>4 DEF Filled
  <2>6. /\ \A i \in 1..k : q[i] \in Nat
        /\ \A i, j \in 1..k : i < j => q[i] < q[j]
    BY <1>1, <2>2, QueueNumbers DEF QueuesRight, LinkRight
  <2>7. ASSUME NEW i \in 1..k
        PROVE  Took(f, q[i]) \/ \E j \in 1..Len(a) : a[j] = q[i]
    <3>1. CASE i <= n
      <4>1. 1 \in 1..k /\ n \in 1..k
        BY <2>3
      <4>2. (i = 1 \/ 1 < i) /\ (i = n \/ i < n)
        BY <3>1
      <4>3. q[1] <= q[i] /\ q[i] <= q[n]
        BY <2>6, <4>1, <4>2
      <4>. QED BY <2>3, <2>5, <4>3 DEF Took
    <3>2. CASE i > n
      <4>1. i - n \in 1..Len(a) /\ n + (i - n) = i
        BY <2>3, <3>2
      <4>. QED BY <2>3, <4>1
    <3>. QED BY <2>3, <3>1, <3>2
  <2>. QED BY <1>2, <2>2, <2>4, <2>5, <2>7
<1>. QED BY <1>3, <1>4, <1>5, <1>6, QueueAlone

LEMMA SpentKept ==
  ASSUME HostTypes, HostTypes', MatchersPlaced, QueuesRight, Spent, [HostNext]_hostVars
  PROVE  Spent'
<1>. SUFFICES ASSUME NEW l \in Links, NEW f \in Filled(l)', f.msgs # <<>>
              PROVE  /\ Last(f.msgs) < produced'[l]
                     /\ \A i \in 1..Len(linkQ'[l]) : Last(f.msgs) < linkQ'[l][i]
  BY DEF Spent
<1>1. /\ linkQ[l] \in Seq(Nat) /\ produced[l] \in Nat /\ produced'[l] \in Nat
      /\ produced[l] <= produced'[l]
  BY OnlyMore DEF HostTypes
<1>2. CASE f \in Filled(l)
  <2>1. Last(f.msgs) \in Nat
    BY <1>2, FilledAre
  <2>2. Last(f.msgs) < produced[l] /\ \A j \in 1..Len(linkQ[l]) : Last(f.msgs) < linkQ[l][j]
    BY <1>2 DEF Spent
  <2>3. \A i \in 1..Len(linkQ'[l]) : Last(f.msgs) < linkQ'[l][i]
    BY <2>2, QueueElements
  <2>. QED BY <1>1, <2>1, <2>2, <2>3
<1>3. CASE CopyWindow(l) /\ f \notin Filled(l)
  <2>1. PICK s, n \in Nat, ms \in Seq(Nat), g \in HostFragment, a \in Seq(Nat) :
          Cut(l, s, n, ms, g, a)
    BY <1>3, CutIs
  <2>2. PICK q, k : q = linkQ[l] /\ k = Len(linkQ[l])
    OBVIOUS
  <2>3. /\ k \in Nat /\ n <= k /\ n >= 2 /\ Len(a) = k - n
        /\ \A i \in 1..Len(a) : a[i] = q[n + i]
        /\ g.msgs = ms /\ Last(ms) = q[n]
    BY <1>1, <2>1, <2>2, LenProperties DEF Cut
  <2>4. linkQ'[l] = a /\ filling'[l] = g /\ produced'[l] = produced[l] /\ events' = events
    BY <1>3, <2>1, FunctorLeaves, WorkLeaves DEF Cut, HostTypes
  <2>5. f = g
    BY <1>3, <2>4 DEF Filled, Given
  <2>6. /\ \A i \in 1..k : q[i] < produced[l]
        /\ \A i, j \in 1..k : i < j => q[i] < q[j]
    BY <2>2 DEF QueuesRight, LinkRight
  <2>7. n \in 1..k /\ \A i \in 1..Len(a) : n + i \in 1..k /\ n < n + i
    BY <2>3
  <2>. QED BY <2>3, <2>4, <2>5, <2>6, <2>7
<1>. QED BY <1>2, <1>3, DataAreOld

(***************************************************************************)
(* The windows, and the data that are gone.                                *)
(***************************************************************************)

\* More refused messages excuse no less.
LEMMA HeldStays ==
  ASSUME NEW R, NEW S, R \subseteq S, NEW f, Held(R, f)
  PROVE  Held(S, f)
BY DEF Held, HoleIn

LEMMA GoneStays ==
  ASSUME NEW R, NEW S, R \subseteq S, NEW C, NEW D, C \subseteq D, NEW f, NEW E, NEW G, E \subseteq G,
         GoneBy(f, C, R, E)
  PROVE  GoneBy(f, D, S, G)
BY DEF GoneBy, HoleIn

\* Without a hole a queue counts from its front.
LEMMA CutHeld ==
  ASSUME HostTypes, QueuesRight, NEW l \in Links, NEW s \in Nat, NEW n \in Nat,
         NEW ms \in Seq(Nat), NEW f \in HostFragment, NEW a \in Seq(Nat), Cut(l, s, n, ms, f, a)
  PROVE  Held(refusedMsgs[l], f)
<1>1. PICK q, k, R, w : /\ q = linkQ[l] /\ k = Len(linkQ[l]) /\ R = refusedMsgs[l]
                        /\ w = WindowMessages
  OBVIOUS
<1>2. /\ k \in Nat /\ n <= k /\ w \in Nat /\ w >= 2 /\ n = s + w /\ Len(ms) = w
      /\ f.msgs = ms /\ f.front = q[1] /\ Last(ms) = q[n] /\ f.timestamp = trigger.timestamp
      /\ \A i \in 1..w : ms[i] = q[s + i]
  BY <1>1, LenProperties DEF Cut, HostTypes
<1>3. /\ TimeOfMsg(q[1] + s) <= StartOf(f.timestamp)
      /\ StartOf(f.timestamp) + WindowFrames * HostTick <= TimeOfMsg(q[1] + n)
  BY <1>1, <1>2 DEF Cut
<1>4. /\ \A i \in 1..k : q[i] \in Nat
      /\ \A i, j \in 1..k : i < j => q[i] < q[j]
      /\ \A i, j \in 1..k : i < j =>
           q[j] - q[i] = j - i \/ \E m \in R : q[i] < m /\ m < q[j]
      /\ \A m \in R : m \in Nat
  BY <1>1, QueueNumbers DEF QueuesRight, LinkRight, HostTypes
<1>. SUFFICES ASSUME ~HoleIn(R, f)
              PROVE  /\ \A i \in DOMAIN f.msgs : f.msgs[i] = f.msgs[1] + i - 1
                     /\ TimeOfMsg(f.msgs[1]) <= StartOf(f.timestamp)
                     /\ StartOf(f.timestamp) + WindowFrames * HostTick <= TimeOfMsg(Last(f.msgs) + 1)
  BY <1>1 DEF Held
<1>5. 1 \in 1..k /\ n \in 1..k
  BY <1>2
<1>6. ASSUME NEW j \in 1..n PROVE q[j] = q[1] + (j - 1)
  <2>1. CASE j = 1
    BY <1>4, <1>5, <2>1
  <2>2. CASE j > 1
    <3>1. j \in 1..k /\ (j = n \/ j < n)
      BY <1>2
    <3>2. q[j] <= q[n]
      BY <1>4, <1>5, <3>1
    <3>3. ~\E m \in R : q[1] < m /\ m < q[j]
      <4>. SUFFICES ASSUME NEW m \in R, q[1] < m, m < q[j] PROVE FALSE
        OBVIOUS
      <4>1. m \in Nat /\ q[1] \in Nat /\ q[j] \in Nat /\ q[n] \in Nat
        BY <1>4, <1>5, <3>1
      <4>2. q[1] <= m /\ m <= q[n]
        BY <3>2, <4>1
      <4>. QED BY <1>2, <4>2 DEF HoleIn
    <3>4. q[j] - q[1] = j - 1
      BY <1>4, <1>5, <2>2, <3>1, <3>3
    <3>. QED BY <1>4, <1>5, <3>1, <3>4
  <2>. QED BY <2>1, <2>2
<1>7. \A i \in 1..w : s + i \in 1..n /\ (s + i) - 1 = s + (i - 1)
  BY <1>2
<1>8. \A i \in 1..w : ms[i] = q[1] + (s + (i - 1))
  BY <1>2, <1>6, <1>7
<1>9. 1 \in 1..w /\ q[1] \in Nat
  BY <1>2, <1>4, <1>5
<1>10. ms[1] = q[1] + s
  <2>1. s + (1 - 1) = s
    OBVIOUS
  <2>. QED BY <1>8, <1>9, <2>1
<1>11. \A i \in 1..w : ms[i] = ms[1] + i - 1
  <2>1. \A x \in Nat, i \in Nat : x + (s + (i - 1)) = (x + s) + i - 1
    OBVIOUS
  <2>. QED BY <1>8, <1>9, <1>10, <2>1
<1>12. Last(ms) + 1 = q[1] + n
  <2>1. n \in 1..n
    BY <1>5
  <2>2. q[n] = q[1] + (n - 1)
    BY <1>6, <2>1
  <2>. QED BY <1>2, <1>9, <2>2
<1>13. DOMAIN ms = 1..w
  BY <1>2, LenProperties
<1>. QED BY <1>2, <1>3, <1>10, <1>11, <1>12, <1>13

LEMMA WindowsKept ==
  ASSUME HostTypes, MatchersPlaced, QueuesRight, WindowsHeld, [HostNext]_hostVars
  PROVE  WindowsHeld'
<1>. SUFFICES ASSUME NEW l \in Links, NEW f \in Filled(l)'
              PROVE  Held(refusedMsgs'[l], f)
  BY DEF WindowsHeld, Held, HoleIn
<1>1. refusedMsgs[l] \subseteq refusedMsgs'[l]
  BY OnlyMore
<1>2. CASE f.msgs = <<>>
  BY <1>2 DEF Held
<1>3. CASE f \in Filled(l)
  BY <1>1, <1>3, HeldStays DEF WindowsHeld
<1>4. CASE CopyWindow(l) /\ f \notin Filled(l)
  <2>1. PICK s, n \in Nat, ms \in Seq(Nat), g \in HostFragment, a \in Seq(Nat) :
          Cut(l, s, n, ms, g, a)
    BY <1>4, CutIs
  <2>2. Held(refusedMsgs[l], g)
    BY <2>1, CutHeld
  <2>3. filling'[l] = g /\ events' = events
    BY <1>4, <2>1, WorkLeaves DEF Cut, HostTypes
  <2>4. f = g
    BY <1>4, <2>3 DEF Filled, Given
  <2>. QED BY <1>1, <2>2, <2>4, HeldStays
<1>. QED BY <1>2, <1>3, <1>4, DataAreOld

\* The message a window begins with is after those that begin no later ...
LEMMA WantedAfter ==
  ASSUME NEW t \in Nat, NEW m \in Nat, TimeOfMsg(m) <= t
  PROVE  m <= t \div (FramesPerMessage * HostTick)
<1>. USE HostNumbers
<1>1. PICK u, d : u = FramesPerMessage * HostTick /\ d = t \div u
  OBVIOUS
<1>2. u \in Nat \ {0} /\ TimeOfMsg(m) = m * u
  BY <1>1 DEF TimeOfMsg
<1>3. d \in Nat /\ t < u * d + u
  BY <1>1, <1>2, DivBounds
<1>4. ASSUME d + 1 <= m PROVE FALSE
  <2>1. (d + 1) * u <= m * u
    BY <1>2, <1>3, <1>4, MulMono
  <2>2. (d + 1) * u = u * d + u /\ m * u \in Nat /\ u * d \in Nat
    BY <1>2, <1>3
  <2>. QED BY <1>2, <1>3, <2>1, <2>2
<1>. QED BY <1>1, <1>3, <1>4

\* ... and before those that begin later.
LEMMA WantedBefore ==
  ASSUME NEW t \in Nat, NEW m \in Nat, TimeOfMsg(m) > t
  PROVE  t \div (FramesPerMessage * HostTick) \in Nat /\ t \div (FramesPerMessage * HostTick) < m
<1>. USE HostNumbers
<1>1. PICK u, d : u = FramesPerMessage * HostTick /\ d = t \div u
  OBVIOUS
<1>2. u \in Nat \ {0} /\ TimeOfMsg(m) = m * u
  BY <1>1 DEF TimeOfMsg
<1>3. d \in Nat /\ u * d <= t
  BY <1>1, <1>2, DivBounds
<1>4. ASSUME m <= d PROVE FALSE
  <2>1. m * u <= d * u
    BY <1>2, <1>3, <1>4, MulMono
  <2>2. d * u = u * d /\ m * u \in Nat /\ u * d \in Nat
    BY <1>2, <1>3
  <2>. QED BY <1>2, <1>3, <2>1, <2>2
<1>. QED BY <1>1, <1>3, <1>4

\* Data are found to be gone for one of the reasons there are.
LEMMA OldIsGone ==
  ASSUME HostTypes, MatchersPlaced, TriggersInOrder, QueuesRight, Accounted, WindowsHeld,
         EventsRight, NEW l \in Links, OldRequest(l), NEW f, f.timestamp = trigger.timestamp
  PROVE  GoneBy(f, culled[l], refusedMsgs[l], Given(l))
<1>1. PICK q, k, t, m : /\ q = linkQ[l] /\ k = Len(linkQ[l]) /\ t = StartOf(trigger.timestamp)
                        /\ m = FirstWanted(f)
  OBVIOUS
<1>2. /\ q # <<>> /\ matchers[l] = "works" /\ trigger # NoRequest /\ TimeOfMsg(Head(q)) > t
  BY <1>1 DEF OldRequest, Requested, FrontTime
<1>3. /\ q \in Seq(Nat) /\ k \in Nat /\ 1 \in 1..k /\ Head(q) = q[1]
      /\ \A i \in 1..k : q[i] \in Nat
  BY <1>1, <1>2, HeadTailProperties, LenProperties, ElementOfSeq DEF HostTypes
<1>4. t \in Nat /\ trigger \in Request
  BY <1>1, <1>2, StartIs DEF HostTypes
<1>5. m = t \div (FramesPerMessage * HostTick) /\ m \in Nat /\ m < q[1]
  BY <1>1, <1>2, <1>3, <1>4, WantedBefore DEF FirstWanted
<1>6. produced[l] \in Nat /\ q[1] < produced[l]
  BY <1>1, <1>3 DEF QueuesRight, LinkRight, HostTypes
<1>7. ~\E i \in 1..k : q[i] = m
  <2>1. \A i, j \in 1..k : i < j => q[i] < q[j]
    BY <1>1 DEF QueuesRight, LinkRight
  <2>2. \A i \in 1..k : q[1] <= q[i]
    BY <1>3, <2>1
  <2>. QED BY <1>3, <1>5, <2>2
<1>8. m \in refusedMsgs[l] \cup culled[l] \/ \E g \in Filled(l) : Took(g, m)
  <2>1. m \in 0..(produced[l] - 1)
    BY <1>3, <1>5, <1>6
  <2>. QED BY <1>1, <1>7, <2>1 DEF Accounted
<1>9. ASSUME NEW g \in Filled(l), Took(g, m)
      PROVE  g \in Given(l) /\ g.msgs # <<>> /\ (HoleIn(refusedMsgs[l], g) \/ m \in ToSet(g.msgs))
  <2>1. g.msgs # <<>> /\ g.front <= m /\ m <= Last(g.msgs)
    BY <1>9 DEF Took
  <2>2. Offered(l) /\ filling[l] = Blank
    BY <1>2 DEF MatchersPlaced
  <2>3. PICK i \in 1..Len(events) : g = events[i].frags[l]
    BY <2>1, <2>2, BlankIs DEF Filled, Given
  <2>4. g.timestamp = events[i].trigger.timestamp
    BY <2>1, <2>3 DEF EventsRight, OfOneTrigger
  <2>5. events[i].trigger.timestamp < trigger.timestamp
    BY <1>2, <2>2 DEF TriggersInOrder, Offered, Newer
  <2>6. /\ Last(g.msgs) \in Nat /\ Len(g.msgs) \in Nat /\ Len(g.msgs) >= 1
        /\ Last(g.msgs) = g.msgs[Len(g.msgs)] /\ g.msgs \in Seq(Nat) /\ g \in HostFragment
        /\ \A j \in 1..Len(g.msgs) : g.msgs[j] \in Nat
    BY <2>1, FilledAre
  <2>7. CASE ~HoleIn(refusedMsgs[l], g)
    <3>1. /\ \A j \in DOMAIN g.msgs : g.msgs[j] = g.msgs[1] + j - 1
          /\ TimeOfMsg(g.msgs[1]) <= StartOf(g.timestamp)
      BY <2>1, <2>7 DEF WindowsHeld, Held
    <3>2. PICK ms, n, h : ms = g.msgs /\ n = Len(g.msgs) /\ h = g.msgs[1]
      OBVIOUS
    <3>3. /\ DOMAIN ms = 1..n /\ n \in Nat /\ n >= 1 /\ h \in Nat
          /\ \A j \in 1..n : ms[j] = h + j - 1
          /\ m <= ms[n]
      <4>1. ms \in Seq(Nat) /\ n = Len(ms) /\ n \in Nat /\ n >= 1 /\ m <= ms[n]
        BY <2>1, <2>6, <3>2
      <4>2. DOMAIN ms = 1..n /\ h \in Nat
        BY <2>6, <3>2, <4>1, LenProperties
      <4>. QED BY <3>1, <3>2, <4>1, <4>2
    <3>4. StartOf(g.timestamp) < t
      <4>1. g.timestamp \in Int /\ trigger.timestamp \in Int /\ OffsetFrames * HostTick \in Nat
        BY <1>4, <2>6, HostNumbers, RequestNumbers DEF HostFragment
      <4>. QED BY <1>1, <2>4, <2>5, <4>1 DEF StartOf
    <3>5. TimeOfMsg(h) <= t
      <4>1. TimeOfMsg(h) \in Nat
        BY <3>3, HostNumbers DEF TimeOfMsg
      <4>2. StartOf(g.timestamp) \in Int
        BY <2>6, HostNumbers DEF StartOf, HostFragment
      <4>. QED BY <1>4, <3>1, <3>2, <3>4, <4>1, <4>2
    <3>6. h <= m
      BY <1>4, <1>5, <3>3, <3>5, WantedAfter
    <3>7. ms[n] = h + n - 1
      BY <3>3
    <3>8. m - h + 1 \in 1..n /\ h + (m - h + 1) - 1 = m
      BY <1>5, <3>3, <3>6, <3>7
    <3>9. ms[m - h + 1] = m
      BY <3>3, <3>8
    <3>. QED BY <2>1, <2>3, <3>2, <3>3, <3>8, <3>9 DEF Given, ToSet
  <2>. QED BY <2>1, <2>3, <2>7 DEF Given
<1>. QED BY <1>1, <1>8, <1>9 DEF GoneBy

LEMMA FillingKept ==
  ASSUME HostInv, [HostNext]_hostVars
  PROVE  FillingRight'
<1>. USE DEF HostInv
<1>. SUFFICES ASSUME NEW l \in Links
              PROVE  /\ FilledFor(filling'[l], trigger')
                     /\ GoneBy(filling'[l], culled'[l], refusedMsgs'[l], Given(l)')
                     /\ \A g \in Given(l)' : After(g, filling'[l])
  BY DEF FillingRight, FilledFor, GoneBy, After, HoleIn
<1>1. /\ FilledFor(filling[l], trigger)
      /\ GoneBy(filling[l], culled[l], refusedMsgs[l], Given(l))
      /\ \A g \in Given(l) : After(g, filling[l])
  BY DEF FillingRight
<1>2. refusedMsgs[l] \subseteq refusedMsgs'[l] /\ culled[l] \subseteq culled'[l]
  BY OnlyMore
<1>3. CASE filling'[l] = Blank
  BY <1>3, BlankIs DEF FilledFor, GoneBy, After
<1>4. CASE UNCHANGED <<events, trigger>> /\ filling'[l] = filling[l]
  <2>1. Given(l)' = Given(l)
    BY <1>4 DEF Given
  <2>. QED BY <1>1, <1>2, <1>4, <2>1, GoneStays
<1>5. CASE OfferLink
  <2>1. UNCHANGED <<events, trigger>> /\ offering \in Links
    BY <1>5 DEF OfferLink, MatchersPlaced
  <2>2. CASE l = offering /\ filling' # filling
    <3>1. ~Offered(l)
      BY <1>5, <2>2, HostNumbers DEF OfferLink, Offered, Links
    <3>2. filling[l].msgs = <<>> /\ filling[l] \in HostFragment
      BY <3>1, BlankIs DEF MatchersPlaced, HostTypes
    <3>3. filling'[l] = [filling[l] EXCEPT !.why = "refused"]
      BY <1>5, <2>1, <2>2 DEF OfferLink, HostTypes
    <3>4. filling'[l].msgs = <<>> /\ filling'[l].why = "refused"
      BY <3>2, <3>3 DEF HostFragment
    <3>. QED BY <3>4 DEF FilledFor, GoneBy, After
  <2>3. CASE l # offering \/ filling' = filling
    <3>1. filling'[l] = filling[l]
      BY <1>5, <2>3 DEF OfferLink, HostTypes
    <3>. QED BY <1>4, <2>1, <3>1
  <2>. QED BY <2>2, <2>3
<1>6. CASE NoData(l)
  <2>1. PICK f \in HostFragment, n \in Nat : Without(l, f, n)
    BY <1>6, NoDataIs
  <2>2. UNCHANGED <<events, trigger>> /\ Given(l)' = Given(l)
    BY <1>6, WorkLeaves DEF Given
  <2>3. /\ filling'[l] = f /\ f.msgs = <<>> /\ f.why # "refused" /\ f.why # "new"
        /\ f.seqID = trigger.seqID /\ f.timestamp = trigger.timestamp
        /\ f.why = "old" => OldRequest(l)
    BY <2>1 DEF Without, HostTypes
  <2>4. GoneBy(f, culled'[l], refusedMsgs'[l], Given(l))
    <3>1. CASE f.why = "old"
      BY <1>2, <2>3, <3>1, OldIsGone, GoneStays
    <3>2. CASE f.why # "old"
      BY <3>2 DEF GoneBy
    <3>. QED BY <3>1, <3>2
  <2>. QED BY <2>2, <2>3, <2>4 DEF FilledFor, After
<1>7. CASE CopyWindow(l)
  <2>1. PICK s, n \in Nat, ms \in Seq(Nat), f \in HostFragment, a \in Seq(Nat) :
          Cut(l, s, n, ms, f, a)
    BY <1>7, CutIs
  <2>2. UNCHANGED <<events, trigger>> /\ Given(l)' = Given(l)
    BY <1>7, WorkLeaves DEF Given
  <2>3. /\ filling'[l] = f /\ f.front = linkQ[l][1] /\ f.why = "none"
        /\ f.seqID = trigger.seqID /\ f.timestamp = trigger.timestamp
        /\ 1 \in 1..Len(linkQ[l])
    BY <2>1, LenProperties DEF Cut, HostTypes
  <2>4. \A g \in Given(l) : g.msgs # <<>> => Last(g.msgs) < linkQ[l][1]
    BY <2>3 DEF Spent, Filled
  <2>. QED BY <2>2, <2>3, <2>4 DEF FilledFor, GoneBy, After
<1>8. CASE TakeTrigger \/ EventDone
  BY <1>3, <1>8 DEF TakeTrigger, EventDone
<1>9. CASE HostQuiet \/ UNCHANGED hostVars \/ \E k \in Links : Dispatch(k)
  <2>1. UNCHANGED <<events, trigger, filling>>
    BY <1>9, QuietLeaves DEF Dispatch
  <2>. QED BY <1>4, <2>1
<1>10. ASSUME NEW k \in Links, k # l, NoData(k) \/ CopyWindow(k)
       PROVE  UNCHANGED <<events, trigger>> /\ filling'[l] = filling[l]
  BY <1>10, WorkLeaves, FillsOwn
<1>. QED BY <1>4, <1>5, <1>6, <1>7, <1>8, <1>9, <1>10, HostCases

LEMMA EventsKept ==
  ASSUME HostInv, [HostNext]_hostVars
  PROVE  EventsRight'
<1>. USE DEF HostInv
<1>1. \A l \in Links : refusedMsgs[l] \subseteq refusedMsgs'[l] /\ culled[l] \subseteq culled'[l]
  BY OnlyMore
<1>2. ASSUME NEW i \in 1..Len(events), NEW l \in Links, NEW E, GivenBefore(l, i) \subseteq E
      PROVE  GoneBy(events[i].frags[l], culled'[l], refusedMsgs'[l], E)
  <2>1. GoneBy(events[i].frags[l], culled[l], refusedMsgs[l], GivenBefore(l, i))
    BY DEF EventsRight
  <2>. QED BY <1>1, <1>2, <2>1, GoneStays
<1>3. CASE events' = events
  <2>1. \A l \in Links, i \in 1..Len(events) : GivenBefore(l, i)' = GivenBefore(l, i)
    BY <1>3 DEF GivenBefore
  <2>2. ASSUME NEW i \in 1..Len(events), NEW l \in Links
        PROVE  GoneBy(events[i].frags[l], culled'[l], refusedMsgs'[l], GivenBefore(l, i)')
    BY <1>2, <2>1
  <2>. QED BY <1>3, <2>2 DEF EventsRight
<1>4. CASE EventDone
  <2>1. PICK e \in Event, n \in Nat :
          /\ e.trigger = trigger /\ e.frags = filling
          /\ n = Len(events) /\ Len(events') = n + 1 /\ events'[n + 1] = e
          /\ \A i \in 1..n : events'[i] = events[i]
    BY <1>4, EventAppended
  <2>2. \A i \in 1..Len(events') : i \in 1..n \/ i = n + 1
    BY <2>1
  <2>3. OfOneTrigger(e)
    <3>1. \A l \in Links : Offered(l) /\ matchers[l] # "works"
      BY <1>4 DEF EventDone, NoneBusy, Offered
    <3>2. \A l \in Links : filling[l].why # "new" /\ FilledFor(filling[l], trigger)
      BY <3>1 DEF MatchersPlaced, FillingRight
    <3>. QED BY <2>1, <3>2 DEF OfOneTrigger, FilledFor
  <2>4. \A i \in 1..Len(events') : OfOneTrigger(events'[i])
    BY <2>1, <2>2, <2>3 DEF EventsRight
  <2>5. ASSUME NEW i \in 1..Len(events'), NEW l \in Links
        PROVE  GoneBy(events'[i].frags[l], culled'[l], refusedMsgs'[l], GivenBefore(l, i)')
    <3>1. CASE i \in 1..n
      <4>1. GivenBefore(l, i) \subseteq GivenBefore(l, i)'
        <5>1. \A j \in 1..(i - 1) : j \in 1..n
          BY <2>1, <3>1
        <5>. QED BY <2>1, <5>1 DEF GivenBefore
      <4>2. GoneBy(events[i].frags[l], culled'[l], refusedMsgs'[l], GivenBefore(l, i)')
        BY <1>2, <2>1, <3>1, <4>1
      <4>. QED BY <2>1, <3>1, <4>2
    <3>2. CASE i = n + 1
      <4>1. Given(l) \subseteq GivenBefore(l, i)'
        <5>1. \A j \in 1..n : j \in 1..(i - 1) /\ events'[j] = events[j]
          BY <2>1, <3>2
        <5>. QED BY <2>1, <5>1 DEF Given, GivenBefore
      <4>2. GoneBy(filling[l], culled[l], refusedMsgs[l], Given(l))
        BY DEF FillingRight
      <4>3. GoneBy(filling[l], culled'[l], refusedMsgs'[l], GivenBefore(l, i)')
        BY <1>1, <4>1, <4>2, GoneStays
      <4>. QED BY <2>1, <3>2, <4>3
    <3>. QED BY <2>2, <3>1, <3>2
  <2>6. ASSUME NEW i \in 1..Len(events'), NEW j \in 1..Len(events'), i < j, NEW l \in Links
        PROVE  After(events'[i].frags[l], events'[j].frags[l])
    <3>1. i \in 1..n
      BY <2>1, <2>6
    <3>2. CASE j \in 1..n
      BY <2>1, <2>6, <3>1, <3>2 DEF EventsRight
    <3>3. CASE j = n + 1
      <4>1. events[i].frags[l] \in Given(l)
        BY <2>1, <3>1 DEF Given
      <4>. QED BY <2>1, <3>1, <3>3, <4>1 DEF FillingRight
    <3>. QED BY <2>2, <3>2, <3>3
  <2>. QED BY <2>4, <2>5, <2>6 DEF EventsRight
<1>5. CASE HostQuiet \/ UNCHANGED hostVars \/ TakeTrigger \/ OfferLink
  <2>1. events' = events
    BY <1>5, QuietLeaves DEF TakeTrigger, OfferLink
  <2>. QED BY <1>3, <2>1
<1>6. CASE \E l \in Links : Dispatch(l) \/ NoData(l) \/ CopyWindow(l)
  BY <1>3, <1>6, WorkLeaves
<1>. QED BY <1>4, <1>5, <1>6, HostCases

LEMMA HostInitially == ASSUME HostInit PROVE HostInv
<1>1. RequestTypes /\ InOrder(reqQ, lastReq)
  BY RequestInitTypes, OrderInitially DEF HostInit
<1>2. <<>> \in Seq(Nat) /\ <<>> \in Seq(Event) /\ Len(<<>>) = 0
  BY EmptySeq
<1>3. HostTypes
  <2>1. trigger \in Request \cup {NoRequest} /\ offering \in Nat
    BY DEF HostInit
  <2>. QED BY <1>1, <1>2, <2>1, BlankIs DEF HostInit, HostTypes
<1>4. MatchersPlaced
  BY DEF HostInit, MatchersPlaced, Offered
<1>5. Len(events) = 0 /\ \A l \in Links : Given(l) = {} /\ filling[l] = Blank
  BY <1>2 DEF HostInit, Given
<1>6. TriggersInOrder
  BY <1>1, <1>5 DEF HostInit, TriggersInOrder, InOrder
<1>7. \A l \in Links : Len(linkQ[l]) = 0 /\ produced[l] = 0 /\ refusedMsgs[l] = {}
  BY <1>2 DEF HostInit
<1>8. QueuesRight /\ Accounted
  <2>1. \A l \in Links : LinkRight(linkQ[l], produced[l], refusedMsgs[l])
    BY <1>7 DEF LinkRight
  <2>. QED BY <1>7, <2>1 DEF QueuesRight, Accounted
<1>9. Spent /\ WindowsHeld
  BY <1>5, BlankIs DEF Spent, WindowsHeld, Held, Filled
<1>10. EventsRight /\ FillingRight
  BY <1>5, BlankIs DEF EventsRight, FillingRight, FilledFor, GoneBy, After
<1>. QED BY <1>3, <1>4, <1>6, <1>8, <1>9, <1>10 DEF HostInv

LEMMA HostKept == ASSUME HostInv, [HostNext]_hostVars PROVE HostInv'
<1>1. HostTypes' /\ MatchersPlaced' /\ TriggersInOrder' /\ QueuesRight'
  BY HostTyped, PlacesKept, TriggersKept, QueuesKept DEF HostInv
<1>2. Accounted' /\ Spent' /\ WindowsHeld'
  BY <1>1, AccountedKept, SpentKept, WindowsKept DEF HostInv
<1>. QED BY <1>1, <1>2, EventsKept, FillingKept DEF HostInv

LEMMA HostImplies == ASSUME HostInv PROVE EventsCoherent
<1>. USE DEF HostInv
<1>1. DOMAIN events = 1..Len(events)
  BY LenProperties DEF HostTypes
<1>2. \A l \in Links : \A f : Hole(l, f) <=> HoleIn(refusedMsgs[l], f)
  BY DEF Hole, HoleIn
<1>3. \A i \in 1..Len(events) : \A l \in Links : events[i].frags[l] \in Filled(l)
  BY DEF Filled, Given
<1>4. \A i \in 1..Len(events) : HoldsWindow(events[i])
  <2>1. \A i \in 1..Len(events) : \A l \in Links : Held(refusedMsgs[l], events[i].frags[l])
    BY <1>3 DEF WindowsHeld
  <2>. QED BY <1>2, <2>1 DEF Held, HoldsWindow
<1>5. \A i \in 1..Len(events) : GoneForAReason(i)
  <2>. SUFFICES ASSUME NEW i \in 1..Len(events) PROVE GoneForAReason(i)
    OBVIOUS
  <2>1. \A l \in Links :
          GoneBy(events[i].frags[l], culled[l], refusedMsgs[l], GivenBefore(l, i))
    BY DEF EventsRight
  <2>. QED BY <1>2, <2>1 DEF GoneBy, GoneForAReason, GivenBefore
<1>6. \A i, j \in 1..Len(events) : i < j =>
        /\ NoRequest \notin {events[i].trigger, events[j].trigger}
             => events[i].trigger.seqID < events[j].trigger.seqID
        /\ \A l \in Links : {<<>>} \cap {events[i].frags[l].msgs, events[j].frags[l].msgs} = {}
             => Last(events[i].frags[l].msgs) < events[j].frags[l].front
  BY DEF TriggersInOrder, Newer, EventsRight, After
<1>. QED BY <1>1, <1>4, <1>5, <1>6 DEF EventsRight, EventsCoherent

(* For every number of links, size of queue and window: the fragments of   *)
(* an event are of one trigger, hold its window unless messages were       *)
(* refused, share no message with another event's, and do without data     *)
(* only if those were given before, culled or refused.                     *)
THEOREM HostEventsCoherent == HostSpec => []EventsCoherent
<1>1. HostSpec => []HostInv
  BY HostInitially, HostKept, PTL DEF HostSpec
<1>. QED BY <1>1, HostImplies, PTL
=============================================================================
