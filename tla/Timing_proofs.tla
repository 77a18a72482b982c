---------------------------- MODULE Timing_proofs ----------------------------
(***************************************************************************)
(* The timing reader: types; the board is drained and quiet after a stop;  *)
(* triggers are enabled as the InhibitMaster says; the numbers and stamps  *)
(* of fragments; the reader as an OrderedDelivery. For any number of runs, *)
(* events and rounds, any kinds of marks, and whatever fails.              *)
(***************************************************************************)
EXTENDS Timing, SequenceTheorems, TLAPS

\* where the thread is, what the board has been told
Control ==
  /\ stoppingState > 0 => stoppingFlag /\ ~hwRun /\ ~trigEn /\ throttling = 0
  /\ gpc = "settle" => stoppingState = 1
  /\ stoppingState = 2 => gpc = "done" /\ pipe = <<>> /\ buffer = <<>>
  /\ stoppingState = 1 /\ gpc \in {"idle", "look", "throttle"} => pipe = <<>>
  /\ ~sendFragments => gpc \in {"idle", "done"} /\ stoppingState = 0 /\ ~trigEn
  /\ run = 0 => gpc = "done" /\ ~trigEn /\ obeyed = <<>> /\ stoppingState = 0

\* what the reader knows of the board and of the InhibitMaster
Told ==
  /\ stoppingState = 0 /\ run > 0 => (trigEn <=> throttling = 0)
  /\ obeyed # <<>> => ignore = "zero"

\* every trigger of the run is delivered or on its way
Waits(q, t) == \E j \in DOMAIN q : q[j].kind = "Trig" /\ q[j].time = t
NothingLost ==
  \A i \in DOMAIN triggers : \/ \E j \in DOMAIN delivered : delivered[j].time = triggers[i]
                             \/ Waits(buffer, triggers[i])
                             \/ Waits(pipe, triggers[i])

Numbered == /\ evCounter = Len(delivered) + 1
            /\ \A i \in DOMAIN delivered : delivered[i].seq = i

\* the events in the board are recorded ones, in the order of their times
Increasing(q) == \A i, j \in DOMAIN q : i < j => q[i].time < q[j].time
InOrder ==
  /\ \A e \in recorded : e.time <= tick
  /\ \A i \in DOMAIN buffer : buffer[i] \in recorded
  /\ \A i \in DOMAIN pipe : pipe[i] \in recorded
  /\ Increasing(buffer) /\ Increasing(pipe)
  /\ \A i \in DOMAIN buffer, j \in DOMAIN pipe : buffer[i].time < pipe[j].time

\* last holds the last marks that are no longer in the board
LastMarks ==
  \A k \in Marks :
    /\ last[k] = 0 \/ \E e \in recorded : e.kind = k /\ e.time = last[k]
    /\ \A e \in recorded : e.kind = k => e.time <= last[k] \/ InBoard(e)
    /\ \A i \in DOMAIN buffer : last[k] < buffer[i].time
    /\ \A i \in DOMAIN pipe : last[k] < pipe[i].time

\* the stamps of a fragment
StampOf(f, k) ==
  /\ f.stamps[k] = 0 \/ \E e \in recorded : e.kind = k /\ e.time < f.time /\ e.time = f.stamps[k]
  /\ \A e \in recorded : e.kind = k /\ e.time < f.time => e.time <= f.stamps[k]
Stamped == \A i \in DOMAIN delivered : /\ delivered[i].time <= tick
                                       /\ \A k \in Marks : StampOf(delivered[i], k)

dataVars == <<pipe, buffer, tick, recorded, triggers, delivered, evCounter, last>>
-----------------------------------------------------------------------------
(* Only four actions touch the data. *)
LEMMA DataSteps ==
  ASSUME [Next]_vars
  PROVE  \/ \E k \in Kinds : BoardRecords(k)
         \/ Push \/ Start \/ ReadEvent \/ UNCHANGED dataVars
<1>1. CASE Next
  BY <1>1 DEF Next, Stop, JoinClock, EndRun, ClockEnds, ClockThrows, BoardThrows, GetNext, Call,
     StopPartition, Settle, Drain, NoEvent, Poll, NoPoll, PollNothing, PollGaveUp, PollMessage, Round, Thread,
     CheckHWStatus, MasterSends, TimePasses, board, history, dataVars
<1>2. CASE UNCHANGED vars
  BY <1>2 DEF vars, dataVars
<1>. QED BY <1>1, <1>2
-----------------------------------------------------------------------------

LEMMA EventTypes ==
  /\ \A k \in Kinds, n \in Nat : [kind |-> k, time |-> n + 1] \in Event
  /\ Event \subseteq [kind : Kinds, time : Nat]
BY DEF Event

LEMMA InitType == Init => TypeOK
<1>1. SUFFICES ASSUME Init PROVE TypeOK
  OBVIOUS
<1>2. /\ run \in Nat /\ tick \in Nat /\ evCounter \in Nat /\ last \in [Marks -> Nat]
      /\ stoppingState \in 0..2 /\ throttling \in 0..1 /\ counter \in 0..MaxCounter
  BY <1>1, TimingAssumption DEF Init
<1>3. /\ pipe \in Seq(Event) /\ buffer \in Seq(Event) /\ triggers \in Seq(Nat)
      /\ delivered \in Seq([seq : Nat, time : Nat, stamps : [Marks -> Nat]])
      /\ obeyed \in Seq(Message) /\ inq \in Seq(Message) /\ Len(obeyed) <= 1 /\ Len(inq) <= 1
  BY <1>1 DEF Init, InhibitInit
<1>. QED
  BY <1>1, <1>2, <1>3 DEF Init, InhibitInit, TypeOK

LEMMA Types0 ==
  ASSUME TypeOK
  PROVE  /\ tick \in Nat /\ tick + 1 \in Nat /\ run + 1 \in Nat
         /\ {0, 1, 2} = 0..2 /\ {0, 1} = 0..1 /\ \A n \in 0..1 : 1 - n \in 0..1
         /\ 0 \in 0..MaxCounter /\ (counter < MaxCounter => counter + 1 \in 0..MaxCounter)
<1>1. MaxCounter \in Nat
  BY TimingAssumption
<1>2. tick \in Nat /\ run \in Nat /\ counter \in 0..MaxCounter
  BY DEF TypeOK
<1>. QED
  BY <1>1, <1>2

LEMMA TypeStep == TypeOK /\ [Next]_vars => TypeOK'
<1>. SUFFICES ASSUME TypeOK, [Next]_vars PROVE TypeOK'
  OBVIOUS
<1>. USE TimingAssumption DEF TypeOK
<1>0. /\ tick \in Nat /\ tick + 1 \in Nat /\ run + 1 \in Nat
      /\ {0, 1, 2} = 0..2 /\ {0, 1} = 0..1 /\ \A n \in 0..1 : 1 - n \in 0..1
      /\ 0 \in 0..MaxCounter /\ (counter < MaxCounter => counter + 1 \in 0..MaxCounter)
  BY Types0
<1>1. ASSUME NEW k \in Kinds, BoardRecords(k) PROVE TypeOK'
  <2>1. [kind |-> k, time |-> tick + 1] \in Event /\ tick + 1 \in Nat
    BY <1>0, EventTypes, Zenon
  <2>2. tick' \in Nat /\ pipe' \in Seq(Event) /\ recorded' \in SUBSET Event
    BY <1>1, <2>1 DEF BoardRecords
  <2>3. triggers' \in Seq(Nat)
    BY <1>1, <2>1, AppendProperties DEF BoardRecords
  <2>. QED
    BY <1>1, <2>2, <2>3 DEF BoardRecords, flags, status, inhibit
<1>2. CASE Push
  BY <1>2 DEF Push, board, flags, history, status, inhibit, Thread
<1>3. CASE Start
  <2>1. /\ pipe' \in Seq(Event) /\ buffer' \in Seq(Event) /\ triggers' \in Seq(Nat)
        /\ delivered' \in Seq([seq : Nat, time : Nat, stamps : [Marks -> Nat]])
        /\ obeyed' \in Seq(Message) /\ Len(obeyed') <= 1
    BY <1>3, EmptySeq DEF Start, Cleared
  <2>2. recorded' \in SUBSET Event
    BY <1>3 DEF Start
  <2>3. ignore' \in {"zero", "waiting", "expired", "infinite"}
    BY <1>3 DEF Start, InhibitConnect
  <2>4. run' \in Nat /\ stoppingState' \in 0..2 /\ throttling' \in 0..1 /\ evCounter' \in Nat
    BY <1>0, <1>3 DEF Start
  <2>. QED
    BY <1>3, <2>1, <2>2, <2>3, <2>4 DEF Start, InhibitConnect, status
<1>4. CASE Stop
  BY <1>4 DEF Stop, board, history, status, inhibit
<1>5. CASE JoinClock
  BY <1>5 DEF JoinClock, board, flags, history, status, inhibit, Thread
<1>6. CASE EndRun
  BY <1>6 DEF EndRun, board, flags, history, status, inhibit, Thread
<1>7. CASE ClockEnds \/ ClockThrows
  <2>1. CASE ClockEnds
    BY <2>1 DEF ClockEnds, TestStop, board, flags, history, status, inhibit
  <2>2. CASE ClockThrows
    BY <2>2 DEF ClockThrows, board, flags, history, status, inhibit
  <2>. QED BY <1>7, <2>1, <2>2
<1>8. CASE BoardThrows
  BY <1>8 DEF BoardThrows, board, flags, history, status, inhibit, Thread
<1>9. CASE Call
  BY <1>9 DEF Call, board, flags, history, status, inhibit, Thread
<1>10. CASE StopPartition
  <2>1. stoppingState' \in 0..2 /\ throttling' \in 0..1
    BY <1>0, <1>10 DEF StopPartition
  <2>2. gpc' \in {"done", "idle", "settle", "look", "throttle"}
    BY <1>10 DEF StopPartition, AfterStop
  <2>3. hwRun' \in BOOLEAN /\ trigEn' \in BOOLEAN
    BY <1>10 DEF StopPartition
  <2>. QED
    BY <1>10, <2>1, <2>2, <2>3 DEF StopPartition, history, inhibit, Thread, status
<1>11. CASE Settle
  BY <1>11 DEF Settle, board, flags, history, status, inhibit, Thread
<1>12. CASE ReadEvent
  <2>1. Head(buffer) \in Event /\ buffer' \in Seq(Event) /\ Head(buffer).time \in Nat
    BY <1>12, EventTypes DEF ReadEvent
  <2>2. last' \in [Marks -> Nat] /\ evCounter' \in Nat
    BY <1>12, <2>1 DEF ReadEvent, NextLast, NextCount
  <2>3. delivered' \in Seq([seq : Nat, time : Nat, stamps : [Marks -> Nat]])
    <3>1. [seq |-> evCounter, time |-> Head(buffer).time, stamps |-> last]
             \in [seq : Nat, time : Nat, stamps : [Marks -> Nat]]
      BY <2>1
    <3>. QED
      BY <1>12, <3>1, AppendProperties DEF ReadEvent
  <2>. QED
    BY <1>12, <2>1, <2>2, <2>3 DEF ReadEvent, Thread, status, inhibit
<1>13. CASE Drain
  BY <1>13 DEF Drain, board, flags, history, status, inhibit, Thread
<1>14. CASE NoEvent
  BY <1>14 DEF NoEvent, board, flags, history, status, inhibit, Thread
<1>r. Round => counter' \in 0..MaxCounter /\ gpc' \in {"idle", "look"}
  BY <1>0 DEF Round
<1>15. CASE NoPoll
  BY <1>15, <1>r DEF NoPoll, history, status, Thread, Round
<1>16. CASE PollNothing
  BY <1>16, <1>r DEF PollNothing, history, status, Thread, Round, NoUpdate
<1>17. CASE PollGaveUp
  <2>1. throttling' \in 0..1 /\ trigEn' \in BOOLEAN
    BY <1>0, <1>17 DEF PollGaveUp, Throttle, IsChange
  <2>. QED
    BY <1>17, <1>r, <2>1 DEF PollGaveUp, history, status, Thread, Round, GiveUp
<1>18. CASE TimePasses
  BY <1>18 DEF TimePasses, board, flags, history, status, inhibit, Thread, ClockPasses
<1>19. ASSUME NEW on \in BOOLEAN, PollMessage(on) PROVE TypeOK'
  <2>1. inq' \in Seq(Message) /\ Len(inq') <= 1 /\ Head(inq) \in Message
    BY <1>19 DEF PollMessage, GetMessage
  <2>2. obeyed' \in Seq(Message) /\ Len(obeyed') <= 1
    BY <1>19, <2>1 DEF PollMessage
  <2>3. throttling' \in 0..1 /\ trigEn' \in BOOLEAN
    BY <1>0, <1>19 DEF PollMessage, Throttle, IsChange
  <2>. QED
    BY <1>19, <1>r, <2>1, <2>2, <2>3 DEF PollMessage, GetMessage, Round, Thread, status, history
<1>20. ASSUME NEW noTokens \in BOOLEAN, NEW reaches \in BOOLEAN, NEW ready \in BOOLEAN,
             CheckHWStatus(noTokens, reaches, ready)
      PROVE  TypeOK'
  BY <1>20 DEF CheckHWStatus, Changed, Bad, board, flags, history, inhibit
<1>21. ASSUME NEW on \in BOOLEAN, MasterSends(on) PROVE TypeOK'
  <2>1. inq' \in Seq(Message) /\ Len(inq') <= 1
    BY <1>21 DEF MasterSends, Publish, Message
  <2>. QED
    BY <1>21, <2>1 DEF MasterSends, Publish, board, flags, history, status
<1>22. CASE UNCHANGED vars
  BY <1>22 DEF vars
<1>. QED
  BY <1>1, <1>2, <1>3, <1>4, <1>5, <1>6, <1>7, <1>8, <1>9, <1>10, <1>11, <1>12, <1>13, <1>14, <1>15, <1>16, <1>17, <1>18, <1>19, <1>20, <1>21, <1>22 DEF Next, GetNext, Poll

(* Every variable has its type. *)
THEOREM TypeCorrect == Spec => []TypeOK
  BY InitType, TypeStep, PTL DEF Spec
-----------------------------------------------------------------------------
(* What the board has been told. *)
Enabling == Control /\ Told /\ EnabledAsTold

LEMMA EnablingInit == Init => Enabling
  BY DEF Init, InhibitInit, Enabling, Control, Told, EnabledAsTold, Allowed

LEMMA EnablingStep == TypeOK /\ Enabling /\ [Next]_vars => Enabling'
<1>. SUFFICES ASSUME TypeOK, Enabling, [Next]_vars PROVE Enabling'
  OBVIOUS
<1>t. /\ stoppingState \in {0, 1, 2} /\ throttling \in {0, 1} /\ run \in Nat
      /\ patience # "zero" /\ trigEn \in BOOLEAN /\ sendFragments \in BOOLEAN
      /\ stoppingFlag \in BOOLEAN /\ (run = 0 \/ run > 0)
  BY DEF TypeOK
<1>. USE DEF Enabling, Control, Told, EnabledAsTold, Allowed
<1>1. ASSUME NEW k \in Kinds, BoardRecords(k) PROVE Enabling'
  BY <1>1, <1>t DEF BoardRecords, flags, inhibit
<1>2. CASE Push
  BY <1>2, <1>t DEF Push, flags, inhibit
<1>3. CASE Start
  BY <1>3, <1>t DEF Start, InhibitConnect, Cleared
<1>4. CASE Stop
  BY <1>4, <1>t DEF Stop, board, inhibit
<1>5. CASE JoinClock
  BY <1>5, <1>t DEF JoinClock, board, flags, inhibit
<1>6. CASE EndRun
  BY <1>6, <1>t DEF EndRun, board, flags, inhibit
<1>7. CASE ClockEnds \/ ClockThrows
  BY <1>7, <1>t DEF ClockEnds, ClockThrows, board, flags, inhibit
<1>8. CASE BoardThrows
  BY <1>8, <1>t DEF BoardThrows, board, flags, inhibit
<1>9. CASE Call
  BY <1>9, <1>t DEF Call, board, flags, inhibit, Thread
<1>10. CASE StopPartition
  BY <1>10, <1>t DEF StopPartition, AfterStop, ToStop, inhibit, Thread
<1>11. CASE Settle
  BY <1>11, <1>t DEF Settle, board, inhibit, Thread
<1>12. CASE ReadEvent
  BY <1>12, <1>t DEF ReadEvent, Looks, inhibit, Thread
<1>13. CASE Drain
  BY <1>13, <1>t DEF Drain, Looks, board, inhibit, Thread
<1>14. CASE NoEvent
  BY <1>14, <1>t DEF NoEvent, Looks, board, inhibit, Thread
<1>15. CASE NoPoll
  BY <1>15, <1>t DEF NoPoll, Round, Thread
<1>16. CASE PollNothing
  BY <1>16, <1>t DEF PollNothing, NoUpdate, Round, Thread
<1>17. CASE PollGaveUp
  BY <1>17, <1>t DEF PollGaveUp, GiveUp, Throttle, IsChange, Round, Thread
<1>18. CASE TimePasses
  BY <1>18, <1>t DEF TimePasses, ClockPasses, board, flags
<1>19. ASSUME NEW on \in BOOLEAN, PollMessage(on) PROVE Enabling'
  <2>1. obeyed' = <<Head(inq)>> /\ obeyed' # <<>> /\ (obeyed'[1].on <=> on) /\ ignore' = "zero"
    BY <1>19 DEF PollMessage, GetMessage
  <2>2. (trigEn' <=> on) /\ throttling' = IF on THEN 0 ELSE 1
    <3>1. stoppingState = 0 /\ run > 0
      BY <1>19, <1>t DEF PollMessage, Round
    <3>2. CASE on
      <4>1. on = TRUE
        BY <3>2, Zenon
      <4>2. Throttle(TRUE)
        BY <4>1, <1>19, Zenon DEF PollMessage
      <4>. QED
        BY <3>1, <3>2, <4>2, <1>t DEF Throttle, IsChange
    <3>3. CASE ~on
      BY <3>1, <3>3, <1>19, <1>t DEF PollMessage, Throttle, IsChange
    <3>. QED BY <3>2, <3>3
  <2>. QED
    BY <1>19, <2>1, <2>2, <1>t DEF PollMessage, Round, Thread
<1>20. ASSUME NEW noTokens \in BOOLEAN, NEW reaches \in BOOLEAN, NEW ready \in BOOLEAN,
             CheckHWStatus(noTokens, reaches, ready)
      PROVE  Enabling'
  BY <1>20, <1>t DEF CheckHWStatus, board, flags, inhibit
<1>21. ASSUME NEW on \in BOOLEAN, MasterSends(on) PROVE Enabling'
  BY <1>21, <1>t DEF MasterSends, Publish, board, flags
<1>22. CASE UNCHANGED vars
  BY <1>22 DEF vars
<1>. QED
  BY <1>1, <1>2, <1>3, <1>4, <1>5, <1>6, <1>7, <1>8, <1>9, <1>10, <1>11, <1>12, <1>13, <1>14,
     <1>15, <1>16, <1>17, <1>18, <1>19, <1>20, <1>21, <1>22 DEF Next, GetNext, Poll

(* Triggers are enabled just if the InhibitMaster, as far as it has been read, *)
(* allows them, and never after the stop of the board or before a start.       *)
THEOREM EnabledCorrect == Spec => []EnabledAsTold
<1>1. Init => TypeOK /\ Enabling
  BY InitType, EnablingInit
<1>2. TypeOK /\ Enabling /\ [Next]_vars => (TypeOK /\ Enabling)'
  BY TypeStep, EnablingStep
<1>3. Enabling => EnabledAsTold
  BY DEF Enabling
<1>. QED
  BY <1>1, <1>2, <1>3, PTL DEF Spec
-----------------------------------------------------------------------------
(* Queues of events. *)
LEMMA AppendIs ==
  ASSUME NEW S, NEW q \in Seq(S), NEW e \in S
  PROVE  /\ DOMAIN q = 1..Len(q) /\ DOMAIN Append(q, e) = 1..Len(q) + 1 /\ Len(q) \in Nat
         /\ \A i \in 1..Len(q) : Append(q, e)[i] = q[i]
         /\ Append(q, e)[Len(q) + 1] = e
BY AppendProperties

LEMMA TailIs ==
  ASSUME NEW S, NEW q \in Seq(S), q # <<>>
  PROVE  /\ DOMAIN q = 1..Len(q) /\ DOMAIN Tail(q) = 1..Len(q) - 1 /\ Len(q) \in Nat \ {0}
         /\ \A i \in 1..Len(q) - 1 : Tail(q)[i] = q[i + 1]
         /\ Head(q) = q[1] /\ Head(q) \in S
BY HeadTailProperties

LEMMA WaitsAppend ==
  ASSUME NEW q \in Seq(Event), NEW e \in Event, NEW t,
         Waits(q, t) \/ (e.kind = "Trig" /\ e.time = t)
  PROVE  Waits(Append(q, e), t)
BY AppendIs DEF Waits

LEMMA WaitsTail ==
  ASSUME NEW q \in Seq(Event), q # <<>>, NEW t, Waits(q, t)
  PROVE  Waits(Tail(q), t) \/ (Head(q).kind = "Trig" /\ Head(q).time = t)
<1>1. PICK j \in 1..Len(q) : q[j].kind = "Trig" /\ q[j].time = t
  BY TailIs DEF Waits
<1>2. CASE j = 1
  BY <1>1, <1>2, TailIs
<1>3. CASE j # 1
  <2>1. j - 1 \in DOMAIN Tail(q) /\ Tail(q)[j - 1] = q[j]
    BY <1>3, TailIs
  <2>. QED
    BY <1>1, <2>1 DEF Waits
<1>. QED BY <1>2, <1>3

(* The fragment that a call of getNext_() makes of a trigger. *)
LEMMA Delivers ==
  ASSUME TypeOK, ReadEvent
  PROVE  /\ DOMAIN delivered = 1..Len(delivered) /\ Len(delivered) \in Nat
         /\ Head(buffer).kind # "Trig" => delivered' = delivered
         /\ Head(buffer).kind = "Trig" =>
              /\ DOMAIN delivered' = 1..Len(delivered) + 1 /\ Len(delivered') = Len(delivered) + 1
              /\ \A i \in 1..Len(delivered) : delivered'[i] = delivered[i]
              /\ delivered'[Len(delivered) + 1]
                   = [seq |-> evCounter, time |-> Head(buffer).time, stamps |-> last]
<1>1. /\ delivered \in Seq([seq : Nat, time : Nat, stamps : [Marks -> Nat]])
      /\ evCounter \in Nat /\ last \in [Marks -> Nat] /\ buffer \in Seq(Event)
  BY DEF TypeOK
<1>2. CASE Head(buffer).kind # "Trig"
  <2>1. delivered' = delivered
    BY <1>2 DEF ReadEvent
  <2>. QED BY <1>1, <1>2, <2>1
<1>3. CASE Head(buffer).kind = "Trig"
  <2>. DEFINE f == [seq |-> evCounter, time |-> Head(buffer).time, stamps |-> last]
  <2>1. Head(buffer).time \in Nat
    BY <1>1, TailIs, EventTypes DEF ReadEvent
  <2>2. f \in [seq : Nat, time : Nat, stamps : [Marks -> Nat]]
    BY <1>1, <2>1
  <2>3. delivered' = Append(delivered, f)
    BY <1>3 DEF ReadEvent
  <2>. HIDE DEF f
  <2>4. /\ DOMAIN delivered = 1..Len(delivered) /\ Len(delivered) \in Nat
        /\ DOMAIN Append(delivered, f) = 1..Len(delivered) + 1
        /\ Len(Append(delivered, f)) = Len(delivered) + 1
        /\ \A i \in 1..Len(delivered) : Append(delivered, f)[i] = delivered[i]
        /\ Append(delivered, f)[Len(delivered) + 1] = f
    BY <1>1, <2>2, AppendProperties
  <2>5. /\ DOMAIN delivered' = 1..Len(delivered) + 1 /\ Len(delivered') = Len(delivered) + 1
        /\ \A i \in 1..Len(delivered) : delivered'[i] = delivered[i]
        /\ delivered'[Len(delivered) + 1] = f
    BY <2>3, <2>4
  <2>. QED BY <1>3, <2>4, <2>5 DEF f
<1>. QED BY <1>2, <1>3
-----------------------------------------------------------------------------
(* The drain. *)
LEMMA NothingLostStep == TypeOK /\ NothingLost /\ [Next]_vars => NothingLost'
<1>. SUFFICES ASSUME TypeOK, NothingLost, [Next]_vars,
                     NEW i \in DOMAIN triggers'
              PROVE  \/ \E j \in DOMAIN delivered' : delivered'[j].time = triggers'[i]
                     \/ Waits(buffer', triggers'[i]) \/ Waits(pipe', triggers'[i])
  BY DEF NothingLost, Waits
<1>t. /\ pipe \in Seq(Event) /\ buffer \in Seq(Event) /\ triggers \in Seq(Nat) /\ tick \in Nat
      /\ delivered \in Seq([seq : Nat, time : Nat, stamps : [Marks -> Nat]])
  BY DEF TypeOK
<1>1. ASSUME NEW k \in Kinds, BoardRecords(k)
      PROVE  \/ \E j \in DOMAIN delivered' : delivered'[j].time = triggers'[i]
             \/ Waits(buffer', triggers'[i]) \/ Waits(pipe', triggers'[i])
  <2>e. [kind |-> k, time |-> tick + 1] \in Event /\ tick + 1 \in Nat
    BY <1>t, EventTypes
  <2>u. delivered' = delivered /\ buffer' = buffer
    BY <1>1 DEF BoardRecords, history
  <2>1. CASE i \in DOMAIN triggers /\ triggers'[i] = triggers[i]
    BY <1>1, <1>t, <2>1, <2>e, <2>u, WaitsAppend DEF BoardRecords, NothingLost
  <2>2. CASE k = "Trig" /\ triggers'[i] = tick + 1
    BY <1>1, <1>t, <2>2, <2>e, WaitsAppend DEF BoardRecords
  <2>3. \/ i \in DOMAIN triggers /\ triggers'[i] = triggers[i]
        \/ k = "Trig" /\ triggers'[i] = tick + 1
    BY <1>1, <1>t, <2>e, AppendIs DEF BoardRecords
  <2>. QED BY <2>1, <2>2, <2>3
<1>2. CASE Push
  <2>1. triggers' = triggers /\ delivered' = delivered
    BY <1>2 DEF Push, history
  <2>2. pipe # <<>> /\ buffer' = Append(buffer, Head(pipe)) /\ pipe' = Tail(pipe) /\ Head(pipe) \in Event
    BY <1>2, <1>t, TailIs DEF Push
  <2>. QED
    BY <1>t, <2>1, <2>2, WaitsAppend, WaitsTail DEF NothingLost
<1>3. CASE Start
  BY <1>3 DEF Start
<1>4. CASE ReadEvent
  <2>1. triggers' = triggers /\ pipe' = pipe
    BY <1>4 DEF ReadEvent
  <2>2. buffer # <<>> /\ buffer' = Tail(buffer) /\ Head(buffer) \in Event
    BY <1>4, <1>t, TailIs DEF ReadEvent
  <2>3. /\ \A j \in DOMAIN delivered : j \in DOMAIN delivered' /\ delivered'[j] = delivered[j]
        /\ Head(buffer).kind = "Trig"
             => \E j \in DOMAIN delivered' : delivered'[j].time = Head(buffer).time
    BY <1>4, Delivers
  <2>. QED
    BY <1>t, <2>1, <2>2, <2>3, WaitsTail DEF NothingLost
<1>5. CASE UNCHANGED dataVars
  BY <1>5 DEF dataVars, NothingLost
<1>. QED
  BY <1>1, <1>2, <1>3, <1>4, <1>5, DataSteps

(* When getNext_() has returned false for a stop, the board is quiet and every *)
(* trigger it recorded in the run has been given to artdaq.                    *)
THEOREM DrainedCorrect == Spec => []Drained
<1>1. Init => TypeOK /\ Enabling /\ NothingLost
  BY InitType, EnablingInit DEF Init, NothingLost
<1>2. TypeOK /\ Enabling /\ NothingLost /\ [Next]_vars => (TypeOK /\ Enabling /\ NothingLost)'
  BY TypeStep, EnablingStep, NothingLostStep
<1>3. Enabling /\ NothingLost => Drained
  BY DEF Enabling, Control, NothingLost, Waits, Drained
<1>. QED
  BY <1>1, <1>2, <1>3, PTL DEF Spec
-----------------------------------------------------------------------------
(* The numbers of the fragments. *)
LEMMA NumberedStep == TypeOK /\ Numbered /\ [Next]_vars => Numbered'
<1>. SUFFICES ASSUME TypeOK, Numbered, [Next]_vars PROVE Numbered'
  OBVIOUS
<1>1. ASSUME NEW k \in Kinds, BoardRecords(k) PROVE Numbered'
  BY <1>1 DEF BoardRecords, Numbered
<1>2. CASE Push
  BY <1>2 DEF Push, history, Numbered
<1>3. CASE Start
  BY <1>3 DEF Start, Numbered
<1>4. CASE ReadEvent
  <2>1. evCounter' = IF Head(buffer).kind = "Trig" THEN evCounter + 1 ELSE evCounter
    BY <1>4 DEF ReadEvent, NextCount
  <2>. QED
    BY <1>4, <2>1, Delivers DEF Numbered
<1>5. CASE UNCHANGED dataVars
  BY <1>5 DEF dataVars, Numbered
<1>. QED
  BY <1>1, <1>2, <1>3, <1>4, <1>5, DataSteps
-----------------------------------------------------------------------------
(* The order of the events in the board. *)
LEMMA OrderStep == TypeOK /\ InOrder /\ [Next]_vars => InOrder'
<1>. SUFFICES ASSUME TypeOK, InOrder, [Next]_vars PROVE InOrder'
  OBVIOUS
<1>t. /\ pipe \in Seq(Event) /\ buffer \in Seq(Event) /\ tick \in Nat
      /\ recorded \subseteq Event
  BY DEF TypeOK
<1>n. \A e \in Event : e.time \in Nat
  BY EventTypes
<1>d. /\ DOMAIN pipe = 1..Len(pipe) /\ Len(pipe) \in Nat
      /\ DOMAIN buffer = 1..Len(buffer) /\ Len(buffer) \in Nat
      /\ \A i \in DOMAIN pipe : pipe[i].time \in Nat
      /\ \A i \in DOMAIN buffer : buffer[i].time \in Nat
  BY <1>t, <1>n
<1>1. ASSUME NEW k \in Kinds, BoardRecords(k) PROVE InOrder'
  <2>. DEFINE e == [kind |-> k, time |-> tick + 1]
  <2>1. e \in Event /\ e.time = tick + 1
    BY <1>t, EventTypes
  <2>2. /\ tick' = tick + 1 /\ buffer' = buffer /\ recorded' = recorded \cup {e}
        /\ pipe' = Append(pipe, e)
    BY <1>1 DEF BoardRecords
  <2>. HIDE DEF e
  <2>3. /\ DOMAIN pipe' = 1..Len(pipe) + 1
        /\ \A i \in 1..Len(pipe) : pipe'[i] = pipe[i]
        /\ pipe'[Len(pipe) + 1] = e
    BY <1>t, <2>1, <2>2, AppendIs
  <2>4. /\ \A i \in DOMAIN pipe : pipe[i].time <= tick
        /\ \A i \in DOMAIN buffer : buffer[i].time <= tick
    BY DEF InOrder
  <2>5. \A x \in recorded' : x.time <= tick'
    BY <1>t, <1>n, <2>1, <2>2 DEF InOrder
  <2>6. /\ \A i \in DOMAIN buffer' : buffer'[i] \in recorded'
        /\ \A i \in DOMAIN pipe' : pipe'[i] \in recorded'
    BY <1>d, <2>2, <2>3 DEF InOrder
  <2>a. pipe'[Len(pipe) + 1].time = tick + 1
    BY <2>1, <2>3
  <2>b. \A i \in DOMAIN pipe' : i \in DOMAIN pipe \/ i = Len(pipe) + 1
    BY <1>d, <2>3
  <2>7. Increasing(buffer)' /\ Increasing(pipe)'
    <3>1. Increasing(buffer)'
      BY <2>2 DEF InOrder, Increasing
    <3>2. ASSUME NEW i \in DOMAIN pipe', NEW j \in DOMAIN pipe', i < j
          PROVE  pipe'[i].time < pipe'[j].time
      <4>1. i \in DOMAIN pipe /\ pipe'[i] = pipe[i]
        BY <1>d, <2>3, <2>b, <3>2
      <4>2. CASE j \in DOMAIN pipe
        BY <1>d, <2>3, <3>2, <4>1, <4>2 DEF InOrder, Increasing
      <4>3. CASE j = Len(pipe) + 1
        BY <1>t, <1>d, <2>4, <2>a, <4>1, <4>3
      <4>. QED BY <2>b, <4>2, <4>3
    <3>. QED BY <3>1, <3>2 DEF Increasing
  <2>8. ASSUME NEW i \in DOMAIN buffer', NEW j \in DOMAIN pipe'
        PROVE  buffer'[i].time < pipe'[j].time
    <3>1. CASE j \in DOMAIN pipe
      BY <1>d, <2>2, <2>3, <3>1 DEF InOrder
    <3>2. CASE j = Len(pipe) + 1
      BY <1>t, <1>d, <2>2, <2>4, <2>a, <3>2
    <3>. QED BY <2>b, <3>1, <3>2
  <2>. QED BY <2>5, <2>6, <2>7, <2>8 DEF InOrder
<1>2. CASE Push
  <2>1. /\ tick' = tick /\ recorded' = recorded /\ pipe # <<>>
        /\ buffer' = Append(buffer, Head(pipe)) /\ pipe' = Tail(pipe)
    BY <1>2 DEF Push, history
  <2>2. /\ DOMAIN pipe' = 1..Len(pipe) - 1 /\ Len(pipe) \in Nat \ {0}
        /\ \A i \in 1..Len(pipe) - 1 : pipe'[i] = pipe[i + 1]
        /\ Head(pipe) = pipe[1] /\ Head(pipe) \in Event
    BY <1>t, <2>1, TailIs
  <2>3. /\ DOMAIN buffer' = 1..Len(buffer) + 1
        /\ \A i \in 1..Len(buffer) : buffer'[i] = buffer[i]
        /\ buffer'[Len(buffer) + 1] = pipe[1]
    BY <1>t, <2>1, <2>2, AppendIs
  <2>a. \A i \in DOMAIN buffer' : i \in DOMAIN buffer \/ i = Len(buffer) + 1
    BY <1>d, <2>3
  <2>b. \A i \in DOMAIN pipe' : /\ i + 1 \in DOMAIN pipe /\ pipe'[i] = pipe[i + 1]
                                /\ pipe[1].time < pipe'[i].time
    BY <1>d, <2>2 DEF InOrder, Increasing
  <2>4. Increasing(buffer)' /\ Increasing(pipe)'
    <3>1. ASSUME NEW i \in DOMAIN pipe', NEW j \in DOMAIN pipe', i < j
          PROVE  pipe'[i].time < pipe'[j].time
      <4>1. i + 1 \in DOMAIN pipe /\ j + 1 \in DOMAIN pipe /\ i + 1 < j + 1
        BY <1>d, <2>2, <3>1
      <4>. QED BY <2>b, <4>1 DEF InOrder, Increasing
    <3>2. ASSUME NEW i \in DOMAIN buffer', NEW j \in DOMAIN buffer', i < j
          PROVE  buffer'[i].time < buffer'[j].time
      <4>1. i \in DOMAIN buffer /\ buffer'[i] = buffer[i]
        BY <1>d, <2>3, <2>a, <3>2
      <4>2. CASE j \in DOMAIN buffer
        BY <1>d, <2>3, <3>2, <4>1, <4>2 DEF InOrder, Increasing
      <4>3. CASE j = Len(buffer) + 1
        <5>1. buffer'[j] = pipe[1] /\ 1 \in DOMAIN pipe
          BY <1>d, <2>2, <2>3, <4>3
        <5>. QED BY <4>1, <5>1 DEF InOrder
      <4>. QED BY <2>a, <4>2, <4>3
    <3>. QED BY <3>1, <3>2 DEF Increasing
  <2>5. ASSUME NEW i \in DOMAIN buffer', NEW j \in DOMAIN pipe'
        PROVE  buffer'[i].time < pipe'[j].time
    <3>1. CASE i \in DOMAIN buffer
      <4>1. buffer'[i] = buffer[i]
        BY <1>d, <2>3, <3>1
      <4>. QED BY <2>b, <3>1, <4>1 DEF InOrder
    <3>2. CASE i = Len(buffer) + 1
      BY <2>3, <2>b, <3>2
    <3>. QED BY <2>a, <3>1, <3>2
  <2>6. /\ \A i \in DOMAIN buffer' : buffer'[i] \in recorded'
        /\ \A i \in DOMAIN pipe' : pipe'[i] \in recorded'
    BY <1>d, <2>1, <2>2, <2>3 DEF InOrder
  <2>. QED BY <2>1, <2>4, <2>5, <2>6 DEF InOrder
<1>3. CASE Start
  BY <1>3 DEF Start, Cleared, InOrder, Increasing
<1>4. CASE ReadEvent
  <2>1. /\ tick' = tick /\ recorded' = recorded /\ pipe' = pipe
        /\ buffer # <<>> /\ buffer' = Tail(buffer)
    BY <1>4 DEF ReadEvent
  <2>2. /\ DOMAIN buffer' = 1..Len(buffer) - 1 /\ Len(buffer) \in Nat \ {0}
        /\ \A i \in 1..Len(buffer) - 1 : buffer'[i] = buffer[i + 1]
    BY <1>t, <2>1, TailIs
  <2>. QED BY <1>d, <2>1, <2>2 DEF InOrder, Increasing
<1>5. CASE UNCHANGED dataVars
  BY <1>5 DEF dataVars, InOrder, Increasing
<1>. QED
  BY <1>1, <1>2, <1>3, <1>4, <1>5, DataSteps
-----------------------------------------------------------------------------
(* The last marks. *)
LEMMA LastMarksStep == TypeOK /\ InOrder /\ LastMarks /\ [Next]_vars => LastMarks'
<1>. SUFFICES ASSUME TypeOK, InOrder, LastMarks, [Next]_vars, NEW m \in Marks
              PROVE  /\ last'[m] = 0 \/ \E e \in recorded' : e.kind = m /\ e.time = last'[m]
                     /\ \A e \in recorded' : e.kind = m => e.time <= last'[m] \/ InBoard(e)'
                     /\ \A i \in DOMAIN buffer' : last'[m] < buffer'[i].time
                     /\ \A i \in DOMAIN pipe' : last'[m] < pipe'[i].time
  BY DEF LastMarks, InBoard
<1>. DEFINE Goal == /\ last'[m] = 0 \/ \E e \in recorded' : e.kind = m /\ e.time = last'[m]
                    /\ \A e \in recorded' : e.kind = m => e.time <= last'[m] \/ InBoard(e)'
                    /\ \A i \in DOMAIN buffer' : last'[m] < buffer'[i].time
                    /\ \A i \in DOMAIN pipe' : last'[m] < pipe'[i].time
<1>t. /\ pipe \in Seq(Event) /\ buffer \in Seq(Event) /\ tick \in Nat
      /\ recorded \subseteq Event /\ last \in [Marks -> Nat]
  BY DEF TypeOK
<1>n. \A e \in Event : e.time \in Nat /\ e.kind \in Kinds
  BY EventTypes DEF Event
<1>d. /\ DOMAIN pipe = 1..Len(pipe) /\ Len(pipe) \in Nat
      /\ DOMAIN buffer = 1..Len(buffer) /\ Len(buffer) \in Nat
      /\ \A i \in DOMAIN pipe : pipe[i].time \in Nat
      /\ \A i \in DOMAIN buffer : buffer[i].time \in Nat
  BY <1>t, <1>n
<1>m. /\ last[m] \in Nat
      /\ last[m] = 0 \/ \E e \in recorded : e.kind = m /\ e.time = last[m]
      /\ \A e \in recorded : e.kind = m => e.time <= last[m] \/ InBoard(e)
      /\ \A i \in DOMAIN buffer : last[m] < buffer[i].time
      /\ \A i \in DOMAIN pipe : last[m] < pipe[i].time
  BY <1>t DEF LastMarks
<1>1. ASSUME NEW k \in Kinds, BoardRecords(k) PROVE Goal
  <2>0. PICK x \in Event : x = [kind |-> k, time |-> tick + 1]
    BY <1>t, EventTypes
  <2>1. x \in Event /\ x.time = tick + 1
    BY <2>0
  <2>2. /\ last' = last /\ buffer' = buffer /\ recorded' = recorded \cup {x}
        /\ pipe' = Append(pipe, x)
    BY <1>1, <2>0 DEF BoardRecords
  <2>3. /\ DOMAIN pipe' = 1..Len(pipe) + 1
        /\ \A i \in 1..Len(pipe) : pipe'[i] = pipe[i]
        /\ pipe'[Len(pipe) + 1] = x
    BY <1>t, <2>1, <2>2, AppendIs
  <2>4. last[m] <= tick
    BY <1>m, <1>t DEF InOrder
  <2>5. \A i \in DOMAIN pipe' : last'[m] < pipe'[i].time
    <3>. SUFFICES ASSUME NEW i \in DOMAIN pipe' PROVE last[m] < pipe'[i].time
      BY <2>2
    <3>1. CASE i \in DOMAIN pipe
      BY <1>d, <1>m, <2>3, <3>1
    <3>2. CASE i = Len(pipe) + 1
      BY <1>m, <1>t, <2>1, <2>3, <2>4, <3>2
    <3>. QED BY <1>d, <2>3, <3>1, <3>2
  <2>6. InBoard(x)'
    <3>1. Len(pipe) + 1 \in DOMAIN pipe'
      BY <1>d, <2>3
    <3>. QED BY <2>3, <3>1 DEF InBoard
  <2>7. ASSUME NEW e, InBoard(e) PROVE InBoard(e)'
    BY <1>d, <2>2, <2>3, <2>7 DEF InBoard
  <2>8. \A e \in recorded' : e.kind = m => e.time <= last'[m] \/ InBoard(e)'
    BY <1>m, <2>2, <2>6, <2>7
  <2>9. last'[m] = 0 \/ \E e \in recorded' : e.kind = m /\ e.time = last'[m]
    BY <1>m, <2>2
  <2>. QED BY <1>m, <2>2, <2>5, <2>8, <2>9
<1>2. CASE Push
  <2>1. /\ last' = last /\ recorded' = recorded /\ pipe # <<>>
        /\ buffer' = Append(buffer, Head(pipe)) /\ pipe' = Tail(pipe)
    BY <1>2 DEF Push, history
  <2>2. /\ DOMAIN pipe' = 1..Len(pipe) - 1 /\ Len(pipe) \in Nat \ {0}
        /\ \A i \in 1..Len(pipe) - 1 : pipe'[i] = pipe[i + 1]
        /\ Head(pipe) = pipe[1] /\ Head(pipe) \in Event
    BY <1>t, <2>1, TailIs
  <2>3. /\ DOMAIN buffer' = 1..Len(buffer) + 1
        /\ \A i \in 1..Len(buffer) : buffer'[i] = buffer[i]
        /\ buffer'[Len(buffer) + 1] = pipe[1]
    BY <1>t, <2>1, <2>2, AppendIs
  <2>4. ASSUME NEW e, InBoard(e) PROVE InBoard(e)'
    <3>1. CASE \E i \in DOMAIN buffer : buffer[i] = e
      BY <1>d, <2>3, <3>1 DEF InBoard
    <3>2. ASSUME NEW i \in DOMAIN pipe, pipe[i] = e PROVE InBoard(e)'
      <4>1. CASE i = 1
        BY <1>d, <2>3, <3>2, <4>1 DEF InBoard
      <4>2. CASE i # 1
        <5>1. i - 1 \in DOMAIN pipe' /\ pipe'[i - 1] = e
          BY <1>d, <2>2, <3>2, <4>2
        <5>. QED BY <5>1 DEF InBoard
      <4>. QED BY <4>1, <4>2
    <3>. QED BY <2>4, <3>1, <3>2 DEF InBoard
  <2>5. \A i \in DOMAIN pipe' : last'[m] < pipe'[i].time
    BY <1>d, <1>m, <2>1, <2>2
  <2>6. \A i \in DOMAIN buffer' : last'[m] < buffer'[i].time
    BY <1>d, <1>m, <2>1, <2>2, <2>3
  <2>. QED BY <1>m, <2>1, <2>4, <2>5, <2>6
<1>3. CASE Start
  <2>1. /\ last' = last /\ pipe' = <<>> /\ buffer' = <<>>
        /\ recorded' = {e \in recorded : ~InBoard(e)}
    BY <1>3 DEF Start, Cleared
  <2>2. \A e \in recorded : e.time = last[m] => ~InBoard(e)
    BY <1>m, <1>d DEF InBoard
  <2>. QED BY <1>m, <2>1, <2>2
<1>4. CASE ReadEvent
  <2>. DEFINE h == Head(buffer)
  <2>1. /\ recorded' = recorded /\ pipe' = pipe /\ buffer # <<>> /\ buffer' = Tail(buffer)
        /\ last' = IF h.kind \in Marks THEN [last EXCEPT ![h.kind] = h.time] ELSE last
    BY <1>4 DEF ReadEvent, NextLast
  <2>2. /\ DOMAIN buffer' = 1..Len(buffer) - 1 /\ Len(buffer) \in Nat \ {0}
        /\ \A i \in 1..Len(buffer) - 1 : buffer'[i] = buffer[i + 1]
        /\ h = buffer[1] /\ h \in Event
    BY <1>t, <2>1, TailIs
  <2>. HIDE DEF h
  <2>3. last'[m] = IF h.kind = m THEN h.time ELSE last[m]
    BY <1>t, <2>1
  <2>4. ASSUME NEW e, InBoard(e), e # h PROVE InBoard(e)'
    <3>1. CASE \E i \in DOMAIN pipe : pipe[i] = e
      BY <2>1, <3>1 DEF InBoard
    <3>2. ASSUME NEW i \in DOMAIN buffer, buffer[i] = e PROVE InBoard(e)'
      <4>1. i - 1 \in DOMAIN buffer' /\ buffer'[i - 1] = e
        BY <1>d, <2>2, <2>4, <3>2
      <4>. QED BY <4>1 DEF InBoard
    <3>. QED BY <2>4, <3>1, <3>2 DEF InBoard
  <2>5. h \in recorded /\ h.time \in Nat /\ last[m] < h.time
    BY <1>d, <1>m, <1>n, <2>2 DEF InOrder
  <2>6. \A i \in DOMAIN buffer' : /\ i + 1 \in DOMAIN buffer /\ buffer'[i] = buffer[i + 1]
                                  /\ h.time < buffer'[i].time
    <3>. SUFFICES ASSUME NEW i \in DOMAIN buffer'
                  PROVE  /\ i + 1 \in DOMAIN buffer /\ buffer'[i] = buffer[i + 1]
                         /\ h.time < buffer'[i].time
      OBVIOUS
    <3>1. /\ i + 1 \in DOMAIN buffer /\ 1 \in DOMAIN buffer /\ 1 < i + 1
          /\ buffer'[i] = buffer[i + 1]
      BY <1>d, <2>2
    <3>. QED BY <2>2, <3>1 DEF InOrder, Increasing
  <2>7. \A i \in DOMAIN pipe' : h.time < pipe'[i].time
    BY <1>d, <2>1, <2>2 DEF InOrder
  <2>8. CASE h.kind = m
    <3>1. \A e \in recorded' : e.kind = m => e.time <= last'[m] \/ InBoard(e)'
      <4>. SUFFICES ASSUME NEW e \in recorded, e.kind = m, ~InBoard(e)'
                    PROVE  e.time <= h.time
        BY <2>1, <2>3, <2>8
      <4>0. e.time \in Nat
        BY <1>t, <1>n
      <4>1. CASE e.time <= last[m]
        BY <1>m, <2>5, <4>0, <4>1
      <4>2. CASE InBoard(e)
        BY <2>4, <2>5, <4>2
      <4>. QED BY <1>m, <4>1, <4>2
    <3>. QED BY <2>1, <2>3, <2>5, <2>6, <2>7, <2>8, <3>1
  <2>9. CASE h.kind # m
    <3>1. \A e \in recorded' : e.kind = m => e.time <= last'[m] \/ InBoard(e)'
      BY <1>m, <2>1, <2>3, <2>4, <2>9
    <3>2. \A i \in DOMAIN buffer' : last[m] < buffer'[i].time
      BY <1>m, <2>6
    <3>. QED BY <1>m, <2>1, <2>3, <2>9, <3>1, <3>2
  <2>. QED BY <2>8, <2>9
<1>5. CASE UNCHANGED dataVars
  <2>1. \A e : InBoard(e) => InBoard(e)'
    BY <1>5 DEF InBoard, dataVars
  <2>. QED BY <1>5, <1>m, <2>1 DEF dataVars
<1>. QED
  BY <1>1, <1>2, <1>3, <1>4, <1>5, DataSteps
-----------------------------------------------------------------------------
(* The stamps of the fragments. *)
LEMMA FragmentTypes ==
  ASSUME TypeOK, NEW i \in DOMAIN delivered
  PROVE  /\ delivered[i].time \in Nat
         /\ \A k \in Marks : delivered[i].stamps[k] \in Nat
<1>. DEFINE F == [seq : Nat, time : Nat, stamps : [Marks -> Nat]]
<1>1. delivered \in Seq(F)
  BY DEF TypeOK
<1>. HIDE DEF F
<1>2. delivered[i] \in F
  BY <1>1
<1>. QED BY <1>2 DEF F

LEMMA StampedStep ==
  TypeOK /\ InOrder /\ LastMarks /\ Stamped /\ [Next]_vars => Stamped'
<1>. SUFFICES ASSUME TypeOK, InOrder, LastMarks, Stamped, [Next]_vars,
                     NEW i \in DOMAIN delivered', NEW f, f = delivered'[i]
              PROVE  f.time <= tick' /\ \A m \in Marks : StampOf(f, m)'
  BY DEF Stamped
<1>t. /\ buffer \in Seq(Event) /\ tick \in Nat /\ recorded \subseteq Event
      /\ last \in [Marks -> Nat] /\ evCounter \in Nat
      /\ delivered \in Seq([seq : Nat, time : Nat, stamps : [Marks -> Nat]])
  BY DEF TypeOK
<1>n. \A e \in Event : e.time \in Nat
  BY EventTypes
<1>1. ASSUME NEW k \in Kinds, BoardRecords(k)
      PROVE  f.time <= tick' /\ \A m \in Marks : StampOf(f, m)'
  <2>0. PICK x \in Event : x = [kind |-> k, time |-> tick + 1] /\ x.time = tick + 1
    BY <1>t, EventTypes
  <2>1. tick' = tick + 1 /\ recorded' = recorded \cup {x} /\ delivered' = delivered
    BY <1>1, <2>0 DEF BoardRecords
  <2>2. f = delivered[i] /\ f.time <= tick /\ \A m \in Marks : StampOf(f, m)
    BY <2>1 DEF Stamped
  <2>t. f.time \in Nat
    BY <2>1, <2>2, FragmentTypes
  <2>3. ~(x.time < f.time)
    BY <1>t, <2>0, <2>2, <2>t
  <2>4. ASSUME NEW m \in Marks PROVE StampOf(f, m)'
    BY <2>1, <2>2, <2>3 DEF StampOf
  <2>. QED BY <1>t, <2>1, <2>2, <2>t, <2>4
<1>2. CASE Push
  BY <1>2 DEF Push, history, Stamped, StampOf
<1>3. CASE Start
  BY <1>3 DEF Start
<1>4. CASE ReadEvent
  <2>1. tick' = tick /\ recorded' = recorded /\ buffer # <<>>
    BY <1>4 DEF ReadEvent
  <2>2. CASE i \in DOMAIN delivered /\ f = delivered[i]
    BY <2>1, <2>2 DEF Stamped, StampOf
  <2>3. CASE /\ Head(buffer).kind = "Trig"
             /\ f = [seq |-> evCounter, time |-> Head(buffer).time, stamps |-> last]
    <3>. DEFINE h == buffer[1]
    <3>1. h = Head(buffer) /\ h \in Event /\ h.time \in Nat /\ 1 \in DOMAIN buffer
      BY <1>t, <1>n, <2>1, TailIs
    <3>a. h \in recorded /\ h.time <= tick /\ f.time = h.time
      BY <2>3, <3>1 DEF InOrder
    <3>b. ASSUME NEW m \in Marks PROVE StampOf(f, m)'
      <4>1. last[m] < h.time /\ last[m] \in Nat
        BY <1>t, <3>1 DEF LastMarks
      <4>2. ASSUME NEW e \in recorded, e.kind = m, e.time < h.time PROVE e.time <= last[m]
        <5>0. e.time \in Nat
          BY <1>t, <1>n
        <5>1. ~\E j \in DOMAIN buffer : buffer[j] = e
          <6>. SUFFICES ASSUME NEW j \in DOMAIN buffer, buffer[j] = e PROVE FALSE
            OBVIOUS
          <6>1. j = 1 \/ 1 < j
            BY <1>t
          <6>2. ~(1 < j)
            BY <3>1, <4>2, <5>0 DEF InOrder, Increasing
          <6>. QED BY <4>2, <5>0, <6>1, <6>2
        <5>2. ~\E j \in DOMAIN pipe : pipe[j] = e
          BY <3>1, <4>2, <5>0 DEF InOrder
        <5>. QED BY <4>2, <5>1, <5>2 DEF LastMarks, InBoard
      <4>3. last[m] = 0 \/ \E e \in recorded : e.kind = m /\ e.time < h.time /\ e.time = last[m]
        BY <4>1 DEF LastMarks
      <4>4. f.time = h.time /\ f.stamps[m] = last[m]
        BY <2>3, <3>1
      <4>. QED BY <2>1, <4>1, <4>2, <4>3, <4>4 DEF StampOf
    <3>. QED BY <2>1, <3>a, <3>b
  <2>4. \/ i \in DOMAIN delivered /\ f = delivered[i]
        \/ /\ Head(buffer).kind = "Trig"
           /\ f = [seq |-> evCounter, time |-> Head(buffer).time, stamps |-> last]
    BY <1>4, Delivers
  <2>. QED BY <2>2, <2>3, <2>4
<1>5. CASE UNCHANGED dataVars
  BY <1>5 DEF dataVars, Stamped, StampOf
<1>. QED
  BY <1>1, <1>2, <1>3, <1>4, <1>5, DataSteps

LEMMA StampsImplied == TypeOK /\ Numbered /\ Stamped => StampsFollowMarks
<1>. SUFFICES ASSUME TypeOK, Numbered, Stamped, NEW i \in DOMAIN delivered, NEW k \in Marks
              PROVE  LET before == {0} \cup {e.time : e \in {e \in recorded :
                                       /\ e.kind = k /\ e.time < delivered[i].time}}
                     IN delivered[i].stamps[k] \in before
                          /\ \A t \in before : t <= delivered[i].stamps[k]
  BY DEF StampsFollowMarks, Numbered
<1>. DEFINE before == {0} \cup {e.time : e \in {e \in recorded :
                                       /\ e.kind = k /\ e.time < delivered[i].time}}
<1>1. delivered[i].stamps[k] \in Nat
  BY FragmentTypes
<1>2. StampOf(delivered[i], k)
  BY DEF Stamped
<1>3. delivered[i].stamps[k] \in before
  BY <1>2 DEF StampOf
<1>4. \A t \in before : t <= delivered[i].stamps[k]
  BY <1>1, <1>2 DEF StampOf
<1>. QED
  BY <1>3, <1>4

(* The fragments of a run are numbered without gaps, and each carries the times *)
(* of the last marks before it.                                                 *)
THEOREM StampsCorrect == Spec => []StampsFollowMarks
<1>. DEFINE Inv == TypeOK /\ Numbered /\ InOrder /\ LastMarks /\ Stamped
<1>1. Init => Inv
  BY InitType DEF Init, Numbered, InOrder, Increasing, LastMarks, Stamped
<1>2. Inv /\ [Next]_vars => Inv'
  BY TypeStep, NumberedStep, OrderStep, LastMarksStep, StampedStep
<1>3. Inv => StampsFollowMarks
  BY StampsImplied
<1>. QED
  BY <1>1, <1>2, <1>3, PTL DEF Spec

\* A beginning of a sequence, as a function.
LEMMA SubSeqIs ==
  ASSUME NEW S, NEW s \in Seq(S), NEW m \in 0..Len(s)
  PROVE  SubSeq(s, 1, m) = [i \in 1..m |-> s[i]]
<1>1. Len(s) \in Nat /\ m \in Nat /\ m <= Len(s)
  BY LenProperties
<1>2. /\ SubSeq(s, 1, m) \in Seq(S)
      /\ Len(SubSeq(s, 1, m)) = m
      /\ \A i \in 1..m : SubSeq(s, 1, m)[i] = s[i]
  BY <1>1, SubSeqProperties
<1>3. SubSeq(s, 1, m) = [i \in 1..m |-> SubSeq(s, 1, m)[i]]
  BY <1>2
<1>4. QED
  BY <1>2, <1>3
-----------------------------------------------------------------------------
(***************************************************************************)
(* The reader as an OrderedDelivery of the triggers of a run. The fragments *)
(* are for the first triggers; those in the board are later ones, and none *)
(* is missing between (NothingLost), so the next is the one after.         *)
(***************************************************************************)
IsIn(t, s) == \E j \in DOMAIN s : s[j] = t
After(t, q) == \A j \in DOMAIN q : t < q[j].time
InStep ==
  /\ \A i, j \in DOMAIN triggers : i < j => triggers[i] < triggers[j]
  /\ \A i \in DOMAIN triggers : triggers[i] <= tick
  /\ \A i \in DOMAIN buffer : buffer[i].kind = "Trig" => IsIn(buffer[i].time, triggers)
  /\ \A i \in DOMAIN pipe : pipe[i].kind = "Trig" => IsIn(pipe[i].time, triggers)
  /\ Len(delivered) <= Len(triggers)
  /\ \A i \in DOMAIN delivered : /\ delivered[i].time = triggers[i]
                                 /\ After(triggers[i], buffer) /\ After(triggers[i], pipe)

\* The next trigger read is the one after those that have a fragment.
LEMMA ReadsNext ==
  ASSUME TypeOK, InOrder, NothingLost, InStep, buffer # <<>>, Head(buffer).kind = "Trig"
  PROVE  /\ Len(delivered) + 1 \in DOMAIN triggers
         /\ Head(buffer).time = triggers[Len(delivered) + 1]
<1>t. /\ buffer \in Seq(Event) /\ pipe \in Seq(Event) /\ triggers \in Seq(Nat)
      /\ delivered \in Seq([seq : Nat, time : Nat, stamps : [Marks -> Nat]])
  BY DEF TypeOK
<1>n. \A e \in Event : e.time \in Nat
  BY EventTypes
<1>1. PICK n, t : n = Len(delivered) /\ t = Head(buffer).time
  OBVIOUS
<1>2. /\ DOMAIN triggers = 1..Len(triggers) /\ Len(triggers) \in Nat /\ n \in Nat /\ DOMAIN delivered = 1..n
      /\ \A i \in DOMAIN triggers : triggers[i] \in Nat
  BY <1>t, <1>1, LenProperties, ElementOfSeq
<1>3. 1 \in DOMAIN buffer /\ Head(buffer) = buffer[1] /\ t = buffer[1].time /\ t \in Nat
      /\ DOMAIN buffer = 1..Len(buffer) /\ Len(buffer) \in Nat
  BY <1>t, <1>n, <1>1, TailIs
<1>4. PICK m \in 1..Len(triggers) : triggers[m] = t
  BY <1>2, <1>3 DEF InStep, IsIn
<1>5. n < m
  <2>1. SUFFICES ASSUME m <= n PROVE FALSE
    BY <1>2
  <2>2. m \in DOMAIN delivered
    BY <1>2, <2>1
  <2>3. t < t
    BY <1>3, <1>4, <2>2 DEF InStep, After
  <2>4. QED
    BY <1>3, <2>3
<1>6. n + 1 \in DOMAIN triggers
  BY <1>2, <1>5
<1>7. ASSUME n + 1 # m PROVE FALSE
  <2>1. triggers[n + 1] < t /\ triggers[n + 1] \in Nat
    <3>1. n + 1 < m /\ m \in DOMAIN triggers
      BY <1>2, <1>5, <1>7
    <3>2. QED
      BY <1>2, <1>4, <1>6, <3>1 DEF InStep
  <2>2. CASE \E j \in DOMAIN delivered : delivered[j].time = triggers[n + 1]
    <3>1. PICK j \in 1..n : triggers[j] = triggers[n + 1]
      BY <1>2, <2>2 DEF InStep
    <3>2. j \in DOMAIN triggers /\ j < n + 1
      BY <1>2, <1>6, <3>1
    <3>3. triggers[j] < triggers[n + 1]
      BY <1>6, <3>2 DEF InStep
    <3>4. QED
      BY <2>1, <3>1, <3>3
  <2>3. CASE Waits(buffer, triggers[n + 1])
    <3>1. PICK j \in 1..Len(buffer) : buffer[j].time = triggers[n + 1]
      BY <1>3, <2>3 DEF Waits
    <3>2. j = 1 \/ 1 < j
      BY <1>3
    <3>3. CASE 1 < j
      <4>1. t < buffer[j].time
        BY <1>3, <3>3 DEF InOrder, Increasing
      <4>2. QED
        BY <1>3, <2>1, <3>1, <4>1
    <3>4. QED
      BY <1>3, <2>1, <3>1, <3>2, <3>3
  <2>4. CASE Waits(pipe, triggers[n + 1])
    <3>1. PICK j \in DOMAIN pipe : pipe[j].time = triggers[n + 1]
      BY <2>4 DEF Waits
    <3>2. t < pipe[j].time
      BY <1>3 DEF InOrder
    <3>3. QED
      BY <1>3, <2>1, <3>1, <3>2
  <2>5. QED
    BY <1>6, <2>2, <2>3, <2>4 DEF NothingLost
<1>8. QED
  BY <1>1, <1>4, <1>6, <1>7

\* Every step keeps the fragments in step with the triggers.
LEMMA InStepStep ==
  ASSUME TypeOK, InOrder, NothingLost, InStep, [Next]_vars
  PROVE  InStep'
<1>t. /\ buffer \in Seq(Event) /\ pipe \in Seq(Event) /\ triggers \in Seq(Nat) /\ tick \in Nat
      /\ recorded \subseteq Event
      /\ delivered \in Seq([seq : Nat, time : Nat, stamps : [Marks -> Nat]])
  BY DEF TypeOK
<1>n. \A e \in Event : e.time \in Nat
  BY EventTypes
<1>d. /\ DOMAIN triggers = 1..Len(triggers) /\ Len(triggers) \in Nat
      /\ DOMAIN delivered = 1..Len(delivered) /\ Len(delivered) \in Nat
      /\ DOMAIN buffer = 1..Len(buffer) /\ Len(buffer) \in Nat
      /\ DOMAIN pipe = 1..Len(pipe) /\ Len(pipe) \in Nat
      /\ \A i \in DOMAIN triggers : triggers[i] \in Nat
      /\ \A i \in DOMAIN buffer : buffer[i].time \in Nat
      /\ \A i \in DOMAIN pipe : pipe[i].time \in Nat
  BY <1>t, <1>n, LenProperties, ElementOfSeq
<1>1. ASSUME NEW k \in Kinds, BoardRecords(k) PROVE InStep'
  <2>0. PICK x \in Event : x = [kind |-> k, time |-> tick + 1] /\ x.time = tick + 1 /\ x.kind = k
    BY <1>t, EventTypes
  <2>1. /\ pipe' = Append(pipe, x) /\ buffer' = buffer /\ delivered' = delivered /\ tick' = tick + 1
        /\ triggers' = IF k = "Trig" THEN Append(triggers, tick + 1) ELSE triggers
    BY <1>1, <2>0 DEF BoardRecords
  <2>2. /\ DOMAIN pipe' = 1..Len(pipe) + 1 /\ pipe'[Len(pipe) + 1] = x
        /\ \A i \in 1..Len(pipe) : pipe'[i] = pipe[i]
    BY <1>t, <2>0, <2>1, AppendIs
  <2>3. /\ Len(triggers) <= Len(triggers') /\ DOMAIN triggers \subseteq DOMAIN triggers'
        /\ \A i \in DOMAIN triggers : triggers'[i] = triggers[i]
        /\ \A i \in DOMAIN triggers' : i \in DOMAIN triggers \/ (i = Len(triggers) + 1 /\ triggers'[i] = tick + 1)
        /\ k = "Trig" => \E i \in DOMAIN triggers' : triggers'[i] = tick + 1
    <3>1. CASE k = "Trig"
      <4>1. /\ Len(triggers') = Len(triggers) + 1 /\ DOMAIN triggers' = 1..Len(triggers) + 1
            /\ \A i \in 1..Len(triggers) : triggers'[i] = triggers[i]
            /\ triggers'[Len(triggers) + 1] = tick + 1
        BY <1>t, <2>1, <3>1, AppendProperties
      <4>2. QED
        BY <1>d, <4>1
    <3>2. CASE k # "Trig"
      BY <1>d, <2>1, <3>2
    <3>3. QED
      BY <3>1, <3>2
  <2>4. \A i, j \in DOMAIN triggers' : i < j => triggers'[i] < triggers'[j]
    <3> SUFFICES ASSUME NEW i \in DOMAIN triggers', NEW j \in DOMAIN triggers', i < j
                 PROVE  triggers'[i] < triggers'[j]
      OBVIOUS
    <3>1. CASE j \in DOMAIN triggers
      <4>1. i \in DOMAIN triggers
        BY <1>d, <2>3, <3>1
      <4>2. QED
        BY <2>3, <3>1, <4>1 DEF InStep
    <3>2. CASE j \notin DOMAIN triggers
      <4>1. j = Len(triggers) + 1 /\ triggers'[j] = tick + 1
        BY <2>3, <3>2
      <4>2. i \in DOMAIN triggers
        BY <1>d, <2>3, <4>1
      <4>3. triggers'[i] = triggers[i] /\ triggers[i] <= tick /\ triggers[i] \in Nat
        BY <1>d, <2>3, <4>2 DEF InStep
      <4>4. QED
        BY <1>t, <4>1, <4>3
    <3>3. QED
      BY <3>1, <3>2
  <2>5. \A i \in DOMAIN triggers' : triggers'[i] <= tick'
    <3> SUFFICES ASSUME NEW i \in DOMAIN triggers' PROVE triggers'[i] <= tick'
      OBVIOUS
    <3>1. CASE i \in DOMAIN triggers
      <4>1. triggers'[i] <= tick /\ triggers'[i] \in Nat
        BY <1>d, <2>3, <3>1 DEF InStep
      <4>2. QED
        BY <1>t, <2>1, <4>1
    <3>2. QED
      BY <1>t, <2>1, <2>3, <3>1
  <2>6. \A t : IsIn(t, triggers) => IsIn(t, triggers')
    BY <2>3 DEF IsIn
  <2>7. \A i \in DOMAIN buffer' : buffer'[i].kind = "Trig" => IsIn(buffer'[i].time, triggers')
    BY <2>1, <2>6 DEF InStep
  <2>8. \A i \in DOMAIN pipe' : pipe'[i].kind = "Trig" => IsIn(pipe'[i].time, triggers')
    <3> SUFFICES ASSUME NEW i \in DOMAIN pipe', pipe'[i].kind = "Trig" PROVE IsIn(pipe'[i].time, triggers')
      OBVIOUS
    <3>1. CASE i = Len(pipe) + 1
      <4>1. pipe'[i] = x /\ k = "Trig"
        BY <2>0, <2>2, <3>1
      <4>2. QED
        BY <2>0, <2>3, <4>1 DEF IsIn
    <3>2. CASE i # Len(pipe) + 1
      <4>1. i \in DOMAIN pipe /\ pipe'[i] = pipe[i]
        BY <1>d, <2>2, <3>2
      <4>2. QED
        BY <2>6, <4>1 DEF InStep
    <3>3. QED
      BY <3>1, <3>2
  <2>9. ASSUME NEW i \in DOMAIN delivered'
        PROVE  delivered'[i].time = triggers'[i] /\ After(triggers'[i], buffer') /\ After(triggers'[i], pipe')
    <3>1. i \in DOMAIN delivered /\ i \in DOMAIN triggers
      BY <1>d, <2>1 DEF InStep
    <3>2. /\ delivered'[i].time = triggers[i] /\ triggers'[i] = triggers[i]
          /\ After(triggers[i], buffer) /\ After(triggers[i], pipe)
          /\ triggers[i] <= tick /\ triggers[i] \in Nat
      BY <1>d, <2>1, <2>3, <3>1 DEF InStep
    <3>3. \A j \in DOMAIN pipe' : triggers[i] < pipe'[j].time
      <4> SUFFICES ASSUME NEW j \in DOMAIN pipe' PROVE triggers[i] < pipe'[j].time
        OBVIOUS
      <4>1. CASE j = Len(pipe) + 1
        BY <1>t, <2>0, <2>2, <3>2, <4>1
      <4>2. CASE j # Len(pipe) + 1
        <5>1. j \in DOMAIN pipe /\ pipe'[j] = pipe[j]
          BY <1>d, <2>2, <4>2
        <5>2. QED
          BY <3>2, <5>1 DEF After
      <4>3. QED
        BY <4>1, <4>2
    <3>4. QED
      BY <2>1, <3>2, <3>3 DEF After
  <2>10. Len(delivered') <= Len(triggers')
    <3>1. Len(delivered) <= Len(triggers) /\ Len(triggers') \in Nat
      <4>1. triggers' \in Seq(Nat)
        BY <1>t, <2>1, AppendProperties
      <4>2. QED
        BY <4>1, LenProperties DEF InStep
    <3>2. QED
      BY <1>d, <2>1, <2>3, <3>1
  <2>11. QED
    BY <2>4, <2>5, <2>7, <2>8, <2>9, <2>10 DEF InStep
<1>2. CASE Push
  <2>1. /\ triggers' = triggers /\ delivered' = delivered /\ tick' = tick
        /\ pipe # <<>> /\ buffer' = Append(buffer, Head(pipe)) /\ pipe' = Tail(pipe)
    BY <1>2 DEF Push, history
  <2>2. /\ DOMAIN pipe' = 1..Len(pipe) - 1 /\ Head(pipe) = pipe[1] /\ 1 \in DOMAIN pipe
        /\ \A i \in DOMAIN pipe' : i + 1 \in DOMAIN pipe /\ pipe'[i] = pipe[i + 1]
    BY <1>t, <1>d, <2>1, TailIs
  <2>3. /\ DOMAIN buffer' = 1..Len(buffer) + 1 /\ buffer'[Len(buffer) + 1] = pipe[1]
        /\ \A i \in DOMAIN buffer : buffer'[i] = buffer[i]
        /\ \A i \in DOMAIN buffer' : i \in DOMAIN buffer \/ i = Len(buffer) + 1
    <3>1. Head(pipe) \in Event
      BY <1>t, <2>1, TailIs
    <3>2. QED
      BY <1>t, <1>d, <2>1, <2>2, <3>1, AppendIs
  <2>4. \A i \in DOMAIN buffer' : buffer'[i].kind = "Trig" => IsIn(buffer'[i].time, triggers)
    BY <2>2, <2>3 DEF InStep
  <2>5. \A i \in DOMAIN pipe' : pipe'[i].kind = "Trig" => IsIn(pipe'[i].time, triggers)
    BY <2>2 DEF InStep
  <2>6. \A t : After(t, buffer) /\ After(t, pipe) => After(t, buffer') /\ After(t, pipe')
    BY <2>2, <2>3 DEF After
  <2>7. \A t : IsIn(t, triggers') <=> IsIn(t, triggers)
    BY <2>1 DEF IsIn
  <2>8. QED
    BY <2>1, <2>4, <2>5, <2>6, <2>7 DEF InStep
<1>3. CASE Start
  <2>1. triggers' = <<>> /\ delivered' = <<>> /\ buffer' = <<>> /\ pipe' = <<>>
    BY <1>3 DEF Start, Cleared
  <2>2. QED
    BY <2>1 DEF InStep
<1>4. CASE ReadEvent
  <2>1. triggers' = triggers /\ pipe' = pipe /\ tick' = tick /\ buffer # <<>> /\ buffer' = Tail(buffer)
    BY <1>4 DEF ReadEvent
  <2>2. /\ DOMAIN buffer' = 1..Len(buffer) - 1 /\ Head(buffer) = buffer[1] /\ 1 \in DOMAIN buffer
        /\ \A i \in DOMAIN buffer' : i + 1 \in DOMAIN buffer /\ buffer'[i] = buffer[i + 1] /\ 1 < i + 1
    BY <1>t, <1>d, <2>1, TailIs
  <2>3. \A i \in DOMAIN buffer' : buffer'[i].kind = "Trig" => IsIn(buffer'[i].time, triggers)
    BY <2>2 DEF InStep
  <2>4. \A t : After(t, buffer) /\ After(t, pipe) => After(t, buffer') /\ After(t, pipe')
    BY <2>1, <2>2 DEF After
  <2>5. \A t : IsIn(t, triggers') <=> IsIn(t, triggers)
    BY <2>1 DEF IsIn
  <2>6. After(buffer[1].time, buffer') /\ After(buffer[1].time, pipe')
    <3>1. \A j \in DOMAIN buffer' : buffer[1].time < buffer'[j].time
      BY <2>2 DEF InOrder, Increasing
    <3>2. \A j \in DOMAIN pipe' : buffer[1].time < pipe'[j].time
      BY <2>1, <2>2 DEF InOrder
    <3>3. QED
      BY <3>1, <3>2 DEF After
  <2>7. /\ Len(delivered') <= Len(triggers)
        /\ \A i \in DOMAIN delivered' : /\ delivered'[i].time = triggers[i]
                                       /\ After(triggers[i], buffer') /\ After(triggers[i], pipe')
    <3>1. CASE Head(buffer).kind # "Trig"
      <4>1. delivered' = delivered
        BY <1>4, <3>1, Delivers
      <4>2. QED
        BY <2>4, <4>1 DEF InStep
    <3>2. CASE Head(buffer).kind = "Trig"
      <4>1. /\ Len(delivered) + 1 \in DOMAIN triggers
            /\ buffer[1].time = triggers[Len(delivered) + 1]
        BY <2>1, <2>2, <3>2, ReadsNext
      <4>2. /\ DOMAIN delivered' = 1..Len(delivered) + 1 /\ Len(delivered') = Len(delivered) + 1
            /\ \A i \in 1..Len(delivered) : delivered'[i] = delivered[i]
            /\ delivered'[Len(delivered) + 1].time = buffer[1].time
        BY <1>4, <2>2, <3>2, Delivers
      <4>3. ASSUME NEW i \in 1..Len(delivered)
            PROVE  delivered'[i].time = triggers[i] /\ After(triggers[i], buffer') /\ After(triggers[i], pipe')
        BY <1>d, <2>4, <4>2 DEF InStep
      <4>4. delivered'[Len(delivered) + 1].time = triggers[Len(delivered) + 1]
              /\ After(triggers[Len(delivered) + 1], buffer') /\ After(triggers[Len(delivered) + 1], pipe')
        <5>1. \A t : t = buffer[1].time => After(t, buffer') /\ After(t, pipe')
          BY <2>6 DEF After
        <5>2. QED
          BY <4>1, <4>2, <5>1
      <4>5. \A i \in DOMAIN delivered' : i \in 1..Len(delivered) \/ i = Len(delivered) + 1
        BY <1>d, <4>2
      <4>6. QED
        BY <1>d, <4>1, <4>2, <4>3, <4>4, <4>5
    <3>3. QED
      BY <3>1, <3>2
  <2>8. \A i \in DOMAIN pipe' : pipe'[i].kind = "Trig" => IsIn(pipe'[i].time, triggers)
    BY <2>1 DEF InStep
  <2>9. QED
    BY <2>1, <2>3, <2>5, <2>7, <2>8 DEF InStep
<1>5. CASE UNCHANGED dataVars
  BY <1>5 DEF dataVars, InStep, IsIn, After
<1>6. QED
  BY <1>1, <1>2, <1>3, <1>4, <1>5, DataSteps

\* Every step of the reader is a step of OrderedDelivery or changes nothing it sees.
LEMMA StepOrdered ==
  ASSUME TypeOK, TypeOK', InOrder, NothingLost, InStep, InStep', [Next]_vars
  PROVE  [Ordered!Next]_Ordered!vars
<1>t. /\ triggers \in Seq(Nat) /\ triggers' \in Seq(Nat) /\ tick \in Nat
      /\ delivered \in Seq([seq : Nat, time : Nat, stamps : [Marks -> Nat]])
  BY DEF TypeOK
<1>d. /\ DOMAIN triggers = 1..Len(triggers) /\ Len(triggers) \in Nat
      /\ DOMAIN delivered = 1..Len(delivered) /\ Len(delivered) \in Nat
  BY <1>t, LenProperties
<1>1. CASE UNCHANGED <<triggers, delivered>>
  BY <1>1 DEF Ordered!vars
<1>2. CASE \E k \in Kinds : BoardRecords(k)
  <2>1. delivered' = delivered /\ (triggers' = triggers \/ triggers' = Append(triggers, tick + 1)) /\ tick < MaxEvents
    BY <1>2 DEF BoardRecords
  <2>2. tick + 1 \in 1..MaxEvents
    <3>1. MaxEvents \in Nat
      BY TimingAssumption
    <3>2. QED
      BY <1>t, <2>1, <3>1
  <2>3. CASE triggers' = Append(triggers, tick + 1)
    BY <2>1, <2>2, <2>3 DEF Ordered!Next, Ordered!Accept
  <2>4. QED
    BY <1>1, <2>1, <2>3
<1>3. CASE Push
  BY <1>1, <1>3 DEF Push, history
<1>4. CASE Start
  <2>1. triggers' = <<>> /\ delivered' = <<>>
    BY <1>4 DEF Start
  <2>2. DOMAIN delivered' = {}
    BY <2>1
  <2>3. [i \in DOMAIN delivered' |-> delivered'[i].time] = <<>>
    BY <2>2
  <2>4. QED
    BY <2>1, <2>3 DEF Ordered!Next, Ordered!Restart
<1>5. CASE ReadEvent
  <2>1. triggers' = triggers
    BY <1>5 DEF ReadEvent
  <2>2. CASE Head(buffer).kind # "Trig"
    BY <1>1, <1>5, <2>1, <2>2, Delivers
  <2>3. CASE Head(buffer).kind = "Trig"
    <3>1. PICK n : n = Len(delivered) /\ n \in Nat
      BY <1>d
    <3>2. /\ DOMAIN delivered' = 1..n + 1 /\ DOMAIN delivered = 1..n
          /\ Len(delivered') = n + 1
          /\ \A i \in 1..n : delivered'[i] = delivered[i]
      BY <1>5, <2>3, <3>1, Delivers
    <3>3. /\ \A i \in 1..n : delivered[i].time = triggers[i]
          /\ \A i \in 1..n + 1 : delivered'[i].time = triggers[i]
          /\ n + 1 <= Len(triggers)
      BY <2>1, <3>2 DEF InStep
    <3>4. PICK c, d : /\ c = [i \in DOMAIN delivered |-> delivered[i].time]
                      /\ d = [i \in DOMAIN delivered' |-> delivered'[i].time]
      OBVIOUS
    <3>5. c = [i \in 1..n |-> triggers[i]] /\ d = [i \in 1..n + 1 |-> triggers[i]]
      BY <3>2, <3>3, <3>4
    <3>6. c = SubSeq(triggers, 1, n) /\ d = SubSeq(triggers, 1, n + 1)
      <4>1. \A m \in 0..Len(triggers) : SubSeq(triggers, 1, m) = [i \in 1..m |-> triggers[i]]
        BY <1>t, <1>d, SubSeqIs
      <4>2. n \in 0..Len(triggers) /\ n + 1 \in 0..Len(triggers)
        BY <1>d, <3>1, <3>3
      <4>3. QED
        BY <3>5, <4>1, <4>2
    <3>7. d \in Ordered!Prefixes(triggers)
      BY <1>d, <3>1, <3>3, <3>6 DEF Ordered!Prefixes
    <3>8. Ordered!IsPrefix(c, d) /\ c # d
      <4>1. Len(c) = n /\ Len(d) = n + 1 /\ n <= n + 1
        BY <3>1, <3>5
      <4>2. SubSeq(d, 1, n) = c
        <5>1. d \in Seq(Nat)
          BY <1>t, <1>d, <3>1, <3>3, <3>5
        <5>2. SubSeq(d, 1, n) = [i \in 1..n |-> d[i]]
          BY <3>1, <4>1, <5>1, SubSeqIs
        <5>3. \A i \in 1..n : d[i] = triggers[i]
          BY <3>1, <3>5
        <5>4. QED
          BY <3>5, <5>2, <5>3
      <4>3. SubSeq(c, 1, n) = c
        <5>1. c \in Seq(Nat)
          BY <1>t, <1>d, <3>1, <3>3, <3>5
        <5>2. SubSeq(c, 1, n) = [i \in 1..n |-> c[i]]
          BY <3>1, <4>1, <5>1, SubSeqIs
        <5>3. QED
          BY <3>1, <3>5, <5>2
      <4>4. QED
        BY <3>1, <4>1, <4>2, <4>3 DEF Ordered!IsPrefix
    <3>9. Ordered!Deliver
      BY <2>1, <3>4, <3>7, <3>8
         DEF Ordered!Deliver, Ordered!IsStrictPrefix, Ordered!IsPrefix, Ordered!Prefixes
    <3>10. QED
      BY <3>9 DEF Ordered!Next
  <2>4. QED
    BY <2>2, <2>3
<1>6. CASE UNCHANGED dataVars
  BY <1>1, <1>6 DEF dataVars
<1>7. QED
  BY <1>2, <1>3, <1>4, <1>5, <1>6, DataSteps

(***************************************************************************)
(* Triggers go from the board to artdaq in their order, none is passed over *)
(* and none given twice: for any number of runs the timing reader           *)
(* implements OrderedDelivery of the triggers of a run.                     *)
(***************************************************************************)
THEOREM DeliversInOrder == Spec => ImplementsOrderedDelivery
<1>. DEFINE Inv == TypeOK /\ NothingLost /\ InOrder /\ InStep
<1>1. Init => Inv
  BY InitType DEF Init, NothingLost, InOrder, Increasing, InStep
<1>2. Inv /\ [Next]_vars => Inv'
  BY TypeStep, NothingLostStep, OrderStep, InStepStep
<1>3. Init => Ordered!Init
  <2>1. Init => triggers = <<>> /\ delivered = <<>> /\ DOMAIN delivered = {}
    BY DEF Init
  <2>2. QED
    BY <2>1 DEF Ordered!Init
<1>4. Inv /\ Inv' /\ [Next]_vars => [Ordered!Next]_Ordered!vars
  BY StepOrdered
<1>. QED
  BY <1>1, <1>2, <1>3, <1>4, PTL DEF Spec, ImplementsOrderedDelivery, Ordered!Spec
=============================================================================
