------------------------------ MODULE SSP_proofs ------------------------------
(***************************************************************************)
(* The SSP reader answers its triggers in order, each with its timestamp.  *)
(* The proof follows the two queues a trigger passes, the one the read     *)
(* thread fills and the one artdaq gets, and needs nothing of the packets: *)
(* which of them a fragment holds is left to TLC.                          *)
(***************************************************************************)
EXTENDS SSP, RequestReceiver_proofs

\* what the two threads pass on are sequences, whatever their elements
Histories == /\ \E S : served \in Seq(S)
             /\ \E S : triggers \in Seq(S) /\ accepted \in Seq(S)

\* the timestamp a fragment will be given is that of its trigger
IsStamped(t) == GlobalTime(t) = t.timestamp
Stamped == \A i \in DOMAIN triggers : IsStamped(triggers[i])

Order == Histories /\ Stamped /\ AnsweredInOrder
IInv == RequestTypes /\ Order

queues == <<triggers, accepted, served>>

LEMMA InitIInv == SspInit => IInv
<1>1. SspInit => RequestTypes
  BY RequestInitTypes DEF SspInit
<1>2. /\ Len(<<>>) = 0 /\ DOMAIN <<>> = {} /\ \E S : <<>> \in Seq(S)
  BY EmptySeq
<1>3. SUFFICES ASSUME SspInit
               PROVE  Order
  BY <1>1 DEF IInv
<1>4. triggers = <<>> /\ accepted = <<>> /\ served = <<>>
  BY <1>3 DEF SspInit
<1>5. Histories
  BY <1>2, <1>4 DEF Histories
<1>6. Stamped /\ AnsweredInOrder
  BY <1>2, <1>4 DEF Stamped, AnsweredInOrder
<1>7. QED
  BY <1>5, <1>6 DEF Order

LEMMA OrderFrame ==
  ASSUME Order, UNCHANGED queues
  PROVE  Order'
<1>1. triggers' = triggers /\ accepted' = accepted /\ served' = served
  BY DEF queues
<1>2. QED
  BY <1>1 DEF Order, Histories, Stamped, IsStamped, GlobalTime, AnsweredInOrder

\* The read thread passes new triggers on, each with a right timestamp.
LEMMA OrderQueued ==
  ASSUME Order, NEW new, NEW R, new \in Seq(R),
         \A i \in DOMAIN new : IsStamped(new[i]),
         triggers' = triggers \o new, accepted' = accepted \o new, served' = served
  PROVE  Order'
<1>1. PICK S : triggers \in Seq(S) /\ accepted \in Seq(S)
  BY DEF Order, Histories
<1>2. S \subseteq S \cup R /\ R \subseteq S \cup R
  OBVIOUS
<1>3. {triggers, accepted, new} \subseteq Seq(S \cup R)
  BY <1>1, <1>2, SeqMonotonic
<1>4. /\ triggers' \in Seq(S \cup R) /\ accepted' \in Seq(S \cup R)
      /\ Len(triggers') = Len(triggers) + Len(new)
      /\ Len(accepted') = Len(accepted) + Len(new)
      /\ \A i \in 1..Len(triggers') :
           triggers'[i] = IF i <= Len(triggers) THEN triggers[i] ELSE new[i - Len(triggers)]
      /\ \A i \in 1..Len(accepted') :
           accepted'[i] = IF i <= Len(accepted) THEN accepted[i] ELSE new[i - Len(accepted)]
  BY <1>3, ConcatProperties
<1>5. PICK T : served \in Seq(T)
  BY DEF Order, Histories
<1>6. /\ Len(triggers) \in Nat /\ Len(accepted) \in Nat /\ Len(new) \in Nat /\ Len(served) \in Nat
      /\ DOMAIN triggers = 1..Len(triggers) /\ DOMAIN new = 1..Len(new)
      /\ DOMAIN served = 1..Len(served) /\ DOMAIN triggers' = 1..Len(triggers')
  BY <1>3, <1>4, <1>5, LenProperties
<1>7. Histories'
  BY <1>4, <1>5 DEF Histories
<1>8. Stamped'
  <2> SUFFICES ASSUME NEW i \in 1..Len(triggers')
               PROVE  IsStamped(triggers'[i])
    BY <1>6 DEF Stamped, IsStamped, GlobalTime
  <2>1. CASE i <= Len(triggers)
    <3>1. i \in 1..Len(triggers) /\ triggers'[i] = triggers[i]
      BY <2>1, <1>4, <1>6
    <3>2. QED
      BY <3>1, <1>6 DEF Order, Stamped
  <2>2. CASE i > Len(triggers)
    <3>1. i - Len(triggers) \in 1..Len(new) /\ triggers'[i] = new[i - Len(triggers)]
      BY <2>2, <1>4, <1>6
    <3>2. QED
      BY <3>1, <1>6
  <2>3. QED
    BY <2>1, <2>2, <1>6, <1>4
<1>9. AnsweredInOrder'
  <2>1. Len(accepted') = Len(served') + Len(triggers')
    BY <1>4, <1>6 DEF Order, AnsweredInOrder
  <2>2. ASSUME NEW i \in DOMAIN served'
        PROVE  /\ served'[i].trigger = accepted'[i]
               /\ served'[i].timestamp = accepted'[i].timestamp
    <3>1. i \in 1..Len(served) /\ i <= Len(accepted) /\ i \in 1..Len(accepted')
      BY <1>4, <1>6 DEF Order, AnsweredInOrder
    <3>2. accepted'[i] = accepted[i]
      BY <3>1, <1>4
    <3>3. QED
      BY <3>1, <3>2, <1>6 DEF Order, AnsweredInOrder
  <2>3. ASSUME NEW i \in 1..Len(triggers')
        PROVE  triggers'[i] = accepted'[Len(served') + i]
    <3>1. Len(accepted) = Len(served) + Len(triggers)
      BY DEF Order, AnsweredInOrder
    <3>2. Len(served) + i \in 1..Len(accepted') /\ Len(triggers') \in Nat
      BY <3>1, <1>4, <1>6
    <3>3. CASE i <= Len(triggers)
      <4>1. i \in 1..Len(triggers) /\ Len(served) + i <= Len(accepted)
        BY <3>1, <3>3, <1>6
      <4>2. accepted'[Len(served) + i] = accepted[Len(served) + i] /\ triggers'[i] = triggers[i]
        BY <3>2, <4>1, <1>4, <1>6
      <4>3. QED
        BY <4>1, <4>2, <1>6 DEF Order, AnsweredInOrder
    <3>4. CASE i > Len(triggers)
      <4>1. (Len(served) + i) - Len(accepted) = i - Len(triggers) /\ ~(Len(served) + i <= Len(accepted))
        BY <3>1, <3>4, <1>6
      <4>2. accepted'[Len(served) + i] = new[(Len(served) + i) - Len(accepted)]
        BY <3>2, <4>1, <1>4
      <4>3. triggers'[i] = new[i - Len(triggers)]
        BY <3>4, <1>4, <1>6
      <4>4. QED
        BY <4>1, <4>2, <4>3
    <3>5. QED
      BY <3>2, <3>3, <3>4, <1>6
  <2>4. QED
    BY <2>1, <2>2, <2>3, <1>6 DEF AnsweredInOrder
<1>10. QED
  BY <1>7, <1>8, <1>9 DEF Order

\* artdaq gets a fragment for the first trigger, with its timestamp.
LEMMA OrderServed ==
  ASSUME Order, NEW f, f.trigger = Head(triggers), f.timestamp = GlobalTime(Head(triggers)),
         triggers # <<>>, served' = Append(served, f), triggers' = Tail(triggers),
         accepted' = accepted
  PROVE  Order'
<1>1. PICK S : triggers \in Seq(S) /\ accepted \in Seq(S)
  BY DEF Order, Histories
<1>2. PICK T : served \in Seq(T)
  BY DEF Order, Histories
<1>3. served \in Seq(T \cup {f}) /\ f \in T \cup {f}
  BY <1>2, SeqMonotonic
<1>4. /\ served' \in Seq(T \cup {f}) /\ Len(served') = Len(served) + 1
      /\ \A i \in 1..Len(served) : served'[i] = served[i]
      /\ served'[Len(served) + 1] = f
  BY <1>3, AppendProperties
<1>5. /\ triggers' \in Seq(S) /\ Len(triggers') = Len(triggers) - 1
      /\ \A i \in 1..Len(triggers') : triggers'[i] = triggers[i + 1]
      /\ Head(triggers) = triggers[1]
  BY <1>1, HeadTailProperties
<1>6. /\ Len(triggers) \in Nat \ {0} /\ Len(served) \in Nat
      /\ DOMAIN triggers = 1..Len(triggers) /\ DOMAIN served = 1..Len(served)
      /\ DOMAIN triggers' = 1..Len(triggers') /\ DOMAIN served' = 1..Len(served')
  BY <1>1, <1>3, <1>4, <1>5, LenProperties, EmptySeq
<1>7. Histories'
  BY <1>1, <1>4, <1>5 DEF Histories
<1>8. Stamped'
  <2> SUFFICES ASSUME NEW i \in 1..Len(triggers')
               PROVE  IsStamped(triggers'[i])
    BY <1>6 DEF Stamped, IsStamped, GlobalTime
  <2>1. i + 1 \in 1..Len(triggers) /\ triggers'[i] = triggers[i + 1]
    BY <1>5, <1>6
  <2>2. QED
    BY <2>1, <1>6 DEF Order, Stamped
<1>9. AnsweredInOrder'
  <2>1. Len(accepted) = Len(served') + Len(triggers')
    BY <1>4, <1>5, <1>6 DEF Order, AnsweredInOrder
  <2>2. f.trigger = accepted[Len(served) + 1] /\ f.timestamp = accepted[Len(served) + 1].timestamp
    <3>1. 1 \in DOMAIN triggers
      BY <1>6
    <3>2. triggers[1] = accepted[Len(served) + 1] /\ IsStamped(triggers[1])
      BY <3>1 DEF Order, AnsweredInOrder, Stamped
    <3>3. QED
      BY <3>2, <1>5 DEF IsStamped
  <2>3. ASSUME NEW i \in 1..Len(served')
        PROVE  served'[i].trigger = accepted[i] /\ served'[i].timestamp = accepted[i].timestamp
    <3>1. CASE i = Len(served) + 1
      BY <3>1, <2>2, <1>4
    <3>2. CASE i # Len(served) + 1
      <4>1. i \in 1..Len(served)
        BY <3>2, <1>4, <1>6
      <4>2. QED
        BY <4>1, <1>4, <1>6 DEF Order, AnsweredInOrder
    <3>3. QED
      BY <3>1, <3>2
  <2>4. ASSUME NEW i \in 1..Len(triggers')
        PROVE  triggers'[i] = accepted[Len(served') + i]
    <3>1. i + 1 \in 1..Len(triggers) /\ Len(served') + i = Len(served) + (i + 1)
      BY <1>4, <1>5, <1>6
    <3>2. triggers[i + 1] = accepted[Len(served) + (i + 1)]
      BY <3>1, <1>6 DEF Order, AnsweredInOrder
    <3>3. QED
      BY <3>1, <3>2, <1>5
  <2>5. QED
    BY <2>1, <2>3, <2>4, <1>6 DEF AnsweredInOrder
<1>10. QED
  BY <1>7, <1>8, <1>9 DEF Order

(***************************************************************************)
(* The steps.                                                              *)
(***************************************************************************)

LEMMA RequestsKept ==
  ASSUME RequestTypes, [SspNext]_sspVars
  PROVE  RequestTypes'
<1>1. CASE UNCHANGED requests
  BY <1>1 DEF requests, RequestTypes
<1>2. CASE StartReceiver \/ SignalReceiver \/ Ends
  BY <1>2, ReceiverKeeps
<1>3. CASE Arrives
  BY <1>3, ArrivesKeeps
<1>4. CASE reqQ' = <<>> /\ UNCHANGED <<rqpc, rqStop, lastReq>>
  <2>1. <<>> \in Seq(Request) /\ Len(<<>>) = 0
    BY EmptySeq
  <2>2. QED
    BY <1>4, <2>1, RequestAssumption DEF RequestTypes
<1>5. (\E p \in Packets : RequestedPacket(p)) => <1>4!1
  BY DEF RequestedPacket
<1>6. (\E p \in Packets : PlainPacket(p) \/ TriggerPacket(p) \/ OverlappingPacket(p))
        => UNCHANGED requests
  BY DEF PlainPacket, TriggerPacket, OverlappingPacket, NewTrigger
<1>7. Start \/ StopCommand \/ GetNextFragment \/ GetNextEmpty \/ JoinRequests \/ JoinReader \/ ReaderTests
        \/ NoData \/ Stall \/ UNCHANGED sspVars => UNCHANGED requests
  BY DEF Start, StopCommand, GetNextFragment, GetNextEmpty, GetNextRest, JoinRequests, JoinReader,
         ReaderTests, NoData, Stall, sspVars, requests
<1>8. StartRequests \/ SignalStop \/ RequestsEnd
        => UNCHANGED requests \/ StartReceiver \/ SignalReceiver \/ Ends
  BY DEF StartRequests, SignalStop, RequestsEnd
<1>9. RequestArrives => Arrives
  BY DEF RequestArrives
<1>10. QED
  BY <1>1, <1>2, <1>3, <1>4, <1>5, <1>6, <1>7, <1>8, <1>9 DEF SspNext, StopSteps, Read

\* A request is taken to the board's clock and back without loss.
LEMMA RequestStamped ==
  ASSUME NEW r \in Request, NEW n
  PROVE  IsStamped(Trigger(LocalTime(r.timestamp), n, r.timestamp))
<1>1. r.timestamp \in Nat /\ Offset \in Nat
  BY RequestAssumption, SSPAssumption DEF Request
<1>2. ((r.timestamp * 3 - Offset) + Offset) \div 3 = r.timestamp
  BY <1>1
<1>3. QED
  BY <1>2 DEF IsStamped, GlobalTime, Trigger, LocalTime

LEMMA PacketKept ==
  ASSUME Order, RequestTypes, NEW p \in Packets,
         RequestedPacket(p) \/ PlainPacket(p) \/ TriggerPacket(p) \/ OverlappingPacket(p)
  PROVE  Order'
<1>1. CASE RequestedPacket(p)
  <2> DEFINE new == [i \in DOMAIN reqQ |->
              Trigger(LocalTime(reqQ[i].timestamp), Len(accepted) + i, reqQ[i].timestamp)]
  <2>1. reqQ \in Seq(Request)
    BY DEF RequestTypes
  <2>2. /\ DOMAIN reqQ = 1..Len(reqQ) /\ Len(reqQ) \in Nat
        /\ \A i \in DOMAIN reqQ : reqQ[i] \in Request
    BY <2>1, LenProperties, ElementOfSeq
  <2>3. new \in Seq({new[i] : i \in DOMAIN reqQ})
    BY <2>2, IsASeq
  <2>4. \A i \in DOMAIN new : IsStamped(new[i])
    BY <2>2, RequestStamped
  <2>5. triggers' = triggers \o new /\ accepted' = accepted \o new /\ served' = served
    BY <1>1 DEF RequestedPacket, Packet, Queue
  <2> HIDE DEF new
  <2>6. QED
    BY <2>3, <2>4, <2>5, OrderQueued
<1>2. CASE PlainPacket(p)
  <2>1. triggers' = triggers \o <<>> /\ accepted' = accepted \o <<>> /\ served' = served
    BY <1>2 DEF PlainPacket, Packet, Queue
  <2>2. <<>> \in Seq({}) /\ DOMAIN <<>> = {}
    BY EmptySeq
  <2>3. QED
    BY <2>1, <2>2, OrderQueued
<1>3. CASE TriggerPacket(p)
  <2> DEFINE t == Trigger(p.time, Len(accepted) + 1, GlobalTime(p))
  <2>1. /\ triggers' = triggers \o <<t>> /\ accepted' = accepted \o <<t>>
        /\ served' = served
    BY <1>3 DEF TriggerPacket, NewTrigger, Packet, Queue
  <2>2. IsStamped(t)
    BY DEF IsStamped, GlobalTime, Trigger
  <2> HIDE DEF t
  <2>3. <<t>> \in Seq({t}) /\ DOMAIN <<t>> = {1} /\ <<t>>[1] = t
    OBVIOUS
  <2>4. QED
    BY <2>1, <2>2, <2>3, OrderQueued
<1>4. CASE OverlappingPacket(p)
  BY <1>4, OrderFrame DEF OverlappingPacket, NewTrigger, Packet, queues
<1>5. QED
  BY <1>1, <1>2, <1>3, <1>4

LEMMA OrderKept ==
  ASSUME IInv, [SspNext]_sspVars
  PROVE  Order'
<1>1. CASE GetNextFragment
  <2> DEFINE t == Head(triggers)
             f == [timestamp |-> GlobalTime(t), trigger |-> t, packets |-> InWindow(t),
                   missed |-> {p \in packetsRead \ InWindow(t) : Within(t, p)}]
  <2>1. /\ served' = Append(served, f) /\ triggers' = Tail(triggers)
        /\ accepted' = accepted /\ triggers # <<>>
    BY <1>1 DEF GetNextFragment, Reading, BuildFragment, GetNextRest
  <2>2. f.trigger = t /\ f.timestamp = GlobalTime(t)
    OBVIOUS
  <2> HIDE DEF f
  <2>3. QED
    BY <2>1, <2>2, OrderServed DEF IInv
<1>2. CASE Read
  BY <1>2, PacketKept DEF Read, IInv
<1>3. CASE Start \/ StartRequests \/ StopCommand \/ GetNextEmpty \/ StopSteps
             \/ ReaderTests \/ NoData \/ Stall \/ RequestArrives \/ RequestsEnd \/ UNCHANGED sspVars
  <2>1. UNCHANGED queues
    BY <1>3 DEF Start, StartRequests, StopCommand, GetNextEmpty, GetNextRest, StopSteps, SignalStop,
                JoinRequests, JoinReader, ReaderTests, NoData, Stall, RequestArrives, RequestsEnd,
                Unread, sspVars, queues
  <2>2. QED
    BY <2>1, OrderFrame DEF IInv
<1>4. QED
  BY <1>1, <1>2, <1>3 DEF SspNext

THEOREM Invariance == SspSpec => []IInv
<1>1. IInv /\ [SspNext]_sspVars => IInv'
  BY RequestsKept, OrderKept DEF IInv
<1>2. QED
  BY <1>1, InitIInv, PTL DEF SspSpec

(* Triggers are answered in the order they were accepted, each once and with its   *)
(* own timestamp, for every window, offset and number of channels.                 *)
THEOREM AnswersInOrder == SspSpec => []AnsweredInOrder
<1>1. IInv => AnsweredInOrder
  BY DEF IInv, Order
<1>2. QED
  BY <1>1, Invariance, PTL
=============================================================================
