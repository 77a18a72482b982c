---------------------------- MODULE RssiReceiver ----------------------------
(***************************************************************************)
(* The reader of the RCE boards of the TPC. A thread of the connection     *)
(* hands each frame to the sink of the receiver, which puts it in a ring;  *)
(* the data thread takes one at each call of getNext_(). A start makes a   *)
(* new receiver when the connection of the one there is has been lost.     *)
(***************************************************************************)
EXTENDS Integers, Sequences, FiniteSets, SequencesExt

CONSTANTS
  RingSize,   \* frames the ring holds: 512
  WireRoom,   \* frames on their way to the sink (bound)
  MaxFrames,  \* frames sent (bound)
  MaxRceRuns, \* calls of start() (bound)
  MaxReceivers \* receivers made (bound)

ASSUME RceAssumption == /\ RingSize \in Nat \ {0} /\ WireRoom \in Nat /\ MaxFrames \in Nat
                        /\ MaxRceRuns \in Nat /\ MaxReceivers \in Nat

VARIABLES
  boardOn,    \* board: SetRunState is Enable
  sent,       \* history: frames sent, numbered in order
  wire,       \* frames on their way: [id, run] (run: history, when it was sent)
  open,       \* is_open() of the receiver's connection
  receiver,   \* history: number of the receiver, 0: a null pointer
  sink,       \* "idle", "waiting" (for room in the ring)
  hand,       \* the frame the sink has
  ring,       \* _buffers
  rxCnt,      \* rx_cnt and overflow of the sink's stats
  overflow,
  cmd,        \* command thread: "idle", "running", "stopping" (should_stop() is set), "stopped"
  data,       \* data thread: "none", "loop", "check" (in getNext_(), after the pop)
  rceRun,     \* history: starts so far
  handed,     \* history: frames handed to a sink
  delivered,  \* history: frames given to artdaq: [id, run, in (the run it was given to), by]
  dropped,    \* history: frames that found no room
  cleared,    \* history: frames lost with their receiver
  late        \* history: frames put in the ring after the data thread of their run had ended

connection == <<boardOn, sent, wire, open, receiver>>
acceptance == <<sink, hand, rxCnt, overflow, handed, dropped>>
rceVars == <<boardOn, sent, wire, open, receiver, sink, hand, ring, rxCnt, overflow, cmd, data,
             rceRun, handed, delivered, dropped, cleared, late>>

RceInit ==
  /\ boardOn = FALSE /\ sent = 0 /\ wire = <<>> /\ open = FALSE /\ receiver = 0
  /\ sink = "idle" /\ hand = <<>> /\ ring = <<>> /\ rxCnt = 0 /\ overflow = 0
  /\ cmd = "idle" /\ data = "none" /\ rceRun = 0
  /\ handed = {} /\ delivered = <<>> /\ dropped = {} /\ cleared = {} /\ late = {}
-----------------------------------------------------------------------------
(* The board and the connection (external): frames arrive in order. What   *)
(* was on its way when the connection is lost never arrives.               *)

SendFrame ==
  /\ boardOn /\ open /\ sent < MaxFrames /\ Len(wire) < WireRoom
  /\ sent' = sent + 1 /\ wire' = Append(wire, [id |-> sent + 1, run |-> rceRun])
  /\ UNCHANGED <<boardOn, open, receiver, acceptance, ring, cmd, data, rceRun, delivered, cleared,
                 late>>

Opens ==
  /\ receiver > 0 /\ ~open /\ open' = TRUE
  /\ UNCHANGED <<boardOn, sent, wire, receiver, acceptance, ring, cmd, data, rceRun, delivered,
                 cleared, late>>

Closes ==
  /\ open /\ open' = FALSE /\ wire' = <<>>
  /\ UNCHANGED <<boardOn, sent, receiver, acceptance, ring, cmd, data, rceRun, delivered, cleared,
                 late>>
-----------------------------------------------------------------------------
(* The sink: acceptFrame(). *)

AcceptFrame ==
  /\ sink = "idle" /\ wire # <<>> /\ sink' = "waiting" /\ hand' = <<Head(wire)>>
  /\ wire' = Tail(wire) /\ handed' = handed \cup {Head(wire).id} /\ rxCnt' = rxCnt + 1
  /\ UNCHANGED <<boardOn, sent, open, receiver, ring, overflow, dropped, cmd, data, rceRun,
                 delivered, cleared, late>>

\* a bad frame is counted, and is pushed all the same
PushFrame ==
  /\ sink = "waiting" /\ Len(ring) < RingSize
  /\ sink' = "idle" /\ hand' = <<>> /\ ring' = ring \o hand
  /\ late' = IF data = "none" \/ hand[1].run # rceRun THEN late \cup {hand[1].id} ELSE late
  /\ UNCHANGED <<connection, rxCnt, overflow, handed, dropped, cmd, data, rceRun, delivered,
                 cleared>>

\* _buffer_timeout has passed
DropFrame ==
  /\ sink = "waiting" /\ Len(ring) = RingSize
  /\ sink' = "idle" /\ hand' = <<>> /\ overflow' = overflow + 1
  /\ dropped' = dropped \cup {hand[1].id}
  /\ UNCHANGED <<connection, rxCnt, handed, ring, cmd, data, rceRun, delivered, cleared, late>>
-----------------------------------------------------------------------------
(* The commands. The board may refuse one: that is a warning, no more. *)

Held == {ring[i].id : i \in DOMAIN ring} \cup {hand[i].id : i \in DOMAIN hand}

\* A receiver whose connection is lost is replaced: its ring is emptied, its sink ends.
NewReceiver ==
  /\ receiver < MaxReceivers /\ receiver' = receiver + 1
  /\ cleared' = cleared \cup Held
  /\ ring' = <<>> /\ hand' = <<>> /\ sink' = "idle" /\ rxCnt' = 0 /\ overflow' = 0

KeepReceiver == UNCHANGED <<receiver, cleared, ring, hand, sink, rxCnt, overflow>>

\* the ring of a receiver that goes on is not drained
StartRce ==
  /\ cmd = "idle" /\ data = "none" /\ rceRun < MaxRceRuns
  /\ cmd' = "running" /\ data' = "loop" /\ rceRun' = rceRun + 1
  /\ IF open THEN KeepReceiver ELSE NewReceiver
  /\ boardOn' \in {TRUE, boardOn}
  /\ UNCHANGED <<sent, wire, open, handed, delivered, dropped, late>>

\* artdaq sets should_stop() before stop() has the mutex of getNext_()
RequestStop ==
  /\ cmd = "running" /\ cmd' = "stopping"
  /\ UNCHANGED <<connection, acceptance, ring, data, rceRun, delivered, cleared, late>>

StopRce ==
  /\ cmd = "stopping" /\ data # "check" /\ cmd' = "stopped"
  /\ boardOn' \in {FALSE, boardOn}
  /\ UNCHANGED <<sent, wire, open, receiver, acceptance, ring, data, rceRun, delivered, cleared,
                 late>>

EndRce ==
  /\ cmd = "stopped" /\ data = "none" /\ cmd' = "idle"
  /\ UNCHANGED <<connection, acceptance, ring, data, rceRun, delivered, cleared, late>>
-----------------------------------------------------------------------------
(* The data thread: getNext_(). *)

PopFrame ==
  /\ data = "loop" /\ data' = "check"
  /\ IF ring = <<>> THEN UNCHANGED <<ring, delivered>>
     ELSE /\ ring' = Tail(ring)
          /\ delivered' = Append(delivered, [id |-> Head(ring).id, run |-> Head(ring).run,
                                             in |-> rceRun, by |-> receiver])
  /\ UNCHANGED <<connection, acceptance, cmd, rceRun, cleared, late>>

AtOnce == cmd \in {"stopping", "stopped"}      \* variant: whatever the ring holds
IsStop == cmd \in {"stopping", "stopped"} /\ ring = <<>>

CheckStop ==
  /\ data = "check" /\ data' = IF IsStop THEN "none" ELSE "loop"
  /\ UNCHANGED <<connection, acceptance, ring, cmd, rceRun, delivered, cleared, late>>
-----------------------------------------------------------------------------
RceNext == \/ SendFrame \/ Opens \/ Closes \/ AcceptFrame \/ PushFrame \/ DropFrame
           \/ StartRce \/ RequestStop \/ StopRce \/ EndRce \/ PopFrame \/ CheckStop

RceSpec == RceInit /\ [][RceNext]_rceVars
-----------------------------------------------------------------------------
(* Properties. *)

Frame == [id : 1..MaxFrames, run : 0..MaxRceRuns]
Given == [id : 1..MaxFrames, run : 0..MaxRceRuns, in : 1..MaxRceRuns, by : 0..MaxReceivers]

(* Every variable has a value the code can give it. *)
RceTypeOK ==
  /\ boardOn \in BOOLEAN /\ sent \in 0..MaxFrames /\ wire \in Seq(Frame) /\ open \in BOOLEAN
  /\ receiver \in 0..MaxReceivers /\ sink \in {"idle", "waiting"}
  /\ hand \in Seq(Frame) /\ Len(hand) = (IF sink = "waiting" THEN 1 ELSE 0)
  /\ ring \in Seq(Frame) /\ Len(ring) <= RingSize /\ rxCnt \in Nat /\ overflow \in Nat
  /\ cmd \in {"idle", "running", "stopping", "stopped"} /\ data \in {"none", "loop", "check"}
  /\ rceRun \in 0..MaxRceRuns /\ handed \subseteq 1..MaxFrames /\ delivered \in Seq(Given)
  /\ dropped \subseteq 1..MaxFrames /\ cleared \subseteq 1..MaxFrames /\ late \subseteq 1..MaxFrames

DeliveredIds == {delivered[i].id : i \in DOMAIN delivered}

(* Each frame that reached a sink is in one place only: given to artdaq,   *)
(* in the ring or the sink's hand, dropped for want of room, or lost with  *)
(* a receiver that had lost its connection.                                *)
EachInOnePlace ==
  /\ handed = DeliveredIds \cup Held \cup dropped \cup cleared
  /\ DeliveredIds \cap Held = {} /\ DeliveredIds \cap dropped = {} /\ DeliveredIds \cap cleared = {}
  /\ Held \cap dropped = {} /\ Held \cap cleared = {} /\ dropped \cap cleared = {}

\* in the order they were sent, across the runs
InOrder ==
  LET all == [i \in DOMAIN delivered |-> delivered[i].id]
               \o [i \in DOMAIN ring |-> ring[i].id] \o [i \in DOMAIN hand |-> hand[i].id]
  IN \A i, j \in DOMAIN all : i < j => all[i] < all[j]

\* the statistics of a receiver tell how many frames it gave and still has
StatisticsTell ==
  rxCnt - overflow
    = Cardinality({i \in DOMAIN delivered : delivered[i].by = receiver}) + Cardinality(Held)

\* what a run could have taken is never left to a later one
FromItsRun == \A i \in DOMAIN delivered : delivered[i].in > delivered[i].run => delivered[i].id \in late

(* No frame that reached a sink is lost without being counted, given twice *)
(* or out of order; and a run gives artdaq a frame sent in an earlier one  *)
(* only if it came to the ring after that run's last call of getNext_(): a *)
(* run ends when its ring is empty, but start() drains nothing that came   *)
(* since.                                                                  *)
FramesAccounted == EachInOnePlace /\ InOrder /\ StatisticsTell /\ FromItsRun
=============================================================================
