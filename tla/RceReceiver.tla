---------------------------- MODULE RceReceiver -----------------------------
(***************************************************************************)
(* The older TCP receiver of RCE data: a thread that runs the io service   *)
(* accepts a connection and reads microslices into buffers of so many of   *)
(* them, and the thread of the reader that starts and stops it with two    *)
(* flags, "suspend the readout" and "the readout is suspended". Bytes are  *)
(* units numbered as the RCE sends them, a microslice is as many of them   *)
(* as SliceUnits, the first few its header.                                *)
(***************************************************************************)
EXTENDS Integers, Sequences, SequencesExt

CONSTANTS
  HeaderUnits,   \* units of a header
  SliceUnits,    \* units of a microslice
  NumSlices,     \* number_of_microslices_per_millislice_
  Precommit,     \* buffers committed before a start
  MaxUnits,      \* units sent (bound)
  MaxStarts      \* starts (bound)

ASSUME RceAssumption ==
  /\ {HeaderUnits, SliceUnits, NumSlices, Precommit, MaxUnits, MaxStarts} \subseteq Nat \ {0}
  /\ HeaderUnits < SliceUnits

VARIABLES
  caller,       \* the reader's thread: idle, committed, clearing, started, running, stopping
  starts,       \* starts so far (bounded)
  suspendReadout, readoutSuspended,
  service,      \* where the io thread is
  deadlineObject, \* what the deadline is for
  connected, socket, nextUnit,  \* the connection, units unread in it, the next one sent
  buffers,      \* empty_buffer_queue_.size()
  current,      \* current_raw_buffer_, the units in it, and whether there is one
  slice,        \* the microslice being read: next_receive_state_ and sizes
  filled,       \* filled_buffer_queue_
  exceptionSet,
  gaveUp,       \* history: the last stop() did not wait for the io thread any longer
  stale,        \* history: the io thread said it was suspended when it was not to be
  broken        \* history: a buffer lost under the io thread, or a microslice cut in two

rceVars == <<caller, starts, suspendReadout, readoutSuspended, service, deadlineObject, connected,
             socket, nextUnit, buffers, current, slice, filled, exceptionSet, gaveUp, stale,
             broken>>
flags == <<suspendReadout, readoutSuspended>>
link == <<connected, socket, nextUnit>>
readout == <<buffers, current, slice, filled>>
past == <<gaveUp, stale, broken>>

NoRaw == [held |-> FALSE, units |-> <<>>, slices |-> 0, empty |-> TRUE]
NewRaw == [held |-> TRUE, units |-> <<>>, slices |-> 0, empty |-> FALSE]
HeaderNext == [reading |-> "header", got |-> 0, size |-> SliceUnits]

AtBoundary(n) == n % SliceUnits = 0

RceInit ==
  /\ caller = "idle" /\ starts = 0 /\ suspendReadout = FALSE /\ readoutSuspended = FALSE
  /\ service = "accept" /\ deadlineObject = "none"
  /\ connected = FALSE /\ socket = <<>> /\ nextUnit = 0
  /\ buffers = 0 /\ current = NoRaw /\ slice = HeaderNext /\ filled = <<>>
  /\ exceptionSet = FALSE /\ gaveUp = FALSE /\ stale = FALSE /\ broken = FALSE
-----------------------------------------------------------------------------
(* The reader's thread. *)

\* the queues are emptied and new buffers committed
CommitBuffers ==
  /\ caller = "idle" /\ starts < MaxStarts
  /\ caller' = "committed" /\ starts' = starts + 1 /\ buffers' = Precommit /\ filled' = <<>>
  /\ UNCHANGED <<flags, service, deadlineObject, link, current, slice, exceptionSet, past>>

UsesBuffer == service \in {"receiving", "buffer"}

\* start() drains the socket if it was being read from, drops the buffer begun and begins
\* with a header. The rest of a microslice that had been cut comes later.
ClearForStart ==
  /\ caller = "committed" /\ caller' = "clearing"
  /\ socket' = IF deadlineObject = "data" THEN <<>> ELSE socket
  /\ current' = NoRaw /\ slice' = HeaderNext
  /\ broken' = \/ broken \/ UsesBuffer
               \/ connected /\ ~AtBoundary(IF socket' = <<>> THEN nextUnit ELSE socket'[1])
  /\ UNCHANGED <<starts, flags, service, deadlineObject, connected, nextUnit, buffers, filled,
                 exceptionSet, gaveUp, stale>>

ClearSuspend ==
  /\ caller = "clearing" /\ caller' = "started" /\ suspendReadout' = FALSE
  /\ UNCHANGED <<starts, readoutSuspended, service, deadlineObject, link, readout, exceptionSet,
                 past>>

\* variant: the answer to the last stop is left for the next
LeaveSuspended ==
  /\ caller = "started" /\ caller' = "running" /\ gaveUp' = FALSE
  /\ UNCHANGED <<starts, flags, service, deadlineObject, link, readout, exceptionSet, stale,
                 broken>>

ClearSuspended ==
  /\ caller = "started" /\ caller' = "running" /\ readoutSuspended' = FALSE /\ gaveUp' = FALSE
  /\ UNCHANGED <<starts, suspendReadout, service, deadlineObject, link, readout, exceptionSet,
                 stale, broken>>

StopSuspends ==
  /\ caller = "running" /\ caller' = "stopping" /\ suspendReadout' = TRUE
  /\ UNCHANGED <<starts, readoutSuspended, service, deadlineObject, link, readout, exceptionSet,
                 past>>

\* five seconds without an answer are enough
RceStopReturns ==
  /\ caller = "stopping" /\ caller' = "idle" /\ gaveUp' = ~readoutSuspended
  /\ UNCHANGED <<starts, flags, service, deadlineObject, link, readout, exceptionSet, stale,
                 broken>>

\* a filled buffer is taken and a new one committed
RetrieveFilled ==
  /\ caller = "running" /\ filled # <<>> /\ filled' = Tail(filled) /\ buffers' = buffers + 1
  /\ UNCHANGED <<caller, starts, flags, service, deadlineObject, link, current, slice,
                 exceptionSet, past>>
-----------------------------------------------------------------------------
(* The RCE. *)

RceSends ==
  /\ connected /\ nextUnit < MaxUnits
  /\ socket' = Append(socket, nextUnit) /\ nextUnit' = nextUnit + 1
  /\ UNCHANGED <<caller, starts, flags, service, deadlineObject, connected, readout, exceptionSet,
                 past>>
-----------------------------------------------------------------------------
(* The io thread. *)

Moves(from, to) == service = from /\ service' = to
Suspended ==
  /\ readoutSuspended' = TRUE /\ stale' = (stale \/ ~suspendReadout)
  /\ UNCHANGED <<suspendReadout, gaveUp, broken>>

DoAccept ==
  /\ \/ suspendReadout /\ Moves("accept", "acceptNoted") /\ UNCHANGED deadlineObject
     \/ ~suspendReadout /\ Moves("accept", "accepting") /\ deadlineObject' = "acceptor"
  /\ UNCHANGED <<caller, starts, flags, link, readout, exceptionSet, past>>

\* without a connection the readout is suspended at once, and goes on waiting for one
SuspendAccept ==
  /\ Moves("acceptNoted", "accepting") /\ Suspended /\ deadlineObject' = "acceptor"
  /\ UNCHANGED <<caller, starts, link, readout, exceptionSet>>

\* the next connection, which starts with a microslice, or a time-out or an error
AcceptEnds ==
  /\ \/ /\ Moves("accepting", "read") /\ connected' = TRUE /\ socket' = <<>>
        /\ nextUnit' = SliceUnits * ((nextUnit + SliceUnits - 1) \div SliceUnits)
     \/ Moves("accepting", "accept") /\ UNCHANGED link
  /\ UNCHANGED <<caller, starts, flags, deadlineObject, readout, exceptionSet, past>>

\* what do_read() does past its look at the flag
ReadOn(from) ==
  Moves(from, IF current.empty THEN "buffer" ELSE "receiving") /\ deadlineObject' = "data"

DoRead ==
  /\ \/ suspendReadout /\ Moves("read", "readNoted") /\ UNCHANGED deadlineObject
     \/ ~suspendReadout /\ ReadOn("read")
  /\ UNCHANGED <<caller, starts, flags, link, readout, exceptionSet, past>>

SuspendRead ==
  /\ Moves("readNoted", "parked") \/ Moves("retryNoted", "retryParked")
  /\ Suspended
  /\ UNCHANGED <<caller, starts, deadlineObject, link, readout, exceptionSet>>

Restart ==
  /\ ~suspendReadout
  /\ ReadOn("parked") \/ (Moves("retryParked", "buffer") /\ UNCHANGED deadlineObject)
  /\ UNCHANGED <<caller, starts, flags, link, readout, exceptionSet, past>>

\* a try for a buffer; with too many in vain the exception is set, and they go on. A
\* buffer got while the readout is being suspended is left for start() to drop.
GetBuffer ==
  /\ service = "buffer"
  /\ \/ buffers > 0 /\ buffers' = buffers - 1 /\ UNCHANGED exceptionSet
        /\ IF suspendReadout THEN service' = "retryNoted" /\ UNCHANGED <<current, slice>>
                             ELSE /\ service' = "receiving" /\ current' = NewRaw
                                  /\ slice' = [slice EXCEPT !.got = 0]
     \/ /\ buffers = 0 /\ service' = IF suspendReadout THEN "retryNoted" ELSE "buffer"
        /\ \/ UNCHANGED exceptionSet
           \/ ~suspendReadout /\ exceptionSet' = TRUE
        /\ UNCHANGED <<buffers, current, slice>>
  /\ UNCHANGED <<caller, starts, flags, deadlineObject, link, filled, past>>

Wanted == (IF slice.reading = "header" THEN HeaderUnits ELSE slice.size) - slice.got

\* the size a header tells; units that are no header tell anything
SizeIn(units) ==
  IF AtBoundary(units[1]) /\ units[Len(units)] = units[1] + Len(units) - 1 THEN {SliceUnits}
  ELSE HeaderUnits + 1 .. SliceUnits

\* handle_received_data(): a part of what is wanted, a header, the end of a microslice, or
\* of the buffer
HandleData ==
  /\ Moves("receiving", "read") /\ socket # <<>>
  /\ \E n \in 1..Wanted :
       /\ n <= Len(socket)
       /\ socket' = SubSeq(socket, n + 1, Len(socket))
       /\ LET units == current.units \o SubSeq(socket, 1, n)
              got == slice.got + n
              done == slice.reading = "payload" /\ n = Wanted
              all == done /\ current.slices + 1 = NumSlices
          IN  /\ \/ n < Wanted /\ slice' = [slice EXCEPT !.got = got]
                 \/ /\ n = Wanted /\ slice.reading = "header"
                    /\ \E size \in SizeIn(SubSeq(units, Len(units) - got + 1, Len(units))) :
                         slice' = [reading |-> "payload", got |-> got, size |-> size]
                 \/ done /\ slice' = HeaderNext
              /\ current' = IF all THEN NoRaw
                            ELSE [current EXCEPT !.units = units,
                                                 !.slices = @ + IF done THEN 1 ELSE 0]
              /\ filled' = IF all THEN Append(filled, units) ELSE filled
  /\ UNCHANGED <<caller, starts, flags, deadlineObject, connected, nextUnit, buffers, exceptionSet,
                 past>>

\* nothing came in time; the RCE closed the connection, perhaps within a microslice; any
\* other error sets the exception and nothing is read any more
ReceiveEnds ==
  /\ \/ Moves("receiving", "read") /\ UNCHANGED <<connected, exceptionSet, broken>>
     \/ /\ Moves("receiving", "accept") /\ socket = <<>> /\ connected' = FALSE
        /\ broken' = (broken \/ slice.got > 0) /\ UNCHANGED exceptionSet
     \/ Moves("receiving", "over") /\ exceptionSet' = TRUE /\ UNCHANGED <<connected, broken>>
  /\ UNCHANGED <<caller, starts, flags, deadlineObject, socket, nextUnit, readout, gaveUp, stale>>

RceNext ==
  \/ CommitBuffers \/ ClearForStart \/ ClearSuspend \/ ClearSuspended \/ StopSuspends
  \/ RceStopReturns \/ RetrieveFilled \/ RceSends
  \/ DoAccept \/ SuspendAccept \/ AcceptEnds \/ DoRead \/ SuspendRead \/ Restart \/ GetBuffer
  \/ HandleData \/ ReceiveEnds

RceSpec == RceInit /\ [][RceNext]_rceVars
-----------------------------------------------------------------------------
(* Properties. *)

(* After a stop that was answered the io thread lets the buffers be until    *)
(* the next start, unless it once answered too late: between its look at the *)
(* flag and its answer a start may come, and that answer is then the one of  *)
(* the next stop, which nobody gave. And whatever is started and stopped     *)
(* when, a millislice is NumSlices microslices as they were sent, one after  *)
(* the other, unless a buffer was taken from the thread or a connection, or  *)
(* the drain of a start, cut a microslice in two.                            *)
SuspendedAndWhole ==
  /\ caller = "idle" /\ starts > 0 /\ ~gaveUp /\ ~stale => ~UsesBuffer
  /\ ~broken => \A i \in 1..Len(filled) :
       /\ Len(filled[i]) = NumSlices * SliceUnits /\ AtBoundary(filled[i][1])
       /\ \A k \in 1 .. Len(filled[i]) - 1 : filled[i][k + 1] = filled[i][k] + 1
=============================================================================
