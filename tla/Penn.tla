-------------------------------- MODULE Penn --------------------------------
(***************************************************************************)
(* The Penn board reader. The board (PTB) connects to the reader and sends *)
(* it microslices, a header and a payload each; the io thread of           *)
(* PennDataReceiver packs their words into millislices of MillisliceSize   *)
(* ticks, in buffers that the artdaq thread lends it through two queues    *)
(* (empty, filled). A stop asks the io thread to suspend and waits for its *)
(* flag for a limited time; a start resets the io thread's state from the  *)
(* artdaq thread. A word is its tick: microslice n has the words of the    *)
(* ticks n * SliceTicks + 1 to (n + 1) * SliceTicks, the last of which is  *)
(* its timestamp word.                                                     *)
(***************************************************************************)
EXTENDS Integers, Sequences, FiniteSets, SequencesExt

CONSTANTS
  SliceTicks,      \* ticks a microslice covers
  MillisliceSize,  \* millislice_size_
  Overlap,         \* millislice_overlap_size_
  IdModulus,       \* a microslice's sequence number has 8 bits: 256
  Buffers,         \* addresses of fragments
  NoBuffer,        \* a null pointer
  Precommit,       \* raw_buffer_precommit_
  MaxRetries,      \* tries before the io thread complains of no buffer: 100
  Patient,         \* sleep_on_stop_ is long enough for a thread that lives to answer
  MaxSlices, MaxRuns, MaxLost, MaxUnread, TornRuns  \* bounds

NoId == -1
ASSUME TicksAssumption ==
  /\ SliceTicks \in Nat \ {0} /\ MillisliceSize \in Nat \ {0} /\ Overlap \in Nat
  /\ IdModulus \in Nat \ {0, 1}
  /\ SliceTicks <= MillisliceSize                 \* a microslice meets one boundary
  /\ SliceTicks + Overlap <= MillisliceSize       \* and words kept back are not overlap
ASSUME BoundsAssumption ==
  /\ Precommit \in Nat \ {0} /\ MaxRetries \in Nat /\ NoBuffer \notin Buffers
  /\ Patient \in BOOLEAN
  /\ MaxSlices \in Nat /\ MaxRuns \in Nat /\ MaxLost \in Nat /\ MaxUnread \in Nat
  /\ TornRuns \in Nat
ASSUME RoomAssumption ==
  /\ MaxLost < IdModulus                          \* the number after the last does not come back
  /\ IsFiniteSet(Buffers) => Cardinality(Buffers) > Precommit   \* there is memory for one more

VARIABLES
  boardOn,     \* the board takes a run
  nextSlice,   \* the microslice it sends next
  conn,        \* its data connection: "none", "pending", "open", "closed", "reset"
  stream,      \* what the reader has not read of it: [part, slice]
  io,          \* io thread: "accepting", "markAccept", "read", "pop", "popped", "reading",
               \* "mark", "parked" or "ended" (nothing reads any more)
  deadlineOf,  \* deadline_io_object_
  current,     \* current_raw_buffer_
  mstate,      \* millislice_state_ (MicrosliceIncomplete as "MillisliceIncomplete")
  part,        \* next_receive_state_: "header", "payload"
  words,       \* what the current buffer holds
  remaining,   \* words kept back for the next millislice
  overlap,     \* words kept for the overlap
  runStart,    \* run_start_time_
  boundary,    \* boundary_time_
  lastId,      \* last_sequence_id_, NoId until the first header
  fragment,    \* last_microslice_was_fragment_
  misled,      \* history: microslices were lost unnoticed, their number taken for a fragment's
  retries,     \* buffer_retries
  partial,     \* the pending read has taken some of its bytes
  torn,        \* bytes were lost: the reader is out of step with the stream
  empty,       \* empty_buffer_queue_
  filled,      \* filled_buffer_queue_: [buffer, words, end], and inStep, history: the reader
               \* was in step with the stream until then
  suspend,     \* suspend_readout_
  suspended,   \* readout_suspended_
  exception,   \* exception_ of the receiver, which nothing resets
  gpc,         \* artdaq thread: "stopped", "precommit", "clear", "clearFlag", "command",
               \* "running", "failed", "stopping", "halting", "waiting" or "dead" (the process)
  mapped,      \* raw_to_frag_map_
  answered,    \* history: the last stop was answered, in time and by no flag of an earlier one
  clean,       \* history: the run's start found the io thread out of the way
  late,        \* history: readout_suspended_ was set for a stop already over
  fresh,       \* history: the start left no data of before in the socket
  firstSlice,  \* history: the first microslice of the run
  taken,       \* history: millislices of the run handed to artdaq
  runs         \* starts so far

board == <<boardOn, nextSlice, conn, stream>>
slicing == <<part, words, remaining, overlap, runStart, boundary, lastId, fragment, misled>>
reading == <<partial, torn>>
queues == <<empty, filled, mapped>>
flags == <<suspend, suspended, exception>>
counts == <<firstSlice, taken, runs>>
marks == <<answered, clean, late, fresh>>
history == <<marks, counts>>
vars == <<board, io, deadlineOf, current, mstate, slicing, retries, reading, queues, flags,
          gpc, history>>

Init ==
  /\ boardOn = FALSE /\ nextSlice = 0 /\ conn = "none" /\ stream = <<>>
  /\ io = "accepting" /\ deadlineOf = "Acceptor" /\ current = NoBuffer
  /\ mstate = "MillisliceEmpty" /\ part = "header" /\ words = {} /\ remaining = {}
  /\ overlap = {} /\ runStart = 0 /\ boundary = 0 /\ lastId = NoId /\ retries = 0
  /\ fragment = FALSE /\ misled = FALSE
  /\ partial = FALSE /\ torn = FALSE /\ empty = <<>> /\ filled = <<>> /\ mapped = {}
  /\ suspend = FALSE /\ suspended = FALSE /\ exception = FALSE /\ gpc = "stopped"
  /\ answered = TRUE /\ clean = TRUE /\ late = FALSE /\ fresh = TRUE
  /\ firstSlice = 0 /\ taken = 0 /\ runs = 0
-----------------------------------------------------------------------------
(* The board. *)

BoardRest == UNCHANGED <<io, deadlineOf, current, mstate, slicing, retries, reading, queues,
                         flags, gpc, history>>

BoardConnects == /\ conn = "none" /\ conn' = "pending" /\ stream' = <<>>
                 /\ BoardRest /\ UNCHANGED <<boardOn, nextSlice>>

SendSlice(n) == stream' = stream \o <<[part |-> "header", slice |-> n],
                                      [part |-> "payload", slice |-> n]>>

\* MaxLost: microslices the board may lose; MaxUnread: what the socket holds
BoardSends ==
  /\ boardOn /\ Len(stream) < MaxUnread /\ conn \in {"pending", "open"}
  /\ \E lost \in 0..MaxLost :
       /\ nextSlice + lost < MaxSlices /\ SendSlice(nextSlice + lost)
       /\ nextSlice' = nextSlice + lost + 1
  /\ BoardRest /\ UNCHANGED <<boardOn, conn>>

\* TornRuns: runs, the first ones, in which the reader may come to be out of step
MayTear == runs <= TornRuns

\* in a run it closes the connection, perhaps in the middle of a microslice, or resets it
BoardCloses ==
  /\ conn = "open" /\ boardOn
  /\ \/ conn' = "closed" /\ UNCHANGED stream
     \/ conn' = "closed" /\ MayTear /\ stream # <<>> /\ stream' = Front(stream)
     \/ conn' = "reset" /\ stream' = <<>>
  /\ BoardRest /\ UNCHANGED <<boardOn, nextSlice>>
-----------------------------------------------------------------------------
(* The io thread. *)

IoRest == UNCHANGED <<gpc, mapped, answered, clean, fresh, counts, boardOn,
                      nextSlice, suspend>>

\* async_accept() completes, and do_read() begins
Accept ==
  /\ io = "accepting" /\ conn = "pending" /\ conn' = "open" /\ io' = "read"
  /\ IoRest /\ UNCHANGED <<stream, deadlineOf, current, mstate, slicing, retries, reading,
                           empty, filled, suspended, exception, late>>

\* its deadline expires, and do_accept() finds that readout is to be suspended ...
AcceptSuspend ==
  /\ io = "accepting" /\ suspend /\ io' = "markAccept"
  /\ IoRest /\ UNCHANGED <<conn, stream, deadlineOf, current, mstate, slicing, retries, reading,
                           empty, filled, suspended, exception, late>>

AwaitRestart == io' = IF io = "mark" THEN "parked" ELSE "accepting"

\* ... which suspend_readout() tells later than that was seen: after do_accept() it goes
\* on accepting, after do_read() it waits for a restart
Mark ==
  /\ io \in {"markAccept", "mark"} /\ AwaitRestart
  /\ suspended' = TRUE /\ late' = (late \/ ~suspend)
  /\ IoRest /\ UNCHANGED <<conn, stream, deadlineOf, current, mstate, slicing, retries, reading,
                           empty, filled, exception>>

\* do_read() goes on from its test of suspend_readout_
Proceed == /\ deadlineOf' = "DataSocket"
           /\ io' = IF mstate = "MillisliceEmpty" THEN "pop" ELSE "reading"

Read ==
  /\ io = "read"
  /\ IF suspend THEN io' = "mark" /\ UNCHANGED <<deadlineOf, retries>>
                ELSE Proceed /\ retries' = 0
  /\ IoRest /\ UNCHANGED <<conn, stream, current, mstate, slicing, reading, empty, filled,
                           suspended, exception, late>>

Resume ==
  /\ io = "parked" /\ ~suspend /\ Proceed
  /\ IoRest /\ UNCHANGED <<conn, stream, current, mstate, slicing, retries, reading, empty,
                           filled, suspended, exception, late>>

Pop ==
  /\ io = "pop" /\ empty # <<>>
  /\ current' = Head(empty) /\ empty' = Tail(empty) /\ io' = "popped"
  /\ IoRest /\ UNCHANGED <<conn, stream, deadlineOf, mstate, slicing, retries, reading, filled,
                           suspended, exception, late>>

GiveUpQuietly == io' = "ended" /\ UNCHANGED <<exception, retries>>   \* variant: no exception
GiveUp == io' = "ended" /\ exception' = TRUE /\ UNCHANGED retries

\* try_pop() times out: after too many times the thread gives up, unless it is being
\* suspended or has failed before
PopTimeout ==
  /\ io = "pop" /\ empty = <<>>
  /\ IF retries >= MaxRetries /\ ~suspend /\ ~exception
       THEN GiveUp
       ELSE /\ io' = IF suspend THEN "mark" ELSE "pop"
            /\ retries' = IF retries < MaxRetries THEN retries + 1 ELSE retries
            /\ UNCHANGED exception
  /\ IoRest /\ UNCHANGED <<conn, stream, deadlineOf, current, mstate, slicing, reading, empty,
                           filled, suspended, late>>

\* the buffer begins with the overlap and the words kept back
ForgetRemaining == words' = overlap            \* variant
Prepend == words' = overlap \union remaining

\* a buffer was popped: do_read() begins a millislice in it, unless it is suspended
BeginMillislice ==
  /\ io = "popped"
  /\ IF suspend
       THEN io' = "mark" /\ UNCHANGED <<mstate, slicing>>
       ELSE /\ io' = "reading" /\ mstate' = "MillisliceIncomplete"
            /\ Prepend /\ overlap' = {} /\ remaining' = {}
            /\ UNCHANGED <<part, runStart, boundary, lastId, fragment, misled>>
  /\ IoRest /\ UNCHANGED <<conn, stream, deadlineOf, current, retries, reading, empty, filled,
                           suspended, exception, late>>

\* async_read() completes with the part that is expected
Receives(p) == /\ io = "reading" /\ conn \in {"open", "closed"} /\ ~torn
               /\ stream # <<>> /\ Head(stream).part = p /\ part = p
               /\ stream' = Tail(stream) /\ partial' = FALSE

\* variant: a gap in the sequence numbers is not noticed
AnyId(id) == UNCHANGED <<exception, misled>>

\* the last number once more is taken for the rest of a microslice of which so far no timestamp
\* word came before the boundary
Again(id) == fragment /\ id = lastId
Gap(id) == lastId # NoId /\ id # (lastId + 1) % IdModulus /\ ~Again(id)
CheckId(id) == exception' = (exception \/ Gap(id)) /\ misled' = (misled \/ Again(id))

ReceiveHeader ==
  /\ Receives("header") /\ io' = "read"
  /\ LET id == Head(stream).slice % IdModulus
     IN  CheckId(id) /\ lastId' = id
  /\ part' = "payload" /\ mstate' = "MillisliceIncomplete" /\ fragment' = FALSE
  /\ IoRest /\ UNCHANGED <<conn, deadlineOf, current, words, remaining, overlap, runStart,
                           boundary, retries, torn, empty, filled, suspended, late>>

Garbage == 0                  \* whatever is taken for words: a word of no tick
SomeTime == SliceTicks        \* and a time read from it

WordsOf(n) == (n * SliceTicks + 1)..((n + 1) * SliceTicks)
FirstWord(n) == n * SliceTicks + 1

\* run_start_time_ and boundary_time_ once the first payload is there
StartTime(n) == IF runStart = 0 THEN FirstWord(n) ELSE runStart
Boundary(n) == IF runStart = 0 THEN FirstWord(n) + MillisliceSize - 1 ELSE boundary

\* the split at the boundary and at the start of the overlap
\* (PennMicroSlice::sampleTimeSplitAndCountTwice)
After(n) == {t \in WordsOf(n) : t > Boundary(n)}
InOverlap(n) == {t \in WordsOf(n) : t > Boundary(n) - Overlap /\ t <= Boundary(n)}
UpTo(n) == {t \in WordsOf(n) : t <= Boundary(n)}

\* a millislice that is complete goes to the filled queue
Push(n) ==
  /\ filled' = Append(filled, [buffer |-> current, words |-> words \union UpTo(n),
                               end |-> Boundary(n), inStep |-> TRUE])
  /\ current' = NoBuffer /\ mstate' = "MillisliceEmpty"
  /\ boundary' = Boundary(n) + MillisliceSize

Complete(n) ==
  IF After(n) = {}
    THEN /\ mstate' = "MillisliceIncomplete" /\ boundary' = Boundary(n)
         /\ UNCHANGED <<current, filled>>
    ELSE Push(n)

\* with no current buffer a complete millislice ends the process (see Dies)
ReceivePayload ==
  /\ Receives("payload") /\ io' = "read"
  /\ LET n == Head(stream).slice
     IN  /\ After(n) = {} \/ current # NoBuffer
         /\ runStart' = StartTime(n) /\ words' = words \union UpTo(n)
         /\ remaining' = After(n) /\ overlap' = overlap \union InOverlap(n)
         /\ Complete(n) /\ fragment' = (After(n) # {})
  /\ part' = "header"
  /\ IoRest /\ UNCHANGED <<conn, deadlineOf, lastId, misled, retries, torn, empty, suspended,
                           exception, late>>

\* out of step with the stream, or in the middle of a microslice on a new connection
OutOfStep == /\ io = "reading" /\ conn \in {"open", "closed"} /\ stream # <<>>
             /\ torn \/ Head(stream).part # part

\* current_raw_buffer_->setSize() of a null pointer; and a length that is none may lead past
\* the end of the buffer
Dies ==
  /\ \/ Receives("payload") /\ After(Head(stream).slice) # {} /\ current = NoBuffer
     \/ OutOfStep /\ UNCHANGED <<stream, partial>>
  /\ gpc' = "dead" /\ io' = "ended"
  /\ UNCHANGED <<mapped, answered, clean, fresh, counts, boardOn, nextSlice,
                 suspend, conn, deadlineOf, current, mstate, slicing, retries, torn, empty,
                 filled, suspended, exception, late>>

\* a read has taken some of its bytes when its deadline expires: its handler does not
\* count them, and the next read begins again
ReceiveSome ==
  /\ io = "reading" /\ conn = "open" /\ ~torn /\ ~partial /\ stream # <<>> /\ partial' = TRUE
  /\ MayTear
  /\ IoRest /\ UNCHANGED <<conn, stream, io, deadlineOf, current, mstate, slicing, retries,
                           torn, empty, filled, suspended, exception, late>>

ReadTimeout ==
  /\ io = "reading" /\ conn = "open" /\ io' = "read"
  /\ torn' = (torn \/ partial) /\ partial' = FALSE
  /\ IoRest /\ UNCHANGED <<conn, stream, deadlineOf, current, mstate, slicing, retries, empty,
                           filled, suspended, exception, late>>

\* Out of step the reader takes what comes for a header or a payload all the same. It knows of a
\* gap as ever, by numbers that may be any, and it may find other things wrong ...
Distrust == exception' \in {exception, TRUE}

GarbledHeader ==
  /\ part = "header" /\ part' = "payload" /\ fragment' = FALSE /\ Distrust
  /\ mstate' = "MillisliceIncomplete"
  /\ UNCHANGED <<current, words, remaining, overlap, runStart, boundary, lastId, filled>>

\* ... and what the buffer holds from then on is Garbage, the times it reads being any
GarbledPayload ==
  /\ part = "payload" /\ part' = "header" /\ Distrust
  /\ words' = {Garbage} /\ overlap' = {Garbage} /\ remaining' \in {{}, {Garbage}}
  /\ fragment' = (remaining' # {})
  /\ runStart' = IF runStart = 0 THEN SomeTime ELSE runStart
  /\ LET e == IF runStart = 0 THEN SomeTime + MillisliceSize - 1 ELSE boundary
     IN  IF remaining' = {}
           THEN /\ mstate' = "MillisliceIncomplete" /\ boundary' = e
                /\ UNCHANGED <<current, filled>>
           ELSE /\ current # NoBuffer /\ current' = NoBuffer /\ mstate' = "MillisliceEmpty"
                /\ boundary' = e + MillisliceSize
                /\ filled' = Append(filled, [buffer |-> current, words |-> words', end |-> e,
                                             inStep |-> FALSE])
  /\ UNCHANGED lastId

\* each of these reads finishes some part of the stream, or more than one
ReceiveGarbage ==
  /\ OutOfStep /\ (torn \/ MayTear)
  /\ torn' = TRUE /\ partial' = FALSE /\ io' = "read"
  /\ \E k \in 1..Len(stream) : stream' = SubSeq(stream, k + 1, Len(stream))
  /\ GarbledHeader \/ GarbledPayload
  /\ IoRest /\ UNCHANGED <<conn, deadlineOf, misled, retries, empty, suspended, late>>

\* end of file: do_accept() again; any other error ends the reading
ReadError ==
  /\ io = "reading"
  /\ \/ /\ conn = "closed" /\ stream = <<>> /\ io' = "accepting" /\ deadlineOf' = "Acceptor"
        /\ conn' = "none" /\ UNCHANGED exception
     \/ /\ conn = "reset" /\ io' = "ended" /\ exception' = TRUE
        /\ UNCHANGED <<conn, deadlineOf>>
  /\ partial' = FALSE
  /\ IoRest /\ UNCHANGED <<stream, current, mstate, slicing, retries, torn, empty, filled,
                           suspended, late>>
-----------------------------------------------------------------------------
(* The artdaq thread. *)

ArtdaqRest == UNCHANGED <<nextSlice, conn, io, deadlineOf, retries, exception>>
receiver == <<current, mstate, slicing, reading>>

\* start(): what is left of the last run is released ...
StartRelease ==
  /\ gpc = "stopped" /\ runs < MaxRuns /\ gpc' = "precommit" /\ runs' = runs + 1
  /\ empty' = <<>> /\ filled' = <<>> /\ mapped' = {} /\ clean' = answered
  /\ ArtdaqRest
  /\ UNCHANGED <<boardOn, stream, receiver, suspend, suspended, answered, late, fresh,
                 firstSlice, taken>>

\* create_new_buffer_from_fragment(): memory that nothing uses
NewBuffer == CHOOSE b \in Buffers :
               b \notin mapped \union {current} \union ToSet(empty)
                          \union {f.buffer : f \in ToSet(filled)}

\* ... buffers are committed, one by one ...
Commit ==
  /\ gpc = "precommit" /\ Cardinality(mapped) < Precommit
  /\ mapped' = mapped \union {NewBuffer} /\ empty' = Append(empty, NewBuffer)
  /\ ArtdaqRest
  /\ UNCHANGED <<boardOn, stream, receiver, suspend, suspended, marks, firstSlice, taken,
                 filled, gpc, runs>>

NoFlush == stream' = stream                    \* variant
Flush == stream' = IF deadlineOf = "DataSocket" THEN <<>> ELSE stream

ResetTimes == runStart' = 0 /\ boundary' = 0

\* ... PennDataReceiver::start() flushes the data socket if the deadline is on it, clears
\* the io thread's state (a flush while data comes in may cut a microslice), and then the
\* flags, one after the other ...
Reset ==
  /\ gpc = "precommit" /\ Cardinality(mapped) = Precommit /\ gpc' = "clear"
  /\ Flush /\ current' = NoBuffer /\ mstate' = "MillisliceEmpty"
  /\ part' = "header" /\ words' = {} /\ remaining' = {} /\ overlap' = {} /\ ResetTimes
  /\ lastId' = NoId /\ fragment' = FALSE /\ misled' = FALSE /\ partial' = FALSE
  /\ torn' \in (IF boardOn /\ MayTear THEN BOOLEAN ELSE {FALSE})
  /\ clean' = (clean /\ (runs = 1 => current = NoBuffer))
  /\ fresh' = (~boardOn /\ (deadlineOf = "DataSocket" \/ stream = <<>>))
  /\ taken' = 0
  /\ ArtdaqRest
  /\ UNCHANGED <<boardOn, queues, suspend, suspended, answered, late, firstSlice, runs>>

ClearSuspend ==
  /\ gpc = "clear" /\ gpc' = "clearFlag" /\ suspend' = FALSE
  /\ ArtdaqRest
  /\ UNCHANGED <<boardOn, stream, receiver, queues, suspended, history>>

ClearFlag ==
  /\ gpc = "clearFlag" /\ gpc' = "command" /\ suspended' = FALSE /\ late' = FALSE
  /\ ArtdaqRest
  /\ UNCHANGED <<boardOn, stream, receiver, queues, suspend, answered, clean, fresh, counts>>

\* ... and StartRun is sent: an error stops the start, no answer does not
StartRun ==
  /\ gpc = "command" /\ firstSlice' = nextSlice
  /\ \/ gpc' = "running" /\ boardOn' \in {boardOn, TRUE}
     \/ gpc' = "failed" /\ UNCHANGED boardOn
  /\ ArtdaqRest
  /\ UNCHANGED <<stream, receiver, queues, suspend, suspended, marks, taken, runs>>

\* getNext_() takes a filled buffer, gives its fragment away and commits a new one
TakeFilled ==
  /\ gpc \in {"running", "stopping"} /\ filled # <<>> /\ filled' = Tail(filled)
  /\ IF Head(filled).buffer \in mapped
       THEN /\ mapped' = (mapped \ {Head(filled).buffer}) \union {NewBuffer}
            /\ empty' = Append(empty, NewBuffer) /\ taken' = taken + 1 /\ UNCHANGED gpc
       ELSE /\ gpc' = IF gpc = "running" THEN "failed" ELSE "halting"
            /\ UNCHANGED <<mapped, empty, taken>>
  /\ ArtdaqRest
  /\ UNCHANGED <<boardOn, stream, receiver, suspend, suspended, marks, firstSlice, runs>>

\* it throws when the receiver has an exception, or when no buffer came for a long time
Throws ==
  /\ gpc = "running" /\ exception /\ gpc' = "failed"
  /\ ArtdaqRest /\ UNCHANGED <<boardOn, stream, receiver, queues, suspend, suspended, history>>

DataTimeout ==
  /\ gpc = "running" /\ filled = <<>> /\ gpc' = "failed"
  /\ ArtdaqRest /\ UNCHANGED <<boardOn, stream, receiver, queues, suspend, suspended, history>>

\* stopNoMutex(): StopRun, whose answer nobody waits for in vain
StopRun ==
  /\ gpc \in {"running", "failed"}
  /\ gpc' = IF gpc = "running" THEN "stopping" ELSE "halting"
  /\ boardOn' \in {boardOn, FALSE}
  /\ ArtdaqRest /\ UNCHANGED <<stream, receiver, queues, suspend, suspended, history>>

\* stop(), between two calls of getNext_()
Stop ==
  /\ gpc \in {"stopping", "halting"} /\ gpc' = "waiting" /\ suspend' = TRUE
  /\ ArtdaqRest /\ UNCHANGED <<boardOn, stream, receiver, queues, suspended, history>>

\* it waits for the io thread, but only so long
StopEnds ==
  /\ gpc = "waiting" /\ gpc' = "stopped"
  /\ suspended \/ ~Patient \/ io = "ended"
  /\ answered' = (suspended /\ ~late)
  /\ ArtdaqRest
  /\ UNCHANGED <<boardOn, stream, receiver, queues, suspend, suspended, clean, late, fresh, counts>>
-----------------------------------------------------------------------------
BoardSteps == BoardConnects \/ BoardSends \/ BoardCloses
IoSteps == \/ Accept \/ AcceptSuspend \/ Mark \/ Read \/ Resume \/ Pop \/ PopTimeout
           \/ BeginMillislice \/ ReceiveHeader \/ ReceivePayload \/ Dies \/ ReceiveSome
           \/ ReadTimeout \/ ReceiveGarbage \/ ReadError
ArtdaqSteps == \/ StartRelease \/ Commit \/ Reset \/ ClearSuspend \/ ClearFlag \/ StartRun
               \/ TakeFilled \/ Throws \/ DataTimeout \/ StopRun \/ Stop \/ StopEnds

Next == BoardSteps \/ IoSteps \/ ArtdaqSteps
Spec == Init /\ [][Next]_vars

\* artdaq calls getNext_() again and again until a stop, which comes when it may
FairSpec == Spec /\ WF_vars(Throws)
-----------------------------------------------------------------------------
(* Type invariant. *)

Words == 1..((MaxSlices + 1) * SliceTicks) \union {Garbage}
Slices == 0..MaxSlices

TypeOK ==
  /\ boardOn \in BOOLEAN /\ nextSlice \in Slices
  /\ conn \in {"none", "pending", "open", "closed", "reset"}
  /\ stream \in Seq([part : {"header", "payload"}, slice : Slices])
  /\ io \in {"accepting", "markAccept", "read", "pop", "popped", "reading", "mark", "parked",
              "ended"}
  /\ deadlineOf \in {"Acceptor", "DataSocket"} /\ current \in Buffers \union {NoBuffer}
  /\ mstate \in {"MillisliceEmpty", "MillisliceIncomplete"} /\ part \in {"header", "payload"}
  /\ words \subseteq Words /\ remaining \subseteq Words /\ overlap \subseteq Words
  /\ runStart \in Nat /\ boundary \in Nat /\ lastId \in (0..(IdModulus - 1)) \union {NoId}
  /\ retries \in 0..MaxRetries /\ partial \in BOOLEAN /\ torn \in BOOLEAN
  /\ empty \in Seq(Buffers) /\ mapped \subseteq Buffers
  /\ fragment \in BOOLEAN /\ misled \in BOOLEAN
  /\ filled \in Seq([buffer : Buffers, words : SUBSET Words, end : Nat, inStep : BOOLEAN])
  /\ suspend \in BOOLEAN /\ suspended \in BOOLEAN /\ exception \in BOOLEAN
  /\ gpc \in {"stopped", "precommit", "clear", "clearFlag", "command", "running", "failed",
               "stopping", "halting", "waiting", "dead"}
  /\ answered \in BOOLEAN /\ clean \in BOOLEAN /\ late \in BOOLEAN /\ fresh \in BOOLEAN
  /\ firstSlice \in Slices /\ taken \in Nat /\ runs \in 0..MaxRuns

(* The millislices of a run that wait for artdaq follow the ones it has taken without a gap,
   and each holds every word of its window, its own MillisliceSize ticks and the overlap
   before them, that the board sent since the first microslice of the run, and no other:
   what a boundary splits is neither lost nor doubled, and a microslice the board lost is
   noticed before the millislice it is missing from is filled, unless so many were lost that
   their number is that of a microslice just split, which the code takes for its rest. When
   the reader gets out of step with the stream this stays so of what was filled before. *)
MillisliceExact ==
  clean /\ ~exception /\ ~misled =>
    \A i \in DOMAIN filled : filled[i].inStep =>
      /\ filled[i].end = runStart - 1 + (taken + i) * MillisliceSize
      /\ filled[i].words =
           {t \in (filled[i].end - MillisliceSize - Overlap + 1)..filled[i].end : t >= runStart}

(* While a run is on, every buffer that is lent to the receiver is in exactly one of the
   empty queue, the filled queue and the io thread's hands, and the io thread never writes
   to memory that has been given back, provided the start found the thread without a buffer
   (the first one) or the last stop was answered by the thread, in time and not by a flag
   it set for an earlier stop. This is so whether or not it is in step with the stream. *)
Lent == {b \in {current} : b # NoBuffer} \union ToSet(empty) \union {f.buffer : f \in ToSet(filled)}
BuffersConserved ==
  clean /\ gpc # "precommit" =>
    /\ Lent = mapped
    /\ Cardinality(mapped) = Len(empty) + Len(filled) + (IF current = NoBuffer THEN 0 ELSE 1)
    /\ io \in {"popped", "reading"} => current # NoBuffer

(* The first microslice of a run is one the board sent after StartRun, when the start could
   flush the socket and the board had obeyed the last StopRun, as long as the reader is in step. *)
RunsNotMixed ==
  clean /\ fresh /\ ~torn /\ runStart # 0 /\ gpc \in {"running", "stopping"} =>
    runStart > firstSlice * SliceTicks

(* What artdaq is given of a run: the stream of the board from a microslice of this run on,
   cut into millislices without a gap, a loss or a repetition, until the reader is out of step. *)
StreamExact == MillisliceExact /\ RunsNotMixed

(* What artdaq is given is the stream of the run, and the buffers it lent for *)
(* it are each in one hand only, and none is written once it is given back.   *)
MillislicesRight == StreamExact /\ BuffersConserved

(* When the io thread has given up, for want of buffers or after an error of the socket, in
   a run or before it, the run does not go on: getNext_() throws. *)
FailureReported == (io = "ended" /\ gpc = "running") ~> gpc # "running"
=============================================================================
