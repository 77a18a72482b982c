--------------------------------- MODULE CRT ---------------------------------
(***************************************************************************)
(* The cosmic ray tagger reader: a program of its own (the backend)        *)
(* appends the words of a stream of packets to files, of which the one     *)
(* being written has the suffix ".wr"; the reader follows that file with   *)
(* inotify and makes fragments of the packets. It has one thread, of       *)
(* artdaq; the backend, external, moves between any two of its steps.      *)
(***************************************************************************)
EXTENDS FiniteSetsExt, Naturals, SequencesExt

CONSTANTS
  RawRoom,     \* RAWBUFSIZE, in words
  LongClaim,   \* words a packet claims whose length word is a header: 256
  MaxFrags,    \* fragments of one call of getNext_(): 64
  MaxWords,    \* words the backend writes (bound)
  MaxFiles,    \* files it writes (bound)
  MaxCrtRuns   \* runs (bound)

\* a full buffer holds a packet, whatever stands before it
ASSUME CrtAssumption ==
  /\ {RawRoom, LongClaim, MaxFrags} \subseteq Nat \ {0} /\ LongClaim > 2
  /\ RawRoom >= LongClaim + 3 /\ {MaxWords, MaxFiles, MaxCrtRuns} \subseteq Nat

VARIABLES
  written,      \* for every file, the number of the last word written so far or in it
  wr,           \* the file that has the suffix, 0 if none
  events,       \* inotify has something to tell
  crtpc,        \* "stopped", "idle" (between calls of getNext_), "drain", "readMore", "events",
                \* "find", "watch", "open", "skip", "read", "failed" (FillBuffer() has thrown)
  state,        \* flags "FIRST_FILE", "WAIT", "READ_ACTIVE", "READ_MORE", "DRAIN_BUFFER"
  datafile,     \* datafile_name, 0 before the first
  opened,       \* datafile_fd: the file it reads, 0 when it is closed
  watched,      \* inotify_watchfd: the file watched, 0 when there is no watch
  position,     \* last word of the open file that has been read or skipped
  raw,          \* rawfromhardware, the words not yet decoded
  frags,        \* fragments made in this call of getNext_()
  crtRun,       \* history: runs begun
  candidate,    \* the file just found
  looked,       \* history: words written when the events were last found to be none
  took,         \* history: the words read
  packets       \* history: the packets given to artdaq

backend == <<written, wr>>
inFile == <<datafile, opened, watched, position, candidate>>
crtHist == <<crtRun, looked, took, packets>>
crtVars == <<written, wr, events, crtpc, state, datafile, opened, watched, position, raw, frags,
             candidate, crtRun, looked, took, packets>>

\* Words are numbered. A packet has a header and a body, which stands for its length, times,
\* hits and parity. A file begins with a packet.
IsHeader(w) == w % 2 = 1
PacketOf(w) == (w + 1) \div 2
PacketWords(p) == {2 * p - 1, 2 * p}

NWords == IF written = <<>> THEN 0 ELSE Last(written)

CrtInit ==
  /\ written = <<>> /\ wr = 0 /\ events = FALSE /\ crtpc = "stopped"
  /\ state = {"FIRST_FILE", "WAIT"} /\ datafile = 0 /\ opened = 0 /\ watched = 0 /\ position = 0
  /\ raw = <<>> /\ frags = 0 /\ candidate = 0 /\ crtRun = 0 /\ looked = 0
  /\ took = {} /\ packets = <<>>
-----------------------------------------------------------------------------
(* The backend (external). *)

CreateFile ==
  /\ wr = 0 /\ Len(written) < MaxFiles
  /\ written' = Append(written, NWords) /\ wr' = Len(written')
  /\ UNCHANGED <<events, crtpc, state, inFile, raw, frags, crtHist>>

WriteWord ==
  /\ wr # 0 /\ NWords < MaxWords
  /\ written' = [written EXCEPT ![wr] = @ + 1]
  /\ events' = (events \/ watched = wr)
  /\ UNCHANGED <<wr, crtpc, state, inFile, raw, frags, crtHist>>

\* the finished file loses its suffix, of which a watch for modifications hears nothing
RenameFile ==
  /\ wr # 0 /\ NWords % 2 = 0 /\ wr' = 0
  /\ UNCHANGED <<written, events, crtpc, state, inFile, raw, frags, crtHist>>
-----------------------------------------------------------------------------
(* CRT::raw2cook(): the words of the buffer go one by one to a queue, and  *)
(* each time make_a_packet() tries to decode what the queue holds.         *)

\* what comes before a header is discarded
FromHeader(q) == LET heads == {i \in DOMAIN q : IsHeader(q[i])}
                 IN  IF heads = {} THEN <<>> ELSE SubSeq(q, Min(heads), Len(q))

\* a header in the place of the length is a length, too
Claim(q) == IF IsHeader(q[2]) THEN LongClaim ELSE 2

\* the parity tells the words of a packet from others
make_a_packet(given) ==
  LET q == FromHeader(given) IN
    IF Len(q) < 2 \/ Len(q) < Claim(q) THEN [packet |-> 0, rest |-> q]
    ELSE [packet |-> IF Claim(q) = 2 THEN PacketOf(q[2]) ELSE 0,
          rest |-> SubSeq(q, Claim(q) + 1, Len(q))]

\* the packet, 0 if there is none, and the bytes it used
raw2cook(buf) ==
  LET Word(a, i) ==
        IF a.packet # 0 THEN a
        ELSE LET made == make_a_packet(Append(a.rest, buf[i]))
             IN  made @@ [used |-> IF made.packet = 0 THEN 0 ELSE i]
  IN  FoldLeft(Word, [packet |-> 0, rest |-> <<>>, used |-> 0], [i \in DOMAIN buf |-> i])

\* FillBuffer() gives nothing, which ends the call of getNext_()
Nothing == crtpc' = "idle" /\ frags' = 0 /\ UNCHANGED packets

NothingLeft(buf, used) == <<>>                 \* variant: the whole buffer is given up
Rotated(buf, used) == SubSeq(buf, used + 1, Len(buf))

\* FillBuffer() decodes a packet of buf, of which a fragment is made
Cooked(buf) ==
  LET made == raw2cook(buf) IN
    /\ made.packet # 0
    /\ raw' = Rotated(buf, made.used) /\ packets' = Append(packets, made.packet)
    /\ IF frags + 1 < MaxFrags THEN crtpc' = "drain" /\ frags' = frags + 1
                               ELSE crtpc' = "idle" /\ frags' = 0
-----------------------------------------------------------------------------
(* getNext_() and FillBuffer(). *)

GetNextCrt ==
  /\ crtpc = "idle" /\ crtpc' = "drain"
  /\ UNCHANGED <<backend, events, state, inFile, raw, frags, crtHist>>

DrainBuffer ==
  /\ crtpc = "drain"
  /\ \/ "DRAIN_BUFFER" \in state /\ Cooked(raw) /\ UNCHANGED state
     \/ /\ "DRAIN_BUFFER" \in state => raw2cook(raw).packet = 0
        /\ state' = state \ {"DRAIN_BUFFER"} /\ crtpc' = "readMore"
        /\ UNCHANGED <<raw, frags, packets>>
  /\ UNCHANGED <<backend, events, inFile, crtRun, looked, took>>

Unread == written[opened] - position

NeverMore(buf) == {}                           \* variant: no thought of the rest of the file
More(buf) == IF Len(buf) = RawRoom THEN {"READ_MORE"} ELSE {}

\* all there is, or as much as there is room for; then a try to decode, which goes on at next
TakeWords(flags, next) ==
  LET n == Min({Unread, RawRoom - Len(raw)})
      buf == raw \o [i \in 1..n |-> position + i]
  IN /\ position' = position + n /\ took' = took \cup (position + 1..position + n)
     /\ state' = flags \cup More(buf) \cup (IF buf # <<>> THEN {"DRAIN_BUFFER"} ELSE {})
     /\ \/ Cooked(buf)
        \/ raw2cook(buf).packet = 0 /\ raw' = buf /\ next

\* read() of a file that is closed fails, and the exception ends the run
ReadEverything(flags, next) ==
  \/ opened # 0 /\ TakeWords(flags, next)
  \/ opened = 0 /\ crtpc' = "failed" /\ UNCHANGED <<position, took, state, raw, frags, packets>>

NextStep == IF "WAIT" \in state THEN "find" ELSE "events"

ReadMore ==
  /\ crtpc = "readMore"
  /\ \/ /\ "READ_MORE" \in state
        /\ ReadEverything(state \ {"READ_MORE"},
                          crtpc' = NextStep /\ UNCHANGED <<frags, packets>>)
     \/ /\ "READ_MORE" \notin state /\ crtpc' = NextStep
        /\ UNCHANGED <<position, took, state, raw, frags, packets>>
  /\ UNCHANGED <<backend, events, datafile, opened, watched, candidate, crtRun, looked>>

\* check_events(): whatever it is that inotify tells, the file is taken to be modified
check_events ==
  /\ crtpc = "events" /\ events' = FALSE
  /\ crtpc' = IF events THEN "read" ELSE "find"
  /\ looked' = IF events THEN looked ELSE NWords
  /\ UNCHANGED <<backend, state, inFile, raw, frags, crtRun, took, packets>>

\* try_open_file(), as far as find_wr_file()
FindFile ==
  /\ crtpc = "find"
  /\ \/ wr \in {0, datafile} /\ Nothing /\ UNCHANGED candidate
     \/ /\ wr \notin {0, datafile} /\ candidate' = wr /\ crtpc' = "watch"
        /\ UNCHANGED <<frags, packets>>
  /\ UNCHANGED <<backend, events, state, datafile, opened, watched, position, raw,
                 crtRun, looked, took>>

\* the old file is left; a watch that is removed says so in an event
WatchFile ==
  /\ crtpc = "watch" /\ opened' = 0 /\ events' = (events \/ watched # 0)
  /\ IF wr = candidate THEN watched' = candidate /\ crtpc' = "open" /\ UNCHANGED <<frags, packets>>
                       ELSE watched' = 0 /\ Nothing
  /\ UNCHANGED <<backend, state, datafile, position, candidate, raw, crtRun, looked, took>>

FirstWordOf(f) == IF f = 1 THEN 0 ELSE written[f - 1]

AfterOpening == IF "FIRST_FILE" \in state THEN "skip" ELSE "read"

OpenFile ==
  /\ crtpc = "open"
  /\ \/ /\ wr = candidate /\ opened' = candidate /\ datafile' = candidate
        /\ position' = FirstWordOf(candidate) /\ state' = {"READ_ACTIVE"}
        /\ crtpc' = AfterOpening
        /\ UNCHANGED <<events, watched, frags, packets>>
     \/ /\ wr # candidate /\ watched' = 0 /\ events' = TRUE /\ Nothing
        /\ UNCHANGED <<opened, datafile, position, state>>
  /\ UNCHANGED <<backend, candidate, raw, crtRun, looked, took>>

SkipToEnd ==
  /\ crtpc = "skip" /\ position' = written[opened] /\ Nothing
  /\ UNCHANGED <<backend, events, state, datafile, opened, watched, candidate, raw,
                 crtRun, looked, took>>

ReadFile ==
  /\ crtpc = "read" /\ ReadEverything(state, Nothing)
  /\ UNCHANGED <<backend, events, datafile, opened, watched, candidate, crtRun, looked>>
-----------------------------------------------------------------------------
(* Commands of artdaq, between calls of getNext_(). *)

\* nothing is set back: the inotify queue, the open file and the state outlive a stop
StartDatataking ==
  /\ crtpc = "stopped" /\ crtRun < MaxCrtRuns /\ crtpc' = "idle" /\ crtRun' = crtRun + 1
  /\ UNCHANGED <<backend, events, state, inFile, raw, frags, looked, took, packets>>

StopDatataking ==
  /\ crtpc = "idle" /\ crtpc' = "stopped" /\ watched' = 0 /\ events' = (events \/ watched # 0)
  /\ UNCHANGED <<backend, state, datafile, opened, position, candidate, raw, frags, crtHist>>

FillBuffer == \/ GetNextCrt \/ DrainBuffer \/ ReadMore \/ check_events \/ FindFile
              \/ WatchFile \/ OpenFile \/ SkipToEnd \/ ReadFile

CrtNext == \/ CreateFile \/ WriteWord \/ RenameFile
           \/ StartDatataking \/ StopDatataking \/ FillBuffer

CrtSpec == CrtInit /\ [][CrtNext]_crtVars
-----------------------------------------------------------------------------
(* Properties. *)

(* Every variable has a value the code can give it. *)
CrtTypeOK ==
  /\ written \in Seq(0..MaxWords) /\ Len(written) <= MaxFiles /\ wr \in 0..Len(written)
  /\ events \in BOOLEAN
  /\ crtpc \in {"stopped", "idle", "drain", "readMore", "events", "find", "watch", "open", "skip",
                "read", "failed"}
  /\ state \subseteq {"FIRST_FILE", "WAIT", "READ_ACTIVE", "READ_MORE", "DRAIN_BUFFER"}
  /\ {datafile, opened, watched, candidate} \subseteq 0..Len(written)
  /\ position \in 0..MaxWords /\ raw \in Seq(1..MaxWords) /\ Len(raw) <= RawRoom
  /\ frags \in 0..MaxFrags - 1 /\ crtRun \in 0..MaxCrtRuns /\ looked \in 0..MaxWords
  /\ took \subseteq 1..MaxWords /\ packets \in Seq(1..MaxWords)

(* When the reader goes on to another file, every word of the old one has  *)
(* been read, but those that were written after it had looked for events,  *)
(* and those of a file whose watch a stop has removed.                     *)
TailLeft ==
  opened # 0 /\ opened' # opened =>
    watched # opened \/ \A w \in position + 1..written[opened] : w > looked

(* Packets come out in the order of the stream and once; one that was read *)
(* whole is in the buffer or was given, unless a gap in the words read     *)
(* took it along: the words after a gap may be counted to the packet       *)
(* before it. What inotify told in between does not matter.                *)
PacketsAccounted ==
  /\ \A i, j \in DOMAIN packets : i < j => packets[i] < packets[j]
  /\ \A i \in DOMAIN packets : PacketWords(packets[i]) \cap took # {}
  /\ \A p \in 1..MaxWords \div 2 : PacketWords(p) \subseteq took =>
       \/ p \in ToSet(packets) \/ PacketWords(p) \subseteq ToSet(raw)
       \/ \E g \in took : g - 1 \notin took /\ 2 * p - 1 \in g..g + LongClaim - 2

(* What stands unread in the file that is open and watched is not         *)
(* forgotten: inotify has an event for it, or the reader comes back to the *)
(* file by itself.                                                         *)
UnreadRemembered ==
  opened # 0 /\ watched = opened /\ Unread > 0 =>
    events \/ "READ_MORE" \in state \/ crtpc \in {"read", "skip"}

(* Of every word the backend has written it is known where it is: in a     *)
(* packet, in the buffer, or in a file the reader will come back to.       *)
PacketsKept == PacketsAccounted /\ UnreadRemembered

(* Nothing of a file is forgotten: not while it is followed, nor when it is *)
(* left for the next.                                                       *)
FilesReadOut == [][TailLeft /\ PacketsKept']_crtVars

(* "The file we just set a watch on might already be gone, as above. We'll *)
(* just get the next one", says try_open_file(): no read fails for it.     *)
VanishedFileForgiven == crtpc # "failed"
=============================================================================
