--------------------------------- MODULE CTB ---------------------------------
(***************************************************************************)
(* The Central Trigger Board reader: the artdaq thread that calls start(), *)
(* getNext_() and stop() of TriggerBoardReader, the thread of              *)
(* CTB_Receiver::_word_receiver that reads words from the board's socket,  *)
(* the thread of TriggerBoardReader::_FragmentGenerator that groups words  *)
(* into fragments, and the run control connection of CTB_Controller.       *)
(*                                                                         *)
(* A word is its run, its number in the run, its kind and whether its      *)
(* timestamp is zero; the clock of the board is the pair <<run, number>>.  *)
(* A queue is the sequence of its elements.                                *)
(***************************************************************************)
EXTENDS Integers, Sequences, FiniteSets, SequencesExt

CONSTANTS
  GroupSize,      \* group_size: TS words per fragment, 0 for no grouping
  WordCap,        \* word_buffer_size
  MaxWordsPerFrag,\* 80% of word_buffer_size
  FragCap,        \* data_buffer_depth_fragments
  MetricTSMax,    \* metric_TS_interval
  ThrowException, \* throw_exception
  UIntMax,        \* largest unsigned int
  Kinds,          \* kinds of words the board sends
  ZeroTimes,      \* may a TS word carry timestamp 0
  PacketMax,      \* words announced by one TCP header (bound)
  MaxWords,       \* words the board sends in one run (bound)
  MaxRuns         \* calls of start() (bound)

ASSUME CTBAssumption ==
  /\ GroupSize \in Nat
  /\ {WordCap, MaxWordsPerFrag, FragCap, MetricTSMax, PacketMax} \subseteq Nat \ {0}
  /\ MaxWordsPerFrag <= WordCap
  /\ UIntMax \in Nat /\ UIntMax >= WordCap + 2
  /\ ThrowException \in BOOLEAN
  /\ Kinds \subseteq {"ts", "gt", "fback", "other"}
  /\ ZeroTimes \subseteq BOOLEAN
  /\ MaxWords \in Nat /\ MaxRuns \in Nat

VARIABLES
  cpc,         \* where the artdaq thread is in start() / getNext_() / stop()
  run,         \* number of the current run
  shouldStop,  \* CommandableFragmentGenerator::should_stop()
  thrown,      \* getNext_ threw "CTB sent a feedback word"
  ctrlRunning, \* CTB_Controller::is_running_
  conn,        \* the board's data connection: none, open, closed by the board
  rpc,         \* where _word_receiver is
  rStop,       \* CTB_Receiver::_stop_requested
  left,        \* words of the current packet still to be read
  hand,        \* the word read and not yet pushed (temp_word)
  rError,      \* CTB_Receiver::_error_state
  wordBuf,     \* CTB_Receiver::_word_buffer
  nTS,         \* CTB_Receiver::_n_TS_words
  gpc,         \* where _FragmentGenerator is
  gStop,       \* TriggerBoardReader::_stop_requested
  gError,      \* TriggerBoardReader::_error_state
  nWords,      \* n_words of CreateFragment
  cur,         \* the fragment under construction: [words, stamp]
  group,       \* group_counter
  temp,        \* the static temp_word of CreateFragment
  lastTS,      \* _last_timestamp, NoTime while _has_last_TS is false
  fragBuf,     \* _fragment_buffer
  metric,      \* TS and HLT words of the metric period, HLT words of the run
  rcvd,        \* history: the words read from the socket in this run
  delivered,   \* history: the non-empty fragments artdaq got in this run
  dropped,     \* history: TS words counted and then not pushed because of stop
  hltSeen,     \* history: HLT words popped in all runs
  reported,    \* history: the sum of the HLT counts the earlier runs have reported
  startRace    \* history: the word buffer was reset under a running pop()

control  == <<cpc, run, shouldStop, thrown, ctrlRunning>>
receiver == <<rpc, rStop, left, hand, rError, rcvd, dropped>>
builder  == <<gpc, gError, nWords, cur, group, temp, lastTS, metric, hltSeen, reported>>
shared   == <<conn, wordBuf, nTS, gStop, fragBuf, delivered, startRace>>
vars == <<cpc, run, shouldStop, thrown, ctrlRunning, conn, rpc, rStop, left, hand,
          rError, wordBuf, nTS, gpc, gStop, gError, nWords, cur, group, temp,
          lastTS, fragBuf, metric, rcvd, delivered, dropped, hltSeen, reported, startRace>>

Word == [run : 1..MaxRuns, id : 1..MaxWords, kind : Kinds, zero : BOOLEAN]
NoWord == [run |-> 0, id |-> 0, kind |-> "none", zero |-> TRUE]
Time == (0..MaxRuns) \X (0..MaxWords)
NoTime == <<0, 0>>                            \* Fragment::InvalidTimestamp
TimeOf(w) == <<w.run, w.id>>
Fragment == [words : Seq(Word \cup {NoWord}), stamp : Time]
IsTSWord(w) == w.kind = "ts"
IsFeedbackWord(w) == w.kind = "fback"
CarriesTime(w) == IsTSWord(w) /\ ~w.zero

TSIndices(s) == {i \in 1..Len(s) : IsTSWord(s[i])}
CountTS(s) == Cardinality(TSIndices(s))

Inc(n) == (n + 1) % (UIntMax + 1)             \* unsigned int arithmetic
NoDec(n) == n                                 \* variant: the decrement is forgotten
Dec(n) == IF n = 0 THEN UIntMax ELSE n - 1

Init ==
  /\ cpc = "stopped" /\ run = 0 /\ shouldStop = FALSE /\ thrown = FALSE
  /\ ctrlRunning = FALSE /\ conn = "none"
  /\ rpc = "idle" /\ rStop = FALSE /\ left = 0 /\ hand = NoWord /\ rError = FALSE
  /\ wordBuf = <<>> /\ nTS = 0
  /\ gpc = "idle" /\ gStop = FALSE /\ gError = FALSE /\ nWords = 0
  /\ cur = [words |-> <<>>, stamp |-> NoTime] /\ group = 0 /\ temp = NoWord
  /\ lastTS = NoTime /\ fragBuf = <<>>
  /\ metric = [ts |-> 0, hlt |-> 0, total |-> 0]
  /\ rcvd = <<>> /\ delivered = <<>> /\ dropped = 0 /\ startRace = FALSE
  /\ hltSeen = 0 /\ reported = 0
-----------------------------------------------------------------------------
(* The artdaq thread: start(), getNext_(), stop(), which artdaq serialises. *)

\* start(), up to the launch of _FragmentGenerator: the count of the run is reset,
\* those of the metric period are not
Start ==
  /\ cpc = "stopped" /\ ~thrown /\ run < MaxRuns
  /\ cpc' = "resetWords" /\ run' = run + 1
  /\ shouldStop' = FALSE /\ gStop' = FALSE /\ gpc' = "check"
  /\ metric' = [metric EXCEPT !.total = 0]
  /\ reported' = reported + metric.total
  /\ rcvd' = <<>> /\ delivered' = <<>>
  /\ UNCHANGED <<thrown, ctrlRunning, conn, rpc, rStop, left, hand, rError, wordBuf,
                 nTS, gError, nWords, cur, group, temp, lastTS, fragBuf, dropped, hltSeen,
                 startRace>>

\* What _word_buffer.reset() leaves when a pop() is in progress: the pop still
\* returns its word and then stores its own read index over the reset one, so
\* that slots of the ring that hold old words are readable again.
Resurrected == {<<Head(wordBuf)>> \o old : old \in BoundedSeq(ToSet(wordBuf), WordCap - 1)}

\* variant: the queue is not reset
KeepWords ==
  /\ cpc = "resetWords" /\ cpc' = "zeroTS"
  /\ rStop' = FALSE /\ UNCHANGED <<wordBuf, startRace>>
  /\ UNCHANGED <<run, shouldStop, thrown, ctrlRunning, conn, rpc, left, hand, rError,
                 nTS, fragBuf, gStop, delivered, rcvd, dropped, builder>>

\* CTB_Receiver::start(): the flag and the reset of the queue ...
ResetWords ==
  /\ cpc = "resetWords" /\ cpc' = "zeroTS"
  /\ rStop' = FALSE
  /\ \/ wordBuf' = <<>> /\ startRace' = (startRace \/ gpc = "pop")
     \/ /\ gpc = "pop" /\ wordBuf # <<>>
        /\ wordBuf' \in Resurrected
        /\ startRace' = TRUE
  /\ UNCHANGED <<run, shouldStop, thrown, ctrlRunning, conn, rpc, left, hand, rError,
                 nTS, fragBuf, gStop, delivered, rcvd, dropped, builder>>

\* ... the reset of the counter and the launch of _word_receiver
ZeroTS ==
  /\ cpc = "zeroTS" /\ cpc' = "sendStart"
  /\ nTS' = 0 /\ dropped' = 0 /\ rpc' = "accept" /\ conn' = "none"
  /\ UNCHANGED <<run, shouldStop, thrown, ctrlRunning, rStop, left, hand, rError, rcvd,
                 wordBuf, gStop, fragBuf, delivered, startRace, builder>>

\* send_start(): the board may answer with an error, which start() ignores
SendStart ==
  /\ cpc = "sendStart" /\ cpc' = "running"
  /\ \/ ctrlRunning' = TRUE /\ conn' = "open"
     \/ UNCHANGED <<ctrlRunning, conn>>
  /\ UNCHANGED <<run, shouldStop, thrown, receiver, builder, wordBuf, nTS, gStop,
                 fragBuf, delivered, startRace>>

InError == ThrowException /\ (gError \/ rError)

\* getNext_() finds an error, calls stop() itself and will throw
GetNextError ==
  /\ cpc = "running" /\ ~shouldStop
  /\ InError
  /\ cpc' = "sendStop" /\ gStop' = TRUE /\ thrown' = TRUE
  /\ UNCHANGED <<run, shouldStop, ctrlRunning, receiver, builder, conn, wordBuf, nTS,
                 fragBuf, delivered, startRace>>

\* the members of S in s, in their order: SelectSeq with a set for its test, for the proofs
Among(s, S) ==
  LET kept[i \in 0..Len(s)] ==
        IF i = 0 THEN <<>>
        ELSE IF s[i] \in S THEN Append(kept[i - 1], s[i]) ELSE kept[i - 1]
  IN kept[Len(s)]

\* Fragments without words, which a word counted and not yet pushed lets the generator
\* make in any number, are sent too; they carry nothing and are left out of delivered.
Filled == {f \in Fragment : f.words # <<>>}
NewestFirst(frags) == Among(Reverse(frags), Filled)  \* variant
Sent(frags) == Among(frags, Filled)

\* getNext_() sends all fragments that are available; artdaq stops calling it
\* once it returns false
GetNext ==
  /\ cpc = "running" /\ ~shouldStop
  /\ ~InError
  /\ cpc' = IF gError THEN "ended" ELSE "running"
  /\ fragBuf' = <<>>
  /\ delivered' = delivered \o Sent(fragBuf)
  /\ UNCHANGED <<run, shouldStop, thrown, ctrlRunning, receiver, builder, conn, wordBuf,
                 nTS, gStop, startRace>>

\* artdaq raises should_stop() before it waits for the lock and calls stop()
StopCommand ==
  /\ cpc \in {"running", "ended"} /\ ~shouldStop
  /\ shouldStop' = TRUE
  /\ UNCHANGED <<cpc, run, thrown, ctrlRunning, receiver, builder, shared>>

StopGenerator ==
  /\ cpc \in {"running", "ended"} /\ shouldStop
  /\ cpc' = "sendStop" /\ gStop' = TRUE
  /\ UNCHANGED <<run, shouldStop, thrown, ctrlRunning, receiver, builder, conn, wordBuf,
                 nTS, fragBuf, delivered, startRace>>

\* send_stop(): only a running board is told, and it then closes its connection
SendStop ==
  /\ cpc = "sendStop" /\ cpc' = "recvStop"
  /\ ctrlRunning' = FALSE
  /\ conn' = IF ctrlRunning THEN "closed" ELSE conn
  /\ UNCHANGED <<run, shouldStop, thrown, receiver, builder, wordBuf, nTS, gStop,
                 fragBuf, delivered, startRace>>

StopReceiver ==
  /\ cpc = "recvStop" /\ cpc' = "recvJoin" /\ rStop' = TRUE
  /\ UNCHANGED <<run, shouldStop, thrown, ctrlRunning, rpc, left, hand, rError, rcvd,
                 dropped, builder, shared>>

\* _word_fut.get()
JoinReceiver ==
  /\ cpc = "recvJoin" /\ rpc \in {"idle", "done"}
  /\ cpc' = "genJoin" /\ rpc' = "idle"
  /\ UNCHANGED <<run, shouldStop, thrown, ctrlRunning, rStop, left, hand, rError, rcvd,
                 dropped, builder, shared>>

\* _frag_future.wait(), ResetBuffer(); the run report is written from metric.total
JoinGenerator ==
  /\ cpc = "genJoin" /\ gpc \in {"idle", "done"}
  /\ cpc' = "stopped" /\ gpc' = "idle" /\ fragBuf' = <<>>
  /\ UNCHANGED <<run, shouldStop, thrown, ctrlRunning, receiver, conn, wordBuf, nTS,
                 gStop, delivered, startRace, gError, nWords, cur, group, temp, lastTS,
                 metric, hltSeen, reported>>

-----------------------------------------------------------------------------
(* The receiver thread. *)

Step(from, to) == rpc = from /\ rpc' = to

\* The board's connection is accepted, unless a stop came first: then the thread
\* is left only when the accept that runs in its own future has returned.
Accept ==
  /\ \/ conn # "none" /\ Step("accept", "loop")
     \/ rStop /\ Step("accept", "close")
  /\ UNCHANGED <<control, rStop, left, hand, rError, rcvd, dropped, builder, shared>>

Loop ==
  /\ Step("loop", IF rStop THEN "close" ELSE "header")
  /\ UNCHANGED <<control, rStop, left, hand, rError, rcvd, dropped, builder, shared>>

ReadHeader ==
  /\ conn # "none" /\ Len(rcvd) < MaxWords
  /\ Step("header", "word")
  /\ left' \in 1..PacketMax
  /\ UNCHANGED <<control, rStop, hand, rError, rcvd, dropped, builder, shared>>

\* the TS word is counted, and the error raised, before the word is pushed
ReadWord ==
  /\ conn # "none" /\ Len(rcvd) < MaxWords
  /\ Step("word", "push")
  /\ \E k \in Kinds : \E z \in IF k = "ts" THEN ZeroTimes ELSE {FALSE} :
       LET w == [run |-> run, id |-> Len(rcvd) + 1, kind |-> k, zero |-> z] IN
         /\ hand' = w
         /\ rcvd' = Append(rcvd, w)
         /\ nTS' = IF IsTSWord(w) THEN Inc(nTS) ELSE nTS
         /\ rError' = (rError \/ IsFeedbackWord(w))
  /\ left' = left - 1
  /\ UNCHANGED <<control, rStop, dropped, builder, conn, wordBuf, gStop, fragBuf,
                 delivered, startRace>>

\* eof: the board has closed the connection and the socket is drained
ReadEOF ==
  /\ conn = "closed" /\ rpc \in {"header", "word"} /\ rpc' = "close"
  /\ UNCHANGED <<control, rStop, left, hand, rError, rcvd, dropped, builder, shared>>

\* variant: one word too many
AfterPush == IF rStop THEN "close" ELSE IF left > 0 THEN "word" ELSE "loop"

PushWord ==
  /\ Len(wordBuf) < WordCap /\ Step("push", AfterPush)
  /\ wordBuf' = Append(wordBuf, hand) /\ hand' = NoWord
  /\ UNCHANGED <<control, rStop, left, rError, rcvd, dropped, builder, conn, nTS, gStop,
                 fragBuf, delivered, startRace>>

\* variant: the push is not retried, and the last slot is not used
DropWhenFull ==
  /\ Len(wordBuf) >= WordCap - 1 /\ Step("push", AfterPush)
  /\ dropped' = IF IsTSWord(hand) THEN dropped + 1 ELSE dropped
  /\ hand' = NoWord
  /\ UNCHANGED <<control, rStop, left, rError, rcvd, builder, shared>>

\* the buffer is full and the stop has been requested: the word is lost
DropWord ==
  /\ Len(wordBuf) = WordCap /\ rStop /\ Step("push", "close")
  /\ dropped' = IF IsTSWord(hand) THEN dropped + 1 ELSE dropped
  /\ hand' = NoWord
  /\ UNCHANGED <<control, rStop, left, rError, rcvd, builder, shared>>

\* the socket is closed; the future of accept() is joined on return
Close ==
  /\ conn # "none" /\ Step("close", "done")
  /\ UNCHANGED <<control, rStop, left, hand, rError, rcvd, dropped, builder, shared>>

\* the board drops its connection on its own
BoardCloses ==
  /\ conn = "open" /\ conn' = "closed"
  /\ UNCHANGED <<control, receiver, builder, wordBuf, nTS, gStop, fragBuf, delivered,
                 startRace>>
-----------------------------------------------------------------------------
(* The fragment generator thread. *)

CanCreateFragments ==
  IF GroupSize > 0 THEN nTS >= GroupSize ELSE wordBuf # <<>>

NeedToEmptyBuffer ==
  Len(wordBuf) >= MaxWordsPerFrag \/ (rError /\ wordBuf # <<>>)

\* variant: only should_stop() is looked at
CheckShouldStop ==
  /\ gpc = "check" /\ shouldStop /\ ~(CanCreateFragments \/ NeedToEmptyBuffer)
  /\ gpc' = "done"
  /\ UNCHANGED <<control, receiver, shared, gError, nWords, cur, group, temp, lastTS,
                 metric, hltSeen, reported>>

\* the loop condition and, after a sleep, the test of should_stop()
CheckStop ==
  /\ gpc = "check" /\ (gStop \/ (shouldStop /\ ~(CanCreateFragments \/ NeedToEmptyBuffer)))
  /\ gpc' = "done"
  /\ UNCHANGED <<control, receiver, shared, gError, nWords, cur, group, temp, lastTS,
                 metric, hltSeen, reported>>

\* there is work: CreateFragment begins with the words available now
BeginFragment ==
  /\ gpc = "check" /\ ~gStop /\ (CanCreateFragments \/ NeedToEmptyBuffer)
  /\ gpc' = IF wordBuf = <<>> THEN "push" ELSE "pop"
  /\ nWords' = Len(wordBuf)
  /\ cur' = [words |-> <<>>, stamp |-> lastTS] /\ group' = 0
  /\ UNCHANGED <<control, receiver, shared, gError, temp, lastTS, metric, hltSeen, reported>>

\* variant: the period is reset before it is added to the run
CountReset(w) ==
  LET m == [metric EXCEPT !.ts = IF IsTSWord(w) THEN @ + 1 ELSE @,
                          !.hlt = IF w.kind = "gt" THEN @ + 1 ELSE @]
  IN IF m.ts = MetricTSMax THEN [m EXCEPT !.ts = 0, !.hlt = 0] ELSE m

\* the counters of the metric period are moved to the run's at its end
Count(w) ==
  LET m == [metric EXCEPT !.ts = IF IsTSWord(w) THEN @ + 1 ELSE @,
                          !.hlt = IF w.kind = "gt" THEN @ + 1 ELSE @]
  IN IF m.ts = MetricTSMax THEN [ts |-> 0, hlt |-> 0, total |-> m.total + m.hlt] ELSE m

\* One turn of the loop of CreateFragment. A pop() of an empty queue leaves the
\* previous word in temp_word.
PopWord ==
  /\ gpc = "pop"
  /\ LET w == IF wordBuf = <<>> THEN temp ELSE Head(wordBuf)
         ts == IsTSWord(w)
         timed == CarriesTime(w)
     IN /\ wordBuf' = IF wordBuf = <<>> THEN wordBuf ELSE Tail(wordBuf)
        /\ temp' = w
        /\ nTS' = IF ts THEN Dec(nTS) ELSE nTS
        /\ group' = IF ts THEN group + 1 ELSE group
        /\ lastTS' = IF timed THEN TimeOf(w) ELSE lastTS
        /\ cur' = [words |-> Append(cur.words, w),
                   stamp |-> IF timed /\ cur.stamp = NoTime THEN TimeOf(w) ELSE cur.stamp]
        /\ gError' = (gError \/ IsFeedbackWord(w))
        /\ metric' = Count(w)
        /\ hltSeen' = IF w.kind = "gt" THEN hltSeen + 1 ELSE hltSeen
        /\ gpc' = IF \/ ts /\ GroupSize > 0 /\ group + 1 >= GroupSize
                     \/ Len(cur.words) + 1 = nWords
                  THEN "push" ELSE "pop"
  /\ UNCHANGED <<control, receiver, conn, gStop, fragBuf, delivered, startRace, nWords,
                 reported>>

\* retried for ever while the fragment buffer is full
PushFragment ==
  /\ gpc = "push" /\ Len(fragBuf) < FragCap
  /\ fragBuf' = Append(fragBuf, cur)
  /\ gpc' = IF shouldStop THEN "done" ELSE "check"
  /\ cur' = [words |-> <<>>, stamp |-> NoTime] /\ nWords' = 0 /\ group' = 0
  /\ UNCHANGED <<control, receiver, conn, wordBuf, nTS, gStop, delivered, startRace,
                 gError, temp, lastTS, metric, hltSeen, reported>>
-----------------------------------------------------------------------------
Control == Start \/ ResetWords \/ ZeroTS \/ SendStart \/ StopGenerator \/ SendStop
             \/ StopReceiver \/ JoinReceiver \/ JoinGenerator
Reader == GetNext \/ GetNextError
Receiver == Accept \/ Loop \/ ReadHeader \/ ReadWord \/ ReadEOF \/ PushWord \/ DropWord \/ Close
Generator == CheckStop \/ BeginFragment \/ PopWord \/ PushFragment

Next == Control \/ Reader \/ StopCommand \/ Receiver \/ BoardCloses \/ Generator

Spec == Init /\ [][Next]_vars

\* Every thread runs, artdaq keeps calling getNext_() and completes a start or a
\* stop it has begun, and a closed connection is noticed. When to stop, whether the
\* board sends anything and whether it drops the connection are left open.
Fairness ==
  /\ WF_vars(Control /\ cpc # "stopped") /\ WF_vars(Reader)
  /\ WF_vars(Accept \/ Loop \/ PushWord \/ DropWord \/ Close) /\ WF_vars(ReadEOF)
  /\ WF_vars(Generator)

FairSpec == Spec /\ Fairness
-----------------------------------------------------------------------------
(* Properties. *)

WordsOf(frags) == FlattenSeq([i \in 1..Len(frags) |-> frags[i].words])
Fragments == delivered \o fragBuf \o <<cur>>
InHand == IF rpc = "push" THEN <<hand>> ELSE <<>>
OfRun(r) == {w \in Word : w.run = r}
TimedWords == {w \in Word : CarriesTime(w)}

ControlTypes ==
  /\ cpc \in {"stopped", "resetWords", "zeroTS", "sendStart", "running", "ended",
              "sendStop", "recvStop", "recvJoin", "genJoin"}
  /\ run \in 0..MaxRuns
  /\ shouldStop \in BOOLEAN /\ thrown \in BOOLEAN /\ ctrlRunning \in BOOLEAN
  /\ startRace \in BOOLEAN
  /\ conn \in {"none", "open", "closed"}

ReceiverTypes ==
  /\ rpc \in {"idle", "accept", "loop", "header", "word", "push", "close", "done"}
  /\ rStop \in BOOLEAN /\ rError \in BOOLEAN
  /\ left \in 0..PacketMax /\ nTS \in 0..UIntMax /\ hand \in Word \cup {NoWord}
  /\ wordBuf \in Seq(Word) /\ Len(wordBuf) <= WordCap
  /\ rcvd \in Seq(Word) /\ Len(rcvd) <= MaxWords

BuilderTypes ==
  /\ gpc \in {"idle", "check", "pop", "push", "done"}
  /\ gStop \in BOOLEAN /\ gError \in BOOLEAN
  /\ temp \in Word \cup {NoWord} /\ lastTS \in Time
  /\ cur \in Fragment /\ Len(cur.words) <= nWords /\ nWords \in 0..WordCap
  /\ fragBuf \in Seq(Fragment) /\ Len(fragBuf) <= FragCap

(* Every variable keeps the range the code gives it.                        *)
TypeOK == ControlTypes /\ ReceiverTypes /\ BuilderTypes

(* The counter of TS words, which the receiver raises before it pushes the  *)
(* word and the generator lowers after it popped one, counts exactly the TS *)
(* words in the buffer, the one in the receiver's hand and one lost to a    *)
(* stop: it never wraps below zero, which would have CanCreateFragments     *)
(* true for ever. It takes a start() in the middle of a fragment, with the  *)
(* queue reset under its consumer, to break this.                           *)
TSCountMatches ==
  ~startRace /\ cpc # "zeroTS" => nTS = CountTS(wordBuf) + CountTS(InHand) + dropped

(* From the socket to artdaq no word of the run is lost, doubled or moved,  *)
(* whatever the two queues, the groups and the emptying of a filling buffer *)
(* do; a stop may cut the stream, never puncture it.                        *)
NoWordLost ==
  ~startRace /\ cpc # "stopped" =>
    LET s == Among(WordsOf(Fragments) \o wordBuf \o InHand, OfRun(run))
    IN IF rStop THEN IsPrefix(s, rcvd) ELSE s = rcvd

(* Words that a run left in the word buffer can reach the fragments of the  *)
(* next one (the generator is started before the buffer is reset), but only *)
(* in fragments of their own.                                               *)
RunsNotMixed ==
  ~startRace =>
    /\ cpc # "resetWords" => \A i \in 1..Len(wordBuf) : wordBuf[i].run = run
    /\ \A i \in 1..Len(Fragments) : \A v, w \in ToSet(Fragments[i].words) : v.run = w.run

(* What CreateFragment has to stamp on fragment k of a first run: the last  *)
(* timed TS word before it or else the first one in it.                     *)
StampOf(frags, k) ==
  LET earlier == Among(WordsOf(SubSeq(frags, 1, k - 1)), TimedWords)
      own == Among(frags[k].words, TimedWords)
  IN IF earlier # <<>> THEN TimeOf(Last(earlier))
     ELSE IF own # <<>> THEN TimeOf(Head(own)) ELSE NoTime

(* The timestamp of a fragment, by which the event builder matches it, is   *)
(* the one its position in the word stream calls for.                       *)
StampsFollowStream ==
  run = 1 => \A k \in 1..Len(Fragments) :
    Fragments[k].words # <<>> => Fragments[k].stamp = StampOf(Fragments, k)

(* Words and stamps: what artdaq is given of a run is the board's stream, cut *)
(* into fragments whose timestamps are those of their place in it.            *)
StreamDelivered == NoWordLost /\ StampsFollowStream

(* Over all runs each HLT word the generator popped is counted exactly once *)
(* by the two levels of counters: in the report of one run, or in the       *)
(* period that is still open. A start does not empty the open period, so    *)
(* the words of the last, unfinished period of a run are missing from its   *)
(* own report and are counted in that of the run after it.                  *)
HLTAccounting == reported + metric.total + metric.hlt = hltSeen

(* The queues and counters are not all emptied at a start, and what a run   *)
(* leaves in them does reach the next one: in fragments of their own, and   *)
(* in a report that no other run's report repeats.                          *)
LeftoversKeptApart == RunsNotMixed /\ HLTAccounting

(* The reader delivers the board's words in order: it implements            *)
(* OrderedDelivery, as long as it is started once.                          *)
Ordered == INSTANCE OrderedDelivery
             WITH Record <- Word, accepted <- rcvd, delivered <- WordsOf(delivered)
ImplementsOrderedDelivery == Ordered!Spec

(* stop() returns if, when it begins, the board is running and the fragment *)
(* buffer has room: room for one fragment is enough, because the generator  *)
(* makes at most one more.                                                  *)
StopReturnsWithRoom ==
  cpc = "sendStop" /\ ctrlRunning /\ Len(fragBuf) < FragCap ~> cpc = "stopped"

(* The order of the steps of stop() is to make sure that it returns.        *)
StopReturns == cpc = "sendStop" /\ ctrlRunning ~> cpc = "stopped"
=============================================================================
