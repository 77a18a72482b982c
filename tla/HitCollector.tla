---------------------------- MODULE HitCollector ----------------------------
(***************************************************************************)
(* The reader that collects hits from PTMP: getNext_() waits for so many   *)
(* sets with hits, gives up when it waited too often in a row, and then    *)
(* makes one fragment of each hit and one set of them all, which it sends  *)
(* on. In its dummy mode it makes the hits up. Its own stop flag is set by *)
(* stop() and by nothing reset.                                            *)
(***************************************************************************)
EXTENDS Integers, Sequences, SequencesExt

CONSTANTS
  Aggregation,     \* aggregation_
  NTimesRetry,     \* ntimes_retry_
  MaxHitsPerSet,   \* (bound)
  MaxHits,         \* hits that come (bound)
  MaxCalls         \* calls of getNext_ (bound)

ASSUME CollectorAssumption ==
  NTimesRetry > 0 /\ {Aggregation, NTimesRetry, MaxHitsPerSet, MaxHits, MaxCalls} \subseteq Nat

VARIABLES
  dummyMode,
  mustStop,
  shouldStopHits,  \* should_stop()
  collecting,      \* getNext_ is in its loop
  hitSets,         \* the sets received in this call
  times,           \* time-outs in a row
  hitsReceived,    \* nTPHit_received_; hits are numbered as they come
  setsSent,        \* the sets of hits sent on
  frags,           \* the fragments, with their sequence ids
  evCounter,
  calls            \* calls of getNext_

collectorVars == <<dummyMode, mustStop, shouldStopHits, collecting, hitSets, times, hitsReceived,
                   setsSent, frags, evCounter, calls>>
outputs == <<setsSent, frags, evCounter>>

CollectorInit ==
  /\ dummyMode \in BOOLEAN /\ mustStop = FALSE /\ shouldStopHits = TRUE
  /\ collecting = FALSE /\ hitSets = <<>> /\ times = 0 /\ hitsReceived = 0
  /\ setsSent = <<>> /\ frags = <<>> /\ evCounter = 1 /\ calls = 0
-----------------------------------------------------------------------------
NReceived(sets) == Len(SelectSeq(sets, LAMBDA s : s # <<>>))

\* start() resets nothing the loop looks at; artdaq takes back its wish to stop
StartHits ==
  /\ shouldStopHits /\ ~collecting /\ shouldStopHits' = FALSE
  /\ UNCHANGED <<dummyMode, mustStop, collecting, hitSets, times, hitsReceived, outputs, calls>>

\* artdaq wants a stop while getNext_ runs, and calls stop() once it has returned
WantStop ==
  /\ ~shouldStopHits /\ shouldStopHits' = TRUE
  /\ UNCHANGED <<dummyMode, mustStop, collecting, hitSets, times, hitsReceived, outputs, calls>>

StopHits ==
  /\ shouldStopHits /\ ~collecting /\ calls > 0 /\ mustStop' = TRUE
  /\ UNCHANGED <<dummyMode, shouldStopHits, collecting, hitSets, times, hitsReceived, outputs,
                 calls>>

\* the hits of the sets, a fragment for each, with the number of the call
SendAll(sets) ==
  LET hits == FlattenSeq(sets) IN
  /\ frags' = frags \o [i \in 1..Len(hits) |-> [hit |-> hits[i], sequenceID |-> evCounter]]
  /\ setsSent' = IF hits # <<>> THEN Append(setsSent, hits) ELSE setsSent
  /\ evCounter' = evCounter + 1

Call ==
  /\ ~shouldStopHits /\ ~collecting /\ calls < MaxCalls /\ calls' = calls + 1
  /\ \/ ~dummyMode /\ collecting' = TRUE /\ UNCHANGED <<outputs, hitsReceived>>
     \/ /\ dummyMode /\ hitsReceived + 2 <= MaxHits /\ hitsReceived' = hitsReceived + 2
        /\ SendAll(<< <<hitsReceived + 1, hitsReceived + 2>> >>) /\ UNCHANGED collecting
  /\ UNCHANGED <<dummyMode, mustStop, shouldStopHits, hitSets, times>>

Looping ==
  collecting /\ NReceived(hitSets) < Aggregation /\ ~mustStop /\ times < NTimesRetry

\* a set, which may have no hit in it
ReceiveSet ==
  /\ Looping /\ Len(hitSets) < MaxHits
  /\ \E n \in 0..MaxHitsPerSet :
       /\ hitsReceived + n <= MaxHits /\ hitsReceived' = hitsReceived + n
       /\ hitSets' = Append(hitSets, [i \in 1..n |-> hitsReceived + i])
  /\ times' = 0
  /\ UNCHANGED <<dummyMode, mustStop, shouldStopHits, collecting, outputs, calls>>

TimedOut ==
  /\ Looping /\ times' = times + 1
  /\ UNCHANGED <<dummyMode, mustStop, shouldStopHits, collecting, hitSets, hitsReceived, outputs,
                 calls>>

\* variant: what was received so far is given up with the waiting
WhenComplete(sets) == NReceived(sets) < Aggregation
NothingReceived(sets) == NReceived(sets) = 0

\* the loop is over: without a hit getNext_ returns with nothing
Return ==
  /\ collecting /\ ~Looping
  /\ IF NothingReceived(hitSets) THEN UNCHANGED outputs ELSE SendAll(hitSets)
  /\ collecting' = FALSE /\ hitSets' = <<>> /\ times' = 0
  /\ UNCHANGED <<dummyMode, mustStop, shouldStopHits, hitsReceived, calls>>

CollectorNext ==
  StartHits \/ WantStop \/ StopHits \/ Call \/ ReceiveSet \/ TimedOut \/ Return

CollectorSpec == CollectorInit /\ [][CollectorNext]_collectorVars
-----------------------------------------------------------------------------
(* Properties. *)

(* However often the reader waits in vain, is stopped or started, the hits   *)
(* in its fragments and in the sets it has sent are the hits it received, in *)
(* their order and once each, but for those in hand; and the hits that were  *)
(* sent in one set, and no others, share a sequence id.                      *)
HitsPassedOn ==
  /\ [i \in 1..Len(frags) |-> frags[i].hit] \o FlattenSeq(hitSets)
       = [i \in 1..hitsReceived |-> i]
  /\ FlattenSeq(setsSent) = [i \in 1..Len(frags) |-> frags[i].hit]
  /\ \A i, j \in 1..Len(frags) :
       frags[i].sequenceID = frags[j].sequenceID
         <=> \E n \in 1..Len(setsSent) : {frags[i].hit, frags[j].hit} \subseteq
                                         {setsSent[n][k] : k \in 1..Len(setsSent[n])}
=============================================================================
