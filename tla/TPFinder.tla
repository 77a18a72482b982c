------------------------------ MODULE TPFinder ------------------------------
(***************************************************************************)
(* The trigger primitive finder of one link of the FELIX reader. The       *)
(* subscriber adds the link's messages to a queue, the processing thread   *)
(* finds the hits in them, keeps the newest and sends them on, and a       *)
(* trigger matcher asks for the hits of a window. The owner stops the      *)
(* finder, then ends the subscriber, then destroys the finder.             *)
(***************************************************************************)
EXTENDS Integers, Sequences, FiniteSets, SequencesExt

CONSTANTS
  ItemRoom,     \* items the queue holds: item_queue_size - 1
  MaxHits,      \* hits that are kept: 20000
  HitCounts,    \* numbers of hits a message may have
  EndMessages,  \* ends of messages that the destructor writes: 5
  AnyStamp,      \* what an uninitialized time stamp may be
  MaxMessages   \* messages of the link, in the order of their time stamps 1, 2... (bound)

END_OF_MESSAGES == MaxMessages + 1             \* no message's time stamp

ASSUME TPFinderAssumption ==
  /\ ItemRoom \in Nat \ {0} /\ MaxHits \in Nat \ {0} /\ HitCounts \subseteq Nat
  /\ EndMessages \in Nat /\ AnyStamp \subseteq Nat /\ MaxMessages \in Nat

VARIABLES
  isReady,        \* m_readyForMessages
  m_should_stop,  \* as in the code
  sender,       \* m_TPSender is there
  items,        \* m_itemsToProcess: [ts, hits]
  primitives,   \* m_triggerPrimitives: hits <<ts, number>>
  latest,       \* m_latestProcessedTimestamp
  ppc,          \* processing thread: "starting", "waiting", "found", "none" (no item,
                \* but the stop was seen), "message", "sending", "queued", "stored",
                \* "ended", "dead" (the process)
  mpc,          \* metrics thread: "loop", "ended"
  qpc,          \* trigger matcher: "idle", "waiting", "ready", "answered", "timedOut"
  window,       \* the window asked for: <<start, end>>
  answer,       \* the hits of the answer
  dpc,          \* owner: "using", "stopping", "stopped", "subscriberEnded", "ending",
                \* "joinProcessing", "joinMetrics", "gone"
  ends,         \* ends of messages written
  tries,        \* and tried
  next,         \* history: time stamp of the subscriber's next message
  searched,     \* history: the hits of the messages accepted
  found,        \* history: all hits found, in order
  begun,        \* history: latest has been set
  measured      \* history: it had been when the matcher found that the processing has caught up

finder == <<isReady, sender, items, primitives, latest, found, begun>>
query == <<qpc, window, answer, measured>>
owner == <<dpc, ends, tries>>
input == <<next, searched>>
tpVars == <<isReady, m_should_stop, sender, items, primitives, latest, ppc, mpc, qpc, window,
            answer, dpc, ends, tries, next, searched, found, begun, measured>>

TpInit ==
  /\ isReady = FALSE /\ m_should_stop = FALSE /\ sender = TRUE /\ items = <<>> /\ primitives = <<>>
  /\ latest \in AnyStamp /\ ppc = "starting" /\ mpc = "loop"
  /\ qpc = "idle" /\ window = <<0, 0>> /\ answer = {} /\ dpc = "using" /\ ends = 0 /\ tries = 0
  /\ next = 1 /\ searched = {} /\ found = <<>> /\ begun = FALSE /\ measured = FALSE

HitsOf(m) == [k \in 1..m.hits |-> <<m.ts, k>>]
-----------------------------------------------------------------------------
(* The subscriber: addMessage(). A message that comes before the finder is *)
(* ready, or when the queue is full, is not looked at for hits.            *)

AddMessage(n) ==
  LET m == [ts |-> next, hits |-> n]
      written == isReady /\ Len(items) < ItemRoom IN
  /\ dpc \in {"using", "stopping", "stopped"} /\ next <= MaxMessages
  /\ next' = next + 1
  /\ items' = IF written THEN Append(items, m) ELSE items
  /\ searched' = IF written THEN searched \cup {HitsOf(m)[k] : k \in 1..n} ELSE searched
  /\ UNCHANGED <<begun, isReady, m_should_stop, sender, primitives, latest, ppc, mpc,
                 query, owner, found>>
-----------------------------------------------------------------------------
(* The processing thread. *)

Ready ==
  /\ ppc = "starting" /\ isReady' = TRUE /\ ppc' = "waiting"
  /\ UNCHANGED <<m_should_stop, sender, items, primitives, latest, begun, mpc, query, owner, input,
                 found>>

Look ==
  /\ ppc = "waiting"
  /\ \/ items # <<>> /\ ppc' = "found"
     \/ items = <<>> /\ m_should_stop /\ ppc' = "none"
  /\ UNCHANGED <<finder, m_should_stop, mpc, query, owner, input>>

\* The flag is read again. It may have been taken back, and then there is no item.
SeeStop ==
  /\ \/ ppc \in {"found", "none"} /\ m_should_stop /\ ppc' = "ended"
     \/ ppc = "none" /\ ~m_should_stop /\ ppc' = "dead"
  /\ UNCHANGED <<finder, m_should_stop, mpc, query, owner, input>>

NoEnd(m) == FALSE                              \* variant: an end is a message like others
IsEnd(m) == m.ts = END_OF_MESSAGES

SeeMessage ==
  /\ ppc = "found" /\ ~m_should_stop /\ ~IsEnd(Head(items)) /\ ppc' = "message"
  /\ UNCHANGED <<finder, m_should_stop, mpc, query, owner, input>>

SeeEnd ==
  /\ ppc = "found" /\ ~m_should_stop /\ IsEnd(Head(items))
  /\ items' = Tail(items) /\ ppc' = "ended"
  /\ UNCHANGED <<begun, isReady, m_should_stop, sender, primitives, latest, mpc, query,
                 owner, input, found>>

\* the newest hits are kept
Newest(hits) == SubSeq(hits, Len(hits) - MaxHits + 1, Len(hits))
Kept(hits) == IF Len(hits) > MaxHits THEN Newest(hits) ELSE hits

\* addHitsToQueue(), under the mutex. Now and then a set of hits is complete and is
\* sent, if there is a sender still.
AddHits ==
  /\ ppc = "message"
  /\ primitives' = Kept(primitives \o HitsOf(Head(items)))
  /\ found' = found \o HitsOf(Head(items))
  /\ (ppc' = "queued" \/ (sender /\ ppc' = "sending"))
  /\ UNCHANGED <<begun, isReady, m_should_stop, sender, items, latest, mpc, query, owner, input>>

\* the sender may be destroyed while it is used
Send ==
  /\ ppc = "sending" /\ ppc' \in IF sender THEN {"queued"} ELSE {"queued", "dead"}
  /\ UNCHANGED <<finder, m_should_stop, mpc, query, owner, input>>

StoreLatest ==
  /\ ppc = "queued" /\ latest' = Head(items).ts /\ begun' = TRUE /\ ppc' = "stored"
  /\ UNCHANGED <<isReady, m_should_stop, sender, items, primitives, mpc, query, owner,
                 input, found>>

PopItem ==
  /\ ppc = "stored" /\ items' = Tail(items) /\ ppc' = "waiting"
  /\ UNCHANGED <<begun, isReady, m_should_stop, sender, primitives, latest, mpc, query,
                 owner, input, found>>

Process ==
  \/ Ready \/ Look \/ SeeStop \/ SeeMessage \/ SeeEnd
  \/ AddHits \/ Send \/ StoreLatest \/ PopItem

\* the metrics thread looks at the flag once in a second
MetricsSee ==
  /\ mpc = "loop" /\ m_should_stop /\ mpc' = "ended"
  /\ UNCHANGED <<finder, m_should_stop, ppc, query, owner, input>>
-----------------------------------------------------------------------------
(* The trigger matcher: getHitsForWindow(), which waits 1.5 s at most.     *)

Ask(w) ==
  /\ qpc = "idle" /\ dpc = "using" /\ qpc' = "waiting" /\ window' = w
  /\ UNCHANGED <<finder, m_should_stop, ppc, mpc, answer, measured, owner, input>>

\* the processing has come as far as the window's end
StartReached == latest >= window[1]            \* variant: as far as its start
EndReached == latest >= window[2]

CaughtUp ==
  /\ qpc = "waiting" /\ EndReached /\ qpc' = "ready" /\ measured' = begun
  /\ UNCHANGED <<finder, m_should_stop, ppc, mpc, window, answer, owner, input>>

Inside(hit, w) == w[1] < hit[1] /\ hit[1] < w[2]

\* the mutex is free while the processing thread sends nothing
Answer ==
  /\ qpc = "ready" /\ ppc # "sending" /\ qpc' = "answered"
  /\ answer' = {h \in ToSet(primitives) : Inside(h, window)}
  /\ UNCHANGED <<finder, m_should_stop, ppc, mpc, window, measured, owner, input>>

TimeOut ==
  /\ qpc = "waiting" /\ ~EndReached /\ qpc' = "timedOut" /\ answer' = {}
  /\ UNCHANGED <<finder, m_should_stop, ppc, mpc, window, measured, owner, input>>

Take ==
  /\ qpc \in {"answered", "timedOut"} /\ qpc' = "idle" /\ answer' = {} /\ window' = <<0, 0>>
  /\ measured' = FALSE
  /\ UNCHANGED <<finder, m_should_stop, ppc, mpc, owner, input>>
-----------------------------------------------------------------------------
(* The owner: stop(), the end of the subscriber, and the destructor. No    *)
(* trigger is matched any more when the finder is stopped.                 *)

Stop ==
  /\ dpc = "using" /\ qpc = "idle" /\ dpc' = "stopping" /\ m_should_stop' = TRUE
  /\ UNCHANGED <<finder, ppc, mpc, query, ends, tries, input>>

ResetSender ==
  /\ dpc = "stopping" /\ dpc' = "stopped" /\ sender' = FALSE
  /\ UNCHANGED <<begun, isReady, items, primitives, latest, found, m_should_stop, ppc, mpc,
                 query, ends,
                 tries, input>>

SubscriberJoined ==
  /\ dpc = "stopped" /\ dpc' = "subscriberEnded"
  /\ UNCHANGED <<finder, m_should_stop, ppc, mpc, query, ends, tries, input>>

\* the destructor takes the request to stop back; the thread has long made its queue
DestroyFinder ==
  /\ dpc = "subscriberEnded" /\ ppc # "starting" /\ dpc' = "ending" /\ m_should_stop' = FALSE
  /\ UNCHANGED <<finder, ppc, mpc, query, ends, tries, input>>

\* a full queue refuses an end
WriteEnd ==
  /\ dpc = "ending" /\ tries < EndMessages /\ tries' = tries + 1
  /\ IF Len(items) < ItemRoom
       THEN items' = Append(items, [ts |-> END_OF_MESSAGES, hits |-> 0]) /\ ends' = ends + 1
       ELSE UNCHANGED <<items, ends>>
  /\ UNCHANGED <<begun, isReady, sender, primitives, latest, found, m_should_stop, ppc,
                 mpc, query, dpc, input>>

EndsWritten ==
  /\ dpc = "ending" /\ tries = EndMessages /\ dpc' = "joinProcessing"
  /\ UNCHANGED <<finder, m_should_stop, ppc, mpc, query, ends, tries, input>>

ProcessingJoined ==
  /\ dpc = "joinProcessing" /\ ppc = "ended" /\ dpc' = "joinMetrics"
  /\ UNCHANGED <<finder, m_should_stop, ppc, mpc, query, ends, tries, input>>

MetricsJoined ==
  /\ dpc = "joinMetrics" /\ mpc = "ended" /\ dpc' = "gone"
  /\ UNCHANGED <<finder, m_should_stop, ppc, mpc, query, ends, tries, input>>

Destruction == ppc # "dead" /\ (WriteEnd \/ EndsWritten \/ ProcessingJoined \/ MetricsJoined)
-----------------------------------------------------------------------------
Windows == {w \in (0..MaxMessages) \X (0..MaxMessages) : w[1] < w[2]}

TpNext ==
  /\ ppc # "dead"
  /\ \/ Process \/ MetricsSee \/ (\E n \in HitCounts : AddMessage(n))
     \/ (\E w \in Windows : Ask(w)) \/ CaughtUp \/ Answer \/ TimeOut \/ Take
     \/ Stop \/ ResetSender \/ SubscriberJoined \/ DestroyFinder \/ Destruction

\* The processing thread polls or runs, and the destructor runs, whatever the others do. No
\* fairness is due to the metrics thread: it sleeps a second between its looks at the flag,
\* which may be taken back before.
TpFairness == WF_tpVars(Process) /\ WF_tpVars(Destruction)

TpSpec == TpInit /\ [][TpNext]_tpVars /\ TpFairness
-----------------------------------------------------------------------------
(* Properties. *)

Hit == (1..MaxMessages) \X Nat
Item == [ts : 1..END_OF_MESSAGES, hits : Nat]

(* Every variable has a value the code can give it. *)
TpTypeOK ==
  /\ isReady \in BOOLEAN /\ m_should_stop \in BOOLEAN /\ sender \in BOOLEAN
  /\ items \in Seq(Item) /\ Len(items) <= ItemRoom
  /\ primitives \in Seq(Hit) /\ Len(primitives) <= MaxHits
  /\ latest \in AnyStamp \cup (1..MaxMessages)
  /\ ppc \in {"starting", "waiting", "found", "none", "message", "sending", "queued", "stored",
              "ended", "dead"}
  /\ mpc \in {"loop", "ended"} /\ qpc \in {"idle", "waiting", "ready", "answered", "timedOut"}
  /\ window \in Windows \cup {<<0, 0>>} /\ answer \subseteq Hit
  /\ dpc \in {"using", "stopping", "stopped", "subscriberEnded", "ending", "joinProcessing",
              "joinMetrics", "gone"}
  /\ ends \in 0..EndMessages /\ tries \in 0..EndMessages
  /\ next \in 1..(MaxMessages + 1) /\ searched \subseteq Hit /\ found \in Seq(Hit)
  /\ begun \in BOOLEAN /\ measured \in BOOLEAN

\* as many hits were found after it as are kept
Pushed(h) == \E i \in DOMAIN found : found[i] = h /\ Len(found) - i >= MaxHits

(* An answer in time, to a matcher that looked after the first message was *)
(* processed, holds hits of the window only, and all those of the messages *)
(* accepted in it, but for the ones that MaxHits newer hits have pushed    *)
(* out.                                                                    *)
HitsComplete ==
  qpc = "answered" /\ measured =>
    /\ \A h \in answer : h \in searched /\ Inside(h, window)
    /\ \A h \in searched : Inside(h, window) => h \in answer \/ Pushed(h)

(* The destructor ends, or the process dies in it of the flag taken back   *)
(* between two looks of the processing thread, once the metrics thread has *)
(* seen the stop and the processing thread has ended or has an end of      *)
(* messages before it.                                                     *)
FinderEnds ==
  [](dpc = "joinProcessing" /\ mpc = "ended" /\ (ppc = "ended" \/ ends > 0)
       => <>(dpc = "gone" \/ ppc = "dead"))
=============================================================================
