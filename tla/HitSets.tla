------------------------------- MODULE HitSets -------------------------------
(***************************************************************************)
(* The sets of primitives that the finders of a FELIX reader send to the   *)
(* software trigger, one finder and one processing thread to a link. A set *)
(* gathers the hits of so many messages, which are counted in a static     *)
(* variable of addHitsToQueue(): all finders of the process share it, each *)
(* under a mutex of its own.                                               *)
(***************************************************************************)
EXTENDS Naturals, Sequences, FiniteSets

CONSTANTS
  Finders,     \* finders of the process
  MsgsPerSet,  \* m_msgs_per_tpset
  HitsInMsg,   \* numbers of hits a message may have
  MaxSetMsgs   \* messages of a link, with time stamps 1, 2... (bound)

ASSUME HitSetsAssumption ==
  MsgsPerSet \in Nat \ {0} /\ HitsInMsg \subseteq Nat /\ MaxSetMsgs \in Nat

VARIABLES
  msgsInSet,   \* msgs_in_tpset
  current,     \* m_current_tpset: its start, 0 as long as there is none, and its hits
  apc,         \* place in addHitsToQueue(): "waiting" for a message, "counting", "storing",
               \* "comparing", "sending"
  loaded,      \* the counter as it was loaded to be incremented
  counts,      \* history: hits of the link's messages so far
  sets         \* history: the sets sent

setVars == <<msgsInSet, current, apc, loaded, counts, sets>>

EmptySet == [start |-> 0, hits |-> {}]

SetsInit ==
  /\ msgsInSet = 0 /\ current = [f \in Finders |-> EmptySet] /\ apc = [f \in Finders |-> "waiting"]
  /\ loaded = [f \in Finders |-> 0]
  /\ counts = [f \in Finders |-> <<>>] /\ sets = [f \in Finders |-> {}]

HitsOfMsg(t, n) == {<<t, k>> : k \in 1..n}

\* the first message gives the set its start
FillSet(f, n) ==
  LET t == Len(counts[f]) + 1 IN
  /\ apc[f] = "waiting" /\ t <= MaxSetMsgs
  /\ current' = [current EXCEPT ![f] = [start |-> IF msgsInSet = 0 THEN t ELSE @.start,
                                        hits |-> @.hits \cup HitsOfMsg(t, n)]]
  /\ counts' = [counts EXCEPT ![f] = Append(@, n)]
  /\ apc' = [apc EXCEPT ![f] = "counting"]
  /\ UNCHANGED <<msgsInSet, loaded, sets>>

\* ++msgs_in_tpset is no atomic operation
LoadCount(f) ==
  /\ apc[f] = "counting" /\ apc' = [apc EXCEPT ![f] = "storing"]
  /\ loaded' = [loaded EXCEPT ![f] = msgsInSet]
  /\ UNCHANGED <<msgsInSet, current, counts, sets>>

StoreCount(f) ==
  /\ apc[f] = "storing" /\ apc' = [apc EXCEPT ![f] = "comparing"]
  /\ msgsInSet' = loaded[f] + 1
  /\ UNCHANGED <<current, loaded, counts, sets>>

OneMore(n) == n > MsgsPerSet                   \* variant: a message too late
IsComplete(n) == n = MsgsPerSet

\* the build compares what it has stored, or reads the variable again
Compare(f) ==
  /\ apc[f] = "comparing"
  /\ \E n \in {loaded[f] + 1, msgsInSet} :
       apc' = [apc EXCEPT ![f] = IF IsComplete(n) THEN "sending" ELSE "waiting"]
  /\ UNCHANGED <<msgsInSet, current, loaded, counts, sets>>

\* the set spans the time from its start to the end of the message; an empty one is not sent
SendSet(f) ==
  LET s == current[f] IN
  /\ apc[f] = "sending" /\ apc' = [apc EXCEPT ![f] = "waiting"]
  /\ sets' = [sets EXCEPT ![f] = IF s.hits = {} THEN @ ELSE
                @ \cup {[start |-> s.start, span |-> Len(counts[f]) + 1 - s.start,
                         hits |-> s.hits]}]
  /\ msgsInSet' = 0 /\ current' = [current EXCEPT ![f] = EmptySet]
  /\ UNCHANGED <<loaded, counts>>

SetsNext ==
  \E f \in Finders : \/ \E n \in HitsInMsg : FillSet(f, n)
                     \/ LoadCount(f) \/ StoreCount(f) \/ Compare(f) \/ SendSet(f)

SetsSpec == SetsInit /\ [][SetsNext]_setVars
-----------------------------------------------------------------------------
(* Properties. *)

(* Every variable has its type. *)
SetsTypeOK ==
  /\ msgsInSet \in Nat /\ loaded \in [Finders -> Nat]
  /\ apc \in [Finders -> {"waiting", "counting", "storing", "comparing", "sending"}]
  /\ \A f \in Finders : counts[f] \in Seq(HitsInMsg) /\ current[f].start \in 0..MaxSetMsgs

\* the set of the k-th group of messages of a link
SetOf(f, k) ==
  LET first == (k - 1) * MsgsPerSet + 1 IN
  [start |-> first, span |-> MsgsPerSet,
   hits |-> UNION {HitsOfMsg(t, counts[f][t]) : t \in first..(first + MsgsPerSet - 1)}]

(* "Send out the TPSet every m_msgs_per_tpset messages", says the code where *)
(* it does: the sets of a link are those of each group of so many of its     *)
(* messages, with the hits and the time of these, but for empty ones. One    *)
(* finder keeps to it.                                                       *)
SetsWhole ==
  \A f \in Finders :
    apc[f] = "waiting" =>
      sets[f] = {s \in {SetOf(f, k) : k \in 1..(Len(counts[f]) \div MsgsPerSet)} : s.hits # {}}
=============================================================================
