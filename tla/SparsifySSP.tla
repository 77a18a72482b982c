---------------------------- MODULE SparsifySSP -----------------------------
(***************************************************************************)
(* The module that thins out SSP data: it gathers the triggers of an event *)
(* by time, drops those of a time at which too few SSPs saw something, and *)
(* writes what is left as one fragment for each that was read, with or     *)
(* without the waveforms. The event it makes the fragments of is read      *)
(* fragment by fragment; each has the number of its SSP and triggers that  *)
(* name one themselves.                                                    *)
(***************************************************************************)
EXTENDS Integers, Sequences, FiniteSets, SequencesExt, FiniteSetsExt

CONSTANTS
  KeepsWaveforms, \* which of keep_all_waveforms ("all"), ..._on_penntrig ("penn"), ..._on_rcedata
  SearchWindow,  \* radio_search_window
  SSPThreshold,  \* radio_ssp_thresh
  SSPs,          \* numbers of SSPs, of those that have no fragment too
  LastTime,      \* times 0..LastTime (bound)
  MaxFragments,  \* fragments of an event (bound)
  MaxTriggers    \* triggers of a fragment (bound)

ASSUME SparsifyAssumption ==
  {SearchWindow, SSPThreshold, LastTime, MaxFragments, MaxTriggers} \subseteq Nat

VARIABLES
  removes,         \* remove_radiologicals
  doing,           \* get, remove, split, write, done or failed
  original,        \* the fragments read
  evtTriggers,     \* the triggers at each time, as fragment and place in it
  cursor,          \* times RemoveRadiologicals() has passed
  inWindow,        \* triggersByModule there: modules and times of this window
  lastTriggerTime,
  byFragment,      \* triggersByFragment
  output           \* the fragments put into the event

sparsifyVars == <<removes, doing, original, evtTriggers, cursor, inWindow,
                  lastTriggerTime, byFragment, output>>
search == <<cursor, inWindow, lastTriggerTime>>

Times == 0..LastTime
Trigger(id) == original[id.fragment].triggers[id.place]
Ids(list) == UNION {{[fragment |-> i, place |-> j] : j \in 1..Len(list[i].triggers)} :
                       i \in 1..Len(list)}

SparsifyInit ==
  /\ removes \in BOOLEAN
  /\ doing = "get" /\ original = <<>> /\ evtTriggers = [t \in Times |-> <<>>]
  /\ cursor = {} /\ inWindow = {} /\ lastTriggerTime = 0 /\ byFragment = <<>> /\ output = <<>>
-----------------------------------------------------------------------------
\* the triggers of a fragment as its metadata counts them, or all there is
GetTriggers ==
  /\ doing = "get" /\ Len(original) < MaxFragments
  /\ \E ssp \in SSPs : \E triggers \in BoundedSeq([ssp : SSPs, time : Times], MaxTriggers) :
       /\ original' = Append(original, [ssp |-> ssp, triggers |-> triggers])
       /\ evtTriggers' = [t \in Times |->
            evtTriggers[t] \o SelectSeq(
              [j \in 1..Len(triggers) |-> [fragment |-> Len(original) + 1, place |-> j]],
              LAMBDA id : triggers[id.place].time = t)]
  /\ UNCHANGED <<removes, doing, search, byFragment, output>>

AllRead ==
  /\ doing = "get" /\ doing' = IF removes THEN "remove" ELSE "split"
  /\ UNCHANGED <<removes, original, evtTriggers, search, byFragment, output>>

TooFew == Cardinality({s[1] : s \in inWindow}) < SSPThreshold
Cleared == [t \in Times |-> IF \E s \in inWindow : s[2] = t THEN <<>> ELSE evtTriggers[t]]
ModulesAt(t) == {<<Trigger(evtTriggers[t][i]).ssp, t>> : i \in 1..Len(evtTriggers[t])}

\* variant: the list is not cleared with the window
SameList(gap, t) == inWindow \cup ModulesAt(t)
NewList(gap, t) == (IF gap THEN {} ELSE inWindow) \cup ModulesAt(t)

Left == {t \in Times : evtTriggers[t] # <<>>} \ cursor

\* the next time; when it is too far from the last, which is not known at time zero, the
\* window that ended is looked at
NextTime ==
  /\ doing = "remove" /\ Left # {}
  /\ LET t == Min(Left)
         gap == lastTriggerTime # 0 /\ t - lastTriggerTime > SearchWindow
     IN  /\ evtTriggers' = IF gap /\ TooFew THEN Cleared ELSE evtTriggers
         /\ inWindow' = NewList(gap, t) /\ lastTriggerTime' = t /\ cursor' = cursor \cup {t}
  /\ UNCHANGED <<removes, doing, original, byFragment, output>>

LastWindow ==
  /\ doing = "remove" /\ Left = {} /\ doing' = "split"
  /\ evtTriggers' = IF TooFew THEN Cleared ELSE evtTriggers
  /\ UNCHANGED <<removes, original, search, byFragment, output>>

\* the fragment of an SSP is the last with its number
FragmentOf(ssp) == Max({i \in 1..Len(original) : original[i].ssp = ssp})

\* in the order of times; a trigger whose SSP has no fragment ends it with an exception
SplitTriggersByFragment ==
  /\ doing = "split"
  /\ LET ids == FlattenSeq([n \in 1 .. LastTime + 1 |-> evtTriggers[n - 1]])
         ofSSP(i) == SelectSeq(ids, LAMBDA id : FragmentOf(Trigger(id).ssp) = i)
     IN  IF \E id \in ToSet(ids) : \A i \in 1..Len(original) : original[i].ssp # Trigger(id).ssp
           THEN doing' = "failed" /\ UNCHANGED byFragment
           ELSE doing' = "write" /\ byFragment' = [i \in 1..Len(original) |-> ofSSP(i)]
  /\ UNCHANGED <<removes, original, evtTriggers, search, output>>

\* whole triggers if they are to be kept, or kept on what the other systems have; else
\* their headers
WriteMillislices ==
  /\ doing = "write" /\ doing' = "done"
  /\ \E pennTrigger, rceData \in BOOLEAN :
       LET whole == \/ "all" \in KeepsWaveforms
                    \/ "penn" \in KeepsWaveforms /\ pennTrigger
                    \/ "rce" \in KeepsWaveforms /\ rceData
       IN  output' = [i \in 1..Len(original) |->
                         [ssp |-> original[i].ssp, waveforms |-> whole,
                          triggers |-> byFragment[i]]]
  /\ UNCHANGED <<removes, original, evtTriggers, search, byFragment>>

SparsifyNext ==
  \/ GetTriggers \/ AllRead \/ NextTime \/ LastWindow \/ SplitTriggersByFragment
  \/ WriteMillislices

SparsifySpec == SparsifyInit /\ [][SparsifyNext]_sparsifyVars
-----------------------------------------------------------------------------
(* Properties. *)

TimesRead == {Trigger(id).time : id \in Ids(original)}

\* no gap longer than the window between them; what follows time zero is taken for near
Near(t, u) ==
  \A a, b \in {v \in TimesRead : (t <= v /\ v <= u) \/ (u <= v /\ v <= t)} :
    b - a > SearchWindow => a = 0 \/ \E c \in TimesRead : a < c /\ c < b
Sees(t) == {Trigger(id).ssp : id \in {k \in Ids(original) : Near(Trigger(k).time, t)}}
Kept == {id \in Ids(original) :
           removes => Cardinality(Sees(Trigger(id).time)) >= SSPThreshold}

(* Of all the triggers read, those are written, once each, in the order of   *)
(* time and in the last fragment of their SSP, at whose time, near without a *)
(* gap, enough SSPs saw something; nothing is written, and the job ends,     *)
(* only when one of them names an SSP of which no fragment was read.         *)
SparsifiedRight ==
  /\ doing = "done" =>
       /\ UNION {ToSet(output[i].triggers) : i \in 1..Len(output)} = Kept
       /\ \A i \in 1..Len(output) :
            /\ \A j, k \in 1..Len(output[i].triggers) :
                 j < k => LET a == output[i].triggers[j] b == output[i].triggers[k] IN
                          Trigger(a).time <= Trigger(b).time /\ a # b
            /\ \A id \in ToSet(output[i].triggers) :
                 /\ Trigger(id).ssp = output[i].ssp
                 /\ \A k \in i + 1 .. Len(output) : output[k].ssp # output[i].ssp
  /\ doing = "failed" => \E id \in Kept : \A i \in 1..Len(original) :
                           original[i].ssp # Trigger(id).ssp
=============================================================================
