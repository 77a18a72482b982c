------------------------------ MODULE CRTClock ------------------------------
(***************************************************************************)
(* The timestamps of the cosmic ray tagger reader. The hardware counts     *)
(* ticks since the last sync in a counter that rolls over every 86 s; the  *)
(* reader adds the time of the sync and the rollovers it infers from the   *)
(* clock of the computer and from the times that come.                     *)
(***************************************************************************)
EXTENDS Integers

CONSTANTS
  Second,             \* ticks of a second: 50 million
  Roll,               \* ticks of a rollover: 2^32, which is 85.9 s
  RollSeconds,        \* the same in seconds, rounded up: 86
  alarmDeltaT,        \* seconds a timestamp may be off the clock: 1
  rolloverThreshold,  \* ticks by which hits may be out of order: 1000
  MaxLag,             \* ticks from a hit to its fragment, and by which hits are out of order (bound)
  FirstTick, LastTick \* time when the reader is made, and when all ends (bound)

ASSUME ClockAssumption ==
  /\ {Second, Roll, RollSeconds, LastTick} \subseteq Nat \ {0}
  /\ {alarmDeltaT, rolloverThreshold, MaxLag, FirstTick} \subseteq Nat
  /\ Roll > 2 * (alarmDeltaT + 1) * Second + MaxLag

VARIABLES
  now,            \* ticks of the computer's clock
  sync,           \* the last sync of the hardware (external)
  running, gotRunStartTime, runstarttime, uppertime, oldlowertime, oldUNIX,
  counting,       \* history: the rollovers have been counted since the start of the run was got
  last            \* history: the last fragment of the run: [hit, stamp, believed], or none

clockReader == <<running, gotRunStartTime, runstarttime, uppertime, oldlowertime, oldUNIX>>
clockVars == <<now, sync, running, gotRunStartTime, runstarttime, uppertime, oldlowertime,
               oldUNIX, counting, last>>

Unix(t) == t \div Second
Distance(a, b) == IF a < b THEN b - a ELSE a - b

\* seconds between a time in ticks and the clock, rounded after the subtraction
SecondsOff(t) == Distance(t, Unix(now) * Second) \div Second

ClockInit ==
  /\ now = FirstTick /\ sync = FirstTick /\ running = FALSE /\ gotRunStartTime = FALSE
  /\ runstarttime = 0 /\ uppertime = 0 /\ oldlowertime = 0 /\ oldUNIX = 0
  /\ counting = FALSE /\ last = {}
-----------------------------------------------------------------------------
\* a run begins, with a sync of the hardware or without; what was got before is not got again
StartClock(synced) ==
  /\ ~running /\ running' = TRUE /\ uppertime' = 0 /\ oldlowertime' = 0
  /\ sync' = IF synced THEN now ELSE sync
  /\ counting' = FALSE /\ last' = {}
  /\ UNCHANGED <<now, gotRunStartTime, runstarttime, oldUNIX>>

StopClock ==
  /\ running /\ running' = FALSE
  /\ UNCHANGED <<now, sync, gotRunStartTime, runstarttime, uppertime, oldlowertime, oldUNIX,
                 counting, last>>

\* getNext_() asks the timing endpoint for the start of the run until it makes sense
GetRunStartTime ==
  /\ running /\ ~gotRunStartTime /\ runstarttime' = sync
  /\ LET deltaT == SecondsOff(sync) IN
       IF deltaT > alarmDeltaT THEN UNCHANGED <<gotRunStartTime, uppertime, oldUNIX, counting>>
       ELSE /\ gotRunStartTime' = TRUE /\ oldUNIX' = Unix(now) /\ counting' = TRUE
            /\ uppertime' = (deltaT * Second) \div Roll
  /\ UNCHANGED <<now, sync, running, oldlowertime, last>>

\* the rollovers since the time before: from the clock, or else from the counter
NewUpper(lowertime) ==
  IF Unix(now) > oldUNIX THEN uppertime + ((Unix(now) - oldUNIX) * Second) \div Roll
  ELSE IF lowertime + rolloverThreshold < oldlowertime THEN uppertime + 1
  ELSE uppertime

Stamp(upper, lowertime) == upper * Roll + lowertime + runstarttime
OffBy(stamp) == Unix(stamp) - Unix(now)

AlwaysBelieved(stamp) == TRUE                  \* variant: without the sanity check
\* here the seconds are rounded before the subtraction
Believed(stamp) == Distance(Unix(stamp), Unix(now)) <= alarmDeltaT

\* one rollover too few or too many is made good when the difference is exactly so many seconds
Repaired(upper, lowertime) ==
  CASE OffBy(Stamp(upper, lowertime)) = -RollSeconds -> upper + 1
    [] OffBy(Stamp(upper, lowertime)) = RollSeconds -> upper - 1
    [] OTHER -> upper

\* what is not believed is sent all the same
BuildFragment(hit) ==
  /\ running /\ gotRunStartTime
  /\ LET lowertime == (hit - sync) % Roll
         first == NewUpper(lowertime)
         upper == IF Believed(Stamp(first, lowertime)) THEN first ELSE Repaired(first, lowertime)
         stamp == Stamp(upper, lowertime)
         believed == IF upper = first THEN Believed(stamp) ELSE SecondsOff(stamp) <= alarmDeltaT
     IN /\ last' = {[hit |-> hit, stamp |-> stamp, believed |-> believed]}
        /\ IF believed
             THEN uppertime' = upper /\ oldUNIX' = Unix(now) /\ oldlowertime' = lowertime
             ELSE UNCHANGED <<uppertime, oldUNIX, oldlowertime>>
  /\ UNCHANGED <<now, sync, running, gotRunStartTime, runstarttime, counting>>

TickClock == /\ now < LastTick /\ now' = now + 1
             /\ UNCHANGED <<sync, clockReader, counting, last>>

HitsFromNow == {h \in now - MaxLag..now : h >= sync}

ClockNext ==
  \/ TickClock \/ (\E synced \in BOOLEAN : StartClock(synced)) \/ StopClock \/ GetRunStartTime
  \/ \E hit \in HitsFromNow : BuildFragment(hit)

ClockSpec == ClockInit /\ [][ClockNext]_clockVars
-----------------------------------------------------------------------------
(* Properties. *)

(* Every variable has a value the code can give it. *)
ClockTypeOK ==
  /\ {now, sync, runstarttime, oldUNIX} \subseteq Nat /\ {running, gotRunStartTime, counting} \subseteq BOOLEAN
  /\ uppertime \in Int /\ oldlowertime \in 0..Roll - 1
  /\ last \subseteq [hit : Nat, stamp : Int, believed : BOOLEAN]

(* As long as the hardware has not been synchronised again since the       *)
(* reader asked for the start of the run, a timestamp that buildFragment() *)
(* believes, on which it builds the next, is the time of the hit to the    *)
(* tick: rollovers missed, counted twice or inferred from hits out of      *)
(* order are repaired, or not believed. And until uppertime is set back by *)
(* another start(), no pause of the data, however long, leaves a timestamp *)
(* more than two rollovers behind or one ahead.                            *)
StampsInSync ==
  runstarttime = sync => \A f \in last :
    /\ f.believed => f.stamp = f.hit
    /\ counting => f.stamp - f.hit \in {-2 * Roll, -Roll, 0, Roll}
=============================================================================
