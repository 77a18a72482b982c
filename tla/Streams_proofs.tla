--------------------------- MODULE Streams_proofs ---------------------------
(***************************************************************************)
(* Proofs about the readers of streams of words whose parts are told apart *)
(* by the reader, for every value of their constants: the timestamps of    *)
(* the cosmic ray tagger reader are right, or known to be wrong, the       *)
(* superchunks the reader of a FELIX card parses are whole, and the Penn   *)
(* board reader gives artdaq the stream of each run, cut into millislices, *)
(* in buffers that are each in one hand.                                   *)
(***************************************************************************)
EXTENDS CRTClock, CardReader, Penn, FiniteSetTheorems, SequenceTheorems, TLAPS
-----------------------------------------------------------------------------
(* The clock of the cosmic ray tagger: CRTClock.tla. Counted relates the   *)
(* count of rollovers to the last second seen: it lags by less than one    *)
(* rollover and a second, and is never ahead.                              *)

LEMMA Constants ==
  /\ Second \in Nat \ {0} /\ Roll \in Nat \ {0} /\ RollSeconds \in Nat \ {0} /\ LastTick \in Nat \ {0}
  /\ alarmDeltaT \in Nat /\ rolloverThreshold \in Nat /\ MaxLag \in Nat /\ FirstTick \in Nat
  /\ Roll > 2 * (alarmDeltaT + 1) * Second + MaxLag
BY ClockAssumption

LEMMA Division ==
  ASSUME NEW a \in Int, NEW b \in Nat \ {0}
  PROVE  /\ a \div b \in Int /\ (a \div b) * b <= a /\ a < (a \div b) * b + b
         /\ a % b \in 0..b - 1 /\ a = (a \div b) * b + (a % b)
<1>1. a \div b \in Int /\ a % b \in Int
  OBVIOUS
<1>2. a % b \in 0..b - 1
  BY <1>1
<1>3. a = (a \div b) * b + (a % b)
  BY <1>1
<1>. QED BY <1>1, <1>2, <1>3

LEMMA DivisionOfNat ==
  ASSUME NEW a \in Nat, NEW b \in Nat \ {0}
  PROVE  /\ a \div b \in Nat /\ (a \div b) * b \in Nat
         /\ (a \div b) * b <= a /\ a < (a \div b) * b + b
<1>1. a \div b \in Int /\ (a \div b) * b <= a /\ a < (a \div b) * b + b
  BY Division
<1>2. a \div b \in Nat
  OBVIOUS
<1>. QED BY <1>1, <1>2

LEMMA DivisionGrows ==
  ASSUME NEW a \in Int, NEW b \in Nat \ {0} PROVE a \div b <= (a + 1) \div b
OBVIOUS

\* multiples of a rollover that are less than one apart are the same
LEMMA OneMultiple ==
  ASSUME NEW d \in Int, NEW r \in Nat \ {0}, d * r < r, -r < d * r
  PROVE  d = 0
OBVIOUS

LEMMA FewMultiples ==
  ASSUME NEW d \in Int, NEW m \in Int, NEW r \in Nat \ {0}, d * r < m * r
  PROVE  d < m
OBVIOUS

LEMMA Products ==
  ASSUME NEW x \in Int, NEW y \in Int, NEW z \in Int
  PROVE  /\ (x + y) * z = x * z + y * z /\ (x - y) * z = x * z - y * z
         /\ x * z \in Int /\ (x * y) * z = x * (y * z)
OBVIOUS

LEMMA Monotone ==
  ASSUME NEW x \in Int, NEW y \in Int, NEW z \in Nat, x <= y
  PROVE  x * z <= y * z
OBVIOUS

LEMMA DistanceIs ==
  ASSUME NEW x \in Int, NEW y \in Int
  PROVE  /\ Distance(x, y) \in Nat /\ x - y <= Distance(x, y) /\ y - x <= Distance(x, y)
         /\ Distance(x, y) = x - y \/ Distance(x, y) = y - x
BY DEF Distance
-----------------------------------------------------------------------------
(* What buildFragment() does, in terms of the upper half it settles on.    *)

LEMMA Builds ==
  ASSUME ClockTypeOK, NEW hit \in HitsFromNow, BuildFragment(hit)
  PROVE  \E low \in 0..Roll - 1, first \in Int, upper \in Int, b \in BOOLEAN :
           /\ low = (hit - sync) % Roll /\ first = NewUpper(low)
           /\ \/ upper = first
              \/ upper = first + 1 /\ OffBy(Stamp(first, low)) = -RollSeconds
              \/ upper = first - 1 /\ OffBy(Stamp(first, low)) = RollSeconds
           /\ b => Believed(Stamp(upper, low)) \/ SecondsOff(Stamp(upper, low)) <= alarmDeltaT
           /\ last' = {[hit |-> hit, stamp |-> Stamp(upper, low), believed |-> b]}
           /\ \/ b /\ uppertime' = upper /\ oldUNIX' = Unix(now) /\ oldlowertime' = low
              \/ ~b /\ UNCHANGED <<uppertime, oldUNIX, oldlowertime>>
<1> DEFINE low == (hit - sync) % Roll
           first == NewUpper(low)
           upper == IF Believed(Stamp(first, low)) THEN first ELSE Repaired(first, low)
           b == IF upper = first THEN Believed(Stamp(upper, low))
                                 ELSE SecondsOff(Stamp(upper, low)) <= alarmDeltaT
<1>1. /\ now \in Nat /\ sync \in Nat /\ uppertime \in Int /\ oldUNIX \in Nat /\ hit \in Int
      /\ Second \in Nat \ {0} /\ Roll \in Nat \ {0} /\ RollSeconds \in Nat
  BY Constants DEF ClockTypeOK, HitsFromNow
<1>2. low \in 0..Roll - 1 /\ Unix(now) \in Int
  BY <1>1, Division DEF Unix
<1>3. first \in Int
  <2>1. (Unix(now) - oldUNIX) * Second \in Int
    BY <1>1, <1>2
  <2>2. ((Unix(now) - oldUNIX) * Second) \div Roll \in Int
    BY <2>1, <1>1, Division
  <2>. HIDE DEF low
  <2>. QED BY <1>1, <1>2, <2>2 DEF NewUpper
<1>4. /\ upper \in Int
      /\ \/ upper = first
         \/ upper = first + 1 /\ OffBy(Stamp(first, low)) = -RollSeconds
         \/ upper = first - 1 /\ OffBy(Stamp(first, low)) = RollSeconds
  <2>. HIDE DEF low, first
  <2>. QED BY <1>3 DEF Repaired
<1>5. b \in BOOLEAN /\ (b => Believed(Stamp(upper, low)) \/ SecondsOff(Stamp(upper, low)) <= alarmDeltaT)
  <2>. HIDE DEF low, first, upper
  <2>1. Believed(Stamp(upper, low)) \in BOOLEAN
    BY DEF Believed
  <2>2. (SecondsOff(Stamp(upper, low)) <= alarmDeltaT) \in BOOLEAN
    OBVIOUS
  <2>3. CASE upper = first
    BY <2>1, <2>3, Zenon
  <2>4. CASE upper # first
    BY <2>2, <2>4, Zenon
  <2>. QED BY <2>3, <2>4
<1>6. last' = {[hit |-> hit, stamp |-> Stamp(upper, low), believed |-> b]}
  BY DEF BuildFragment
<1>7. \/ b /\ uppertime' = upper /\ oldUNIX' = Unix(now) /\ oldlowertime' = low
      \/ ~b /\ UNCHANGED <<uppertime, oldUNIX, oldlowertime>>
  BY DEF BuildFragment
<1>8. low = (hit - sync) % Roll /\ first = NewUpper(low)
  OBVIOUS
<1>. HIDE DEF low, first, upper, b
<1>. QED BY <1>2, <1>3, <1>4, <1>5, <1>6, <1>7, <1>8
-----------------------------------------------------------------------------
(* A timestamp that is a multiple of a rollover away from its hit and      *)
(* within the tolerance of the clock is the time of the hit.               *)

LEMMA OnlyTheRightOne ==
  ASSUME NEW n \in Int, NEW hit \in n - MaxLag..n, NEW stamp \in Int, NEW d \in Int,
         stamp - hit = d * Roll,
         \/ Distance(stamp \div Second, n \div Second) <= alarmDeltaT
         \/ Distance(stamp, (n \div Second) * Second) \div Second <= alarmDeltaT
  PROVE  stamp = hit
<1> DEFINE U == n \div Second
           T == stamp \div Second
           A == alarmDeltaT * Second
<1>1. /\ Second \in Nat \ {0} /\ Roll \in Nat \ {0} /\ MaxLag \in Nat /\ alarmDeltaT \in Nat /\ hit \in Int
      /\ U \in Int /\ T \in Int /\ U * Second \in Int /\ T * Second \in Int
  BY Constants, Division
<1>2. /\ U * Second <= n /\ n < U * Second + Second
      /\ T * Second <= stamp /\ stamp < T * Second + Second
  BY <1>1, Division
<1>3. A \in Nat /\ Roll > 2 * A + 2 * Second + MaxLag
  BY <1>1, Constants
<1>4. CASE Distance(T, U) <= alarmDeltaT
  <2>1. T - U <= alarmDeltaT /\ U - T <= alarmDeltaT
    <3>1. /\ Distance(T, U) \in Nat
          /\ T - U <= Distance(T, U) /\ U - T <= Distance(T, U)
      BY <1>1, DistanceIs
    <3>. HIDE DEF T, U
    <3>. QED BY <1>1, <1>4, <3>1, Constants
  <2>2. (T - U) * Second <= A /\ (U - T) * Second <= A
    BY <2>1, <1>1, Monotone
  <2>3. T * Second - U * Second <= A /\ U * Second - T * Second <= A
    <3>. HIDE DEF T, U, A
    <3>. QED BY <2>2, <1>1, <1>3, Products
  <2>4. stamp - hit < Roll /\ -Roll < stamp - hit
    <3>. HIDE DEF T, U, A
    <3>. QED BY <2>3, <1>1, <1>2, <1>3
  <2>5. d = 0
    BY <2>4, <1>1, OneMultiple
  <2>. QED BY <2>5, <1>1
<1>5. CASE Distance(stamp, U * Second) \div Second <= alarmDeltaT
  <2> DEFINE D == Distance(stamp, U * Second)
             Q == D \div Second
  <2>1. D \in Nat /\ (D = stamp - U * Second \/ D = U * Second - stamp)
        /\ stamp - U * Second <= D /\ U * Second - stamp <= D
    BY <1>1, DistanceIs
  <2>2. Q \in Int /\ D < Q * Second + Second /\ Q * Second \in Int
    <3>. HIDE DEF D
    <3>1. D \in Int
      BY <2>1
    <3>. QED BY <3>1, <1>1, Division
  <2>3. Q * Second <= A
    BY <2>2, <1>5, <1>1, Monotone
  <2>4. stamp - hit < Roll /\ -Roll < stamp - hit
    <3>. HIDE DEF D, Q, U, A
    <3>. QED BY <2>1, <2>2, <2>3, <1>1, <1>2, <1>3
  <2>5. d = 0
    BY <2>4, <1>1, OneMultiple
  <2>. QED BY <2>5, <1>1
<1>. QED BY <1>4, <1>5
-----------------------------------------------------------------------------
(* The upper half that is inferred is at most two behind and one ahead.    *)

LEMMA NearlyRight ==
  ASSUME NEW n \in Int, NEW s \in Int, NEW hit \in n - MaxLag..n,
         NEW up \in Int, NEW old \in Int, NEW oldlow \in Nat, NEW first \in Int,
         old <= n \div Second,
         up * Roll + oldlow + s < old * Second + Second,
         old * Second < up * Roll + Roll + s + MaxLag,
         \/ first = up + ((n \div Second - old) * Second) \div Roll
         \/ n \div Second = old /\ (hit - s) % Roll < oldlow /\ first = up + 1
  PROVE  first - (hit - s) \div Roll \in {-2, -1, 0, 1}
<1> DEFINE U == n \div Second
           k == (hit - s) \div Roll
           low == (hit - s) % Roll
<1>1. /\ Second \in Nat \ {0} /\ Roll \in Nat \ {0} /\ MaxLag \in Nat /\ hit \in Int
      /\ hit >= n - MaxLag /\ hit <= n /\ U \in Int /\ k \in Int /\ low \in 0..Roll - 1
  BY Constants, Division
<1>2. U * Second \in Int /\ old * Second \in Int /\ up * Roll \in Int /\ k * Roll \in Int
      /\ first * Roll \in Int
  BY <1>1
<1>3. U * Second <= n /\ n < U * Second + Second
  BY <1>1, Division
<1>4. hit - s = k * Roll + low /\ k * Roll <= hit - s /\ hit - s < k * Roll + Roll
  BY <1>1, Division
<1>5. Second + MaxLag < Roll
  <2>1. alarmDeltaT * Second \in Nat
    BY Constants
  <2>2. 2 * (alarmDeltaT + 1) * Second = 2 * (alarmDeltaT * Second) + 2 * Second
    BY Constants
  <2>. QED BY <2>1, <2>2, Constants
<1>6. CASE first = up + ((U - old) * Second) \div Roll
  <2> DEFINE q == ((U - old) * Second) \div Roll
  <2>1. (U - old) * Second \in Int /\ (U - old) * Second = U * Second - old * Second
    BY <1>1, Products
  <2>2. q \in Int /\ q * Roll <= (U - old) * Second /\ (U - old) * Second < q * Roll + Roll
    BY <2>1, <1>1, Division
  <2>3. first * Roll = up * Roll + q * Roll /\ q * Roll \in Int
    BY <1>6, <1>1, <2>2, Products
  <2>4. (first - k - 2) * Roll < 0 * Roll
    <3>1. (first - k - 2) * Roll = first * Roll - k * Roll - 2 * Roll
      <4>. HIDE DEF k
      <4>. QED BY <1>1
    <3>. HIDE DEF k, q, U, low
    <3>. QED BY <3>1, <2>1, <2>2, <2>3, <1>1, <1>2, <1>3, <1>4, <1>5
  <2>5. (-3) * Roll < (first - k) * Roll
    <3>1. (first - k) * Roll = first * Roll - k * Roll
      <4>. HIDE DEF k
      <4>. QED BY <1>1
    <3>. HIDE DEF k, q, U, low
    <3>. QED BY <3>1, <2>1, <2>2, <2>3, <1>1, <1>2, <1>3, <1>4, <1>5
  <2>6. first - k - 2 < 0 /\ -3 < first - k
    <3>. HIDE DEF k
    <3>1. first - k - 2 < 0
      BY <2>4, <1>1, FewMultiples
    <3>2. -3 < first - k
      BY <2>5, <1>1, FewMultiples
    <3>. QED BY <3>1, <3>2
  <2>. QED BY <2>6, <1>1
<1>7. CASE U = old /\ low < oldlow /\ first = up + 1
  <2>1. first * Roll = up * Roll + Roll
    BY <1>7, <1>1
  <2>2. U * Second = old * Second
    BY <1>7
  <2>3. (first - k - 2) * Roll < 0 * Roll
    <3>1. (first - k - 2) * Roll = first * Roll - k * Roll - 2 * Roll
      <4>. HIDE DEF k
      <4>. QED BY <1>1
    <3>. HIDE DEF k, U, low
    <3>. QED BY <3>1, <2>1, <2>2, <1>1, <1>2, <1>3, <1>4, <1>5, <1>7
  <2>4. (-3) * Roll < (first - k) * Roll
    <3>1. (first - k) * Roll = first * Roll - k * Roll
      <4>. HIDE DEF k
      <4>. QED BY <1>1
    <3>. HIDE DEF k, U, low
    <3>. QED BY <3>1, <2>1, <2>2, <1>1, <1>2, <1>3, <1>4, <1>5
  <2>5. first - k - 2 < 0 /\ -3 < first - k
    <3>. HIDE DEF k
    <3>1. first - k - 2 < 0
      BY <2>3, <1>1, FewMultiples
    <3>2. -3 < first - k
      BY <2>4, <1>1, FewMultiples
    <3>. QED BY <3>1, <3>2
  <2>. QED BY <2>5, <1>1
<1>. QED BY <1>6, <1>7

\* the repair takes a step in the right direction only
LEMMA RepairHelps ==
  ASSUME NEW n \in Int, NEW hit \in n - MaxLag..n, NEW stamp \in Int, NEW d \in Int,
         stamp - hit = d * Roll
  PROVE  /\ stamp \div Second - n \div Second = -RollSeconds => d < 1
         /\ stamp \div Second - n \div Second = RollSeconds => 0 < d
<1> DEFINE U == n \div Second
           T == stamp \div Second
<1>1. /\ Second \in Nat \ {0} /\ Roll \in Nat \ {0} /\ MaxLag \in Nat /\ RollSeconds \in Nat \ {0}
      /\ hit \in Int /\ n - MaxLag <= hit /\ hit <= n
      /\ U \in Int /\ T \in Int /\ U * Second \in Int /\ T * Second \in Int /\ d * Roll \in Int
  BY Constants, Division
<1>2. /\ U * Second <= n /\ n < U * Second + Second
      /\ T * Second <= stamp /\ stamp < T * Second + Second
  BY <1>1, Division
<1>3. Second + MaxLag < Roll
  <2>1. alarmDeltaT * Second \in Nat
    BY Constants
  <2>2. 2 * (alarmDeltaT + 1) * Second = 2 * (alarmDeltaT * Second) + 2 * Second
    BY Constants
  <2>. QED BY <2>1, <2>2, Constants
<1>. HIDE DEF T, U
<1>4. ASSUME T - U = -RollSeconds PROVE d < 1
  <2>1. (T + 1) * Second <= U * Second
    BY <1>1, <1>4, Monotone
  <2>2. (T + 1) * Second = T * Second + Second
    BY <1>1
  <2>3. d * Roll < 1 * Roll
    BY <2>1, <2>2, <1>1, <1>2, <1>3
  <2>. QED BY <2>3, <1>1, FewMultiples
<1>5. ASSUME T - U = RollSeconds PROVE 0 < d
  <2>1. (U + 1) * Second <= T * Second
    BY <1>1, <1>5, Monotone
  <2>2. (U + 1) * Second = U * Second + Second
    BY <1>1
  <2>3. 0 * Roll < d * Roll
    BY <2>1, <2>2, <1>1, <1>2, <1>3
  <2>. QED BY <2>3, <1>1, FewMultiples
<1>. QED BY <1>4, <1>5 DEF T, U
-----------------------------------------------------------------------------
(* The invariant. *)

\* before the start of the run is known there is no fragment and nothing is counted
NothingYet == ~gotRunStartTime => last = {} /\ oldlowertime = 0 /\ ~counting

\* the count of rollovers is that of the second seen last, or one behind it
Counted ==
  counting =>
    /\ runstarttime = sync
    /\ uppertime * Roll + oldlowertime + sync < oldUNIX * Second + Second
    /\ oldUNIX * Second < uppertime * Roll + Roll + sync + MaxLag
    /\ oldUNIX <= Unix(now)

InStep == ClockTypeOK /\ sync <= now /\ NothingYet /\ Counted /\ StampsInSync

LEMMA InitInStep == ClockInit => InStep
<1>. SUFFICES ASSUME ClockInit PROVE InStep
  OBVIOUS
<1>1. FirstTick \in Nat /\ 0 \in 0..Roll - 1 /\ 0 \in Nat
  BY Constants
<1>2. ClockTypeOK
  <2>1. {now, sync, runstarttime, oldUNIX} \subseteq Nat
    BY <1>1 DEF ClockInit
  <2>2. {running, gotRunStartTime, counting} \subseteq BOOLEAN /\ last \subseteq [hit : Nat, stamp : Int, believed : BOOLEAN]
    BY Zenon DEF ClockInit
  <2>3. uppertime \in Int /\ oldlowertime \in 0..Roll - 1
    BY <1>1 DEF ClockInit
  <2>. QED BY <2>1, <2>2, <2>3 DEF ClockTypeOK
<1>3. sync <= now
  BY <1>1 DEF ClockInit
<1>4. NothingYet /\ Counted /\ StampsInSync
  BY DEF ClockInit, NothingYet, Counted, StampsInSync
<1>. QED BY <1>2, <1>3, <1>4 DEF InStep

LEMMA TickInStep == InStep /\ TickClock => InStep'
<1>. SUFFICES ASSUME InStep, TickClock PROVE InStep'
  OBVIOUS
<1>1. /\ now \in Nat /\ now' = now + 1
      /\ UNCHANGED <<sync, running, gotRunStartTime, runstarttime, uppertime, oldlowertime, oldUNIX,
                     counting, last>>
  BY DEF InStep, ClockTypeOK, TickClock, clockReader
<1>2. ClockTypeOK'
  BY <1>1 DEF InStep, ClockTypeOK
<1>3. (sync <= now)' /\ NothingYet' /\ StampsInSync'
  BY <1>1 DEF InStep, ClockTypeOK, NothingYet, StampsInSync
<1>4. Counted'
  <2>1. Unix(now) <= Unix(now)' /\ Unix(now) \in Int /\ Unix(now)' \in Int
    BY <1>1, Constants, Division, DivisionGrows DEF Unix
  <2>2. oldUNIX \in Int
    BY DEF InStep, ClockTypeOK
  <2>. QED BY <1>1, <2>1, <2>2 DEF InStep, Counted
<1>. QED BY <1>2, <1>3, <1>4 DEF InStep

LEMMA StartInStep == ASSUME NEW synced \in BOOLEAN PROVE InStep /\ StartClock(synced) => InStep'
<1>. SUFFICES ASSUME InStep, StartClock(synced) PROVE InStep'
  OBVIOUS
<1>1. /\ {now, sync, runstarttime, oldUNIX} \subseteq Nat /\ 0 \in 0..Roll - 1 /\ 0 \in Int
      /\ gotRunStartTime \in BOOLEAN /\ sync <= now
  BY Constants DEF InStep, ClockTypeOK
<1>2. /\ running' = TRUE /\ uppertime' = 0 /\ oldlowertime' = 0 /\ counting' = FALSE /\ last' = {}
      /\ sync' \in {now, sync}
      /\ UNCHANGED <<now, gotRunStartTime, runstarttime, oldUNIX>>
  BY DEF StartClock
<1>3. ClockTypeOK'
  BY <1>1, <1>2 DEF ClockTypeOK
<1>4. (sync <= now)'
  BY <1>1, <1>2
<1>. QED BY <1>2, <1>3, <1>4 DEF InStep, NothingYet, Counted, StampsInSync

LEMMA StopInStep == InStep /\ StopClock => InStep'
<1>. SUFFICES ASSUME InStep, StopClock PROVE InStep'
  OBVIOUS
<1>1. /\ running' = FALSE
      /\ UNCHANGED <<now, sync, gotRunStartTime, runstarttime, uppertime, oldlowertime, oldUNIX,
                     counting, last>>
  BY DEF StopClock
<1>. QED
  BY <1>1 DEF InStep, ClockTypeOK, NothingYet, Counted, StampsInSync, Unix

\* the start of the run is within the tolerance: no rollover has been since
LEMMA GetInStep == InStep /\ GetRunStartTime => InStep'
<1>. SUFFICES ASSUME InStep, GetRunStartTime PROVE InStep'
  OBVIOUS
<1> DEFINE deltaT == SecondsOff(sync)
           A == alarmDeltaT * Second
<1>1. /\ now \in Nat /\ sync \in Nat /\ sync <= now /\ uppertime \in Int /\ oldUNIX \in Nat
      /\ oldlowertime = 0 /\ ~counting /\ last = {} /\ running \in BOOLEAN
      /\ 0 \in 0..Roll - 1
  BY Constants DEF InStep, ClockTypeOK, NothingYet, GetRunStartTime
<1>2. runstarttime' = sync /\ UNCHANGED <<now, sync, running, oldlowertime, last>>
  BY DEF GetRunStartTime
<1>3. CASE UNCHANGED <<gotRunStartTime, uppertime, oldUNIX, counting>>
  BY <1>1, <1>2, <1>3
  DEF InStep, ClockTypeOK, NothingYet, Counted, StampsInSync, GetRunStartTime
<1>4. CASE /\ deltaT <= alarmDeltaT /\ gotRunStartTime' = TRUE /\ oldUNIX' = Unix(now)
           /\ counting' = TRUE /\ uppertime' = (deltaT * Second) \div Roll
  <2> DEFINE U == Unix(now)
             D == Distance(sync, U * Second)
  <2>1. /\ Second \in Nat \ {0} /\ Roll \in Nat \ {0} /\ MaxLag \in Nat /\ A \in Nat
        /\ Roll > 2 * A + 2 * Second + MaxLag
    BY Constants
  <2>2. U \in Nat /\ U * Second \in Nat /\ U * Second <= now /\ now < U * Second + Second
    BY <1>1, <2>1, DivisionOfNat DEF Unix
  <2>3. D \in Nat /\ U * Second - sync <= D
    <3> DEFINE V == U * Second
    <3>1. V \in Int /\ sync \in Int
      BY <1>1, <2>2
    <3>. HIDE DEF V
    <3>2. Distance(sync, V) \in Nat /\ V - sync <= Distance(sync, V)
      BY <3>1, DistanceIs
    <3>. QED BY <3>2 DEF V
  <2>4. deltaT \in Nat /\ D < deltaT * Second + Second /\ deltaT * Second \in Nat
    <3>. HIDE DEF D
    <3>1. D \div Second \in Nat /\ D < (D \div Second) * Second + Second
      BY <2>1, <2>3, DivisionOfNat
    <3>2. deltaT = D \div Second
      BY DEF D, SecondsOff
    <3>. HIDE DEF deltaT
    <3>. QED BY <3>1, <3>2, <2>1
  <2>5. deltaT * Second <= A
    <3>. HIDE DEF deltaT
    <3>. QED BY <2>4, <1>4, <2>1, Constants, Monotone
  <2>6. (deltaT * Second) \div Roll = 0
    <3> DEFINE p == deltaT * Second
               q == p \div Roll
    <3>1. p \in Nat /\ p < Roll
      <4>. HIDE DEF deltaT, A
      <4>. QED BY <2>4, <2>5, <2>1
    <3>. HIDE DEF p
    <3>2. q \in Nat /\ q * Roll <= p
      BY <3>1, <2>1, DivisionOfNat
    <3>. HIDE DEF q
    <3>3. q * Roll < 1 * Roll
      BY <3>1, <3>2, <2>1
    <3>4. q < 1
      BY <3>3, <3>2, <2>1, FewMultiples
    <3>5. q = 0
      BY <3>4, <3>2
    <3>. QED BY <3>5 DEF q, p
  <2>7. Counted'
    <3>1. uppertime' = 0 /\ oldUNIX' = U /\ oldlowertime' = 0 /\ sync' = sync /\ runstarttime' = sync
          /\ Unix(now)' = U
      BY <1>1, <1>2, <1>4, <2>6 DEF Unix
    <3>2. uppertime' * Roll = 0
      BY <3>1, <2>1
    <3>3. sync < U * Second + Second /\ U * Second < Roll + sync + MaxLag
      <4>. HIDE DEF deltaT, A, D, U
      <4>. QED BY <1>1, <2>1, <2>2, <2>3, <2>4, <2>5
    <3>. HIDE DEF U
    <3>. QED BY <3>1, <3>2, <3>3, <1>1, <2>1, <2>2 DEF Counted
  <2>8. ClockTypeOK'
    <3>1. uppertime' \in Int /\ oldUNIX' \in Nat
      BY <1>4, <2>6, <2>2
    <3>. QED BY <1>1, <1>2, <1>4, <3>1 DEF ClockTypeOK
  <2>9. (sync <= now)' /\ NothingYet' /\ StampsInSync'
    BY <1>1, <1>2, <1>4 DEF NothingYet, StampsInSync
  <2>. QED BY <2>7, <2>8, <2>9 DEF InStep
<1>5. deltaT \in Int
  <2> DEFINE V == Unix(now) * Second
             D == Distance(sync, V)
  <2>1. V \in Int /\ sync \in Int /\ Second \in Nat \ {0}
    BY <1>1, Constants, DivisionOfNat DEF Unix
  <2>. HIDE DEF V
  <2>2. D \in Nat
    BY <2>1, DistanceIs
  <2>. HIDE DEF D
  <2>3. D \div Second \in Nat
    BY <2>1, <2>2, DivisionOfNat
  <2>. QED BY <2>3 DEF D, V, SecondsOff
<1>. QED
  <2>1. ~(deltaT > alarmDeltaT) => deltaT <= alarmDeltaT
    BY <1>5, Constants
  <2>. QED BY <1>3, <1>4, <2>1 DEF GetRunStartTime

LEMMA BuildInStep == ASSUME NEW hit \in HitsFromNow PROVE InStep /\ BuildFragment(hit) => InStep'
<1>. SUFFICES ASSUME InStep, BuildFragment(hit) PROVE InStep'
  OBVIOUS
<1>1. /\ ClockTypeOK /\ now \in Nat /\ sync \in Nat /\ sync <= now /\ uppertime \in Int /\ oldUNIX \in Nat
      /\ runstarttime \in Nat /\ oldlowertime \in 0..Roll - 1 /\ gotRunStartTime = TRUE
  BY DEF InStep, ClockTypeOK, BuildFragment
<1>2. UNCHANGED <<now, sync, running, gotRunStartTime, runstarttime, counting>>
  BY DEF BuildFragment
<1>3. hit \in now - MaxLag..now /\ hit \in Nat /\ sync <= hit
  BY <1>1, Constants DEF HitsFromNow
<1>4. PICK low \in 0..Roll - 1, first \in Int, upper \in Int, b \in BOOLEAN :
        /\ low = (hit - sync) % Roll /\ first = NewUpper(low)
        /\ \/ upper = first
           \/ upper = first + 1 /\ OffBy(Stamp(first, low)) = -RollSeconds
           \/ upper = first - 1 /\ OffBy(Stamp(first, low)) = RollSeconds
        /\ b => Believed(Stamp(upper, low)) \/ SecondsOff(Stamp(upper, low)) <= alarmDeltaT
        /\ last' = {[hit |-> hit, stamp |-> Stamp(upper, low), believed |-> b]}
        /\ \/ b /\ uppertime' = upper /\ oldUNIX' = Unix(now) /\ oldlowertime' = low
           \/ ~b /\ UNCHANGED <<uppertime, oldUNIX, oldlowertime>>
  BY <1>1, Builds
<1>5. /\ Second \in Nat \ {0} /\ Roll \in Nat \ {0} /\ MaxLag \in Nat /\ low \in Nat
      /\ Stamp(upper, low) \in Int /\ Stamp(first, low) \in Int
      /\ Stamp(upper, low) = upper * Roll + low + runstarttime
      /\ Stamp(first, low) = first * Roll + low + runstarttime
      /\ upper * Roll \in Int /\ first * Roll \in Int
  BY <1>1, Constants DEF Stamp
<1>6. PICK k \in Int : k = (hit - sync) \div Roll /\ k * Roll \in Int /\ hit - sync = k * Roll + low
  <2> DEFINE kk == (hit - sync) \div Roll
  <2>1. hit - sync \in Int
    BY <1>1, <1>3
  <2>2. kk \in Int /\ hit - sync = kk * Roll + ((hit - sync) % Roll)
    BY <2>1, <1>5, Division
  <2>3. hit - sync = kk * Roll + low
    <3>. HIDE DEF kk
    <3>. QED BY <2>2, <1>4
  <2>4. kk = (hit - sync) \div Roll
    OBVIOUS
  <2>. HIDE DEF kk
  <2>5. kk * Roll \in Int
    BY <2>2, <1>5
  <2>. QED BY <2>2, <2>3, <2>4, <2>5
<1>7. PICK U \in Nat : U = Unix(now) /\ U = now \div Second /\ U * Second <= now /\ now < U * Second + Second
                        /\ U * Second \in Nat
  BY <1>1, <1>5, DivisionOfNat DEF Unix
\* how far the two stamps are from the hit
<1>8. ASSUME runstarttime = sync
      PROVE  /\ Stamp(upper, low) - hit = (upper - k) * Roll
             /\ Stamp(first, low) - hit = (first - k) * Roll
  <2>1. (upper - k) * Roll = upper * Roll - k * Roll /\ (first - k) * Roll = first * Roll - k * Roll
    BY <1>5, <1>6
  <2>. QED BY <2>1, <1>1, <1>3, <1>5, <1>6, <1>8
<1>9. ASSUME runstarttime = sync, b PROVE Stamp(upper, low) = hit
  <2>1. Stamp(upper, low) - hit = (upper - k) * Roll /\ upper - k \in Int
    BY <1>8, <1>9
  <2>2. \/ Distance(Stamp(upper, low) \div Second, now \div Second) <= alarmDeltaT
        \/ Distance(Stamp(upper, low), (now \div Second) * Second) \div Second <= alarmDeltaT
    BY <1>4, <1>9 DEF Believed, SecondsOff, Unix
  <2>3. now \in Int /\ Stamp(upper, low) \in Int
    BY <1>1, <1>5
  <2>. QED BY <2>1, <2>2, <2>3, <1>3, OnlyTheRightOne
<1>10. ASSUME counting PROVE upper - k \in {-2, -1, 0, 1}
  <2>1. /\ runstarttime = sync /\ oldUNIX <= U
        /\ uppertime * Roll + oldlowertime + sync < oldUNIX * Second + Second
        /\ oldUNIX * Second < uppertime * Roll + Roll + sync + MaxLag
    BY <1>7, <1>10 DEF InStep, Counted
  <2>2. first - k \in {-2, -1, 0, 1}
    <3>1. \/ first = uppertime + ((U - oldUNIX) * Second) \div Roll
          \/ U = oldUNIX /\ low < oldlowertime /\ first = uppertime + 1
      <4>1. CASE U > oldUNIX
        BY <4>1, <1>4, <1>7 DEF NewUpper
      <4>2. CASE U = oldUNIX /\ low + rolloverThreshold < oldlowertime
        BY <4>2, <1>4, <1>5, <1>7, <1>1, Constants DEF NewUpper
      <4>3. CASE U = oldUNIX /\ ~(low + rolloverThreshold < oldlowertime)
        <5>1. first = uppertime
          BY <4>3, <1>4, <1>7, <1>1 DEF NewUpper
        <5>2. (U - oldUNIX) * Second = 0 /\ 0 \div Roll = 0
          BY <4>3, <1>1, <1>5
        <5>. QED BY <5>1, <5>2, <1>1
      <4>. QED BY <4>1, <4>2, <4>3, <2>1, <1>1
    <3>2. now \in Int /\ sync \in Int /\ oldUNIX \in Int /\ oldlowertime \in Nat
      BY <1>1, <1>5
    <3>3. /\ first \in Int /\ uppertime \in Int /\ hit \in now - MaxLag..now
          /\ oldUNIX <= now \div Second
          /\ \/ first = uppertime + ((now \div Second - oldUNIX) * Second) \div Roll
             \/ now \div Second = oldUNIX /\ (hit - sync) % Roll < oldlowertime /\ first = uppertime + 1
      BY <3>1, <2>1, <1>1, <1>3, <1>4, <1>7
    <3>4. first - (hit - sync) \div Roll \in {-2, -1, 0, 1}
      BY <3>2, <3>3, <2>1, NearlyRight
    <3>. QED BY <3>4, <1>6
  <2>3. /\ OffBy(Stamp(first, low)) = -RollSeconds => first - k < 1
        /\ OffBy(Stamp(first, low)) = RollSeconds => 0 < first - k
    <3>1. Stamp(first, low) - hit = (first - k) * Roll /\ first - k \in Int /\ now \in Int
      BY <1>8, <2>1, <1>1
    <3>. QED BY <3>1, <1>3, <1>5, RepairHelps DEF OffBy, Unix
  <2>. QED BY <2>2, <2>3, <1>4, <1>6
<1>11. ClockTypeOK'
  <2>1. Stamp(upper, low) \in Int /\ hit \in Nat
    BY <1>5, <1>3
  <2>2. last' \subseteq [hit : Nat, stamp : Int, believed : BOOLEAN]
    BY <2>1, <1>4
  <2>3. uppertime' \in Int /\ oldUNIX' \in Nat /\ oldlowertime' \in 0..Roll - 1
    BY <1>1, <1>4, <1>7
  <2>4. now' \in Nat /\ sync' \in Nat /\ runstarttime' \in Nat
    BY <1>1, <1>2
  <2>5. {running, gotRunStartTime, counting}' \subseteq BOOLEAN
    BY <1>1, <1>2 DEF ClockTypeOK
  <2>. QED BY <2>2, <2>3, <2>4, <2>5 DEF ClockTypeOK
<1>12. StampsInSync'
  <2>1. SUFFICES ASSUME runstarttime = sync, NEW f \in last'
                 PROVE  /\ f.believed => f.stamp = f.hit
                        /\ counting => f.stamp - f.hit \in {-2 * Roll, -Roll, 0, Roll}
    BY <1>2 DEF StampsInSync
  <2>2. f.hit = hit /\ f.stamp = Stamp(upper, low) /\ f.believed = b
    BY <1>4
  <2>3. ASSUME counting PROVE f.stamp - f.hit \in {-2 * Roll, -Roll, 0, Roll}
    <3>1. Stamp(upper, low) - hit = (upper - k) * Roll
      BY <1>8, <2>1
    <3>2. upper - k \in {-2, -1, 0, 1}
      BY <1>10, <2>3
    <3>. QED BY <3>1, <3>2, <2>2, <1>5
  <2>. QED BY <2>1, <2>2, <2>3, <1>9
<1>13. Counted'
  <2>. SUFFICES ASSUME counting
                PROVE  /\ runstarttime = sync /\ oldUNIX' <= Unix(now)
                       /\ uppertime' * Roll + oldlowertime' + sync < oldUNIX' * Second + Second
                       /\ oldUNIX' * Second < uppertime' * Roll + Roll + sync + MaxLag
    BY <1>2 DEF Counted, Unix
  <2>1. runstarttime = sync
    BY DEF InStep, Counted
  <2>2. CASE ~b
    BY <2>2, <1>4 DEF InStep, Counted
  <2>3. CASE b
    <3>1. upper * Roll + low + sync = hit
      BY <2>1, <2>3, <1>5, <1>9
    <3>2. /\ upper * Roll + low + sync < U * Second + Second
          /\ U * Second < upper * Roll + Roll + sync + MaxLag
      BY <3>1, <1>1, <1>3, <1>4, <1>5, <1>7
    <3>3. uppertime' = upper /\ oldUNIX' = U /\ oldlowertime' = low
      BY <2>3, <1>4, <1>7
    <3>. QED BY <2>1, <3>2, <3>3, <1>7
  <2>. QED BY <2>2, <2>3
<1>14. (sync <= now)' /\ NothingYet'
  BY <1>1, <1>2 DEF NothingYet
<1>. QED BY <1>11, <1>12, <1>13, <1>14 DEF InStep
-----------------------------------------------------------------------------
LEMMA NextInStep == InStep /\ [ClockNext]_clockVars => InStep'
<1>. SUFFICES ASSUME InStep, [ClockNext]_clockVars PROVE InStep'
  OBVIOUS
<1>1. CASE UNCHANGED clockVars
  BY <1>1
  DEF clockVars, InStep, ClockTypeOK, NothingYet, Counted, StampsInSync, Unix
<1>2. ASSUME NEW synced \in BOOLEAN, StartClock(synced) PROVE InStep'
  BY <1>2, StartInStep
<1>3. ASSUME NEW hit \in HitsFromNow, BuildFragment(hit) PROVE InStep'
  BY <1>3, BuildInStep
<1>. QED
  BY <1>1, <1>2, <1>3, TickInStep, StopInStep, GetInStep DEF ClockNext

(* The variables of the clock keep their types, for any length of the      *)
(* second, the rollover and the lag of the hits.                           *)
THEOREM ClockTypeCorrect == ClockSpec => []ClockTypeOK
<1>1. InStep => ClockTypeOK
  BY DEF InStep
<1>. QED BY <1>1, InitInStep, NextInStep, PTL DEF ClockSpec

(* A timestamp that buildFragment() believes is the time of its hit to the *)
(* tick, and no pause puts the count of rollovers off by more than two,    *)
(* for every rollover that is long enough for the tolerance and the lag.   *)
THEOREM TimesInSync == ClockSpec => []StampsInSync
<1>1. InStep => StampsInSync
  BY DEF InStep
<1>. QED BY <1>1, InitInStep, NextInStep, PTL DEF ClockSpec
-----------------------------------------------------------------------------
(***************************************************************************)
(* The reader of a card in the on-host mode (CardReader): the blocks a     *)
(* link is written are followed by their numbers, from the ring through    *)
(* the queue of the link's dispatcher to the chunk its parser has begun.   *)
(***************************************************************************)

Blk(l, k) == [link |-> l, n |-> k]
CardBlocks == [link : CardLinks, n : Nat]

\* The reader is behind the card, by no more than the ring, and never before what it freed.
RingRight ==
  /\ freed <= readPos /\ readPos <= written /\ written <= readPos + RingBlocks
  /\ readerAt = "queue" =>
       readPos <= seenPos /\ seenPos < readPos + RingBlocks /\ seenPos <= written

\* The numbers of a link's blocks: parsed, refused, in the ring unread, and at these addresses.
ParsedOf(l) == {k \in Nat : Blk(l, k) \in parsed[l]}
RefusedOf(l) == {k \in Nat : Blk(l, k) \in unqueued}
UnreadOf(l) == {k \in Nat : \E p \in readPos..(written - 1) : memory[Address(p)] = Blk(l, k)}
NumbersAt(ads) == [i \in 1..Len(ads) |-> memory[ads[i]].n]

\* What is unread are blocks of the links, those of a link in order.
UnreadRight ==
  /\ \A p \in readPos..(written - 1) :
       /\ memory[Address(p)] \in CardBlocks
       /\ memory[Address(p)].n < nextBlock[memory[Address(p)].link]
  /\ \A p, r \in readPos..(written - 1) :
       p < r /\ memory[Address(p)].link = memory[Address(r)].link
         => memory[Address(p)].n < memory[Address(r)].n

\* A sequence of numbers that increase.
Climbs(q) == \A i, j \in 1..Len(q) : i <= j => q[j] >= q[i] + (j - i)

\* What is parsed comes before what is queued, that before what is unread; no number is lost.
InTurn(S, q, U, R, N) ==
  /\ S \cup ToSet(q) \cup U \cup R = 0..(N - 1)
  /\ Climbs(q)
  /\ \A s \in S : (\A i \in 1..Len(q) : s < q[i]) /\ (\A r \in R : s < r) /\ s \notin U
  /\ \A i \in 1..Len(q) : q[i] \notin U /\ \A r \in R : q[i] < r
  /\ \A u \in U : \A r \in R : u < r

LastOne(k) == k % ChunkParts = ChunkParts - 1
\* t has all that was parsed from its beginning on, and nothing of its first chunk was parsed
\* before; where a chunk has lost nothing so far, its parts stand side by side.
Begun(t, S, U) ==
  /\ Climbs(t) /\ ToSet(t) \subseteq S
  /\ \A k \in S : /\ t # <<>> /\ k >= t[1] => k \in ToSet(t)
                  /\ t # <<>> /\ k < t[1] => k \div ChunkParts < t[1] \div ChunkParts
  /\ \A i \in 1..Len(t) :
       (\A m \in (t[i] - (t[i] % ChunkParts))..t[i] : m \notin U)
         => t[i] % ChunkParts < i /\ t[i - (t[i] % ChunkParts)] = t[i] - (t[i] % ChunkParts)
  /\ t = <<>> => \A k \in S : \E m \in S : k <= m /\ LastOne(m) /\ \A j \in S : j <= m
NoneLast(t) == \A i \in 1..Len(t) : ~LastOne(t[i])

AllOf(l, ads) == \A i \in 1..Len(ads) : memory[ads[i]] \in CardBlocks /\ memory[ads[i]].link = l

ChunkRight(l, s) ==
  /\ s \in [1..ChunkParts -> CardBlocks] /\ InStream(s)
  /\ s[1].n \in ParsedOf(l)
  /\ pieces[l] # <<>> => s[1].n < NumbersAt(pieces[l])[1]
  /\ s = WholeChunk(l, s[1].n \div ChunkParts) \/ OfTouched(l, s)

FlowRight(l) ==
  /\ \A b \in parsed[l] : b \in CardBlocks /\ b.link = l
  /\ AllOf(l, addresses[l]) /\ AllOf(l, pieces[l])
  /\ InTurn(ParsedOf(l), NumbersAt(addresses[l]), RefusedOf(l), UnreadOf(l), nextBlock[l])
  /\ Begun(NumbersAt(pieces[l]), ParsedOf(l), RefusedOf(l)) /\ NoneLast(NumbersAt(pieces[l]))

GivenRight(l) ==
  /\ \A i \in 1..Len(chunks[l]) : ChunkRight(l, chunks[l][i])
  /\ \A i, j \in 1..Len(chunks[l]) : i < j => chunks[l][i][1].n < chunks[l][j][1].n
  /\ \A c \in Nat : Owed(l, c) => WholeChunk(l, c) \in ToSet(chunks[l])

CardInv ==
  /\ RingRight /\ UnreadRight
  /\ ~overrun => \A l \in CardLinks : FlowRight(l) /\ GivenRight(l)

-----------------------------------------------------------------------------
(* Chunks and their parts. *)

\* A number is a part of its chunk.
LEMMA PartOfChunk ==
  ASSUME CardAssumption, NEW k \in Nat
  PROVE  /\ k \div ChunkParts \in Nat /\ k % ChunkParts \in 0..(ChunkParts - 1)
         /\ k = (k \div ChunkParts) * ChunkParts + (k % ChunkParts)
         /\ (k \div ChunkParts) * ChunkParts \in Nat
BY DEF CardAssumption

\* A chunk lies above those before it.
LEMMA ChunkAbove ==
  ASSUME CardAssumption, NEW c \in Nat, NEW d \in Nat, c < d
  PROVE  /\ c * ChunkParts \in Nat /\ d * ChunkParts \in Nat
         /\ c * ChunkParts + ChunkParts <= d * ChunkParts
BY DEF CardAssumption

\* The parts of a chunk are numbered from its first.
LEMMA NumberOfPart ==
  ASSUME CardAssumption, NEW c \in Nat, NEW p \in 0..(ChunkParts - 1)
  PROVE  /\ c * ChunkParts + p \in Nat
         /\ (c * ChunkParts + p) \div ChunkParts = c
         /\ (c * ChunkParts + p) % ChunkParts = p
<1>1. PICK k : k = c * ChunkParts + p
  OBVIOUS
<1>2. k \in Nat /\ c * ChunkParts \in Nat /\ p \in Nat /\ p < ChunkParts /\ ChunkParts \in Nat
  BY <1>1 DEF CardAssumption
<1>3. PICK d, m : d = k \div ChunkParts /\ m = k % ChunkParts
  OBVIOUS
<1>4. /\ d \in Nat /\ m \in 0..(ChunkParts - 1) /\ k = d * ChunkParts + m /\ d * ChunkParts \in Nat
  BY <1>2, <1>3, PartOfChunk
<1>5. ~(d < c)
  <2>. SUFFICES ASSUME d < c PROVE FALSE
    OBVIOUS
  <2>1. d * ChunkParts + ChunkParts <= c * ChunkParts
    BY <1>4, ChunkAbove
  <2>. QED BY <1>1, <1>2, <1>4, <2>1
<1>6. ~(c < d)
  <2>. SUFFICES ASSUME c < d PROVE FALSE
    OBVIOUS
  <2>1. c * ChunkParts + ChunkParts <= d * ChunkParts
    BY <1>4, ChunkAbove
  <2>. QED BY <1>1, <1>2, <1>4, <2>1
<1>7. c = d
  BY <1>4, <1>5, <1>6
<1>. QED BY <1>1, <1>2, <1>3, <1>4, <1>7

\* Chunks are in the order of their parts.
LEMMA ChunksInOrder ==
  ASSUME CardAssumption, NEW j \in Nat, NEW k \in Nat, j <= k
  PROVE  j \div ChunkParts <= k \div ChunkParts
<1>0. ChunkParts \in Nat \ {0}
  BY DEF CardAssumption
<1>1. PICK c, d, p, r : /\ c = j \div ChunkParts /\ d = k \div ChunkParts
                        /\ p = j % ChunkParts /\ r = k % ChunkParts
  OBVIOUS
<1>4. c \in Nat /\ p \in 0..(ChunkParts - 1) /\ j = c * ChunkParts + p /\ c * ChunkParts \in Nat
  BY <1>1, PartOfChunk
<1>5. d \in Nat /\ r \in 0..(ChunkParts - 1) /\ k = d * ChunkParts + r /\ d * ChunkParts \in Nat
  BY <1>1, PartOfChunk
<1>2. c * ChunkParts <= j /\ k < d * ChunkParts + ChunkParts
  BY <1>0, <1>4, <1>5
<1>3. ~(d < c)
  <2>. SUFFICES ASSUME d < c PROVE FALSE
    OBVIOUS
  <2>1. d * ChunkParts + ChunkParts <= c * ChunkParts
    BY <1>4, <1>5, ChunkAbove
  <2>. QED BY <1>0, <1>2, <1>4, <1>5, <2>1
<1>. QED BY <1>1, <1>3, <1>4, <1>5

\* The part before one that is not the first is in the same chunk.
LEMMA PartBefore ==
  ASSUME CardAssumption, NEW x \in Nat, x % ChunkParts # 0
  PROVE  /\ x - 1 \in Nat
         /\ (x - 1) % ChunkParts = (x % ChunkParts) - 1
         /\ (x - 1) \div ChunkParts = x \div ChunkParts
         /\ ~LastOne(x - 1)
<1>0. ChunkParts \in Nat \ {0}
  BY DEF CardAssumption
<1>1. PICK c, p : c = x \div ChunkParts /\ p = x % ChunkParts
  OBVIOUS
<1>2. /\ c \in Nat /\ p \in 0..(ChunkParts - 1) /\ x = c * ChunkParts + p /\ c * ChunkParts \in Nat
      /\ p # 0
  BY <1>1, PartOfChunk
<1>3. p - 1 \in 0..(ChunkParts - 1) /\ x - 1 = c * ChunkParts + (p - 1)
  BY <1>0, <1>2
<1>4. x - 1 \in Nat /\ (x - 1) \div ChunkParts = c /\ (x - 1) % ChunkParts = p - 1
  BY <1>2, <1>3, NumberOfPart
<1>. QED BY <1>0, <1>1, <1>2, <1>4 DEF LastOne

\* A number above a sequence that climbs goes on with it.
LEMMA ClimbsOn ==
  ASSUME NEW q \in Seq(Nat), NEW x \in Nat, Climbs(q), \A i \in 1..Len(q) : q[i] < x
  PROVE  Climbs(Append(q, x))
<1>1. PICK a, n : a = Append(q, x) /\ n = Len(q)
  OBVIOUS
<1>2. n \in Nat /\ Len(a) = n + 1 /\ a[n + 1] = x /\ \A i \in 1..n : a[i] = q[i] /\ q[i] \in Nat
  BY <1>1
<1>3. ASSUME NEW i \in 1..(n + 1), NEW j \in 1..(n + 1), i <= j PROVE a[j] >= a[i] + (j - i)
  <2>1. CASE j <= n
    BY <1>1, <1>2, <1>3, <2>1 DEF Climbs
  <2>2. CASE j = n + 1 /\ i = n + 1
    BY <1>2, <2>2
  <2>3. CASE j = n + 1 /\ i <= n
    <3>1. n \in 1..n /\ i \in 1..n
      BY <1>2, <2>3
    <3>2. q[n] >= q[i] + (n - i) /\ q[n] < x
      BY <1>1, <3>1, <1>2, <2>3 DEF Climbs
    <3>. QED BY <1>2, <2>3, <3>1, <3>2
  <2>. QED BY <1>2, <2>1, <2>2, <2>3
<1>. QED BY <1>1, <1>2, <1>3 DEF Climbs

\* The last of a sequence that climbs is its greatest; what comes later is greater.
LEMMA ClimbsTo ==
  ASSUME NEW q \in Seq(Nat), Climbs(q), NEW i \in 1..Len(q), NEW j \in 1..Len(q), i < j
  PROVE  q[i] < q[j]
BY DEF Climbs

\* Without its first it climbs.
LEMMA ClimbsTail ==
  ASSUME NEW q \in Seq(Nat), Climbs(q), q # <<>>
  PROVE  /\ Tail(q) \in Seq(Nat) /\ Len(Tail(q)) = Len(q) - 1 /\ Len(q) \in Nat \ {0}
         /\ \A i \in 1..Len(Tail(q)) : i + 1 \in 1..Len(q) /\ Tail(q)[i] = q[i + 1]
         /\ Climbs(Tail(q))
<1>1. PICK a, n : a = Tail(q) /\ n = Len(q)
  OBVIOUS
<1>2. n \in Nat \ {0} /\ a \in Seq(Nat) /\ Len(a) = n - 1 /\ \A i \in 1..(n - 1) : a[i] = q[i + 1] /\ i + 1 \in 1..n
  BY <1>1
<1>3. ASSUME NEW i \in 1..(n - 1), NEW j \in 1..(n - 1), i <= j PROVE a[j] >= a[i] + (j - i)
  <2>1. i + 1 \in 1..n /\ j + 1 \in 1..n /\ i + 1 <= j + 1
    BY <1>2, <1>3
  <2>2. q[j + 1] >= q[i + 1] + ((j + 1) - (i + 1))
    BY <1>1, <2>1 DEF Climbs
  <2>. QED BY <1>2, <2>1, <2>2
<1>. QED BY <1>1, <1>2, <1>3 DEF Climbs
-----------------------------------------------------------------------------
(* A chunk that is begun. *)

\* The first part of a chunk is above all parts of others that come before it.
LEMMA AboveFirst ==
  ASSUME CardAssumption, NEW k \in Nat, NEW x \in Nat, k < x, x % ChunkParts = 0
  PROVE  k \div ChunkParts < x \div ChunkParts
<1>0. ChunkParts \in Nat \ {0}
  BY DEF CardAssumption
<1>1. PICK c, d, r : c = x \div ChunkParts /\ d = k \div ChunkParts /\ r = k % ChunkParts
  OBVIOUS
<1>2. c \in Nat /\ c * ChunkParts \in Nat /\ x = c * ChunkParts + (x % ChunkParts)
  BY <1>1, PartOfChunk
<1>3. d \in Nat /\ d * ChunkParts \in Nat /\ k = d * ChunkParts + r /\ r \in 0..(ChunkParts - 1)
  BY <1>1, PartOfChunk
<1>4. ~(c <= d)
  <2>. SUFFICES ASSUME c <= d PROVE FALSE
    OBVIOUS
  <2>1. c * ChunkParts <= d * ChunkParts
    <3>1. CASE c = d
      BY <3>1, <1>2
    <3>2. CASE c < d
      BY <3>2, <1>0, <1>2, <1>3, ChunkAbove
    <3>. QED BY <1>2, <1>3, <3>1, <3>2
  <2>. QED BY <1>0, <1>2, <1>3, <2>1
<1>. QED BY <1>1, <1>2, <1>3, <1>4

\* What comes after the last part of a chunk is of a later one.
LEMMA AfterLast ==
  ASSUME CardAssumption, NEW k \in Nat, NEW x \in Nat, k < x, LastOne(k)
  PROVE  k \div ChunkParts < x \div ChunkParts
<1>0. ChunkParts \in Nat \ {0}
  BY DEF CardAssumption
<1>1. PICK d, r : d = k \div ChunkParts /\ r = k % ChunkParts
  OBVIOUS
<1>2. PICK c, p : c = x \div ChunkParts /\ p = x % ChunkParts
  OBVIOUS
<1>3. d \in Nat /\ d * ChunkParts \in Nat /\ k = d * ChunkParts + r
  BY <1>1, PartOfChunk
<1>4. c \in Nat /\ c * ChunkParts \in Nat /\ x = c * ChunkParts + p /\ p \in 0..(ChunkParts - 1)
  BY <1>2, PartOfChunk
<1>5. r = ChunkParts - 1
  BY <1>1 DEF LastOne
<1>6. c # d
  BY <1>0, <1>3, <1>4, <1>5
<1>7. ~(c < d)
  <2>. SUFFICES ASSUME c < d PROVE FALSE
    OBVIOUS
  <2>1. c * ChunkParts + ChunkParts <= d * ChunkParts
    BY <1>3, <1>4, ChunkAbove
  <2>. QED BY <1>0, <1>3, <1>4, <1>5, <2>1
<1>8. c \in Nat /\ d \in Nat
  BY <1>3, <1>4
<1>9. d < c
  BY <1>6, <1>7, <1>8
<1>. QED BY <1>1, <1>2, <1>9

\* The number before, when numbers from one on are left.
LEMMA OneBack ==
  ASSUME NEW x \in Nat, NEW r \in Nat \ {0}, r <= x
  PROVE  x - 1 \in (x - r)..x /\ x - 1 \in 0..(x - 1)
OBVIOUS

\* The next part goes on with what was begun, or, being a first part, begins.
LEMMA BegunGrows ==
  ASSUME CardAssumption, NEW t \in Seq(Nat), NEW S \in SUBSET Nat, NEW U \in SUBSET Nat,
         NEW x \in Nat, NEW b, Begun(t, S, U),
         \A s \in S : s < x, \A k \in 0..(x - 1) : k \in S \cup U, x \notin U,
         b = t \/ (b = <<>> /\ x % ChunkParts = 0)
  PROVE  Begun(Append(b, x), S \cup {x}, U)
<1>a. ChunkParts \in Nat \ {0}
  BY DEF CardAssumption
<1>b. b \in Seq(Nat)
  <2>1. CASE b = t
    BY <2>1
  <2>2. CASE b = <<>>
    <3>1. <<>> \in Seq(Nat)
      OBVIOUS
    <3>. QED BY <2>2, <3>1
  <2>. QED BY <2>1, <2>2
<1>0. ChunkParts \in Nat \ {0} /\ b \in Seq(Nat)
  BY <1>a, <1>b
<1>1. PICK a, m : a = Append(b, x) /\ m = Len(b)
  OBVIOUS
<1>2. /\ m \in Nat /\ a \in Seq(Nat) /\ Len(a) = m + 1 /\ a[m + 1] = x /\ DOMAIN a = 1..(m + 1)
      /\ \A i \in 1..m : a[i] = b[i] /\ b[i] \in Nat /\ i \in 1..(m + 1)
      /\ m + 1 \in 1..(m + 1) /\ a # <<>>
  <2>1. /\ m \in Nat /\ a \in Seq(Nat) /\ Len(a) = m + 1 /\ a[m + 1] = x /\ DOMAIN a = 1..(m + 1)
        /\ \A i \in 1..m : a[i] = b[i] /\ b[i] \in Nat
    <3>1. m \in Nat /\ \A i \in 1..m : b[i] \in Nat
      BY <1>b, <1>1
    <3>2. a \in Seq(Nat) /\ Len(a) = m + 1
      BY <1>b, <1>1
    <3>3. a[m + 1] = x /\ \A i \in 1..m : a[i] = b[i]
      BY <1>b, <1>1
    <3>4. DOMAIN a = 1..(m + 1)
      BY <3>2
    <3>. QED BY <3>1, <3>2, <3>3, <3>4
  <2>2. m + 1 \in 1..(m + 1) /\ \A i \in 1..m : i \in 1..(m + 1)
    BY <2>1
  <2>3. a # <<>>
    BY <2>1
  <2>. QED BY <2>1, <2>2, <2>3
<1>3. /\ Climbs(t) /\ \A i \in 1..Len(t) : t[i] \in S
  BY DEF Begun, ToSet
<1>4. \A i \in 1..m : b[i] \in S /\ b[i] < x
  BY <1>0, <1>1, <1>2, <1>3
<1>5. Climbs(a)
  <2>1. Climbs(b)
    <3>1. CASE b = t
      BY <1>3, <3>1
    <3>2. CASE b = <<>>
      <4>1. Len(b) = 0
        BY <3>2
      <4>. QED BY <4>1 DEF Climbs
    <3>. QED BY <3>1, <3>2
  <2>2. \A i \in 1..Len(b) : b[i] < x
    BY <1>1, <1>4
  <2>3. Climbs(Append(b, x))
    BY <1>b, <2>1, <2>2, ClimbsOn
  <2>. QED BY <1>1, <2>3
<1>6. ToSet(a) \subseteq S \cup {x}
  <2>. SUFFICES ASSUME NEW e \in ToSet(a) PROVE e \in S \cup {x}
    OBVIOUS
  <2>1. PICK i \in 1..(m + 1) : a[i] = e
    BY <1>2 DEF ToSet
  <2>2. i \in 1..m \/ i = m + 1
    BY <1>2
  <2>. QED BY <1>2, <1>4, <2>1, <2>2
<1>7. x \in ToSet(a) /\ \A i \in 1..m : b[i] \in ToSet(a)
  BY <1>2 DEF ToSet
<1>8. a[1] \in Nat /\ a[1] <= x
  <2>1. CASE m = 0
    BY <1>2, <2>1
  <2>2. CASE m # 0
    <3>1. 1 \in 1..m
      BY <1>2, <2>2
    <3>. QED BY <1>2, <1>4, <3>1
  <2>. QED BY <2>1, <2>2
<1>9. ASSUME NEW k \in S \cup {x}
      PROVE  /\ k >= a[1] => k \in ToSet(a)
             /\ k < a[1] => k \div ChunkParts < a[1] \div ChunkParts
  <2>1. CASE k = x
    BY <1>7, <1>8, <2>1
  <2>2. CASE k \in S /\ m # 0
    <3>1. 1 \in 1..m /\ b = t /\ t # <<>>
      BY <1>0, <1>1, <1>2, <2>2
    <3>2. a[1] = t[1]
      BY <1>2, <3>1
    <3>3. /\ k >= t[1] => k \in ToSet(t)
          /\ k < t[1] => k \div ChunkParts < t[1] \div ChunkParts
      BY <2>2, <3>1 DEF Begun
    <3>4. ToSet(t) \subseteq ToSet(a)
      BY <1>1, <1>7, <3>1 DEF ToSet
    <3>. QED BY <3>2, <3>3, <3>4
  <2>3. CASE k \in S /\ m = 0
    <3>1. a[1] = x /\ k < x /\ k \in Nat
      BY <1>2, <2>3
    <3>2. CASE x % ChunkParts = 0
      BY <3>1, <3>2, AboveFirst
    <3>3. CASE t = <<>>
      <4>1. PICK z \in S : k <= z /\ LastOne(z)
        BY <2>3, <3>3 DEF Begun
      <4>2. z \in Nat /\ z < x
        BY <4>1
      <4>3. k \div ChunkParts <= z \div ChunkParts
        BY <3>1, <4>1, <4>2, ChunksInOrder
      <4>4. z \div ChunkParts < x \div ChunkParts
        BY <4>1, <4>2, AfterLast
      <4>5. /\ k \div ChunkParts \in Nat /\ z \div ChunkParts \in Nat /\ x \div ChunkParts \in Nat
        BY <3>1, <4>2, PartOfChunk
      <4>. QED BY <3>1, <4>3, <4>4, <4>5
    <3>4. t = <<>> \/ x % ChunkParts = 0
      <4>1. CASE b = t
        <5>1. Len(t) = 0
          BY <4>1, <1>1, <2>3
        <5>. QED BY <5>1
      <4>. QED BY <4>1
    <3>. QED BY <3>1, <3>2, <3>3, <3>4
  <2>. QED BY <1>2, <2>1, <2>2, <2>3
<1>10. ASSUME NEW i \in 1..(m + 1), \A k \in (a[i] - (a[i] % ChunkParts))..a[i] : k \notin U
       PROVE  a[i] % ChunkParts < i /\ a[i - (a[i] % ChunkParts)] = a[i] - (a[i] % ChunkParts)
  <2>1. CASE i # m + 1
    <3>1. i \in 1..m /\ b = t /\ m = Len(t)
      BY <1>0, <1>1, <1>2, <2>1
    <3>2. a[i] = t[i] /\ t[i] \in Nat
      BY <1>2, <3>1
    <3>3. PICK r : r = t[i] % ChunkParts
      OBVIOUS
    <3>4. r < i /\ t[i - r] = t[i] - r
      BY <1>10, <3>1, <3>2, <3>3 DEF Begun
    <3>5. r \in Nat
      BY <1>0, <3>2, <3>3
    <3>6. i - r \in 1..m
      BY <1>2, <3>1, <3>4, <3>5
    <3>7. a[i - r] = t[i - r]
      BY <1>2, <3>1, <3>6
    <3>. QED BY <3>2, <3>3, <3>4, <3>7
  <2>2. CASE i = m + 1 /\ x % ChunkParts = 0
    <3>1. a[i] = x
      BY <1>2, <2>2
    <3>2. i - 0 = i /\ x - 0 = x /\ 0 < i
      BY <1>2, <2>2
    <3>. QED BY <2>2, <3>1, <3>2
  <2>3. CASE i = m + 1 /\ x % ChunkParts # 0
    <3>1. a[i] = x /\ b = t /\ m = Len(t)
      BY <1>1, <1>2, <2>3
    <3>2. PICK r : r = x % ChunkParts
      OBVIOUS
    <3>3. /\ x - 1 \in Nat /\ (x - 1) % ChunkParts = r - 1 /\ ~LastOne(x - 1)
      BY <2>3, <3>2, PartBefore
    <3>4. r \in Nat \ {0} /\ r <= x
      BY <1>0, <2>3, <3>2
    <3>5. x - 1 \in S
      <4>1. x - 1 \in (x - r)..x /\ x - 1 \in 0..(x - 1)
        BY <3>4, OneBack
      <4>2. x - 1 \notin U
        BY <1>10, <3>1, <3>2, <4>1
      <4>. QED BY <4>1, <4>2
    <3>6. t # <<>>
      <4>. SUFFICES ASSUME t = <<>> PROVE FALSE
        OBVIOUS
      <4>1. PICK z \in S : x - 1 <= z /\ LastOne(z)
        BY <3>5 DEF Begun
      <4>2. z \in Nat /\ z < x
        BY <4>1
      <4>3. z = x - 1
        BY <4>1, <4>2
      <4>. QED BY <3>3, <4>1, <4>3
    <3>7. m \in 1..m /\ 1 \in 1..m
      BY <1>2, <3>1, <3>6
    <3>8. t[m] = x - 1
      <4>1. t[1] <= x - 1 /\ t[m] <= x - 1 /\ t[m] \in Nat /\ t[1] \in Nat
        BY <1>2, <1>4, <3>1, <3>7
      <4>2. x - 1 \in ToSet(t)
        BY <3>5, <3>6, <4>1 DEF Begun
      <4>3. PICK j \in 1..m : t[j] = x - 1
        BY <3>1, <4>2 DEF ToSet
      <4>4. CASE j < m
        <5>1. t[j] < t[m]
          BY <1>3, <3>1, <3>7, <4>4, ClimbsTo
        <5>. QED BY <4>1, <4>3, <5>1
      <4>. QED BY <1>2, <4>3, <4>4
    <3>9. PICK y, w : y = x - 1 /\ w = r - 1
      OBVIOUS
    <3>10. /\ y \in Nat /\ w \in Nat /\ y % ChunkParts = w /\ t[m] = y /\ y - w = x - r
           /\ \A k \in (y - w)..y : k \in (x - r)..x
      <4>1. y \in Nat /\ w \in Nat /\ y % ChunkParts = w /\ t[m] = y
        BY <3>3, <3>4, <3>8, <3>9
      <4>2. y - w = x - r /\ y < x
        BY <1>0, <3>4, <3>5, <3>9
      <4>3. (y - w)..y \subseteq (x - r)..x
        BY <1>0, <3>4, <4>1, <4>2
      <4>. QED BY <4>1, <4>2, <4>3
    <3>11. \A k \in (t[m] - (t[m] % ChunkParts))..t[m] : k \notin U
      BY <1>10, <3>1, <3>2, <3>10
    <3>12. w < m /\ t[m - w] = y - w
      BY <3>1, <3>7, <3>10, <3>11 DEF Begun
    <3>15. w \in Nat /\ w = r - 1 /\ w < m /\ m \in Nat /\ r \in Nat
      BY <1>2, <3>4, <3>9, <3>10, <3>12
    <3>13. r < m + 1 /\ (m + 1) - r = m - w /\ m - w \in 1..m
      BY <3>15
    <3>14. a[m - w] = t[m - w]
      BY <1>2, <3>1, <3>13
    <3>. QED BY <2>3, <3>1, <3>2, <3>10, <3>12, <3>13, <3>14
  <2>. QED BY <2>1, <2>2, <2>3
<1>. QED BY <1>1, <1>2, <1>5, <1>6, <1>9, <1>10 DEF Begun

\* When its last part has come nothing is begun.
LEMMA BegunEnds ==
  ASSUME NEW S \in SUBSET Nat, NEW U \in SUBSET Nat, NEW x \in S,
         LastOne(x), \A s \in S : s <= x
  PROVE  Begun(<<>>, S, U)
<1>1. Len(<<>>) = 0 /\ ToSet(<<>>) = {} /\ Climbs(<<>>)
  BY DEF ToSet, Climbs
<1>2. \A k \in S : \E m \in S : k <= m /\ LastOne(m) /\ \A j \in S : j <= m
  OBVIOUS
<1>. QED BY <1>1, <1>2 DEF Begun

\* A block that is refused changes nothing of what is begun.
LEMMA BegunStays ==
  ASSUME NEW t \in Seq(Nat), NEW S \in SUBSET Nat, NEW U \in SUBSET Nat, NEW V \in SUBSET Nat,
         Begun(t, S, U), U \subseteq V
  PROVE  Begun(t, S, V)
BY DEF Begun
\* A number between a lower and an upper bound that meet.
LEMMA Pinned ==
  ASSUME NEW f \in Nat, NEW g \in Nat, NEW h \in Nat, NEW n \in Nat, NEW i \in Nat,
         h >= g + (i - 1), f + (n - 1) >= h + (n - i), g >= f
  PROVE  h = f + (i - 1)
OBVIOUS

\* Between the first and the last part of a chunk climb just its parts.
LEMMA BetweenFirstAndLast ==
  ASSUME CardAssumption, NEW t \in Seq(Nat), NEW f \in Nat, Climbs(t), Len(t) = ChunkParts,
         t[1] >= f, t[ChunkParts] = f + (ChunkParts - 1)
  PROVE  \A i \in 1..ChunkParts : t[i] = f + (i - 1)
<1>1. ChunkParts \in Nat \ {0}
  BY DEF CardAssumption
<1>. SUFFICES ASSUME NEW i \in 1..ChunkParts PROVE t[i] = f + (i - 1)
  OBVIOUS
<1>2. 1 \in 1..Len(t) /\ i \in 1..Len(t) /\ ChunkParts \in 1..Len(t)
  BY <1>1
<1>3. t[i] >= t[1] + (i - 1) /\ t[ChunkParts] >= t[i] + (ChunkParts - i)
  BY <1>1, <1>2 DEF Climbs
<1>4. PICK g, h, n : g = t[1] /\ h = t[i] /\ n = ChunkParts
  OBVIOUS
<1>5. g \in Nat /\ h \in Nat /\ n \in Nat /\ i \in Nat
  BY <1>1, <1>2, <1>4
<1>6. h >= g + (i - 1) /\ f + (n - 1) >= h + (n - i) /\ g >= f
  BY <1>3, <1>4
<1>7. h = f + (i - 1)
  BY <1>5, <1>6, Pinned
<1>. QED BY <1>4, <1>7

\* A chunk of the right length that ends with a last part is whole, or each of its parts is
\* of a chunk that has lost one.
LEMMA WholeOrTouched ==
  ASSUME CardAssumption, NEW t \in Seq(Nat), NEW S \in SUBSET Nat, NEW U \in SUBSET Nat,
         Begun(t, S, U), Len(t) = ChunkParts, LastOne(t[ChunkParts]),
         \A i \in 1..(ChunkParts - 1) : ~LastOne(t[i]),
         \A k \in 0..(t[ChunkParts] - 1) : k \in S \cup U
  PROVE  \/ \A i \in 1..ChunkParts : t[i] = (t[1] \div ChunkParts) * ChunkParts + (i - 1)
         \/ \A i \in 1..ChunkParts : \E p \in 0..(ChunkParts - 1) :
              (t[i] \div ChunkParts) * ChunkParts + p \in U
<1>0. ChunkParts \in Nat \ {0} /\ Climbs(t)
  BY DEF CardAssumption, Begun
<1>1. PICK x, c, d : x = t[ChunkParts] /\ c = x \div ChunkParts /\ d = t[1] \div ChunkParts
  OBVIOUS
<1>2. 1 \in 1..Len(t) /\ ChunkParts \in 1..Len(t) /\ x \in Nat /\ t[1] \in Nat
  BY <1>0, <1>1
<1>3. c \in Nat /\ c * ChunkParts \in Nat /\ x = c * ChunkParts + (ChunkParts - 1)
  BY <1>1, <1>2, PartOfChunk DEF LastOne
<1>4. d \in Nat /\ d * ChunkParts \in Nat /\ d * ChunkParts <= t[1]
  <2>1. t[1] = d * ChunkParts + (t[1] % ChunkParts) /\ t[1] % ChunkParts \in 0..(ChunkParts - 1)
        /\ d \in Nat /\ d * ChunkParts \in Nat
    BY <1>1, <1>2, PartOfChunk
  <2>. QED BY <1>0, <2>1
<1>5. CASE d = c
  <2>1. t[1] >= c * ChunkParts
    BY <1>4, <1>5
  <2>2. \A i \in 1..ChunkParts : t[i] = c * ChunkParts + (i - 1)
    BY <1>0, <1>1, <1>3, <2>1, BetweenFirstAndLast
  <2>. QED BY <1>1, <1>5, <2>2
<1>6. CASE d # c
  <2>. SUFFICES ASSUME NEW i \in 1..ChunkParts
                PROVE  \E p \in 0..(ChunkParts - 1) : (t[i] \div ChunkParts) * ChunkParts + p \in U
    OBVIOUS
  <2>1. i \in 1..Len(t) /\ t[i] \in Nat
    BY <1>0
  <2>2. PICK e, r : e = t[i] \div ChunkParts /\ r = t[i] % ChunkParts
    OBVIOUS
  <2>3. e \in Nat /\ e * ChunkParts \in Nat /\ t[i] = e * ChunkParts + r /\ r \in 0..(ChunkParts - 1)
    BY <2>1, <2>2, PartOfChunk
  <2>4. t[1] <= t[i] /\ t[i] <= x
    <3>1. t[i] >= t[1] + (i - 1) /\ x >= t[i] + (ChunkParts - i)
      BY <1>0, <1>1, <1>2, <2>1 DEF Climbs
    <3>. QED BY <1>0, <1>2, <2>1, <3>1
  <2>5. e <= c
    BY <1>1, <1>2, <2>1, <2>2, <2>4, ChunksInOrder
  <2>6. CASE e < c
    <3>1. PICK y : y = e * ChunkParts + (ChunkParts - 1)
      OBVIOUS
    <3>2. ChunkParts - 1 \in 0..(ChunkParts - 1)
      BY <1>0
    <3>3. LastOne(y) /\ y \in Nat
      BY <2>3, <3>1, <3>2, NumberOfPart DEF LastOne
    <3>4. e * ChunkParts + ChunkParts <= c * ChunkParts
      BY <1>3, <2>3, <2>6, ChunkAbove
    <3>5. y < x /\ t[i] <= y
      BY <1>0, <1>3, <2>3, <3>1, <3>4
    <3>6. y \notin S
      <4>. SUFFICES ASSUME y \in S PROVE FALSE
        OBVIOUS
      <4>1. t # <<>> /\ y >= t[1]
        BY <1>2, <2>1, <2>4, <3>3, <3>5
      <4>2. y \in ToSet(t)
        BY <4>1 DEF Begun
      <4>3. PICK j \in 1..ChunkParts : t[j] = y
        BY <4>2 DEF ToSet
      <4>4. j # ChunkParts
        BY <1>1, <1>2, <3>3, <3>5, <4>3
      <4>5. j \in 1..(ChunkParts - 1)
        BY <1>0, <4>4
      <4>. QED BY <3>3, <4>3, <4>5
    <3>7. y \in 0..(x - 1)
      BY <1>2, <3>3, <3>5
    <3>8. y \in U
      BY <1>1, <3>6, <3>7
    <3>. QED BY <2>2, <3>1, <3>2, <3>8
  <2>7. CASE e = c
    <3>. SUFFICES ASSUME \A p \in 0..(ChunkParts - 1) : c * ChunkParts + p \notin U PROVE FALSE
      BY <2>2, <2>7
    <3>1. x % ChunkParts = ChunkParts - 1
      BY <1>1 DEF LastOne
    <3>2. ASSUME NEW m \in (x - (ChunkParts - 1))..x PROVE m \notin U
      <4>1. PICK p : p = m - c * ChunkParts
        OBVIOUS
      <4>2. p \in 0..(ChunkParts - 1) /\ m = c * ChunkParts + p
        BY <1>0, <1>3, <4>1
      <4>. QED BY <4>2
    <3>3. ChunkParts - 1 < ChunkParts
          /\ t[ChunkParts - (ChunkParts - 1)] = x - (ChunkParts - 1)
      BY <1>1, <1>2, <3>1, <3>2 DEF Begun
    <3>4. ChunkParts - (ChunkParts - 1) = 1
      BY <1>0
    <3>5. t[1] = c * ChunkParts + 0 /\ 0 \in 0..(ChunkParts - 1)
      BY <1>0, <1>3, <3>3, <3>4
    <3>6. (c * ChunkParts + 0) \div ChunkParts = c
      BY <1>3, <3>5, NumberOfPart
    <3>. QED BY <1>1, <1>6, <3>5, <3>6
  <2>. QED BY <1>3, <2>3, <2>5, <2>6, <2>7
<1>. QED BY <1>5, <1>6

\* The parser is at the last part of chunk c, with t; nothing of c was refused, nor the end before.
LastPartOf(t, S, U, c) ==
  /\ Begun(t, S, U) /\ t # <<>> /\ LastOne(t[Len(t)]) /\ c = t[Len(t)] \div ChunkParts
  /\ \A i \in 1..(Len(t) - 1) : ~LastOne(t[i])
  /\ \A k \in 0..(t[Len(t)] - 1) : k \in S \cup U
LostNothing(U, c) ==
  /\ \A p \in 0..(ChunkParts - 1) : c * ChunkParts + p \notin U
  /\ c > 0 => (c - 1) * ChunkParts + (ChunkParts - 1) \notin U
NumbersOf(c) == [i \in 1..ChunkParts |-> c * ChunkParts + (i - 1)]

\* A chunk that lost nothing, after one whose end came, is complete with its last part.
LEMMA OwedIsWhole ==
  ASSUME CardAssumption, NEW t \in Seq(Nat), NEW S \in SUBSET Nat, NEW U \in SUBSET Nat,
         NEW c \in Nat, LastPartOf(t, S, U, c), LostNothing(U, c)
  PROVE  t = NumbersOf(c)
<1>0. ChunkParts \in Nat \ {0} /\ Climbs(t) /\ Begun(t, S, U)
  BY DEF CardAssumption, Begun, LastPartOf
<1>1. PICK n, x, f : n = Len(t) /\ x = t[n] /\ f = c * ChunkParts
  OBVIOUS
<1>a. /\ n \in Nat \ {0} /\ LastOne(t[n]) /\ c = t[n] \div ChunkParts
      /\ (\A i \in 1..(n - 1) : ~LastOne(t[i])) /\ \A k \in 0..(x - 1) : k \in S \cup U
  BY <1>1 DEF LastPartOf
<1>b. /\ \A p \in 0..(ChunkParts - 1) : f + p \notin U
      /\ c > 0 => (c - 1) * ChunkParts + (ChunkParts - 1) \notin U
  BY <1>1 DEF LostNothing
<1>2. n \in 1..n /\ 1 \in 1..n /\ x \in Nat /\ t[1] \in Nat /\ Len(t) = n
  BY <1>1, <1>a
<1>3. f \in Nat /\ x = f + (ChunkParts - 1) /\ x % ChunkParts = ChunkParts - 1
  BY <1>1, <1>2, <1>a, PartOfChunk DEF LastOne
<1>4. ASSUME NEW m \in (x - (ChunkParts - 1))..x PROVE m \notin U
  <2>1. PICK p : p = m - f
    OBVIOUS
  <2>2. p \in 0..(ChunkParts - 1) /\ m = f + p
    BY <1>0, <1>3, <2>1
  <2>. QED BY <1>b, <2>2
<1>5. PICK k : k = n - (ChunkParts - 1)
  OBVIOUS
<1>6. ChunkParts - 1 < n /\ t[k] = x - (ChunkParts - 1)
  <2>1. t[n] % ChunkParts = ChunkParts - 1 /\ \A m \in (t[n] - (t[n] % ChunkParts))..t[n] : m \notin U
    BY <1>1, <1>3, <1>4
  <2>. QED BY <1>0, <1>1, <1>2, <1>5, <2>1 DEF Begun
<1>7. k \in 1..n /\ t[k] = f
  BY <1>0, <1>3, <1>5, <1>6, <1>a
<1>8. t[1] >= f
  <2>. SUFFICES ASSUME t[1] < f PROVE FALSE
    BY <1>2, <1>3
  <2>1. c # 0
    <3>. SUFFICES ASSUME c = 0 PROVE FALSE
      OBVIOUS
    <3>1. f = 0
      BY <1>0, <1>1
    <3>. QED BY <1>2, <3>1
  <2>17. PICK b : b = c - 1
    OBVIOUS
  <2>3. b \in Nat /\ b < c
    BY <2>1, <2>17
  <2>2. PICK g, y : b = c - 1 /\ g = b * ChunkParts /\ y = g + (ChunkParts - 1)
    BY <2>17
  <2>14. ChunkParts - 1 \in 0..(ChunkParts - 1)
    BY <1>0
  <2>4. y \in Nat /\ LastOne(y)
    BY <2>2, <2>3, <2>14, NumberOfPart DEF LastOne
  <2>5. g \in Nat /\ g + ChunkParts <= f
    BY <1>1, <2>2, <2>3, ChunkAbove
  <2>15. y + 1 = f
    <3>1. f = (b + 1) * ChunkParts
      BY <1>1, <2>2
    <3>2. (b + 1) * ChunkParts = g + ChunkParts
      BY <1>0, <2>2, <2>3
    <3>. QED BY <1>0, <2>2, <2>5, <3>1, <3>2
  <2>6. y < x /\ t[1] <= y /\ y \in 0..(x - 1)
    <3>1. x = f + (ChunkParts - 1) /\ f \in Nat /\ y \in Nat /\ x \in Nat /\ t[1] \in Nat
      BY <1>2, <1>3, <2>4
    <3>2. ChunkParts \in Nat \ {0}
      BY <1>0
    <3>. QED BY <2>15, <3>1, <3>2
  <2>7. y \notin U
    BY <1>b, <2>1, <2>2
  <2>8. y \in S
    BY <1>a, <2>6, <2>7
  <2>9. t # <<>>
    BY <1>2
  <2>16. y >= t[1]
    BY <1>2, <2>4, <2>6
  <2>10. y \in ToSet(t)
    BY <1>0, <2>8, <2>9, <2>16 DEF Begun
  <2>11. PICK j \in 1..n : t[j] = y
    BY <1>2, <2>10 DEF ToSet
  <2>12. j # n
    BY <1>1, <1>2, <2>4, <2>6, <2>11
  <2>13. j \in 1..(n - 1)
    BY <1>a, <2>12
  <2>. QED BY <1>a, <2>4, <2>11, <2>13
<1>9. t[k] >= t[1] + (k - 1)
  <2>1. 1 <= k /\ k \in 1..Len(t) /\ 1 \in 1..Len(t)
    BY <1>2, <1>7
  <2>. QED BY <1>0, <2>1 DEF Climbs
<1>10. k = 1
  <2>1. k \in Nat /\ k >= 1 /\ f >= t[1] + (k - 1)
    BY <1>7, <1>9
  <2>. QED BY <1>2, <1>3, <1>8, <2>1
<1>11. n = ChunkParts
  BY <1>0, <1>5, <1>10, <1>a
<1>12. \A i \in 1..ChunkParts : t[i] = f + (i - 1)
  BY <1>0, <1>1, <1>3, <1>8, <1>11, BetweenFirstAndLast
<1>13. t = [i \in 1..ChunkParts |-> t[i]]
  BY <1>2, <1>11
<1>. QED BY <1>1, <1>12, <1>13 DEF NumbersOf
-----------------------------------------------------------------------------
(* The way of the blocks of a link. *)

\* The head of a queue comes after all that was parsed, and all before it was parsed or lost.
LEMMA HeadInTurn ==
  ASSUME NEW S \in SUBSET Nat, NEW q \in Seq(Nat), NEW U \in SUBSET Nat, NEW R \in SUBSET Nat,
         NEW N \in Nat, InTurn(S, q, U, R, N), q # <<>>
  PROVE  /\ q[1] \in Nat /\ q[1] < N
         /\ \A s \in S : s < q[1]
         /\ q[1] \notin U
         /\ \A k \in 0..(q[1] - 1) : k \in S \cup U
<1>1. 1 \in 1..Len(q) /\ q[1] \in Nat
  OBVIOUS
<1>2. q[1] \in ToSet(q) /\ q[1] \in 0..(N - 1)
  BY <1>1 DEF InTurn, ToSet
<1>3. (\A s \in S : s < q[1]) /\ q[1] \notin U /\ \A r \in R : q[1] < r
  BY <1>1 DEF InTurn
<1>4. ASSUME NEW i \in 1..Len(q) PROVE q[1] <= q[i] /\ q[i] \in Nat
  <2>1. Climbs(q) /\ 1 <= i
    BY DEF InTurn
  <2>2. q[i] >= q[1] + (i - 1)
    BY <1>1, <2>1 DEF Climbs
  <2>3. q[i] \in Nat
    OBVIOUS
  <2>. QED BY <1>1, <2>1, <2>2, <2>3
<1>5. ASSUME NEW k \in 0..(q[1] - 1) PROVE k \in S \cup U
  <2>1. k \in 0..(N - 1)
    BY <1>1, <1>2
  <2>2. k \in S \cup ToSet(q) \cup U \cup R
    BY <2>1 DEF InTurn
  <2>3. k \notin R
    BY <1>1, <1>3
  <2>4. k \notin ToSet(q)
    <3>. SUFFICES ASSUME NEW i \in 1..Len(q), q[i] = k PROVE FALSE
      BY DEF ToSet
    <3>. QED BY <1>1, <1>4
  <2>. QED BY <2>2, <2>3, <2>4
<1>. QED BY <1>1, <1>2, <1>3, <1>5

\* It is parsed.
LEMMA TakenInTurn ==
  ASSUME NEW S \in SUBSET Nat, NEW q \in Seq(Nat), NEW U \in SUBSET Nat, NEW R \in SUBSET Nat,
         NEW N \in Nat, InTurn(S, q, U, R, N), q # <<>>
  PROVE  InTurn(S \cup {q[1]}, Tail(q), U, R, N)
<1>1. PICK a : a = Tail(q)
  OBVIOUS
<1>2. /\ a \in Seq(Nat) /\ Len(a) = Len(q) - 1 /\ Len(q) \in Nat \ {0} /\ Climbs(a)
      /\ \A i \in 1..Len(a) : i + 1 \in 1..Len(q) /\ a[i] = q[i + 1]
  BY <1>1, ClimbsTail DEF InTurn
<1>3. q[1] \in Nat /\ q[1] \notin U /\ 1 \in 1..Len(q)
  <2>1. q # <<>> /\ 1 \in 1..Len(q)
    BY <1>2
  <2>2. q[1] \in Nat /\ q[1] \notin U
    BY <2>1, HeadInTurn
  <2>. QED BY <2>1, <2>2
<1>4. \A i \in 1..Len(a) : q[1] < a[i]
  <2>. SUFFICES ASSUME NEW i \in 1..Len(a) PROVE q[1] < a[i]
    OBVIOUS
  <2>1. i + 1 \in 1..Len(q) /\ a[i] = q[i + 1] /\ 1 < i + 1
    BY <1>2
  <2>2. Climbs(q)
    BY DEF InTurn
  <2>. QED BY <1>3, <2>1, <2>2, ClimbsTo
<1>5. ToSet(q) = {q[1]} \cup ToSet(a)
  <2>1. DOMAIN q = 1..Len(q) /\ DOMAIN a = 1..Len(a)
    BY <1>2
  <2>2. ASSUME NEW e \in ToSet(q) PROVE e \in {q[1]} \cup ToSet(a)
    <3>1. PICK i \in 1..Len(q) : q[i] = e
      BY <2>1 DEF ToSet
    <3>2. CASE i # 1
      <4>1. i - 1 \in 1..Len(a) /\ (i - 1) + 1 = i
        BY <1>2, <3>2
      <4>2. a[i - 1] = e
        BY <1>2, <3>1, <4>1
      <4>. QED BY <2>1, <4>1, <4>2 DEF ToSet
    <3>. QED BY <3>1, <3>2
  <2>3. ASSUME NEW e \in ToSet(a) PROVE e \in ToSet(q)
    <3>1. PICK i \in 1..Len(a) : a[i] = e
      BY <2>1 DEF ToSet
    <3>. QED BY <1>2, <2>1, <3>1 DEF ToSet
  <2>4. q[1] \in ToSet(q)
    BY <1>3, <2>1 DEF ToSet
  <2>. QED BY <2>2, <2>3, <2>4
<1>6. (S \cup {q[1]}) \cup ToSet(a) \cup U \cup R = 0..(N - 1)
  <2>1. S \cup ToSet(q) \cup U \cup R = 0..(N - 1)
    BY DEF InTurn
  <2>. QED BY <1>5, <2>1
<1>7. \A s \in S : (\A i \in 1..Len(a) : s < a[i]) /\ (\A r \in R : s < r) /\ s \notin U
  BY <1>2 DEF InTurn
<1>8. \A i \in 1..Len(a) : a[i] \notin U /\ \A r \in R : a[i] < r
  BY <1>2 DEF InTurn
<1>9. \A r \in R : q[1] < r
  BY <1>3 DEF InTurn
<1>10. \A u \in U : \A r \in R : u < r
  BY DEF InTurn
<1>. QED BY <1>1, <1>2, <1>3, <1>4, <1>6, <1>7, <1>8, <1>9, <1>10 DEF InTurn

\* The first of the unread blocks is put into the queue.
LEMMA QueuedInTurn ==
  ASSUME NEW S \in SUBSET Nat, NEW q \in Seq(Nat), NEW U \in SUBSET Nat, NEW R \in SUBSET Nat,
         NEW N \in Nat, InTurn(S, q, U, R, N), NEW x \in R, \A r \in R : x <= r
  PROVE  InTurn(S, Append(q, x), U, R \ {x}, N)
<1>1. PICK a, n : a = Append(q, x) /\ n = Len(q)
  OBVIOUS
<1>2. /\ n \in Nat /\ a \in Seq(Nat) /\ Len(a) = n + 1 /\ a[n + 1] = x /\ DOMAIN a = 1..(n + 1)
      /\ \A i \in 1..n : a[i] = q[i] /\ q[i] \in Nat
  BY <1>1
<1>3. DOMAIN q = 1..n /\ n + 1 \in 1..(n + 1) /\ \A i \in 1..n : i \in 1..(n + 1)
  BY <1>1, <1>2
<1>4. Climbs(a)
  <2>1. Climbs(q) /\ \A i \in 1..Len(q) : q[i] < x
    BY DEF InTurn
  <2>. QED BY <1>1, <2>1, ClimbsOn
<1>5. ToSet(a) = ToSet(q) \cup {x}
  <2>1. ASSUME NEW e \in ToSet(a) PROVE e \in ToSet(q) \cup {x}
    <3>1. PICK i \in 1..(n + 1) : a[i] = e
      BY <1>2 DEF ToSet
    <3>2. i \in 1..n \/ i = n + 1
      BY <1>2
    <3>. QED BY <1>2, <1>3, <3>1, <3>2 DEF ToSet
  <2>2. ToSet(q) \subseteq ToSet(a)
    BY <1>2, <1>3 DEF ToSet
  <2>3. x \in ToSet(a)
    BY <1>2, <1>3 DEF ToSet
  <2>. QED BY <2>1, <2>2, <2>3
<1>6. S \cup ToSet(a) \cup U \cup (R \ {x}) = 0..(N - 1)
  <2>1. S \cup ToSet(q) \cup U \cup R = 0..(N - 1)
    BY DEF InTurn
  <2>. QED BY <1>5, <2>1
<1>7. \A s \in S : s < x /\ (\A i \in 1..n : s < q[i]) /\ (\A r \in R : s < r) /\ s \notin U
  BY <1>1 DEF InTurn
<1>8. \A i \in 1..n : q[i] \notin U /\ \A r \in R : q[i] < r
  BY <1>1 DEF InTurn
<1>9. \A u \in U : \A r \in R : u < r
  BY DEF InTurn
<1>10. x \notin U /\ \A r \in R \ {x} : x < r
  BY <1>9
<1>11. ASSUME NEW s \in S, NEW i \in 1..(n + 1) PROVE s < a[i]
  <2>1. i \in 1..n \/ i = n + 1
    BY <1>2
  <2>. QED BY <1>2, <1>7, <2>1
<1>12. ASSUME NEW i \in 1..(n + 1) PROVE a[i] \notin U /\ \A r \in R \ {x} : a[i] < r
  <2>1. i \in 1..n \/ i = n + 1
    BY <1>2
  <2>. QED BY <1>2, <1>8, <1>10, <2>1
<1>13. \A s \in S : (\A i \in 1..Len(a) : s < a[i]) /\ (\A r \in R \ {x} : s < r) /\ s \notin U
  BY <1>2, <1>7, <1>11
<1>14. \A u \in U : \A r \in R \ {x} : u < r
  BY <1>9
<1>. QED BY <1>1, <1>2, <1>4, <1>6, <1>12, <1>13, <1>14 DEF InTurn

\* Or it is refused.
LEMMA RefusedInTurn ==
  ASSUME NEW S \in SUBSET Nat, NEW q \in Seq(Nat), NEW U \in SUBSET Nat, NEW R \in SUBSET Nat,
         NEW N \in Nat, InTurn(S, q, U, R, N), NEW x \in R, \A r \in R : x <= r
  PROVE  InTurn(S, q, U \cup {x}, R \ {x}, N)
<1>1. S \cup ToSet(q) \cup (U \cup {x}) \cup (R \ {x}) = 0..(N - 1)
  <2>1. S \cup ToSet(q) \cup U \cup R = 0..(N - 1)
    BY DEF InTurn
  <2>. QED BY <2>1
<1>2. \A s \in S : (\A i \in 1..Len(q) : s < q[i]) /\ (\A r \in R : s < r) /\ s \notin U /\ s # x
  BY DEF InTurn
<1>3. \A i \in 1..Len(q) : q[i] \notin U /\ (\A r \in R : q[i] < r) /\ q[i] # x
  BY DEF InTurn
<1>4. \A u \in U \cup {x} : \A r \in R \ {x} : u < r
  BY DEF InTurn
<1>5. Climbs(q)
  BY DEF InTurn
<1>. QED BY <1>1, <1>2, <1>3, <1>4, <1>5 DEF InTurn

\* The card writes the next.
LEMMA WrittenInTurn ==
  ASSUME NEW S \in SUBSET Nat, NEW q \in Seq(Nat), NEW U \in SUBSET Nat, NEW R \in SUBSET Nat,
         NEW N \in Nat, InTurn(S, q, U, R, N)
  PROVE  InTurn(S, q, U, R \cup {N}, N + 1)
<1>1. S \cup ToSet(q) \cup U \cup R = 0..(N - 1)
  BY DEF InTurn
<1>2. 0..((N + 1) - 1) = (0..(N - 1)) \cup {N} /\ \A k \in 0..(N - 1) : k < N
  OBVIOUS
<1>3. S \cup ToSet(q) \cup U \cup (R \cup {N}) = 0..((N + 1) - 1)
  BY <1>1, <1>2
<1>4. (\A s \in S : s < N) /\ (\A u \in U : u < N) /\ (\A e \in ToSet(q) : e < N)
  BY <1>1, <1>2
<1>5. \A i \in 1..Len(q) : q[i] < N
  <2>1. \A i \in 1..Len(q) : q[i] \in ToSet(q)
    BY DEF ToSet
  <2>. QED BY <1>4, <2>1
<1>6. \A s \in S : (\A i \in 1..Len(q) : s < q[i]) /\ (\A r \in R : s < r) /\ s \notin U
  BY DEF InTurn
<1>7. \A i \in 1..Len(q) : q[i] \notin U /\ \A r \in R : q[i] < r
  BY DEF InTurn
<1>8. (\A u \in U : \A r \in R : u < r) /\ Climbs(q)
  BY DEF InTurn
<1>. QED BY <1>3, <1>4, <1>5, <1>6, <1>7, <1>8 DEF InTurn
-----------------------------------------------------------------------------
(* The ring. *)

RingAddresses == 0..(RingBlocks - 1)
CardTypes ==
  /\ memory \in [RingAddresses -> Blocks \cup {NoBlock}]
  /\ written \in Nat /\ readPos \in Nat /\ seenPos \in Nat /\ freed \in Int
  /\ readerAt \in {"poll", "queue"} /\ overrun \in BOOLEAN
  /\ nextBlock \in [CardLinks -> Nat]
  /\ addresses \in [CardLinks -> Seq(RingAddresses)]
  /\ pieces \in [CardLinks -> Seq(RingAddresses)]
  /\ chunks \in [CardLinks -> Seq(Seq(Blocks \cup {NoBlock}))]
  /\ parsed \in [CardLinks -> SUBSET (Blocks \cup {NoBlock})]

LEMMA SameSequence ==
  ASSUME NEW m \in Nat, NEW r \in Seq(Nat), NEW s \in Seq(Nat), Len(r) = m, Len(s) = m,
         \A i \in 1..m : r[i] = s[i]
  PROVE  r = s
BY SeqEqual

\* Positions less than a ring apart have different addresses.
LEMMA AddressesDiffer ==
  ASSUME CardAssumption, NEW p \in Nat, NEW r \in Nat, p < r, r < p + RingBlocks
  PROVE  Address(p) # Address(r)
<1>0. PICK M : M = RingBlocks
  OBVIOUS
<1>1. M \in Nat \ {0}
  BY <1>0 DEF CardAssumption
<1>. SUFFICES ASSUME p % M = r % M PROVE FALSE
  BY <1>0 DEF Address
<1>2. PICK u, v, e : u = p \div M /\ v = r \div M /\ e = p % M
  OBVIOUS
<1>3. u \in Nat /\ e \in Nat /\ p = M * u + e
  BY <1>1, <1>2
<1>4. v \in Nat /\ r = M * v + e
  BY <1>1, <1>2
<1>5. PICK f, g : f = M * u /\ g = M * v
  OBVIOUS
<1>6. f \in Nat /\ g \in Nat
  BY <1>1, <1>3, <1>4, <1>5
<1>7. ~(v <= u)
  <2>. SUFFICES ASSUME v <= u PROVE FALSE
    OBVIOUS
  <2>1. g <= f
    BY <1>1, <1>3, <1>4, <1>5
  <2>. QED BY <1>3, <1>4, <1>5, <1>6, <2>1
<1>8. g >= f + M
  <2>1. v >= u + 1
    BY <1>3, <1>4, <1>7
  <2>2. M * v >= M * (u + 1) /\ M * (u + 1) = M * u + M
    BY <1>1, <1>3, <1>4, <2>1
  <2>. QED BY <1>1, <1>5, <1>6, <2>2
<1>. QED BY <1>0, <1>1, <1>3, <1>4, <1>5, <1>6, <1>8

\* An address is one of the ring.
LEMMA AddressInRing ==
  ASSUME CardAssumption, NEW p \in Nat
  PROVE  Address(p) \in RingAddresses
BY DEF CardAssumption, Address, RingAddresses

\* How many blocks the reader finds: all there are, or none if the ring is full.
LEMMA FoundBlocks ==
  ASSUME CardAssumption, NEW w \in Nat, readPos \in Nat, readPos <= w, w <= readPos + RingBlocks,
         Available(w) >= BlockThreshold
  PROVE  w < readPos + RingBlocks
<1>0. PICK M, d : M = RingBlocks /\ d = w - readPos
  OBVIOUS
<1>1. M \in Nat \ {0} /\ d \in 0..M /\ BlockThreshold \in Nat \ {0}
  BY <1>0 DEF CardAssumption
<1>2. d # M
  <2>. SUFFICES ASSUME d = M PROVE FALSE
    OBVIOUS
  <2>1. d % M = 0
    BY <1>1
  <2>2. Available(w) = 0
    BY <1>0, <2>1 DEF Available
  <2>. QED BY <1>1, <2>2
<1>. QED BY <1>0, <1>1, <1>2

\* The ring is empty at the start.
LEMMA RingInitially == CardAssumption /\ CardInit => RingRight /\ UnreadRight
BY DEF CardAssumption, CardInit, RingRight, UnreadRight

\* The reader stays behind the card, and not by more than the ring.
LEMMA RingSteps ==
  ASSUME CardAssumption, CardTypes, RingRight, CardNext
  PROVE  RingRight'
<1>0. /\ RingBlocks \in Nat \ {0} /\ MarginBlocks \in Nat /\ written \in Nat /\ readPos \in Nat
      /\ seenPos \in Nat /\ freed \in Int
  BY DEF CardAssumption, CardTypes
<1>1. CASE PollCard
  <2>1. UNCHANGED <<freed, readPos, written>>
    BY <1>1 DEF PollCard, card
  <2>2. readerAt' = "queue" => seenPos' = written /\ Available(written) >= BlockThreshold
    <3>1. Available(written) \in Int /\ BlockThreshold \in Int
      BY <1>0 DEF Available, CardAssumption
    <3>. QED BY <1>1, <3>1 DEF PollCard
  <2>3. readerAt' = "queue" => written < readPos + RingBlocks
    BY <1>0, <2>2, FoundBlocks DEF RingRight
  <2>. QED BY <1>0, <2>1, <2>2, <2>3 DEF RingRight
<1>2. CASE QueueBlock
  <2>1. /\ readerAt = "queue" /\ Address(readPos) # Address(seenPos)
        /\ readPos' = readPos + 1 /\ UNCHANGED <<freed, written, seenPos, readerAt>>
    BY <1>2 DEF QueueBlock, card
  <2>2. readPos # seenPos
    BY <2>1
  <2>. QED BY <1>0, <2>1, <2>2 DEF RingRight
<1>3. CASE GiveBack
  <2>1. /\ readerAt = "queue" /\ Address(readPos) = Address(seenPos)
        /\ freed' = seenPos - MarginBlocks /\ readerAt' = "poll" /\ UNCHANGED <<written, readPos>>
    BY <1>3 DEF GiveBack
  <2>2. seenPos = readPos
    <3>. SUFFICES ASSUME readPos < seenPos PROVE FALSE
      BY <1>0, <2>1 DEF RingRight
    <3>1. Address(readPos) # Address(seenPos)
      BY <1>0, <2>1, AddressesDiffer DEF RingRight
    <3>. QED BY <2>1, <3>1
  <2>. QED BY <1>0, <2>1, <2>2 DEF RingRight
<1>4. ASSUME NEW l \in CardLinks, CardWrites(l) PROVE RingRight'
  <2>1. /\ written - freed < RingBlocks /\ written' = written + 1
        /\ UNCHANGED <<freed, seenPos, readPos, readerAt>>
    BY <1>4 DEF CardWrites
  <2>. QED BY <1>0, <2>1 DEF RingRight
<1>5. ASSUME NEW l \in CardLinks, TakeBlock(l) PROVE RingRight'
  <2>1. UNCHANGED <<written, freed, seenPos, readPos, readerAt>>
    BY <1>5 DEF TakeBlock, card
  <2>. QED BY <2>1 DEF RingRight
<1>. QED BY <1>1, <1>2, <1>3, <1>4, <1>5 DEF CardNext

\* What a write leaves of the unread blocks, and adds.
LEMMA WriteIs ==
  ASSUME CardAssumption, CardTypes, RingRight, NEW l \in CardLinks, CardWrites(l)
  PROVE  /\ nextBlock[l] \in Nat
         /\ memory'[Address(written)] = Blk(l, nextBlock[l])
         /\ written' = written + 1 /\ readPos' = readPos /\ written \in readPos'..(written' - 1)
         /\ \A a \in RingAddresses : a # Address(written) => memory'[a] = memory[a]
         /\ \A p \in readPos..(written - 1) : memory'[Address(p)] = memory[Address(p)]
         /\ nextBlock' = [nextBlock EXCEPT ![l] = nextBlock[l] + 1]
<1>1. /\ memory' = [memory EXCEPT ![Address(written)] = Blk(l, nextBlock[l])]
      /\ written' = written + 1 /\ readPos' = readPos /\ written - freed < RingBlocks
      /\ nextBlock' = [nextBlock EXCEPT ![l] = nextBlock[l] + 1]
  BY DEF CardWrites, Blk
<1>2. /\ RingBlocks \in Nat \ {0} /\ written \in Nat /\ readPos \in Nat /\ freed \in Int
      /\ nextBlock[l] \in Nat /\ DOMAIN memory = RingAddresses
  BY DEF CardAssumption, CardTypes
<1>3. Address(written) \in RingAddresses
  BY <1>2, AddressInRing
<1>4. ASSUME NEW p \in readPos..(written - 1) PROVE memory'[Address(p)] = memory[Address(p)]
  <2>1. p \in Nat /\ p < written /\ written < p + RingBlocks
    BY <1>1, <1>2 DEF RingRight
  <2>2. Address(p) # Address(written) /\ Address(p) \in RingAddresses
    BY <1>2, <2>1, AddressesDiffer, AddressInRing
  <2>. QED BY <1>1, <1>2, <2>2
<1>5. written \in readPos'..(written' - 1)
  BY <1>1, <1>2 DEF RingRight
<1>6. \A a \in RingAddresses : a # Address(written) => memory'[a] = memory[a]
  BY <1>1, <1>2
<1>. QED BY <1>1, <1>2, <1>3, <1>4, <1>5, <1>6

\* What the reader takes from the ring is the first block it has not read.
LEMMA QueueIs ==
  ASSUME CardAssumption, CardTypes, RingRight, QueueBlock
  PROVE  /\ readPos \in readPos..(written - 1) /\ readPos' = readPos + 1
         /\ UNCHANGED <<written, memory, nextBlock, overrun, pieces, chunks, parsed>>
<1>1. /\ readerAt = "queue" /\ Address(readPos) # Address(seenPos)
      /\ readPos' = readPos + 1
      /\ UNCHANGED <<written, memory, nextBlock, overrun, pieces, chunks, parsed>>
  BY DEF QueueBlock, card, dispatchers
<1>2. readPos # seenPos
  BY <1>1
<1>3. written \in Nat /\ readPos \in Nat /\ seenPos \in Nat
  BY DEF CardTypes
<1>. QED BY <1>1, <1>2, <1>3 DEF RingRight

\* Unread blocks are left as they are, in order.
LEMMA UnreadSteps ==
  ASSUME CardAssumption, CardTypes, RingRight, UnreadRight, CardNext
  PROVE  UnreadRight'
<1>0. written \in Nat /\ readPos \in Nat /\ nextBlock \in [CardLinks -> Nat]
  BY DEF CardTypes
<1>1. ASSUME NEW l \in CardLinks, CardWrites(l) PROVE UnreadRight'
  <2>1. PICK N : N = nextBlock[l]
    OBVIOUS
  <2>2. /\ N \in Nat /\ memory'[Address(written)] = Blk(l, N)
        /\ written' = written + 1 /\ readPos' = readPos
        /\ \A p \in readPos..(written - 1) : memory'[Address(p)] = memory[Address(p)]
        /\ nextBlock' = [nextBlock EXCEPT ![l] = N + 1]
    BY <1>1, <2>1, WriteIs
  <2>3. ASSUME NEW p \in readPos'..(written' - 1) PROVE p \in readPos..(written - 1) \/ p = written
    BY <1>0, <2>2
  <2>4. Blk(l, N) \in CardBlocks /\ Blk(l, N).n = N /\ Blk(l, N).link = l
    BY <2>2 DEF Blk, CardBlocks
  <2>5. \A k \in CardLinks : nextBlock[k] <= nextBlock'[k] /\ nextBlock[k] \in Nat /\ nextBlock'[k] \in Nat
    BY <1>0, <2>1, <2>2
  <2>6. nextBlock'[l] = N + 1
    BY <1>0, <2>2
  <2>7. ASSUME NEW p \in readPos'..(written' - 1)
        PROVE  /\ memory'[Address(p)] \in CardBlocks
               /\ memory'[Address(p)].n < nextBlock'[memory'[Address(p)].link]
    <3>1. CASE p \in readPos..(written - 1)
      <4>1. PICK b : b = memory[Address(p)]
        OBVIOUS
      <4>2. b \in CardBlocks /\ b.n < nextBlock[b.link] /\ memory'[Address(p)] = b
        BY <2>2, <3>1, <4>1 DEF UnreadRight
      <4>3. b.n \in Nat /\ b.link \in CardLinks
        BY <4>2 DEF CardBlocks
      <4>. QED BY <2>5, <4>2, <4>3
    <3>2. CASE p = written
      BY <2>2, <2>4, <2>6, <3>2
    <3>. QED BY <2>3, <3>1, <3>2
  <2>8. ASSUME NEW p \in readPos'..(written' - 1), NEW r \in readPos'..(written' - 1), p < r,
               memory'[Address(p)].link = memory'[Address(r)].link
        PROVE  memory'[Address(p)].n < memory'[Address(r)].n
    <3>1. p \in readPos..(written - 1)
      BY <1>0, <2>2, <2>3, <2>8
    <3>2. CASE r \in readPos..(written - 1)
      BY <2>2, <2>8, <3>1, <3>2 DEF UnreadRight
    <3>3. CASE r = written
      <4>1. memory'[Address(r)] = Blk(l, N) /\ memory'[Address(p)] = memory[Address(p)]
        BY <2>2, <3>1, <3>3
      <4>2. memory[Address(p)].link = l /\ memory[Address(p)].n < nextBlock[memory[Address(p)].link]
        BY <2>4, <2>8, <3>1, <4>1 DEF UnreadRight
      <4>. QED BY <2>1, <2>4, <4>1, <4>2
    <3>. QED BY <2>3, <3>2, <3>3
  <2>. QED BY <2>7, <2>8 DEF UnreadRight
<1>2. CASE QueueBlock
  <2>1. readPos' = readPos + 1 /\ UNCHANGED <<written, memory, nextBlock>>
    BY <1>2, QueueIs
  <2>2. \A p \in readPos'..(written - 1) : p \in readPos..(written - 1)
    BY <1>0, <2>1
  <2>. QED BY <2>1, <2>2 DEF UnreadRight
<1>3. CASE PollCard \/ GiveBack \/ \E l \in CardLinks : TakeBlock(l)
  <2>1. UNCHANGED <<readPos, written, memory, nextBlock>>
    BY <1>3 DEF PollCard, GiveBack, TakeBlock, card
  <2>. QED BY <2>1 DEF UnreadRight
<1>. QED BY <1>1, <1>2, <1>3 DEF CardNext
\* Every variable of the card's reader keeps its type.
LEMMA CardTypesHold ==
  ASSUME CardAssumption
  PROVE  /\ CardInit => CardTypes
         /\ CardTypes /\ RingRight /\ UnreadRight /\ CardNext => CardTypes'
<1>0. RingBlocks \in Nat \ {0} /\ MarginBlocks \in Nat
  BY DEF CardAssumption
<1>1. ASSUME CardInit PROVE CardTypes
  <2>1. memory \in [RingAddresses -> Blocks \cup {NoBlock}]
    BY <1>1 DEF CardInit, RingAddresses
  <2>2. /\ addresses \in [CardLinks -> Seq(RingAddresses)]
        /\ pieces \in [CardLinks -> Seq(RingAddresses)]
        /\ chunks \in [CardLinks -> Seq(Seq(Blocks \cup {NoBlock}))]
    <3>1. PICK e : e = [l \in CardLinks |-> <<>>]
      OBVIOUS
    <3>2. \A D : e \in [CardLinks -> Seq(D)]
      BY <3>1
    <3>. QED BY <1>1, <3>1, <3>2 DEF CardInit
  <2>3. parsed \in [CardLinks -> SUBSET (Blocks \cup {NoBlock})] /\ nextBlock \in [CardLinks -> Nat]
    BY <1>1 DEF CardInit
  <2>4. /\ written \in Nat /\ readPos \in Nat /\ seenPos \in Nat /\ freed \in Int
        /\ readerAt \in {"poll", "queue"}
    BY <1>1 DEF CardInit
  <2>5. overrun \in BOOLEAN
    BY <1>1, Zenon DEF CardInit
  <2>. QED BY <2>1, <2>2, <2>3, <2>4, <2>5 DEF CardTypes
<1>2. ASSUME CardTypes, RingRight, UnreadRight, CardNext PROVE CardTypes'
  <2>0. PICK B : B = Blocks \cup {NoBlock}
    OBVIOUS
  <2>1. CASE PollCard
    BY <1>2, <2>1 DEF PollCard, CardTypes, card, dispatchers
  <2>2. CASE GiveBack
    <3>1. freed' \in Int
      BY <1>0, <1>2, <2>2 DEF GiveBack, CardTypes
    <3>. QED BY <1>2, <2>2, <3>1 DEF GiveBack, CardTypes, dispatchers
  <2>3. CASE QueueBlock
    <3>1. /\ readPos \in readPos..(written - 1) /\ readPos' = readPos + 1
          /\ UNCHANGED <<written, memory, nextBlock, overrun, pieces, chunks, parsed>>
      BY <1>2, <2>3, QueueIs
    <3>2. PICK b, a : b = memory[Address(readPos)] /\ a = Address(readPos)
      OBVIOUS
    <3>3. a \in RingAddresses
      BY <1>2, <3>2, AddressInRing DEF CardTypes
    <3>4. b.link \in CardLinks
      <4>1. b \in CardBlocks
        BY <1>2, <3>1, <3>2 DEF UnreadRight
      <4>. QED BY <4>1 DEF CardBlocks
    <3>5. \/ addresses' = addresses
          \/ addresses' = [addresses EXCEPT ![b.link] = Append(addresses[b.link], a)]
      BY <2>3, <3>2 DEF QueueBlock
    <3>6. addresses' \in [CardLinks -> Seq(RingAddresses)]
      <4>1. addresses \in [CardLinks -> Seq(RingAddresses)]
        BY <1>2 DEF CardTypes
      <4>2. addresses[b.link] \in Seq(RingAddresses)
        BY <3>4, <4>1
      <4>3. Append(addresses[b.link], a) \in Seq(RingAddresses)
        BY <3>3, <4>2
      <4>. QED BY <3>4, <3>5, <4>1, <4>3
    <3>7. UNCHANGED <<freed, seenPos, readerAt>>
      BY <2>3 DEF QueueBlock, card
    <3>8. overrun' \in BOOLEAN /\ readerAt' = readerAt
      BY <1>2, <3>1, <3>7, Zenon DEF CardTypes
    <3>9. readPos' \in Nat
      BY <1>2, <3>1 DEF CardTypes
    <3>. QED BY <1>2, <3>1, <3>6, <3>7, <3>8, <3>9 DEF CardTypes
  <2>4. ASSUME NEW l \in CardLinks, CardWrites(l) PROVE CardTypes'
    <3>1. PICK a, N : a = Address(written) /\ N = nextBlock[l]
      OBVIOUS
    <3>2. a \in RingAddresses /\ N \in Nat
      BY <1>2, <3>1, AddressInRing DEF CardTypes
    <3>3. Blk(l, N) \in Blocks
      BY <3>2 DEF Blk, Blocks
    <3>4. memory' = [memory EXCEPT ![a] = Blk(l, N)] /\ nextBlock' = [nextBlock EXCEPT ![l] = N + 1]
      BY <2>4, <3>1 DEF CardWrites, Blk
    <3>5. memory' \in [RingAddresses -> Blocks \cup {NoBlock}]
      BY <1>2, <3>2, <3>3, <3>4 DEF CardTypes
    <3>6. nextBlock' \in [CardLinks -> Nat]
      BY <1>2, <3>2, <3>4 DEF CardTypes
    <3>7. written' \in Nat /\ overrun' \in BOOLEAN
      BY <1>2, <2>4 DEF CardWrites, CardTypes
    <3>8. UNCHANGED <<freed, seenPos, readPos, readerAt, addresses, pieces, chunks, parsed>>
      BY <2>4 DEF CardWrites, dispatchers
    <3>. QED BY <1>2, <3>5, <3>6, <3>7, <3>8 DEF CardTypes
  <2>5. ASSUME NEW l \in CardLinks, TakeBlock(l) PROVE CardTypes'
    <3>1. PICK a, b : a = Head(addresses[l]) /\ b = memory[a]
      OBVIOUS
    <3>2. a \in RingAddresses /\ Tail(addresses[l]) \in Seq(RingAddresses)
      BY <1>2, <2>5, <3>1 DEF TakeBlock, CardTypes
    <3>3. addresses' \in [CardLinks -> Seq(RingAddresses)]
      BY <1>2, <2>5, <3>2 DEF TakeBlock, CardTypes
    <3>4. b \in Blocks \cup {NoBlock}
      BY <1>2, <3>1, <3>2 DEF CardTypes
    <3>5. parsed' \in [CardLinks -> SUBSET (Blocks \cup {NoBlock})]
      <4>1. parsed' = [parsed EXCEPT ![l] = parsed[l] \cup {b}]
        BY <2>5, <3>1 DEF TakeBlock
      <4>2. parsed[l] \cup {b} \in SUBSET (Blocks \cup {NoBlock})
        BY <1>2, <3>4 DEF CardTypes
      <4>. QED BY <1>2, <4>1, <4>2 DEF CardTypes
    <3>6. PICK begun \in {pieces[l]} \cup (IF FirstPart(b) THEN {<<>>} ELSE {}) :
            IF LastPart(b)
            THEN ChunkProcessed(l, Append(begun, a)) /\ pieces' = [pieces EXCEPT ![l] = <<>>]
            ELSE pieces' = [pieces EXCEPT ![l] = Append(begun, a)] /\ UNCHANGED chunks
      BY <2>5, <3>1 DEF TakeBlock
    <3>7. begun \in Seq(RingAddresses)
      <4>1. begun = pieces[l] \/ begun = <<>>
        BY <3>6
      <4>2. pieces[l] \in Seq(RingAddresses)
        BY <1>2 DEF CardTypes
      <4>3. CASE begun = pieces[l]
        BY <4>2, <4>3
      <4>4. CASE begun = <<>>
        BY <4>4
      <4>. QED BY <4>1, <4>3, <4>4
    <3>8. Append(begun, a) \in Seq(RingAddresses)
      BY <3>2, <3>7
    <3>9. pieces' \in [CardLinks -> Seq(RingAddresses)]
      <4>1. pieces' = [pieces EXCEPT ![l] = <<>>] \/ pieces' = [pieces EXCEPT ![l] = Append(begun, a)]
        BY <3>6
      <4>2. <<>> \in Seq(RingAddresses)
        OBVIOUS
      <4>. QED BY <1>2, <3>8, <4>1, <4>2 DEF CardTypes
    <3>10. chunks' \in [CardLinks -> Seq(Seq(Blocks \cup {NoBlock}))]
      <4>1. PICK parts : parts = Append(begun, a)
        OBVIOUS
      <4>2. PICK s : s = [i \in DOMAIN parts |-> memory[parts[i]]]
        OBVIOUS
      <4>3. chunks' = chunks \/ chunks' = [chunks EXCEPT ![l] = Append(chunks[l], s)]
        BY <3>6, <4>1, <4>2 DEF ChunkProcessed
      <4>4. s \in Seq(Blocks \cup {NoBlock})
        <5>1. parts \in Seq(RingAddresses)
          BY <3>8, <4>1
        <5>2. \A i \in 1..Len(parts) : memory[parts[i]] \in Blocks \cup {NoBlock}
          BY <1>2, <5>1 DEF CardTypes
        <5>3. s \in [1..Len(parts) -> Blocks \cup {NoBlock}] /\ Len(parts) \in Nat
          BY <4>2, <5>1, <5>2
        <5>. QED BY <5>3
      <4>5. Append(chunks[l], s) \in Seq(Seq(Blocks \cup {NoBlock}))
        BY <1>2, <4>4 DEF CardTypes
      <4>. QED BY <1>2, <4>3, <4>5 DEF CardTypes
    <3>11. UNCHANGED <<memory, written, freed, nextBlock, overrun, seenPos, readPos, readerAt>>
      BY <2>5 DEF TakeBlock, card
    <3>. QED BY <1>2, <3>3, <3>5, <3>9, <3>10, <3>11 DEF CardTypes
  <2>. QED BY <1>2, <2>1, <2>2, <2>3, <2>4, <2>5 DEF CardNext
<1>. QED BY <1>1, <1>2
-----------------------------------------------------------------------------
(* The numbers at addresses. *)

\* They are a sequence of numbers.
LEMMA NumbersAre ==
  ASSUME NEW l, NEW ads \in Seq(RingAddresses), AllOf(l, ads)
  PROVE  /\ NumbersAt(ads) \in Seq(Nat) /\ Len(NumbersAt(ads)) = Len(ads)
         /\ \A i \in 1..Len(ads) : /\ NumbersAt(ads)[i] = memory[ads[i]].n
                                  /\ memory[ads[i]] = Blk(l, NumbersAt(ads)[i])
<1>1. Len(ads) \in Nat
  OBVIOUS
<1>2. \A i \in 1..Len(ads) : /\ memory[ads[i]].n \in Nat /\ memory[ads[i]] = Blk(l, memory[ads[i]].n)
  BY DEF AllOf, CardBlocks, Blk
<1>3. PICK q : q = NumbersAt(ads)
  OBVIOUS
<1>4. q = [i \in 1..Len(ads) |-> memory[ads[i]].n]
  BY <1>3 DEF NumbersAt
<1>5. q \in [1..Len(ads) -> Nat] /\ \A i \in 1..Len(ads) : q[i] = memory[ads[i]].n
  BY <1>2, <1>4
<1>6. q \in Seq(Nat) /\ Len(q) = Len(ads)
  BY <1>1, <1>5
<1>. QED BY <1>2, <1>3, <1>5, <1>6

\* With one more address there is one more number.
LEMMA NumbersOn ==
  ASSUME NEW l, NEW ads \in Seq(RingAddresses), NEW a \in RingAddresses, AllOf(l, ads),
         NEW k \in Nat, memory[a] = Blk(l, k), l \in CardLinks
  PROVE  /\ Append(ads, a) \in Seq(RingAddresses) /\ AllOf(l, Append(ads, a))
         /\ NumbersAt(Append(ads, a)) = Append(NumbersAt(ads), k)
<1>1. PICK bs, n, q : bs = Append(ads, a) /\ n = Len(ads) /\ q = NumbersAt(ads)
  OBVIOUS
<1>2. /\ n \in Nat /\ bs \in Seq(RingAddresses) /\ Len(bs) = n + 1 /\ bs[n + 1] = a
      /\ \A i \in 1..n : bs[i] = ads[i]
  BY <1>1
<1>3. memory[a] \in CardBlocks /\ memory[a].link = l /\ memory[a].n = k
  BY DEF Blk, CardBlocks
<1>4. \A i \in 1..(n + 1) : i \in 1..n \/ i = n + 1
  BY <1>2
<1>5. AllOf(l, bs)
  <2>1. \A i \in 1..n : memory[ads[i]] \in CardBlocks /\ memory[ads[i]].link = l
    BY <1>1 DEF AllOf
  <2>. QED BY <1>2, <1>3, <1>4, <2>1 DEF AllOf
<1>6. q \in Seq(Nat) /\ Len(q) = n /\ \A i \in 1..n : q[i] = memory[ads[i]].n
  BY <1>1, NumbersAre
<1>7. PICK r, s : r = NumbersAt(bs) /\ s = Append(q, k)
  OBVIOUS
<1>8. /\ r \in Seq(Nat) /\ Len(r) = n + 1 /\ \A i \in 1..(n + 1) : r[i] = memory[bs[i]].n
  BY <1>2, <1>5, <1>7, NumbersAre
<1>9. /\ s \in Seq(Nat) /\ Len(s) = n + 1 /\ s[n + 1] = k /\ \A i \in 1..n : s[i] = q[i]
  BY <1>6, <1>7
<1>10. ASSUME NEW i \in 1..(n + 1) PROVE r[i] = s[i]
  <2>1. i \in 1..n \/ i = n + 1
    BY <1>4
  <2>2. n + 1 \in 1..(n + 1)
    BY <1>2
  <2>3. CASE i \in 1..n
    BY <1>2, <1>6, <1>8, <1>9, <2>3
  <2>4. CASE i = n + 1
    BY <1>2, <1>3, <1>8, <1>9, <2>2, <2>4
  <2>. QED BY <2>1, <2>3, <2>4
<1>11. r = s
  BY <1>2, <1>8, <1>9, <1>10, SameSequence
<1>. QED BY <1>1, <1>2, <1>5, <1>7, <1>11

\* Without the first address the first number is gone.
LEMMA NumbersOff ==
  ASSUME NEW l, NEW ads \in Seq(RingAddresses), AllOf(l, ads), ads # <<>>
  PROVE  /\ Tail(ads) \in Seq(RingAddresses) /\ AllOf(l, Tail(ads))
         /\ NumbersAt(ads) # <<>> /\ NumbersAt(Tail(ads)) = Tail(NumbersAt(ads))
         /\ Head(ads) \in RingAddresses /\ memory[Head(ads)] = Blk(l, NumbersAt(ads)[1])
         /\ NumbersAt(ads)[1] \in Nat
<1>1. PICK bs, n, q : bs = Tail(ads) /\ n = Len(ads) /\ q = NumbersAt(ads)
  OBVIOUS
<1>2. /\ n \in Nat \ {0} /\ bs \in Seq(RingAddresses) /\ Len(bs) = n - 1
      /\ \A i \in 1..(n - 1) : bs[i] = ads[i + 1]
      /\ Head(ads) = ads[1] /\ ads[1] \in RingAddresses
  BY <1>1
<1>3. \A i \in 1..(n - 1) : i + 1 \in 1..n
  BY <1>2
<1>4. AllOf(l, bs)
  <2>1. \A i \in 1..n : memory[ads[i]] \in CardBlocks /\ memory[ads[i]].link = l
    BY <1>1 DEF AllOf
  <2>. QED BY <1>2, <1>3, <2>1 DEF AllOf
<1>5. /\ q \in Seq(Nat) /\ Len(q) = n
      /\ \A i \in 1..n : q[i] = memory[ads[i]].n /\ memory[ads[i]] = Blk(l, q[i])
  BY <1>1, NumbersAre
<1>6. PICK r, s : r = NumbersAt(bs) /\ s = Tail(q)
  OBVIOUS
<1>7. r \in Seq(Nat) /\ Len(r) = n - 1 /\ \A i \in 1..(n - 1) : r[i] = memory[bs[i]].n
  BY <1>2, <1>4, <1>6, NumbersAre
<1>8. s \in Seq(Nat) /\ Len(s) = n - 1 /\ \A i \in 1..(n - 1) : s[i] = q[i + 1]
  BY <1>2, <1>5, <1>6
<1>9. \A i \in 1..(n - 1) : r[i] = s[i]
  <2>. SUFFICES ASSUME NEW i \in 1..(n - 1) PROVE r[i] = s[i]
    OBVIOUS
  <2>1. r[i] = memory[bs[i]].n /\ s[i] = q[i + 1] /\ bs[i] = ads[i + 1]
    BY <1>2, <1>3, <1>7, <1>8
  <2>2. i + 1 \in 1..n
    BY <1>2
  <2>3. q[i + 1] = memory[ads[i + 1]].n
    BY <1>5, <2>2
  <2>. QED BY <2>1, <2>3
<1>10. r = s
  BY <1>2, <1>7, <1>8, <1>9, SameSequence
<1>11. 1 \in 1..n /\ q # <<>>
  BY <1>2, <1>5
<1>12. q[1] \in Nat
  BY <1>5, <1>11
<1>. QED BY <1>1, <1>2, <1>4, <1>5, <1>6, <1>10, <1>11, <1>12
-----------------------------------------------------------------------------
(* The steps of the flow. *)

\* A written block is unread.
LEMMA UnreadWritten ==
  ASSUME CardAssumption, CardTypes, RingRight, NEW l \in CardLinks, CardWrites(l)
  PROVE  /\ UnreadOf(l)' = UnreadOf(l) \cup {nextBlock[l]}
         /\ \A k \in CardLinks : k # l => UnreadOf(k)' = UnreadOf(k)
<1>1. PICK N : N = nextBlock[l]
  OBVIOUS
<1>2. /\ N \in Nat /\ memory'[Address(written)] = Blk(l, N)
      /\ written' = written + 1 /\ readPos' = readPos /\ written \in readPos'..(written' - 1)
      /\ \A p \in readPos..(written - 1) : memory'[Address(p)] = memory[Address(p)]
  BY <1>1, WriteIs
<1>3. written \in Nat /\ readPos \in Nat
  BY DEF CardTypes
<1>4. ASSUME NEW k \in CardLinks, NEW m \in Nat
      PROVE  (\E p \in readPos'..(written' - 1) : memory'[Address(p)] = Blk(k, m))
               <=> ((\E p \in readPos..(written - 1) : memory[Address(p)] = Blk(k, m))
                    \/ (k = l /\ m = N))
  <2>1. \A p \in readPos'..(written' - 1) : p \in readPos..(written - 1) \/ p = written
    BY <1>2, <1>3
  <2>2. \A p \in readPos..(written - 1) : p \in readPos'..(written' - 1)
    BY <1>2, <1>3
  <2>3. Blk(l, N) = Blk(k, m) <=> k = l /\ m = N
    BY DEF Blk
  <2>. QED BY <1>2, <2>1, <2>2, <2>3
<1>5. \A k \in CardLinks : UnreadOf(k)'
        = {m \in Nat : \E p \in readPos'..(written' - 1) : memory'[Address(p)] = Blk(k, m)}
  BY DEF UnreadOf, Address, Blk
<1>6. \A k \in CardLinks : \A m : m \in UnreadOf(k)' <=> m \in UnreadOf(k) \/ (k = l /\ m = N)
  BY <1>2, <1>4, <1>5 DEF UnreadOf
<1>. QED BY <1>1, <1>6

\* The block the reader takes is the first unread one of its link.
LEMMA UnreadQueued ==
  ASSUME CardAssumption, CardTypes, RingRight, UnreadRight, QueueBlock,
         NEW b, b = memory[Address(readPos)]
  PROVE  /\ b.link \in CardLinks /\ b.n \in Nat /\ b = Blk(b.link, b.n)
         /\ b.n \in UnreadOf(b.link) /\ \A r \in UnreadOf(b.link) : b.n <= r
         /\ UnreadOf(b.link)' = UnreadOf(b.link) \ {b.n}
         /\ \A k \in CardLinks : k # b.link => UnreadOf(k)' = UnreadOf(k)
<1>1. /\ readPos \in readPos..(written - 1) /\ readPos' = readPos + 1
      /\ UNCHANGED <<written, memory>>
  BY QueueIs
<1>2. written \in Nat /\ readPos \in Nat
  BY DEF CardTypes
<1>3. b \in CardBlocks
  BY <1>1 DEF UnreadRight
<1>4. PICK l, x : l = b.link /\ x = b.n
  OBVIOUS
<1>5. l \in CardLinks /\ x \in Nat /\ b = Blk(l, x)
  BY <1>3, <1>4 DEF CardBlocks, Blk
<1>6. x \in UnreadOf(l)
  BY <1>1, <1>5 DEF UnreadOf
<1>7. ASSUME NEW p \in readPos'..(written' - 1), memory[Address(p)].link = l
      PROVE  x < memory[Address(p)].n
  <2>1. p \in readPos..(written - 1) /\ readPos < p
    BY <1>1, <1>2
  <2>. QED BY <1>1, <1>4, <1>7, <2>1 DEF UnreadRight
<1>8. ASSUME NEW k \in CardLinks, NEW m \in Nat
      PROVE  (\E p \in readPos'..(written' - 1) : memory[Address(p)] = Blk(k, m))
               <=> ((\E p \in readPos..(written - 1) : memory[Address(p)] = Blk(k, m))
                    /\ ~(k = l /\ m = x))
  <2>1. \A p \in readPos..(written - 1) : p \in readPos'..(written' - 1) \/ p = readPos
    BY <1>1, <1>2
  <2>2. \A p \in readPos'..(written' - 1) : p \in readPos..(written - 1)
    BY <1>1, <1>2
  <2>3. Blk(l, x) = Blk(k, m) <=> k = l /\ m = x
    BY DEF Blk
  <2>4. ASSUME NEW p \in readPos'..(written' - 1), memory[Address(p)] = Blk(k, m)
        PROVE  ~(k = l /\ m = x)
    <3>. SUFFICES ASSUME k = l, m = x PROVE FALSE
      OBVIOUS
    <3>1. memory[Address(p)].link = l /\ memory[Address(p)].n = x
      BY <2>4 DEF Blk
    <3>2. x < x
      BY <1>7, <3>1
    <3>. QED BY <1>5, <3>2
  <2>. QED BY <1>5, <2>1, <2>2, <2>3, <2>4
<1>9. \A k \in CardLinks : UnreadOf(k)'
        = {m \in Nat : \E p \in readPos'..(written' - 1) : memory[Address(p)] = Blk(k, m)}
  BY <1>1 DEF UnreadOf, Address, Blk
<1>10. \A k \in CardLinks : \A m : m \in UnreadOf(k)' <=> m \in UnreadOf(k) /\ ~(k = l /\ m = x)
  BY <1>8, <1>9 DEF UnreadOf
<1>11. \A r \in UnreadOf(l) : x <= r
  <2>. SUFFICES ASSUME NEW r \in UnreadOf(l), r # x PROVE x <= r
    BY <1>5
  <2>1. r \in UnreadOf(l)' /\ r \in Nat
    BY <1>5, <1>10 DEF UnreadOf
  <2>2. PICK p \in readPos'..(written' - 1) : memory[Address(p)] = Blk(l, r)
    BY <1>5, <1>9, <2>1
  <2>3. memory[Address(p)].link = l /\ memory[Address(p)].n = r
    BY <2>2 DEF Blk
  <2>4. x < r
    BY <1>7, <2>3
  <2>. QED BY <1>5, <2>1, <2>4
<1>12. UnreadOf(l)' = UnreadOf(l) \ {x}
  BY <1>5, <1>10
<1>13. \A k \in CardLinks : k # l => UnreadOf(k)' = UnreadOf(k)
  BY <1>10
<1>. QED BY <1>4, <1>5, <1>6, <1>11, <1>12, <1>13

\* As long as the card writes over nothing in use, dispatchers see what they did.
LEMMA SameNumbers ==
  ASSUME CardAssumption, CardTypes, RingRight, NEW l \in CardLinks, CardWrites(l), ~overrun'
  PROVE  /\ ~overrun
         /\ \A k \in CardLinks :
              /\ \A i \in 1..Len(addresses[k]) : memory'[addresses[k][i]] = memory[addresses[k][i]]
              /\ \A i \in 1..Len(pieces[k]) : memory'[pieces[k][i]] = memory[pieces[k][i]]
<1>1. ~overrun /\ Address(written) \notin InUse
  BY DEF CardWrites
<1>2. \A a \in RingAddresses : a # Address(written) => memory'[a] = memory[a]
  BY WriteIs
<1>3. ASSUME NEW k \in CardLinks
      PROVE  /\ \A i \in 1..Len(addresses[k]) : memory'[addresses[k][i]] = memory[addresses[k][i]]
             /\ \A i \in 1..Len(pieces[k]) : memory'[pieces[k][i]] = memory[pieces[k][i]]
  <2>1. addresses[k] \in Seq(RingAddresses) /\ pieces[k] \in Seq(RingAddresses)
    BY DEF CardTypes
  <2>2. /\ \A i \in 1..Len(addresses[k]) : addresses[k][i] \in InUse /\ addresses[k][i] \in RingAddresses
        /\ \A i \in 1..Len(pieces[k]) : pieces[k][i] \in InUse /\ pieces[k][i] \in RingAddresses
    <3>1. ToSet(addresses[k]) \subseteq InUse /\ ToSet(pieces[k]) \subseteq InUse
      BY DEF InUse
    <3>2. /\ \A i \in 1..Len(addresses[k]) : addresses[k][i] \in ToSet(addresses[k])
          /\ \A i \in 1..Len(pieces[k]) : pieces[k][i] \in ToSet(pieces[k])
      BY <2>1 DEF ToSet
    <3>. QED BY <2>1, <3>1, <3>2
  <2>. QED BY <1>1, <1>2, <2>2
<1>. QED BY <1>1, <1>3

\* The flow of a link with nothing changed.
LEMMA FlowSame ==
  ASSUME NEW k \in CardLinks, FlowRight(k),
         addresses'[k] = addresses[k], pieces'[k] = pieces[k], parsed'[k] = parsed[k],
         \A i \in 1..Len(addresses[k]) : memory'[addresses[k][i]] = memory[addresses[k][i]],
         \A i \in 1..Len(pieces[k]) : memory'[pieces[k][i]] = memory[pieces[k][i]],
         RefusedOf(k)' = RefusedOf(k), UnreadOf(k)' = UnreadOf(k), nextBlock'[k] = nextBlock[k]
  PROVE  FlowRight(k)'
<1>1. NumbersAt(addresses[k])' = NumbersAt(addresses[k])
  BY DEF NumbersAt
<1>2. NumbersAt(pieces[k])' = NumbersAt(pieces[k])
  BY DEF NumbersAt
<1>3. ParsedOf(k)' = ParsedOf(k)
  BY DEF ParsedOf, Blk
<1>4. AllOf(k, addresses[k])' /\ AllOf(k, pieces[k])'
  BY DEF FlowRight, AllOf, CardBlocks
<1>5. \A b \in parsed'[k] : b \in CardBlocks /\ b.link = k
  BY DEF FlowRight
<1>6. InTurn(ParsedOf(k), NumbersAt(addresses[k]), RefusedOf(k), UnreadOf(k), nextBlock[k])'
  BY <1>1, <1>3 DEF FlowRight, InTurn, Climbs, ToSet
<1>7. Begun(NumbersAt(pieces[k]), ParsedOf(k), RefusedOf(k))' /\ NoneLast(NumbersAt(pieces[k]))'
  BY <1>2, <1>3 DEF FlowRight, Begun, Climbs, NoneLast, LastOne, ToSet
<1>. QED BY <1>4, <1>5, <1>6, <1>7 DEF FlowRight, CardBlocks
\* What a dispatcher does with a block: its number is the next in turn, it goes on with the
\* pieces it has or begins, and at a last part it writes the chunk if its length is right.
DispatcherTook(l, x, parts) ==
  /\ parts \in Seq(RingAddresses) /\ AllOf(l, parts) /\ Len(parts) \in Nat \ {0}
  /\ Begun(NumbersAt(parts), ParsedOf(l) \cup {x}, RefusedOf(l))
  /\ NumbersAt(parts)[Len(parts)] = x
  /\ \A i \in 1..(Len(parts) - 1) : ~LastOne(NumbersAt(parts)[i])
  /\ LastOne(x) => /\ pieces'[l] = <<>>
                   /\ chunks'[l] = IF Len(parts) = ChunkParts
                                   THEN Append(chunks[l], [i \in 1..Len(parts) |-> memory[parts[i]]])
                                   ELSE chunks[l]
  /\ ~LastOne(x) => pieces'[l] = parts /\ chunks'[l] = chunks[l]
  /\ parts = Append(pieces[l], Head(addresses[l])) \/ Len(parts) = 1

\* A dispatcher that takes a block does just that, with its own queue and pieces only.
LEMMA TakeIs ==
  ASSUME CardAssumption, CardTypes, NEW l \in CardLinks, FlowRight(l), TakeBlock(l)
  PROVE  /\ UNCHANGED <<memory, written, readPos, nextBlock, overrun, unqueued>>
         /\ addresses[l] # <<>> /\ addresses' = [addresses EXCEPT ![l] = Tail(addresses[l])]
         /\ \A k \in CardLinks : k # l => /\ addresses'[k] = addresses[k] /\ pieces'[k] = pieces[k]
                                          /\ chunks'[k] = chunks[k] /\ parsed'[k] = parsed[k]
         /\ \E x \in Nat, parts \in Seq(RingAddresses) :
              /\ x = NumbersAt(addresses[l])[1] /\ DispatcherTook(l, x, parts)
              /\ memory[Head(addresses[l])] = Blk(l, x)
              /\ parsed'[l] = parsed[l] \cup {Blk(l, x)}
<1>1. PICK a, b, ads : ads = addresses[l] /\ a = Head(ads) /\ b = memory[a]
  OBVIOUS
<1>2. ads \in Seq(RingAddresses) /\ ads # <<>> /\ AllOf(l, ads) /\ addresses' = [addresses EXCEPT ![l] = Tail(ads)]
  BY <1>1 DEF TakeBlock, CardTypes, FlowRight
<1>3. PICK q, x : q = NumbersAt(ads) /\ x = q[1]
  OBVIOUS
<1>4. /\ q \in Seq(Nat) /\ q # <<>> /\ x \in Nat /\ a \in RingAddresses /\ b = Blk(l, x)
  BY <1>1, <1>2, <1>3, NumbersAre, NumbersOff
<1>5. b.n = x /\ b.link = l
  BY <1>4 DEF Blk
<1>6. PICK begun \in {pieces[l]} \cup (IF FirstPart(b) THEN {<<>>} ELSE {}) :
        IF LastPart(b)
        THEN ChunkProcessed(l, Append(begun, a)) /\ pieces' = [pieces EXCEPT ![l] = <<>>]
        ELSE pieces' = [pieces EXCEPT ![l] = Append(begun, a)] /\ UNCHANGED chunks
  BY <1>1 DEF TakeBlock
<1>7. begun = pieces[l] \/ (begun = <<>> /\ x % ChunkParts = 0)
  BY <1>5, <1>6 DEF FirstPart
<1>8. pieces[l] \in Seq(RingAddresses) /\ AllOf(l, pieces[l])
  BY DEF CardTypes, FlowRight
<1>9. begun \in Seq(RingAddresses) /\ AllOf(l, begun)
  <2>1. CASE begun = pieces[l]
    BY <1>8, <2>1
  <2>2. CASE begun = <<>>
    BY <2>2 DEF AllOf
  <2>. QED BY <1>7, <2>1, <2>2
<1>10. PICK parts : parts = Append(begun, a)
  OBVIOUS
<1>11. PICK u, t, old, n : /\ u = NumbersAt(begun) /\ t = NumbersAt(parts)
                           /\ old = NumbersAt(pieces[l]) /\ n = Len(begun)
  OBVIOUS
<1>12. /\ parts \in Seq(RingAddresses) /\ AllOf(l, parts) /\ t = Append(u, x)
       /\ u \in Seq(Nat) /\ Len(u) = n /\ old \in Seq(Nat) /\ Len(old) = Len(pieces[l])
  <2>1. u \in Seq(Nat) /\ Len(u) = n
    BY <1>9, <1>11, NumbersAre
  <2>2. old \in Seq(Nat) /\ Len(old) = Len(pieces[l])
    BY <1>8, <1>11, NumbersAre
  <2>3. memory[a] = Blk(l, x)
    BY <1>1, <1>4
  <2>4. parts \in Seq(RingAddresses) /\ AllOf(l, parts) /\ t = Append(u, x)
    BY <1>4, <1>9, <1>10, <1>11, <2>3, NumbersOn
  <2>. QED BY <2>1, <2>2, <2>4
<1>13. n \in Nat /\ Len(parts) = n + 1 /\ t[n + 1] = x /\ \A i \in 1..n : t[i] = u[i]
  BY <1>9, <1>10, <1>11, <1>12
<1>14. u = old \/ (u = <<>> /\ x % ChunkParts = 0)
  <2>1. CASE begun = pieces[l]
    BY <1>11, <2>1
  <2>2. CASE begun = <<>> /\ x % ChunkParts = 0
    <3>1. Len(u) = 0
      BY <1>11, <1>12, <2>2
    <3>. QED BY <1>12, <2>2, <3>1
  <2>. QED BY <1>7, <2>1, <2>2
<1>15. PICK S, U : S = ParsedOf(l) /\ U = RefusedOf(l)
  OBVIOUS
<1>16. S \in SUBSET Nat /\ U \in SUBSET Nat
  BY <1>15 DEF ParsedOf, RefusedOf
<1>17. Begun(old, S, U) /\ NoneLast(old) /\ InTurn(S, q, U, UnreadOf(l), nextBlock[l])
  BY <1>1, <1>3, <1>11, <1>15 DEF FlowRight
<1>18. UnreadOf(l) \in SUBSET Nat /\ nextBlock[l] \in Nat
  BY DEF UnreadOf, CardTypes
<1>19. (\A s \in S : s < x) /\ x \notin U /\ \A k \in 0..(x - 1) : k \in S \cup U
  <2>1. PICK R, N : R = UnreadOf(l) /\ N = nextBlock[l]
    OBVIOUS
  <2>2. R \in SUBSET Nat /\ N \in Nat /\ InTurn(S, q, U, R, N)
    BY <1>17, <1>18, <2>1
  <2>3. (\A s \in S : s < q[1]) /\ q[1] \notin U /\ \A k \in 0..(q[1] - 1) : k \in S \cup U
    BY <1>4, <1>16, <2>2, HeadInTurn
  <2>. QED BY <1>3, <2>3
<1>20. Begun(t, S \cup {x}, U)
  BY <1>4, <1>12, <1>14, <1>16, <1>17, <1>19, BegunGrows
<1>21. \A i \in 1..n : ~LastOne(t[i])
  <2>1. CASE u = old
    BY <1>12, <1>13, <1>17, <2>1 DEF NoneLast
  <2>2. CASE u = <<>>
    BY <1>12, <2>2
  <2>. QED BY <1>14, <2>1, <2>2
<1>22. LastPart(b) <=> LastOne(x)
  BY <1>5 DEF LastPart, LastOne
<1>23. ASSUME LastOne(x)
       PROVE  /\ pieces' = [pieces EXCEPT ![l] = <<>>]
              /\ chunks' = IF Len(parts) = ChunkParts
                           THEN [chunks EXCEPT ![l] = Append(chunks[l], [i \in 1..Len(parts) |-> memory[parts[i]]])]
                           ELSE chunks
  <2>1. ChunkProcessed(l, parts) /\ pieces' = [pieces EXCEPT ![l] = <<>>]
    BY <1>6, <1>10, <1>22, <1>23
  <2>2. DOMAIN parts = 1..Len(parts)
    BY <1>12
  <2>. QED BY <2>1, <2>2 DEF ChunkProcessed, RightSize
<1>24. ASSUME ~LastOne(x) PROVE pieces' = [pieces EXCEPT ![l] = parts] /\ chunks' = chunks
  BY <1>6, <1>10, <1>22, <1>24
<1>25. l \in DOMAIN pieces /\ l \in DOMAIN chunks /\ l \in DOMAIN addresses /\ l \in DOMAIN parsed
  BY DEF CardTypes
<1>26. parts = Append(pieces[l], a) \/ Len(parts) = 1
  <2>1. CASE begun = <<>>
    BY <1>11, <1>13, <2>1
  <2>. QED BY <1>7, <1>10, <2>1
<1>27. DispatcherTook(l, x, parts)
  <2>1. Len(parts) \in Nat \ {0} /\ t[Len(parts)] = x /\ \A i \in 1..(Len(parts) - 1) : ~LastOne(t[i])
    BY <1>13, <1>21
  <2>2. LastOne(x) => /\ pieces'[l] = <<>>
                      /\ chunks'[l] = IF Len(parts) = ChunkParts
                                      THEN Append(chunks[l], [i \in 1..Len(parts) |-> memory[parts[i]]])
                                      ELSE chunks[l]
    BY <1>23, <1>25
  <2>3. ~LastOne(x) => pieces'[l] = parts /\ chunks'[l] = chunks[l]
    BY <1>24, <1>25
  <2>. QED BY <1>1, <1>11, <1>12, <1>15, <1>20, <1>26, <2>1, <2>2, <2>3 DEF DispatcherTook
<1>28. parsed' = [parsed EXCEPT ![l] = parsed[l] \cup {b}]
  BY <1>1 DEF TakeBlock
<1>29. UNCHANGED <<memory, written, readPos, nextBlock, overrun, unqueued>>
  BY DEF TakeBlock, card
<1>30. \A k \in CardLinks : k # l => /\ addresses'[k] = addresses[k] /\ pieces'[k] = pieces[k]
                                     /\ chunks'[k] = chunks[k] /\ parsed'[k] = parsed[k]
  BY <1>2, <1>23, <1>24, <1>25, <1>28 DEF CardTypes
<1>31. parsed'[l] = parsed[l] \cup {Blk(l, x)}
  BY <1>4, <1>25, <1>28
<1>. QED BY <1>1, <1>2, <1>3, <1>4, <1>12, <1>27, <1>29, <1>30, <1>31

\* What a link's dispatcher has parsed with a block more.
LEMMA ParsedOn ==
  ASSUME NEW l \in CardLinks, NEW x \in Nat, parsed'[l] = parsed[l] \cup {Blk(l, x)}
  PROVE  ParsedOf(l)' = ParsedOf(l) \cup {x}
<1>1. ParsedOf(l)' = {k \in Nat : Blk(l, k) \in parsed[l] \cup {Blk(l, x)}}
  BY DEF ParsedOf, Blk
<1>2. \A k : Blk(l, k) = Blk(l, x) <=> k = x
  BY DEF Blk
<1>. QED BY <1>1, <1>2 DEF ParsedOf

\* The flow of a link is right after its dispatcher has taken a block.
LEMMA FlowTaken ==
  ASSUME CardAssumption, CardTypes, NEW l \in CardLinks, FlowRight(l), TakeBlock(l)
  PROVE  FlowRight(l)'
<1>1. PICK x \in Nat, parts \in Seq(RingAddresses) :
        /\ x = NumbersAt(addresses[l])[1] /\ DispatcherTook(l, x, parts)
        /\ memory[Head(addresses[l])] = Blk(l, x)
        /\ parsed'[l] = parsed[l] \cup {Blk(l, x)}
  BY TakeIs
<1>2. /\ memory' = memory /\ written' = written /\ readPos' = readPos /\ nextBlock' = nextBlock
      /\ unqueued' = unqueued /\ addresses[l] # <<>>
      /\ addresses' = [addresses EXCEPT ![l] = Tail(addresses[l])]
  BY TakeIs
<1>3. addresses[l] \in Seq(RingAddresses) /\ AllOf(l, addresses[l]) /\ addresses'[l] = Tail(addresses[l])
  BY <1>2 DEF CardTypes, FlowRight
<1>4. PICK q : q = NumbersAt(addresses[l])
  OBVIOUS
<1>5. /\ q \in Seq(Nat) /\ q # <<>> /\ AllOf(l, Tail(addresses[l]))
      /\ NumbersAt(Tail(addresses[l])) = Tail(q)
  BY <1>2, <1>3, <1>4, NumbersAre, NumbersOff
<1>6. NumbersAt(addresses[l])' = Tail(q) /\ AllOf(l, addresses[l])'
  BY <1>2, <1>3, <1>5 DEF NumbersAt, AllOf, CardBlocks
<1>7. PICK S, U, R, N : S = ParsedOf(l) /\ U = RefusedOf(l) /\ R = UnreadOf(l) /\ N = nextBlock[l]
  OBVIOUS
<1>8. S \in SUBSET Nat /\ U \in SUBSET Nat /\ R \in SUBSET Nat /\ N \in Nat
  BY <1>7 DEF ParsedOf, RefusedOf, UnreadOf, CardTypes
<1>9. /\ ParsedOf(l)' = S \cup {x} /\ RefusedOf(l)' = U /\ UnreadOf(l)' = R /\ nextBlock'[l] = N
  <2>1. ParsedOf(l)' = S \cup {x}
    BY <1>1, <1>7, ParsedOn
  <2>. QED BY <1>2, <1>7, <2>1 DEF RefusedOf, UnreadOf, Address, Blk
<1>10. InTurn(S, q, U, R, N)
  BY <1>4, <1>7 DEF FlowRight
<1>11. InTurn(S \cup {x}, Tail(q), U, R, N) /\ (\A s \in S : s < x) /\ x \notin U
  <2>1. x = q[1]
    BY <1>1, <1>4
  <2>2. InTurn(S \cup {q[1]}, Tail(q), U, R, N)
    BY <1>5, <1>8, <1>10, TakenInTurn
  <2>3. (\A s \in S : s < q[1]) /\ q[1] \notin U
    BY <1>5, <1>8, <1>10, HeadInTurn
  <2>. QED BY <2>1, <2>2, <2>3
<1>12. InTurn(ParsedOf(l), NumbersAt(addresses[l]), RefusedOf(l), UnreadOf(l), nextBlock[l])'
  BY <1>6, <1>9, <1>11 DEF InTurn, Climbs, ToSet
<1>13. \A b \in parsed'[l] : b \in CardBlocks /\ b.link = l
  <2>1. Blk(l, x) \in CardBlocks /\ Blk(l, x).link = l
    BY DEF Blk, CardBlocks
  <2>. QED BY <1>1, <2>1 DEF FlowRight
<1>14. AllOf(l, pieces[l])' /\ Begun(NumbersAt(pieces[l]), ParsedOf(l), RefusedOf(l))'
       /\ NoneLast(NumbersAt(pieces[l]))'
  <2>1. CASE LastOne(x)
    <3>1. pieces'[l] = <<>>
      BY <1>1, <2>1 DEF DispatcherTook
    <3>2. NumbersAt(pieces[l])' = <<>>
      BY <3>1 DEF NumbersAt
    <3>3. Begun(<<>>, S \cup {x}, U)
      <4>1. \A s \in S \cup {x} : s <= x
        BY <1>1, <1>8, <1>11
      <4>2. S \cup {x} \in SUBSET Nat /\ x \in S \cup {x}
        BY <1>8
      <4>. QED BY <1>8, <2>1, <4>1, <4>2, BegunEnds
    <3>4. Begun(NumbersAt(pieces[l]), ParsedOf(l), RefusedOf(l))'
      BY <1>9, <3>2, <3>3 DEF Begun, Climbs, ToSet, LastOne
    <3>. QED BY <3>1, <3>2, <3>4 DEF AllOf, NoneLast
  <2>2. CASE ~LastOne(x)
    <3>1. pieces'[l] = parts
      BY <1>1, <2>2 DEF DispatcherTook
    <3>2. PICK t, n : t = NumbersAt(parts) /\ n = Len(parts)
      OBVIOUS
    <3>3. /\ AllOf(l, parts) /\ n \in Nat \ {0} /\ Begun(t, S \cup {x}, U) /\ t[n] = x
          /\ parts \in Seq(RingAddresses) /\ \A i \in 1..(n - 1) : ~LastOne(t[i])
      BY <1>1, <1>7, <3>2 DEF DispatcherTook
    <3>4. Len(t) = n
      BY <3>2, <3>3, NumbersAre
    <3>5. NumbersAt(pieces[l])' = t /\ AllOf(l, pieces[l])'
      BY <1>2, <3>1, <3>2, <3>3 DEF NumbersAt, AllOf, CardBlocks
    <3>6. NoneLast(t)
      <4>1. \A i \in 1..n : i \in 1..(n - 1) \/ i = n
        BY <3>3
      <4>. QED BY <2>2, <3>3, <3>4, <4>1 DEF NoneLast
    <3>7. Begun(NumbersAt(pieces[l]), ParsedOf(l), RefusedOf(l))'
      BY <1>9, <3>3, <3>5 DEF Begun, Climbs, ToSet, LastOne
    <3>8. NoneLast(NumbersAt(pieces[l]))'
      BY <3>5, <3>6 DEF NoneLast, LastOne
    <3>. QED BY <3>5, <3>7, <3>8
  <2>. QED BY <2>1, <2>2
<1>. QED BY <1>6, <1>12, <1>13, <1>14 DEF FlowRight, CardBlocks
\* The flow is right after every step.
LEMMA FlowSteps ==
  ASSUME CardAssumption, CardTypes, RingRight, UnreadRight,
         ~overrun => \A l \in CardLinks : FlowRight(l), CardNext, ~overrun'
  PROVE  ~overrun /\ \A l \in CardLinks : FlowRight(l)'
<1>1. CASE PollCard \/ GiveBack
  <2>1. UNCHANGED <<memory, written, readPos, nextBlock, overrun, unqueued, addresses, pieces, chunks, parsed>>
    BY <1>1 DEF PollCard, GiveBack, card, dispatchers
  <2>2. ASSUME NEW k \in CardLinks PROVE FlowRight(k)'
    <3>1. FlowRight(k) /\ RefusedOf(k)' = RefusedOf(k) /\ UnreadOf(k)' = UnreadOf(k)
      BY <2>1 DEF RefusedOf, UnreadOf, Address, Blk
    <3>. QED BY <2>1, <3>1, FlowSame
  <2>. QED BY <2>1, <2>2
<1>2. ASSUME NEW l \in CardLinks, CardWrites(l) PROVE ~overrun /\ \A k \in CardLinks : FlowRight(k)'
  <2>1. /\ ~overrun
        /\ \A k \in CardLinks :
             /\ \A i \in 1..Len(addresses[k]) : memory'[addresses[k][i]] = memory[addresses[k][i]]
             /\ \A i \in 1..Len(pieces[k]) : memory'[pieces[k][i]] = memory[pieces[k][i]]
    BY <1>2, SameNumbers
  <2>2. UNCHANGED <<unqueued, addresses, pieces, chunks, parsed>>
    BY <1>2 DEF CardWrites, dispatchers
  <2>3. PICK N : N = nextBlock[l]
    OBVIOUS
  <2>4. nextBlock' = [nextBlock EXCEPT ![l] = N + 1] /\ N \in Nat /\ nextBlock \in [CardLinks -> Nat]
    BY <1>2, <2>3, WriteIs DEF CardTypes
  <2>5. /\ UnreadOf(l)' = UnreadOf(l) \cup {N}
        /\ \A k \in CardLinks : k # l => UnreadOf(k)' = UnreadOf(k)
    BY <1>2, <2>3, UnreadWritten
  <2>6. \A k \in CardLinks : RefusedOf(k)' = RefusedOf(k)
    BY <2>2 DEF RefusedOf, Blk
  <2>7. ASSUME NEW k \in CardLinks, k # l PROVE FlowRight(k)'
    <3>1. FlowRight(k) /\ nextBlock'[k] = nextBlock[k] /\ UnreadOf(k)' = UnreadOf(k)
      BY <2>1, <2>4, <2>5, <2>7
    <3>. QED BY <2>1, <2>2, <2>6, <3>1, FlowSame
  <2>8. FlowRight(l)'
    <3>0. FlowRight(l) /\ addresses'[l] = addresses[l] /\ pieces'[l] = pieces[l]
      BY <2>1, <2>2
    <3>1. NumbersAt(addresses[l])' = NumbersAt(addresses[l])
      BY <2>1, <3>0 DEF NumbersAt
    <3>2. NumbersAt(pieces[l])' = NumbersAt(pieces[l])
      BY <2>1, <3>0 DEF NumbersAt
    <3>3. ParsedOf(l)' = ParsedOf(l)
      BY <2>2 DEF ParsedOf, Blk
    <3>4. AllOf(l, addresses[l])' /\ AllOf(l, pieces[l])'
      <4>0. AllOf(l, addresses[l]) /\ AllOf(l, pieces[l])
        BY <3>0 DEF FlowRight
      <4>1. AllOf(l, addresses[l])'
        BY <2>1, <3>0, <4>0 DEF AllOf, CardBlocks
      <4>2. AllOf(l, pieces[l])'
        BY <2>1, <3>0, <4>0 DEF AllOf, CardBlocks
      <4>. QED BY <4>1, <4>2
    <3>5. \A b \in parsed'[l] : b \in CardBlocks /\ b.link = l
      BY <2>2, <3>0 DEF FlowRight
    <3>6. PICK S, q, U, R : /\ S = ParsedOf(l) /\ q = NumbersAt(addresses[l])
                            /\ U = RefusedOf(l) /\ R = UnreadOf(l)
      OBVIOUS
    <3>7. S \in SUBSET Nat /\ U \in SUBSET Nat /\ R \in SUBSET Nat
      BY <3>6 DEF ParsedOf, RefusedOf, UnreadOf
    <3>8. q \in Seq(Nat)
      <4>1. addresses[l] \in Seq(RingAddresses) /\ AllOf(l, addresses[l])
        BY <3>0 DEF CardTypes, FlowRight
      <4>. QED BY <3>6, <4>1, NumbersAre
    <3>9. InTurn(S, q, U, R, N)
      BY <2>3, <3>0, <3>6 DEF FlowRight
    <3>10. InTurn(S, q, U, R \cup {N}, N + 1)
      BY <2>4, <3>7, <3>8, <3>9, WrittenInTurn
    <3>11. nextBlock'[l] = N + 1 /\ UnreadOf(l)' = R \cup {N}
      BY <2>4, <2>5, <3>6
    <3>12. InTurn(ParsedOf(l), NumbersAt(addresses[l]), RefusedOf(l), UnreadOf(l), nextBlock[l])'
      BY <2>6, <3>1, <3>3, <3>6, <3>10, <3>11 DEF InTurn, Climbs, ToSet
    <3>13. Begun(NumbersAt(pieces[l]), ParsedOf(l), RefusedOf(l))' /\ NoneLast(NumbersAt(pieces[l]))'
      BY <2>6, <3>0, <3>2, <3>3 DEF FlowRight, Begun, Climbs, NoneLast, LastOne, ToSet
    <3>. QED BY <3>4, <3>5, <3>12, <3>13 DEF FlowRight, CardBlocks
  <2>. QED BY <2>1, <2>7, <2>8
<1>3. CASE QueueBlock
  <2>1. /\ UNCHANGED <<written, memory, nextBlock, overrun, pieces, chunks, parsed>>
    BY <1>3, QueueIs
  <2>2. PICK a, b, l, x : a = Address(readPos) /\ b = memory[a] /\ l = b.link /\ x = b.n
    OBVIOUS
  <2>3. /\ l \in CardLinks /\ x \in Nat /\ b = Blk(l, x)
        /\ x \in UnreadOf(l) /\ \A r \in UnreadOf(l) : x <= r
        /\ UnreadOf(l)' = UnreadOf(l) \ {x}
        /\ \A k \in CardLinks : k # l => UnreadOf(k)' = UnreadOf(k)
    BY <1>3, <2>2, UnreadQueued
  <2>4. a \in RingAddresses
    BY <2>2, AddressInRing DEF CardTypes
  <2>5. \/ addresses' = [addresses EXCEPT ![l] = Append(addresses[l], a)] /\ unqueued' = unqueued
        \/ addresses' = addresses /\ unqueued' = unqueued \cup {Blk(l, x)}
    BY <1>3, <2>2, <2>3 DEF QueueBlock
  <2>6. \A k, m : Blk(k, m) = Blk(l, x) <=> k = l /\ m = x
    BY DEF Blk
  <2>7. \A k \in CardLinks : k # l => RefusedOf(k)' = RefusedOf(k)
    BY <2>5, <2>6 DEF RefusedOf, Blk
  <2>8. ASSUME NEW k \in CardLinks, k # l PROVE FlowRight(k)'
    <3>1. /\ FlowRight(k) /\ nextBlock'[k] = nextBlock[k] /\ UnreadOf(k)' = UnreadOf(k)
          /\ addresses'[k] = addresses[k] /\ pieces'[k] = pieces[k] /\ parsed'[k] = parsed[k]
          /\ RefusedOf(k)' = RefusedOf(k)
      BY <2>1, <2>3, <2>5, <2>7, <2>8 DEF CardTypes
    <3>. QED BY <2>1, <3>1, FlowSame
  <2>9. FlowRight(l)'
    <3>0. FlowRight(l) /\ pieces'[l] = pieces[l] /\ parsed'[l] = parsed[l] /\ nextBlock'[l] = nextBlock[l]
      BY <2>1, <2>3
    <3>1. PICK ads, S, q, U, R, N :
            /\ ads = addresses[l] /\ S = ParsedOf(l) /\ q = NumbersAt(ads)
            /\ U = RefusedOf(l) /\ R = UnreadOf(l) /\ N = nextBlock[l]
      OBVIOUS
    <3>2. S \in SUBSET Nat /\ U \in SUBSET Nat /\ R \in SUBSET Nat /\ N \in Nat
      BY <2>3, <3>1 DEF ParsedOf, RefusedOf, UnreadOf, CardTypes
    <3>3. ads \in Seq(RingAddresses) /\ AllOf(l, ads)
      BY <2>3, <3>0, <3>1 DEF CardTypes, FlowRight
    <3>4. q \in Seq(Nat)
      BY <3>1, <3>3, NumbersAre
    <3>5. InTurn(S, q, U, R, N)
      BY <3>0, <3>1 DEF FlowRight
    <3>6. x \in R /\ (\A r \in R : x <= r) /\ UnreadOf(l)' = R \ {x}
      BY <2>3, <3>1
    <3>7. ParsedOf(l)' = S
      BY <3>0, <3>1 DEF ParsedOf, Blk
    <3>8. \A e : NumbersAt(e)' = NumbersAt(e) /\ (AllOf(l, e)' <=> AllOf(l, e))
      BY <2>1 DEF NumbersAt, AllOf, CardBlocks
    <3>9. AllOf(l, pieces[l])' /\ NumbersAt(pieces[l])' = NumbersAt(pieces[l])
      BY <2>1, <3>0 DEF NumbersAt, AllOf, CardBlocks, FlowRight
    <3>10. \A z \in parsed'[l] : z \in CardBlocks /\ z.link = l
      BY <3>0 DEF FlowRight
    <3>11. CASE addresses' = [addresses EXCEPT ![l] = Append(addresses[l], a)] /\ unqueued' = unqueued
      <4>1. addresses'[l] = Append(ads, a) /\ RefusedOf(l)' = U
        BY <2>3, <3>1, <3>11 DEF CardTypes, RefusedOf, Blk
      <4>2. memory[a] = Blk(l, x)
        BY <2>2, <2>3
      <4>3. AllOf(l, Append(ads, a)) /\ NumbersAt(Append(ads, a)) = Append(q, x)
        BY <2>3, <2>4, <3>1, <3>3, <4>2, NumbersOn
      <4>4. AllOf(l, addresses[l])' /\ NumbersAt(addresses[l])' = Append(q, x)
        BY <2>1, <4>1, <4>3 DEF AllOf, NumbersAt, CardBlocks
      <4>5. InTurn(S, Append(q, x), U, R \ {x}, N)
        BY <3>2, <3>4, <3>5, <3>6, QueuedInTurn
      <4>6. InTurn(ParsedOf(l), NumbersAt(addresses[l]), RefusedOf(l), UnreadOf(l), nextBlock[l])'
        <5>1. nextBlock'[l] = N /\ UnreadOf(l)' = R \ {x}
          BY <3>0, <3>1, <3>6
        <5>2. PICK q2, R2 : q2 = Append(q, x) /\ R2 = R \ {x}
          OBVIOUS
        <5>3. InTurn(S, q2, U, R2, N)
          BY <4>5, <5>2
        <5>. QED BY <3>7, <4>1, <4>4, <5>1, <5>2, <5>3 DEF InTurn, Climbs, ToSet
      <4>7. Begun(NumbersAt(pieces[l]), ParsedOf(l), RefusedOf(l))' /\ NoneLast(NumbersAt(pieces[l]))'
        <5>1. PICK t : t = NumbersAt(pieces[l])
          OBVIOUS
        <5>2. Begun(t, S, U) /\ NoneLast(t)
          BY <3>0, <3>1, <5>1 DEF FlowRight
        <5>3. Begun(NumbersAt(pieces[l]), ParsedOf(l), RefusedOf(l))'
          BY <3>7, <3>9, <4>1, <5>1, <5>2, SMTT(30) DEF Begun, Climbs, LastOne, ToSet
        <5>4. NoneLast(NumbersAt(pieces[l]))'
          BY <3>7, <3>9, <4>1, <5>1, <5>2 DEF NoneLast, LastOne
        <5>. QED BY <5>3, <5>4
      <4>. QED BY <3>9, <3>10, <4>4, <4>6, <4>7 DEF FlowRight, CardBlocks
    <3>12. CASE addresses' = addresses /\ unqueued' = unqueued \cup {Blk(l, x)}
      <4>1. RefusedOf(l)' = U \cup {x}
        <5>1. RefusedOf(l)' = {k \in Nat : Blk(l, k) \in unqueued \cup {Blk(l, x)}}
          BY <3>12 DEF RefusedOf, Blk
        <5>2. \A k : Blk(l, k) = Blk(l, x) <=> k = x
          BY <2>6
        <5>. QED BY <2>3, <3>1, <5>1, <5>2 DEF RefusedOf
      <4>2. AllOf(l, addresses[l])' /\ NumbersAt(addresses[l])' = q
        BY <2>1, <3>1, <3>3, <3>12 DEF AllOf, NumbersAt, CardBlocks
      <4>3. InTurn(S, q, U \cup {x}, R \ {x}, N)
        BY <3>2, <3>4, <3>5, <3>6, RefusedInTurn
      <4>4. InTurn(ParsedOf(l), NumbersAt(addresses[l]), RefusedOf(l), UnreadOf(l), nextBlock[l])'
        BY <3>0, <3>1, <3>6, <3>7, <4>1, <4>2, <4>3 DEF InTurn, Climbs, ToSet
      <4>5. PICK t : t = NumbersAt(pieces[l])
        OBVIOUS
      <4>6. t \in Seq(Nat) /\ Begun(t, S, U) /\ NoneLast(t)
        <5>1. pieces[l] \in Seq(RingAddresses) /\ AllOf(l, pieces[l])
          BY <2>3, <3>0 DEF CardTypes, FlowRight
        <5>2. t \in Seq(Nat)
          BY <4>5, <5>1, NumbersAre
        <5>. QED BY <3>0, <3>1, <4>5, <5>2 DEF FlowRight
      <4>7. Begun(t, S, U \cup {x})
        <5>1. U \cup {x} \in SUBSET Nat /\ U \subseteq U \cup {x}
          BY <2>3, <3>2
        <5>. QED BY <3>2, <4>6, <5>1, BegunStays
      <4>8. Begun(NumbersAt(pieces[l]), ParsedOf(l), RefusedOf(l))' /\ NoneLast(NumbersAt(pieces[l]))'
        BY <3>7, <3>9, <4>1, <4>5, <4>6, <4>7 DEF Begun, Climbs, NoneLast, LastOne, ToSet
      <4>. QED BY <3>9, <3>10, <4>2, <4>4, <4>8 DEF FlowRight, CardBlocks
    <3>. QED BY <2>5, <3>11, <3>12
  <2>. QED BY <2>1, <2>8, <2>9
<1>4. ASSUME NEW l \in CardLinks, TakeBlock(l) PROVE ~overrun /\ \A k \in CardLinks : FlowRight(k)'
  <2>1. ~overrun
    BY <1>4 DEF TakeBlock, card
  <2>2. FlowRight(l)
    BY <2>1
  <2>3. /\ UNCHANGED <<memory, written, readPos, nextBlock, overrun, unqueued>>
        /\ \A k \in CardLinks : k # l => /\ addresses'[k] = addresses[k] /\ pieces'[k] = pieces[k]
                                         /\ chunks'[k] = chunks[k] /\ parsed'[k] = parsed[k]
    BY <1>4, <2>2, TakeIs
  <2>4. ASSUME NEW k \in CardLinks, k # l PROVE FlowRight(k)'
    <3>1. RefusedOf(k)' = RefusedOf(k) /\ UnreadOf(k)' = UnreadOf(k)
      BY <2>3 DEF RefusedOf, UnreadOf, Address, Blk
    <3>. QED BY <2>1, <2>3, <2>4, <3>1, FlowSame
  <2>5. FlowRight(l)'
    BY <1>4, <2>2, FlowTaken
  <2>. QED BY <2>1, <2>4, <2>5
<1>. QED BY <1>1, <1>2, <1>3, <1>4 DEF CardNext
\* A chunk is touched if the number of a part of it was refused.
LEMMA TouchedIs ==
  ASSUME CardAssumption, NEW l, NEW c \in Nat
  PROVE  Touched(l, c) <=> \E p \in 0..(ChunkParts - 1) : c * ChunkParts + p \in RefusedOf(l)
<1>1. \A p \in 0..(ChunkParts - 1) : Part(l, c, p) \in unqueued <=> c * ChunkParts + p \in RefusedOf(l)
  <2>1. TAKE p \in 0..(ChunkParts - 1)
  <2>2. PICK k : k = c * ChunkParts + p
    OBVIOUS
  <2>3. k \in Nat
    BY <2>2, NumberOfPart
  <2>4. Part(l, c, p) = Blk(l, k)
    BY <2>2 DEF Part, Blk
  <2>. QED BY <2>2, <2>3, <2>4 DEF RefusedOf
<1>. QED BY <1>1 DEF Touched

\* What was given stays right while the dispatcher does nothing; more may have been refused.
LEMMA GivenStays ==
  ASSUME NEW l \in CardLinks, GivenRight(l), chunks'[l] = chunks[l], parsed'[l] = parsed[l],
         pieces'[l] = pieces[l], NumbersAt(pieces[l])' = NumbersAt(pieces[l]),
         unqueued \subseteq unqueued'
  PROVE  GivenRight(l)'
<1>1. \A c : Touched(l, c) => Touched(l, c)'
  BY DEF Touched, Part
<1>2. \A s : OfTouched(l, s) => OfTouched(l, s)'
  BY <1>1 DEF OfTouched
<1>3. ParsedOf(l)' = ParsedOf(l)
  BY DEF ParsedOf, Blk
<1>4. \A s : ChunkRight(l, s) => ChunkRight(l, s)'
  BY <1>2, <1>3 DEF ChunkRight, CardBlocks, InStream, WholeChunk, Part
<1>5. \A c : Owed(l, c)' => Owed(l, c)
  BY <1>1 DEF Owed, Part
<1>6. \A i \in 1..Len(chunks'[l]) : ChunkRight(l, chunks[l][i])'
  <2>1. TAKE i \in 1..Len(chunks'[l])
  <2>2. PICK s : s = chunks[l][i] /\ ChunkRight(l, s)
    BY DEF GivenRight
  <2>3. ChunkRight(l, s)' /\ chunks'[l][i] = s
    BY <1>4, <2>2
  <2>. QED BY <2>3 DEF ChunkRight, CardBlocks, InStream, WholeChunk, Part, OfTouched, Touched
<1>7. \A i, j \in 1..Len(chunks'[l]) : i < j => chunks'[l][i][1].n < chunks'[l][j][1].n
  BY DEF GivenRight
<1>8. \A c \in Nat : Owed(l, c)' => WholeChunk(l, c) \in ToSet(chunks'[l])
  BY <1>5 DEF GivenRight
<1>. QED BY <1>6, <1>7, <1>8 DEF GivenRight, WholeChunk, Part

\* What was given stays right as the dispatcher takes a block, whole chunk or not.
LEMMA GivenTaken ==
  ASSUME CardAssumption, CardTypes, NEW l \in CardLinks, FlowRight(l), GivenRight(l), TakeBlock(l)
  PROVE  GivenRight(l)'
<1>0. ChunkParts \in Nat \ {0}
  BY DEF CardAssumption
<1>1. PICK x \in Nat, parts \in Seq(RingAddresses) :
        /\ x = NumbersAt(addresses[l])[1] /\ DispatcherTook(l, x, parts)
        /\ parsed'[l] = parsed[l] \cup {Blk(l, x)}
  BY TakeIs
<1>2. memory' = memory /\ unqueued' = unqueued /\ addresses[l] # <<>>
  BY TakeIs
<1>3. PICK t, n, S, U, q : /\ t = NumbersAt(parts) /\ n = Len(parts) /\ S = ParsedOf(l)
                           /\ U = RefusedOf(l) /\ q = NumbersAt(addresses[l])
  OBVIOUS
<1>4. S \in SUBSET Nat /\ U \in SUBSET Nat
  BY <1>3 DEF ParsedOf, RefusedOf
<1>5. /\ parts \in Seq(RingAddresses) /\ AllOf(l, parts) /\ n \in Nat \ {0}
      /\ Begun(t, S \cup {x}, U) /\ t[n] = x /\ \A i \in 1..(n - 1) : ~LastOne(t[i])
      /\ parts = Append(pieces[l], Head(addresses[l])) \/ n = 1
  BY <1>1, <1>3 DEF DispatcherTook
<1>6. t \in Seq(Nat) /\ Len(t) = n /\ \A i \in 1..n : memory[parts[i]] = Blk(l, t[i])
  BY <1>3, <1>5, NumbersAre
<1>7. (\A s \in S : s < x) /\ \A k \in 0..(x - 1) : k \in S \cup U
  <2>1. addresses[l] \in Seq(RingAddresses) /\ AllOf(l, addresses[l])
    BY DEF CardTypes, FlowRight
  <2>2. q \in Seq(Nat) /\ q # <<>>
    BY <1>2, <1>3, <2>1, NumbersAre
  <2>3. PICK R, N : R = UnreadOf(l) /\ N = nextBlock[l]
    OBVIOUS
  <2>4. R \in SUBSET Nat /\ N \in Nat /\ InTurn(S, q, U, R, N)
    BY <1>3, <2>3 DEF UnreadOf, CardTypes, FlowRight
  <2>5. (\A s \in S : s < q[1]) /\ \A k \in 0..(q[1] - 1) : k \in S \cup U
    BY <1>4, <2>2, <2>4, HeadInTurn
  <2>6. x = q[1]
    BY <1>1, <1>3
  <2>. QED BY <2>5, <2>6
<1>8. ParsedOf(l)' = S \cup {x}
  BY <1>1, <1>3, ParsedOn
<1>9. pieces[l] \in Seq(RingAddresses) /\ AllOf(l, pieces[l])
  BY DEF CardTypes, FlowRight
<1>10. pieces[l] # <<>> /\ n # 1 => t[1] = NumbersAt(pieces[l])[1]
  <2>1. ASSUME pieces[l] # <<>>, n # 1 PROVE t[1] = NumbersAt(pieces[l])[1]
    <3>1. 1 \in 1..Len(pieces[l]) /\ parts[1] = pieces[l][1] /\ 1 \in 1..n
      BY <1>5, <1>9, <2>1
    <3>. QED BY <1>3, <3>1 DEF NumbersAt
  <2>. QED BY <2>1
<1>11. pieces[l] = <<>> => n = 1
  BY <1>3, <1>5, <1>9
<1>12. \A s : ChunkRight(l, s) => s[1].n \in Nat /\ s[1].n < t[1]
  <2>1. SUFFICES ASSUME NEW s, ChunkRight(l, s) PROVE s[1].n \in Nat /\ s[1].n < t[1]
    OBVIOUS
  <2>2. s[1].n \in S /\ (pieces[l] # <<>> => s[1].n < NumbersAt(pieces[l])[1])
    BY <1>3, <2>1 DEF ChunkRight
  <2>3. CASE n = 1
    BY <1>4, <1>5, <1>7, <2>2, <2>3
  <2>4. CASE n # 1
    BY <1>4, <1>10, <1>11, <2>2, <2>4
  <2>. QED BY <2>3, <2>4
<1>13. /\ pieces'[l] # <<>> => pieces'[l] = parts /\ NumbersAt(pieces[l])' = t
  <2>1. pieces'[l] # <<>> => pieces'[l] = parts
    BY <1>1 DEF DispatcherTook
  <2>. QED BY <1>2, <1>3, <2>1 DEF NumbersAt
<1>14. \A s : ChunkRight(l, s) => ChunkRight(l, s)'
  <2>1. SUFFICES ASSUME NEW s, ChunkRight(l, s) PROVE ChunkRight(l, s)'
    OBVIOUS
  <2>2. s[1].n \in ParsedOf(l)'
    BY <1>3, <1>8, <2>1 DEF ChunkRight
  <2>3. pieces'[l] # <<>> => s[1].n < (NumbersAt(pieces[l])')[1]
    BY <1>12, <1>13, <2>1
  <2>4. OfTouched(l, s)' <=> OfTouched(l, s)
    BY <1>2 DEF OfTouched, Touched, Part
  <2>. QED BY <2>1, <2>2, <2>3, <2>4 DEF ChunkRight, CardBlocks, InStream, WholeChunk, Part
<1>15. ASSUME NEW c \in Nat, Owed(l, c)'
       PROVE  Owed(l, c) \/ (x = c * ChunkParts + (ChunkParts - 1) /\ LastOne(x))
  <2>2. PICK k : k = c * ChunkParts + (ChunkParts - 1)
    OBVIOUS
  <2>3. Part(l, c, ChunkParts - 1) = Blk(l, k)
    BY <2>2 DEF Part, Blk
  <2>4. Blk(l, k) \in parsed'[l] /\ ~Touched(l, c)' /\ (c > 0 => Part(l, c - 1, ChunkParts - 1) \notin unqueued')
    BY <1>15, <2>3 DEF Owed, Part, Blk
  <2>5. ~Touched(l, c) /\ (c > 0 => Part(l, c - 1, ChunkParts - 1) \notin unqueued)
    BY <1>2, <2>4 DEF Touched, Part
  <2>6. Blk(l, k) \in parsed[l] \/ k = x
    BY <1>1, <2>4 DEF Blk
  <2>7. LastOne(k)
    <3>1. ChunkParts - 1 \in 0..(ChunkParts - 1)
      BY <1>0
    <3>. QED BY <2>2, <3>1, NumberOfPart DEF LastOne
  <2>. QED BY <2>2, <2>3, <2>5, <2>6, <2>7 DEF Owed
<1>16. CASE ~LastOne(x)
  <2>1. chunks'[l] = chunks[l]
    BY <1>1, <1>16 DEF DispatcherTook
  <2>2. \A i \in 1..Len(chunks'[l]) : ChunkRight(l, chunks[l][i])'
    <3>1. TAKE i \in 1..Len(chunks'[l])
    <3>2. PICK s : s = chunks[l][i] /\ ChunkRight(l, s)
      BY <2>1 DEF GivenRight
    <3>3. ChunkRight(l, s)' /\ chunks'[l][i] = s
      BY <1>14, <2>1, <3>2
    <3>. QED BY <3>3 DEF ChunkRight, CardBlocks, InStream, WholeChunk, Part, OfTouched, Touched
  <2>3. \A i, j \in 1..Len(chunks'[l]) : i < j => chunks'[l][i][1].n < chunks'[l][j][1].n
    BY <2>1 DEF GivenRight
  <2>4. \A c \in Nat : Owed(l, c)' => WholeChunk(l, c) \in ToSet(chunks'[l])
    BY <1>15, <1>16, <2>1 DEF GivenRight
  <2>. QED BY <2>2, <2>3, <2>4 DEF GivenRight, WholeChunk, Part
<1>17. CASE LastOne(x)
  <2>1. pieces'[l] = <<>>
    BY <1>1, <1>17 DEF DispatcherTook
  <2>2. PICK s : s = [i \in 1..n |-> memory[parts[i]]]
    OBVIOUS
  <2>3. chunks'[l] = IF n = ChunkParts THEN Append(chunks[l], s) ELSE chunks[l]
    BY <1>1, <1>3, <1>17, <2>2 DEF DispatcherTook
  <2>4. PICK m, old : old = chunks[l] /\ m = Len(old)
    OBVIOUS
  <2>5. m \in Nat /\ DOMAIN old = 1..m
    BY <2>4 DEF CardTypes
  <2>6. /\ \A i \in 1..m : ChunkRight(l, old[i])
        /\ \A i, j \in 1..m : i < j => old[i][1].n < old[j][1].n
        /\ \A c \in Nat : Owed(l, c) => WholeChunk(l, c) \in ToSet(old)
    BY <2>4 DEF GivenRight
  <2>7. \A i \in 1..n : s[i] = Blk(l, t[i]) /\ s[i].n = t[i] /\ s[i].link = l /\ s[i] \in CardBlocks
    <3>1. TAKE i \in 1..n
    <3>2. s[i] = Blk(l, t[i]) /\ t[i] \in Nat
      BY <1>6, <2>2
    <3>. QED BY <3>2 DEF Blk, CardBlocks
  <2>8. \A c \in Nat : (\A i \in 1..ChunkParts : t[i] = c * ChunkParts + (i - 1)) /\ n = ChunkParts
                       => s = WholeChunk(l, c)
    <3>1. SUFFICES ASSUME NEW c \in Nat, n = ChunkParts,
                          \A i \in 1..ChunkParts : t[i] = c * ChunkParts + (i - 1)
                   PROVE  s = WholeChunk(l, c)
      OBVIOUS
    <3>2. \A i \in 1..ChunkParts : s[i] = Part(l, c, i - 1)
      BY <2>7, <3>1 DEF Part, Blk
    <3>3. s = [i \in 1..ChunkParts |-> s[i]]
      BY <2>2, <3>1
    <3>. QED BY <3>2, <3>3 DEF WholeChunk
  <2>9. \A c \in Nat : Owed(l, c)' /\ ~Owed(l, c) => n = ChunkParts /\ s = WholeChunk(l, c)
    <3>1. SUFFICES ASSUME NEW c \in Nat, Owed(l, c)', ~Owed(l, c)
                   PROVE  n = ChunkParts /\ s = WholeChunk(l, c)
      OBVIOUS
    <3>2. x = c * ChunkParts + (ChunkParts - 1)
      BY <1>15, <3>1
    <3>3. c = x \div ChunkParts
      <4>1. ChunkParts - 1 \in 0..(ChunkParts - 1)
        BY <1>0
      <4>. QED BY <3>2, <4>1, NumberOfPart
    <3>4. ~Touched(l, c) /\ (c > 0 => Part(l, c - 1, ChunkParts - 1) \notin unqueued)
      BY <1>2, <3>1 DEF Owed, Touched, Part
    <3>5. LostNothing(U, c)
      <4>1. \A p \in 0..(ChunkParts - 1) : c * ChunkParts + p \notin U
        BY <1>3, <3>4, TouchedIs
      <4>2. c > 0 => (c - 1) * ChunkParts + (ChunkParts - 1) \notin U
        BY <1>3, <3>4 DEF RefusedOf, Part, Blk
      <4>. QED BY <4>1, <4>2 DEF LostNothing
    <3>6. PICK T : T = S \cup {x}
      OBVIOUS
    <3>7. LastPartOf(t, T, U, c)
      <4>1. T \in SUBSET Nat /\ \A k \in 0..(x - 1) : k \in T \cup U
        BY <1>4, <1>7, <3>6
      <4>2. LastOne(t[n]) /\ c = t[n] \div ChunkParts /\ \A k \in 0..(t[n] - 1) : k \in T \cup U
        BY <1>5, <1>17, <3>3, <4>1
      <4>3. Begun(t, T, U) /\ n = Len(t) /\ t # <<>> /\ \A i \in 1..(n - 1) : ~LastOne(t[i])
        BY <1>5, <1>6, <3>6
      <4>. QED BY <4>2, <4>3 DEF LastPartOf
    <3>8. t = NumbersOf(c)
      BY <1>4, <1>6, <3>5, <3>6, <3>7, OwedIsWhole
    <3>9. Len(NumbersOf(c)) = ChunkParts /\ \A i \in 1..ChunkParts : NumbersOf(c)[i] = c * ChunkParts + (i - 1)
      BY <1>0 DEF NumbersOf
    <3>. QED BY <1>6, <2>8, <3>8, <3>9
  <2>10. CASE n # ChunkParts
    <3>1. chunks'[l] = old
      BY <2>3, <2>4, <2>10
    <3>2. \A i \in 1..m : ChunkRight(l, chunks[l][i])'
      <4>1. TAKE i \in 1..m
      <4>2. PICK r : r = old[i] /\ ChunkRight(l, r)
        BY <2>6
      <4>3. ChunkRight(l, r)' /\ chunks'[l][i] = r
        BY <1>14, <3>1, <4>2
      <4>. QED BY <4>3 DEF ChunkRight, CardBlocks, InStream, WholeChunk, Part, OfTouched, Touched
    <3>3. \A c \in Nat : Owed(l, c)' => WholeChunk(l, c) \in ToSet(chunks'[l])
      BY <2>6, <2>9, <2>10, <3>1
    <3>. QED BY <2>4, <2>6, <3>1, <3>2, <3>3 DEF GivenRight, WholeChunk, Part
  <2>11. CASE n = ChunkParts
    <3>1. PICK new : new = Append(old, s)
      OBVIOUS
    <3>2. /\ chunks'[l] = new /\ Len(new) = m + 1 /\ new[m + 1] = s /\ DOMAIN new = 1..(m + 1)
          /\ \A i \in 1..m : new[i] = old[i]
      <4>1. chunks'[l] = new
        BY <2>3, <2>4, <2>11, <3>1
      <4>2. old \in Seq(Seq(Blocks \cup {NoBlock}))
        BY <2>4 DEF CardTypes
      <4>3. DOMAIN new = 1..(m + 1) /\ new[m + 1] = s /\ Len(new) = m + 1 /\ \A i \in 1..m : new[i] = old[i]
        BY <2>4, <3>1, <4>2
      <4>. QED BY <4>1, <4>3
    <3>3. ChunkRight(l, s)'
      <4>1. s \in [1..ChunkParts -> CardBlocks] /\ DOMAIN s = 1..n
        BY <2>2, <2>7, <2>11
      <4>2. InStream(s)
        <5>0. Climbs(t) /\ t \in Seq(Nat)
          BY <1>5, <1>6 DEF Begun
        <5>1. \A i, j \in 1..Len(t) : i < j => t[i] < t[j]
          BY <5>0, ClimbsTo
        <5>2. Len(t) = n
          BY <1>6
        <5>. QED BY <2>7, <4>1, <5>1, <5>2 DEF InStream
      <4>3. s[1].n = t[1] /\ t[1] \in S \cup {x} /\ t[1] \in Nat
        <5>1. 1 \in 1..n /\ t \in Seq(Nat) /\ Len(t) = n
          BY <1>5, <1>6
        <5>2. ToSet(t) \subseteq S \cup {x}
          BY <1>5 DEF Begun
        <5>3. t[1] \in ToSet(t) /\ t[1] \in Nat
          BY <5>1 DEF ToSet
        <5>. QED BY <2>7, <5>1, <5>2, <5>3
      <4>4. s = WholeChunk(l, t[1] \div ChunkParts) \/ OfTouched(l, s)
        <5>1. S \cup {x} \in SUBSET Nat /\ LastOne(t[ChunkParts])
              /\ (\A i \in 1..(ChunkParts - 1) : ~LastOne(t[i]))
              /\ \A k \in 0..(t[ChunkParts] - 1) : k \in (S \cup {x}) \cup U
          BY <1>4, <1>5, <1>7, <1>17, <2>11
        <5>2. \/ \A i \in 1..ChunkParts : t[i] = (t[1] \div ChunkParts) * ChunkParts + (i - 1)
              \/ \A i \in 1..ChunkParts : \E p \in 0..(ChunkParts - 1) :
                   (t[i] \div ChunkParts) * ChunkParts + p \in U
          BY <1>4, <1>5, <1>6, <2>11, <5>1, WholeOrTouched
        <5>3. CASE \A i \in 1..ChunkParts : t[i] = (t[1] \div ChunkParts) * ChunkParts + (i - 1)
          <6>1. t[1] \div ChunkParts \in Nat
            BY <4>3, PartOfChunk
          <6>. QED BY <2>8, <2>11, <5>3, <6>1
        <5>4. CASE \A i \in 1..ChunkParts : \E p \in 0..(ChunkParts - 1) :
                     (t[i] \div ChunkParts) * ChunkParts + p \in U
          <6>1. \A i \in 1..n : s[i].link = l /\ Touched(l, s[i].n \div ChunkParts)
            <7>1. TAKE i \in 1..n
            <7>2. PICK d : d = t[i] \div ChunkParts
              OBVIOUS
            <7>3. d \in Nat
              <8>1. t[i] \in Nat
                BY <1>6
              <8>. QED BY <7>2, <8>1, PartOfChunk
            <7>4. \E p \in 0..(ChunkParts - 1) : d * ChunkParts + p \in RefusedOf(l)
              BY <1>3, <2>11, <5>4, <7>2
            <7>5. Touched(l, d)
              BY <7>3, <7>4, TouchedIs
            <7>. QED BY <2>7, <7>2, <7>5
          <6>. QED BY <4>1, <6>1 DEF OfTouched
        <5>. QED BY <5>2, <5>3, <5>4
      <4>5. s[1].n \in ParsedOf(l)'
        BY <1>8, <4>3
      <4>6. OfTouched(l, s)' <=> OfTouched(l, s)
        BY <1>2 DEF OfTouched, Touched, Part
      <4>7. s = WholeChunk(l, s[1].n \div ChunkParts) \/ OfTouched(l, s)'
        BY <4>3, <4>4, <4>6
      <4>. QED BY <2>1, <4>1, <4>2, <4>5, <4>7 DEF ChunkRight, CardBlocks, InStream, WholeChunk, Part
    <3>4. \A i \in 1..(m + 1) : ChunkRight(l, chunks[l][i])'
      <4>1. TAKE i \in 1..(m + 1)
      <4>2. CASE i = m + 1
        <5>1. chunks'[l][i] = s
          BY <3>2, <4>2
        <5>. QED BY <3>3, <5>1 DEF ChunkRight, CardBlocks, InStream, WholeChunk, Part, OfTouched, Touched
      <4>3. CASE i \in 1..m
        <5>1. PICK r : r = old[i] /\ ChunkRight(l, r)
          BY <2>6, <4>3
        <5>2. ChunkRight(l, r)' /\ chunks'[l][i] = r
          BY <1>14, <3>2, <4>3, <5>1
        <5>. QED BY <5>2 DEF ChunkRight, CardBlocks, InStream, WholeChunk, Part, OfTouched, Touched
      <4>. QED BY <2>5, <4>2, <4>3
    <3>5. \A i, j \in 1..(m + 1) : i < j => new[i][1].n < new[j][1].n
      <4>1. TAKE i, j \in 1..(m + 1)
      <4>2. HAVE i < j
      <4>3. i \in 1..m /\ new[i] = old[i] /\ old[i][1].n < t[1]
        <5>1. i \in 1..m
          BY <2>5, <4>2
        <5>. QED BY <1>12, <2>6, <3>2, <5>1
      <4>4. CASE j \in 1..m
        BY <2>6, <3>2, <4>2, <4>3, <4>4
      <4>5. CASE j = m + 1
        <5>1. s[1].n = t[1]
          BY <1>5, <2>7
        <5>. QED BY <3>2, <4>3, <4>5, <5>1
      <4>. QED BY <2>5, <4>4, <4>5
    <3>6. \A c \in Nat : Owed(l, c)' => WholeChunk(l, c) \in ToSet(new)
      <4>1. SUFFICES ASSUME NEW c \in Nat, Owed(l, c)' PROVE WholeChunk(l, c) \in ToSet(new)
        OBVIOUS
      <4>2. ToSet(old) \subseteq ToSet(new)
        BY <2>5, <3>2 DEF ToSet
      <4>3. CASE Owed(l, c)
        BY <2>6, <4>2, <4>3
      <4>4. CASE ~Owed(l, c)
        <5>1. s = WholeChunk(l, c)
          BY <2>9, <4>1, <4>4
        <5>. QED BY <2>5, <3>2, <5>1 DEF ToSet
      <4>. QED BY <4>3, <4>4
    <3>. QED BY <3>2, <3>4, <3>5, <3>6 DEF GivenRight, WholeChunk, Part
  <2>. QED BY <2>10, <2>11
<1>. QED BY <1>16, <1>17
-----------------------------------------------------------------------------
(* The inductive invariant of the card reader. *)

\* What was given stays right, whatever the step.
LEMMA GivenSteps ==
  ASSUME CardAssumption, CardTypes, RingRight, UnreadRight, NEW l \in CardLinks,
         \A k \in CardLinks : FlowRight(k), GivenRight(l), CardNext, ~overrun'
  PROVE  GivenRight(l)'
<1>1. CASE PollCard \/ GiveBack \/ QueueBlock
  <2>1. UNCHANGED <<memory, chunks, parsed, pieces>> /\ unqueued \subseteq unqueued'
    <3>1. CASE PollCard \/ GiveBack
      BY <3>1 DEF PollCard, GiveBack, card, dispatchers
    <3>2. CASE QueueBlock
      BY <3>2 DEF QueueBlock, card, dispatchers
    <3>. QED BY <1>1, <3>1, <3>2
  <2>2. NumbersAt(pieces[l])' = NumbersAt(pieces[l])
    BY <2>1 DEF NumbersAt
  <2>. QED BY <2>1, <2>2, GivenStays
<1>2. ASSUME NEW k \in CardLinks, CardWrites(k) PROVE GivenRight(l)'
  <2>1. UNCHANGED <<chunks, parsed, pieces, unqueued>>
    BY <1>2 DEF CardWrites, dispatchers
  <2>2. \A i \in 1..Len(pieces[l]) : memory'[pieces[l][i]] = memory[pieces[l][i]]
    BY <1>2, SameNumbers
  <2>3. NumbersAt(pieces[l])' = NumbersAt(pieces[l])
    BY <2>1, <2>2 DEF NumbersAt
  <2>. QED BY <2>1, <2>3, GivenStays
<1>3. ASSUME NEW k \in CardLinks, k # l, TakeBlock(k) PROVE GivenRight(l)'
  <2>1. /\ memory' = memory /\ unqueued' = unqueued
        /\ pieces'[l] = pieces[l] /\ chunks'[l] = chunks[l] /\ parsed'[l] = parsed[l]
    BY <1>3, TakeIs
  <2>2. NumbersAt(pieces[l])' = NumbersAt(pieces[l])
    BY <2>1 DEF NumbersAt
  <2>. QED BY <2>1, <2>2, GivenStays
<1>4. ASSUME TakeBlock(l) PROVE GivenRight(l)'
  BY <1>4, GivenTaken
<1>. QED BY <1>1, <1>2, <1>3, <1>4 DEF CardNext

\* Nothing is queued, parsed or given at the start.
LEMMA CardInvInit == CardAssumption /\ CardInit => CardTypes /\ CardInv
<1>. SUFFICES ASSUME CardAssumption, CardInit PROVE CardTypes /\ CardInv
  OBVIOUS
<1>1. CardTypes /\ RingRight /\ UnreadRight
  BY CardTypesHold, RingInitially
<1>2. ASSUME NEW l \in CardLinks PROVE FlowRight(l) /\ GivenRight(l)
  <2>1. /\ addresses[l] = <<>> /\ pieces[l] = <<>> /\ chunks[l] = <<>> /\ parsed[l] = {}
        /\ nextBlock[l] = 0 /\ unqueued = {} /\ written = 0 /\ readPos = 0
    BY DEF CardInit
  <2>2. ParsedOf(l) = {} /\ RefusedOf(l) = {} /\ NumbersAt(addresses[l]) = <<>> /\ NumbersAt(pieces[l]) = <<>>
    BY <2>1 DEF ParsedOf, RefusedOf, NumbersAt
  <2>3. UnreadOf(l) = {}
    BY <2>1 DEF UnreadOf
  <2>4. ToSet(<<>>) = {} /\ Len(<<>>) = 0 /\ Climbs(<<>>) /\ NoneLast(<<>>)
    BY DEF ToSet, Climbs, NoneLast
  <2>5. InTurn({}, <<>>, {}, {}, 0)
    BY <2>4 DEF InTurn
  <2>6. Begun(<<>>, {}, {})
    BY <2>4 DEF Begun
  <2>7. FlowRight(l)
    BY <2>1, <2>2, <2>3, <2>4, <2>5, <2>6 DEF FlowRight, AllOf
  <2>8. GivenRight(l)
    BY <2>1, <2>4 DEF GivenRight, Owed
  <2>. QED BY <2>7, <2>8
<1>. QED BY <1>1, <1>2 DEF CardInv

\* Every step keeps it.
LEMMA CardInvStep ==
  ASSUME CardAssumption, CardTypes, CardInv, [CardNext]_cardVars
  PROVE  CardTypes' /\ CardInv'
<1>1. CASE CardNext
  <2>1. RingRight' /\ UnreadRight' /\ CardTypes'
    BY <1>1, CardTypesHold, RingSteps, UnreadSteps DEF CardInv
  <2>2. ASSUME ~overrun', NEW l \in CardLinks PROVE FlowRight(l)' /\ GivenRight(l)'
    <3>1. RingRight /\ UnreadRight /\ (~overrun => \A k \in CardLinks : FlowRight(k) /\ GivenRight(k))
      BY DEF CardInv
    <3>2. ~overrun /\ \A k \in CardLinks : FlowRight(k)'
      BY <1>1, <2>2, <3>1, FlowSteps
    <3>3. FlowRight(l) /\ GivenRight(l)
      BY <3>1, <3>2
    <3>4. GivenRight(l)'
      BY <1>1, <2>2, <3>1, <3>2, <3>3, GivenSteps
    <3>. QED BY <3>2, <3>4
  <2>. QED BY <2>1, <2>2 DEF CardInv
<1>2. CASE UNCHANGED cardVars
  <2>1. /\ UNCHANGED <<memory, written, freed, nextBlock, seenPos, readPos, readerAt, addresses,
                       pieces, chunks, unqueued, overrun, parsed>>
    BY <1>2 DEF cardVars
  <2>2. CardTypes' /\ RingRight' /\ UnreadRight'
    BY <2>1 DEF CardInv, CardTypes, RingRight, UnreadRight, Address, RingAddresses, Blocks, NoBlock, CardBlocks
  <2>3. ASSUME ~overrun', NEW l \in CardLinks PROVE FlowRight(l)' /\ GivenRight(l)'
    <3>1. FlowRight(l) /\ GivenRight(l)
      BY <2>1, <2>3 DEF CardInv
    <3>2. RefusedOf(l)' = RefusedOf(l) /\ UnreadOf(l)' = UnreadOf(l)
      BY <2>1 DEF RefusedOf, UnreadOf, Address, Blk
    <3>3. FlowRight(l)'
      BY <2>1, <3>1, <3>2, FlowSame
    <3>4. NumbersAt(pieces[l])' = NumbersAt(pieces[l])
      BY <2>1 DEF NumbersAt
    <3>5. GivenRight(l)'
      BY <2>1, <3>1, <3>4, GivenStays
    <3>. QED BY <3>3, <3>5
  <2>. QED BY <2>2, <2>3 DEF CardInv
<1>. QED BY <1>1, <1>2

\* What is given is right: the chunks, their order, and none missing that was owed.
LEMMA GivenIsIntact == CardAssumption /\ CardTypes /\ CardInv => ChunksIntact
<1>. SUFFICES ASSUME CardAssumption, CardTypes, CardInv, ~overrun, NEW l \in CardLinks
              PROVE  /\ \A i \in DOMAIN chunks[l] :
                          LET s == chunks[l][i] IN
                          /\ LengthRight(s) /\ InStream(s)
                          /\ s = WholeChunk(l, s[1].n \div ChunkParts) \/ OfTouched(l, s)
                     /\ InStream([i \in DOMAIN chunks[l] |-> chunks[l][i][1]])
                     /\ \A c \in 0..MaxBlocks : Owed(l, c) => WholeChunk(l, c) \in ToSet(chunks[l])
  BY DEF ChunksIntact
<1>1. GivenRight(l)
  BY DEF CardInv
<1>2. DOMAIN chunks[l] = 1..Len(chunks[l])
  BY DEF CardTypes
<1>3. ASSUME NEW i \in DOMAIN chunks[l], NEW s, s = chunks[l][i]
      PROVE  /\ LengthRight(s) /\ InStream(s)
             /\ s = WholeChunk(l, s[1].n \div ChunkParts) \/ OfTouched(l, s)
  <2>1. ChunkRight(l, s)
    BY <1>1, <1>2, <1>3 DEF GivenRight
  <2>2. DOMAIN s = 1..ChunkParts
    BY <2>1 DEF ChunkRight
  <2>3. s \in Seq(Blocks \cup {NoBlock})
    BY <1>2, <1>3 DEF CardTypes
  <2>4. Len(s) = ChunkParts
    <3>1. ChunkParts \in Nat /\ Len(s) \in Nat /\ DOMAIN s = 1..Len(s)
      BY <2>3 DEF CardAssumption
    <3>2. \A n, m \in Nat : 1..n = 1..m => n = m
      OBVIOUS
    <3>. QED BY <2>2, <3>1, <3>2
  <2>. QED BY <2>1, <2>4 DEF ChunkRight, LengthRight
<1>4. InStream([i \in DOMAIN chunks[l] |-> chunks[l][i][1]])
  BY <1>1, <1>2 DEF GivenRight, InStream
<1>5. \A c \in 0..MaxBlocks : Owed(l, c) => WholeChunk(l, c) \in ToSet(chunks[l])
  BY <1>1 DEF GivenRight
<1>. QED BY <1>3, <1>4, <1>5

(* As long as the card overwrites no block a dispatcher still needs, the    *)
(* links are given whole chunks in their order, and a block refused by a    *)
(* full queue costs no more than its chunk and the one after                *)
(* (CardReader!ChunksIntact): for every ring, threshold, margin, queue and   *)
(* chunk length.                                                           *)
THEOREM ChunksStayIntact == CardSpec => []ChunksIntact
<1>1. CardInit => CardTypes /\ CardInv
  BY CardAssumption, CardInvInit
<1>2. (CardTypes /\ CardInv) /\ [CardNext]_cardVars => (CardTypes /\ CardInv)'
  BY CardAssumption, CardInvStep
<1>3. CardTypes /\ CardInv => ChunksIntact
  BY CardAssumption, GivenIsIntact
<1>. QED BY <1>1, <1>2, <1>3, PTL DEF CardSpec
-----------------------------------------------------------------------------
(* The Penn board reader: Penn.tla. PennInv relates the stream, the state  *)
(* of the io thread and the queues: what the board sent follows what was   *)
(* received, but for a loss that the next number shows; what was received  *)
(* since the first microslice of the run is in the millislices that are    *)
(* filled, the one that is being filled and the words kept back from it;   *)
(* and while a start clears the io thread's state, the thread is out of    *)
(* the way, when the last stop was answered.                               *)

Parts == {"header", "payload"}
PennTypes ==
  /\ boardOn \in BOOLEAN /\ nextSlice \in Nat /\ stream \in Seq([part : Parts, slice : Nat])
  /\ conn \in {"none", "pending", "open", "closed", "reset"}
  /\ part \in Parts /\ mstate \in {"MillisliceEmpty", "MillisliceIncomplete"}
  /\ runStart \in Nat /\ boundary \in Nat /\ lastId \in Nat \cup {NoId}
  /\ firstSlice \in Nat /\ taken \in Nat /\ runs \in Nat
  /\ words \subseteq Int /\ remaining \subseteq Int /\ overlap \subseteq Int
  /\ torn \in BOOLEAN /\ exception \in BOOLEAN /\ clean \in BOOLEAN /\ fresh \in BOOLEAN
  /\ fragment \in BOOLEAN /\ misled \in BOOLEAN
  /\ answered \in BOOLEAN /\ late \in BOOLEAN /\ suspend \in BOOLEAN /\ suspended \in BOOLEAN

\* Microslices follow each other in the stream, header and payload, but for what the board lost;
\* only a connection that is closed may end in the middle of one.
Follows(e, f) ==
  IF e.part = "header" THEN f.part = "payload" /\ f.slice = e.slice
                       ELSE f.part = "header" /\ f.slice \in (e.slice + 1)..(e.slice + 1 + MaxLost)
Chain(s) == \A i \in 1..(Len(s) - 1) : Follows(s[i], s[i + 1])
StreamRight ==
  /\ Chain(stream)
  /\ stream # <<>> =>
       /\ nextSlice = stream[Len(stream)].slice + 1
       /\ conn # "closed" => stream[Len(stream)].part = "payload"
  /\ conn \in {"none", "reset"} => stream = <<>>
  /\ part = "payload" /\ stream # <<>> /\ stream[1].part = "payload" /\ ~torn
       => lastId = stream[1].slice % IdModulus

\* The io thread's flag tells that it is out of the way, unless it was set late.
OutOfTheWay == {"accepting", "markAccept", "read", "mark", "parked"}
Started == {"clearFlag", "command", "running", "failed", "stopping", "halting"}
SuspendRight ==
  /\ suspended /\ ~late => IF suspend THEN io \in OutOfTheWay ELSE gpc \in {"clearFlag", "dead"}
  /\ gpc \in Started => ~suspend
  /\ gpc = "waiting" => suspend
  /\ gpc = "stopped" /\ runs > 0 => suspend /\ (answered => suspended /\ ~late)
  /\ gpc \in {"precommit", "clear"} =>
       runs > 0 /\ (runs > 1 => suspend /\ (clean => suspended /\ ~late))
  /\ runs = 0 => gpc = "stopped"

\* Before the first StartRun there are no data.
FirstRight ==
  /\ runs = 0 => clean /\ answered /\ empty = <<>> /\ mapped = {} /\ current = NoBuffer
  /\ runs = 0 \/ (runs = 1 /\ gpc \in {"precommit", "clear", "clearFlag", "command"})
       => ~boardOn /\ stream = <<>> /\ filled = <<>> /\ runStart = 0
          /\ (gpc \in {"stopped", "precommit", "clear"} => ~suspend)

\* The state of the io thread is that of this run, not yet cleared in the starts after the first.
InRun == clean /\ (gpc = "precommit" => runs = 1)
Hand == IF gpc = "precommit" /\ runs > 1 THEN NoBuffer ELSE current

\* Every buffer that is lent is in one place: a queue or the hand of the io thread.
Millislices == [buffer : Buffers, words : SUBSET Int, end : Int, inStep : BOOLEAN]
EachOnce(e, f, h) ==
  /\ \A i, j \in 1..Len(e) : i # j => e[i] # e[j]
  /\ \A i, j \in 1..Len(f) : i # j => f[i].buffer # f[j].buffer
  /\ \A i \in 1..Len(e) : \A j \in 1..Len(f) : e[i] # f[j].buffer
  /\ (\A i \in 1..Len(e) : e[i] # h) /\ \A j \in 1..Len(f) : f[j].buffer # h
HeldIn(b, e, f, h) ==
  \/ b = h
  \/ \E i \in 1..Len(e) : e[i] = b
  \/ \E j \in 1..Len(f) : f[j].buffer = b
LendingOf(e, f, h, m) ==
  /\ e \in Seq(Buffers) /\ f \in Seq(Millislices) /\ h \in Buffers \cup {NoBuffer}
  /\ IsFiniteSet(m) /\ Cardinality(m) <= Precommit
  /\ EachOnce(e, f, h) /\ m = {b \in Buffers : HeldIn(b, e, f, h)}
  /\ Cardinality(m) = Len(e) + Len(f) + (IF h = NoBuffer THEN 0 ELSE 1)
LendingRight ==
  clean => LendingOf(empty, filled, Hand, mapped) /\ (gpc = "precommit" => filled = <<>>)

\* Where the io thread has a buffer.
HandRight ==
  /\ InRun => /\ io \in {"popped", "reading"} => current # NoBuffer
              /\ io = "reading" => mstate = "MillisliceIncomplete"
              /\ io = "popped" => mstate = "MillisliceEmpty"
              /\ io = "pop" => current = NoBuffer
              /\ mstate = "MillisliceIncomplete" => current # NoBuffer
              /\ mstate = "MillisliceEmpty" /\ current # NoBuffer => io = "popped" \/ suspend
  /\ clean /\ gpc = "clear" /\ runs > 1 => current = NoBuffer

\* The words of a millislice that ends at e, of a run that began at s, up to t.
WindowOf(s, e, t) == {k \in (e - MillisliceSize - Overlap + 1)..e : s <= k /\ k <= t}
EndOf(s, i) == s - 1 + i * MillisliceSize
WholeWindow(s, e) == {k \in (e - MillisliceSize - Overlap + 1)..e : s <= k}
FilledOf(s, f, n) ==
  \A i \in 1..Len(f) :
    /\ f[i].end = EndOf(s, n + i)
    /\ f[i].words = WholeWindow(s, f[i].end)

\* Of the run the microslices a to b have been received, from the tick s to e.
NextIs(b) ==
  /\ part = "header" =>
       /\ lastId = b % IdModulus
       /\ ~torn /\ conn # "reset" =>
            IF stream = <<>> THEN nextSlice = b + 1
            ELSE stream[1].part = "header" /\ stream[1].slice \in (b + 1)..(b + 1 + MaxLost)
  /\ part = "payload" /\ ~torn /\ stream # <<>> /\ stream[1].part = "payload"
       => stream[1].slice = b + 1
\* The millislice that ends at d, with the words w, those kept back r and the overlap o.
CutOf(s, e, d, m, w, r, o) ==
  /\ s <= e /\ d - MillisliceSize < e /\ e <= d
  /\ m = "MillisliceIncomplete" =>
       /\ w = WindowOf(s, d, e) /\ r = {}
       /\ o = {k \in (d - Overlap + 1)..d : s <= k /\ k <= e}
  /\ m = "MillisliceEmpty" =>
       /\ e <= d - MillisliceSize + SliceTicks /\ s <= d - MillisliceSize
       /\ r = (d - MillisliceSize + 1)..e
       /\ o = {k \in (d - MillisliceSize - Overlap + 1)..(d - MillisliceSize) : s <= k}
CutRight(s, e) ==
  /\ boundary = EndOf(s, taken + Len(filled) + 1)
  /\ FilledOf(s, filled, taken)
  /\ CutOf(s, e, boundary, mstate, words, remaining, overlap)
NothingReceived ==
  /\ words = {} /\ remaining = {} /\ overlap = {} /\ taken = 0 /\ filled = <<>>
  /\ part = "header" => lastId = NoId
Received(a, b) ==
  a <= b /\ runStart = FirstWord(a) /\ NextIs(b) /\ CutRight(runStart, (b + 1) * SliceTicks)
SliceSoFar == IF runStart = 0 THEN NothingReceived ELSE \E a, b \in Nat : Received(a, b)
\* As long as the reader is in step and has missed nothing, or has told of what it missed.
PennInStep == ~exception /\ ~misled /\ ~torn
SlicingRight == InRun /\ PennInStep => SliceSoFar

\* What was filled until then stays what it is.
GoodOnes(s, f, n) ==
  \A i \in 1..Len(f) : f[i].inStep => /\ f[i].end = EndOf(s, n + i)
                                      /\ f[i].words = WholeWindow(s, f[i].end)
KeptRight ==
  InRun /\ ~exception /\ ~misled =>
    GoodOnes(runStart, filled, taken) /\ (runStart = 0 => filled = <<>>)

\* What is read of a run that began afresh was sent after its StartRun.
FreshRight ==
  fresh =>
    /\ gpc \in {"clear", "clearFlag", "command"} => ~boardOn /\ stream = <<>> /\ runStart = 0
    /\ gpc \in {"running", "stopping"} =>
         /\ firstSlice <= nextSlice
         /\ \A i \in 1..Len(stream) : stream[i].slice >= firstSlice
         /\ ~torn /\ runStart # 0 => runStart > firstSlice * SliceTicks

PennInv ==
  /\ PennTypes /\ StreamRight /\ SuspendRight /\ FirstRight
  /\ LendingRight /\ HandRight /\ SlicingRight /\ KeptRight /\ FreshRight

-----------------------------------------------------------------------------
(* Types. *)

Item == [part : Parts, slice : Nat]

LEMMA TailOfItems ==
  ASSUME NEW s \in Seq(Item), s # <<>>
  PROVE  /\ Head(s) = s[1] /\ s[1] \in Item /\ Tail(s) \in Seq(Item) /\ Len(s) \in Nat \ {0}
         /\ Len(Tail(s)) = Len(s) - 1
         /\ \A i \in 1..(Len(s) - 1) : Tail(s)[i] = s[i + 1]
OBVIOUS

LEMMA FrontOfItems ==
  ASSUME NEW s \in Seq(Item), s # <<>>
  PROVE  /\ Front(s) \in Seq(Item) /\ Len(Front(s)) = Len(s) - 1
         /\ \A i \in 1..(Len(s) - 1) : Front(s)[i] = s[i]
<1>1. PICK n : n = Len(s) - 1
  OBVIOUS
<1>2. n \in Nat /\ \A i \in 1..n : s[i] \in Item
  BY <1>1
<1>3. /\ SubSeq(s, 1, n) \in Seq(Item)
      /\ Len(SubSeq(s, 1, n)) = IF 1 <= n THEN n - 1 + 1 ELSE 0
      /\ \A i \in 1..(n - 1 + 1) : SubSeq(s, 1, n)[i] = s[1 + i - 1]
  BY <1>2, SubSeqProperties
<1>4. Len(SubSeq(s, 1, n)) = n /\ \A i \in 1..n : SubSeq(s, 1, n)[i] = s[i]
  BY <1>2, <1>3
<1>. QED BY <1>1, <1>3, <1>4 DEF Front

\* what is left when the first k parts are taken
LEMMA SuffixOfItems ==
  ASSUME NEW s \in Seq(Item), NEW k \in 1..Len(s)
  PROVE  /\ SubSeq(s, k + 1, Len(s)) \in Seq(Item) /\ Len(SubSeq(s, k + 1, Len(s))) = Len(s) - k
         /\ \A i \in 1..(Len(s) - k) : SubSeq(s, k + 1, Len(s))[i] = s[i + k]
<1>1. PICK m, n : m = k + 1 /\ n = Len(s)
  OBVIOUS
<1>2. m \in Nat /\ n \in Nat /\ n + 1 >= m /\ \A i \in m..n : s[i] \in Item
  BY <1>1
<1>3. /\ SubSeq(s, m, n) \in Seq(Item)
      /\ Len(SubSeq(s, m, n)) = IF m <= n THEN n - m + 1 ELSE 0
      /\ \A i \in 1..(n - m + 1) : SubSeq(s, m, n)[i] = s[m + i - 1]
  BY <1>2, SubSeqProperties
<1>4. Len(SubSeq(s, m, n)) = n - k /\ \A i \in 1..(n - k) : SubSeq(s, m, n)[i] = s[i + k]
  BY <1>1, <1>2, <1>3
<1>. QED BY <1>1, <1>3, <1>4

\* the times that a payload taken out of step sets
LEMMA TimesOfGarbage ==
  ASSUME PennTypes, GarbledPayload
  PROVE  /\ runStart' \in Nat \ {0} /\ boundary' \in Nat
         /\ runStart # 0 => runStart' = runStart
<1>1. SliceTicks \in Nat \ {0} /\ MillisliceSize \in Nat \ {0} /\ runStart \in Nat /\ boundary \in Nat
  BY TicksAssumption DEF PennTypes
<1>2. runStart' = IF runStart = 0 THEN SliceTicks ELSE runStart
  BY DEF GarbledPayload, SomeTime
<1>3. PICK e : e = IF runStart = 0 THEN SliceTicks + MillisliceSize - 1 ELSE boundary
  OBVIOUS
<1>4. e \in Nat
  BY <1>1, <1>3
<1>5. boundary' = e \/ boundary' = e + MillisliceSize
  BY <1>3 DEF GarbledPayload, SomeTime
<1>. QED BY <1>1, <1>2, <1>4, <1>5

LEMMA SliceSent ==
  ASSUME NEW s \in Seq(Item), NEW n \in Nat
  PROVE  LET t == s \o <<[part |-> "header", slice |-> n], [part |-> "payload", slice |-> n]>>
         IN  /\ t \in Seq(Item) /\ Len(t) = Len(s) + 2
             /\ \A i \in 1..Len(s) : t[i] = s[i]
             /\ t[Len(s) + 1] = [part |-> "header", slice |-> n]
             /\ t[Len(s) + 2] = [part |-> "payload", slice |-> n]
<1>1. [part |-> "header", slice |-> n] \in Item /\ [part |-> "payload", slice |-> n] \in Item
  BY DEF Item, Parts
<1>2. PICK h, p : h = [part |-> "header", slice |-> n] /\ p = [part |-> "payload", slice |-> n]
  OBVIOUS
<1>3. <<h, p>> \in Seq(Item) /\ Len(<<h, p>>) = 2 /\ <<h, p>>[1] = h /\ <<h, p>>[2] = p
  BY <1>1, <1>2
<1>4. PICK q : q = <<h, p>>
  OBVIOUS
<1>5. /\ s \o q \in Seq(Item) /\ Len(s \o q) = Len(s) + 2
      /\ \A i \in 1..Len(s) : (s \o q)[i] = s[i]
      /\ (s \o q)[Len(s) + 1] = q[1] /\ (s \o q)[Len(s) + 2] = q[2]
  BY <1>3, <1>4
<1>. QED BY <1>2, <1>3, <1>4, <1>5

LEMMA TypesBoard ==
  ASSUME PennTypes, BoardSteps
  PROVE  PennTypes'
<1>. stream \in Seq(Item)
  BY DEF PennTypes, Item
<1>0. BoardRest /\ boardOn' = boardOn
  BY DEF BoardSteps, BoardConnects, BoardSends, BoardCloses
<1>1. ASSUME BoardConnects
      PROVE  /\ stream' \in Seq(Item) /\ nextSlice' \in Nat
             /\ conn' \in {"none", "pending", "open", "closed", "reset"}
  BY <1>1 DEF BoardConnects, PennTypes
<1>2. ASSUME BoardSends
      PROVE  /\ stream' \in Seq(Item) /\ nextSlice' \in Nat
             /\ conn' \in {"none", "pending", "open", "closed", "reset"}
  <2>1. PICK lost \in 0..MaxLost : /\ SendSlice(nextSlice + lost)
                                   /\ nextSlice' = nextSlice + lost + 1
    BY <1>2 DEF BoardSends
  <2>2. lost \in Nat /\ nextSlice \in Nat
    BY BoundsAssumption DEF PennTypes
  <2>3. nextSlice + lost \in Nat /\ nextSlice' \in Nat
    BY <2>1, <2>2
  <2>4. stream' \in Seq(Item)
    BY <2>1, <2>3, SliceSent DEF SendSlice
  <2>. QED BY <1>2, <2>3, <2>4 DEF BoardSends, PennTypes
<1>3. ASSUME BoardCloses
      PROVE  /\ stream' \in Seq(Item) /\ nextSlice' \in Nat
             /\ conn' \in {"none", "pending", "open", "closed", "reset"}
  <2>1. nextSlice' = nextSlice /\ conn' \in {"closed", "reset"}
    BY <1>3 DEF BoardCloses
  <2>2. stream' \in {stream, <<>>} \/ (stream # <<>> /\ stream' = Front(stream))
    BY <1>3 DEF BoardCloses
  <2>3. stream' \in Seq(Item)
    <3>1. CASE stream # <<>> /\ stream' = Front(stream)
      BY <3>1, FrontOfItems
    <3>2. CASE stream' = stream
      BY <3>2
    <3>3. CASE stream' = <<>>
      BY <3>3
    <3>. QED BY <2>2, <3>1, <3>2, <3>3
  <2>. QED BY <2>1, <2>3 DEF PennTypes
<1>4. /\ stream' \in Seq(Item) /\ nextSlice' \in Nat
      /\ conn' \in {"none", "pending", "open", "closed", "reset"}
  BY <1>1, <1>2, <1>3 DEF BoardSteps
<1>. QED
  BY <1>0, <1>4 DEF BoardRest, slicing, reading, queues, flags, history, marks, counts, PennTypes, Item

LEMMA TypesIo ==
  ASSUME PennTypes, IoSteps
  PROVE  PennTypes'
<1>0. stream \in Seq(Item) /\ SliceTicks \in Nat \ {0} /\ MillisliceSize \in Nat \ {0}
      /\ IdModulus \in Nat \ {0}
  BY TicksAssumption DEF PennTypes, Item
<1>1. CASE ReceiveHeader
  <2>1. PICK n : n = Head(stream).slice
    OBVIOUS
  <2>2. n \in Nat /\ Tail(stream) \in Seq(Item)
    BY <1>0, <1>1, <2>1, TailOfItems DEF ReceiveHeader, Receives, Item
  <2>3. n % IdModulus \in Nat
    BY <1>0, <2>2
  <2>4. /\ stream' \in Seq(Item) /\ lastId' \in Nat
        /\ part' = "payload" /\ mstate' = "MillisliceIncomplete"
    BY <1>1, <2>1, <2>2, <2>3 DEF ReceiveHeader, Receives
  <2>5. exception' \in BOOLEAN /\ misled' \in BOOLEAN
    BY <1>1, Zenon DEF ReceiveHeader, CheckId, PennTypes
  <2>. QED BY <1>1, <2>4, <2>5 DEF ReceiveHeader, IoRest, counts, PennTypes, Item, Parts
<1>2. CASE ReceivePayload
  <2>1. PICK n : n = Head(stream).slice
    OBVIOUS
  <2>2. n \in Nat /\ Tail(stream) \in Seq(Item)
    BY <1>0, <1>2, <2>1, TailOfItems DEF ReceivePayload, Receives, Item
  <2>3. PICK f : f = n * SliceTicks
    OBVIOUS
  <2>4. f \in Nat
    BY <1>0, <2>2, <2>3
  <2>5. FirstWord(n) \in Nat
    BY <2>3, <2>4 DEF FirstWord
  <2>6. StartTime(n) \in Nat /\ Boundary(n) \in Nat
    BY <1>0, <2>5 DEF StartTime, Boundary, PennTypes
  <2>8. WordsOf(n) \subseteq Int
    <3>1. (n + 1) * SliceTicks = f + SliceTicks
      BY <1>0, <2>2, <2>3
    <3>. QED BY <1>0, <2>3, <2>4, <3>1 DEF WordsOf
  <2>9. words' \subseteq Int /\ remaining' \subseteq Int /\ overlap' \subseteq Int
    <3>1. UpTo(n) \subseteq Int /\ After(n) \subseteq Int /\ InOverlap(n) \subseteq Int
      BY <2>8 DEF UpTo, After, InOverlap
    <3>2. words \subseteq Int /\ overlap \subseteq Int
      BY DEF PennTypes
    <3>3. words' = words \union UpTo(n) /\ remaining' = After(n) /\ overlap' = overlap \union InOverlap(n)
      BY <1>2, <2>1 DEF ReceivePayload
    <3>. QED BY <3>1, <3>2, <3>3
  <2>7. /\ stream' \in Seq(Item) /\ runStart' \in Nat /\ part' = "header"
        /\ boundary' \in Nat /\ mstate' \in {"MillisliceEmpty", "MillisliceIncomplete"}
    BY <1>0, <1>2, <2>1, <2>2, <2>6 DEF ReceivePayload, Receives, Complete, Push
  <2>10. fragment' \in BOOLEAN
    BY <1>2, Zenon DEF ReceivePayload
  <2>. QED BY <1>2, <2>7, <2>9, <2>10 DEF ReceivePayload, IoRest, counts, PennTypes, Item, Parts
<1>3. CASE Dies
  <2>1. stream' \in Seq(Item)
    BY <1>0, <1>3, TailOfItems DEF Dies, Receives
  <2>. QED BY <1>3, <2>1 DEF Dies, slicing, counts, PennTypes, Item
<1>4. CASE ReceiveGarbage
  <2>1. stream' \in Seq(Item)
    BY <1>0, <1>4, SuffixOfItems DEF ReceiveGarbage
  <2>2. exception' \in BOOLEAN
    BY <1>4 DEF ReceiveGarbage, GarbledHeader, GarbledPayload, Distrust, PennTypes
  <2>3. /\ torn' \in BOOLEAN /\ IoRest
        /\ UNCHANGED <<conn, misled, suspended, late>>
    BY <1>4 DEF ReceiveGarbage
  <2>4. CASE GarbledHeader
    <3>1. /\ part' = "payload" /\ fragment' = FALSE /\ mstate' = "MillisliceIncomplete"
          /\ UNCHANGED <<words, remaining, overlap, runStart, boundary, lastId>>
      BY <2>4, Zenon DEF GarbledHeader
    <3>. QED BY <2>1, <2>2, <2>3, <3>1 DEF IoRest, counts, PennTypes, Item, Parts
  <2>5. CASE GarbledPayload
    <3>1. words' \subseteq Int /\ remaining' \subseteq Int /\ overlap' \subseteq Int
      BY <2>5 DEF GarbledPayload, Garbage
    <3>2. runStart' \in Nat /\ boundary' \in Nat
      BY <1>0, <2>5, TimesOfGarbage
    <3>3. /\ fragment' \in BOOLEAN /\ mstate' \in {"MillisliceEmpty", "MillisliceIncomplete"}
          /\ part' = "header" /\ lastId' = lastId
      <4>1. fragment' \in BOOLEAN
        BY <2>5, Zenon DEF GarbledPayload
      <4>. QED BY <2>5, <4>1 DEF GarbledPayload
    <3>. QED BY <2>1, <2>2, <2>3, <3>1, <3>2, <3>3 DEF IoRest, counts, PennTypes, Item, Parts
  <2>. QED BY <1>4, <2>4, <2>5 DEF ReceiveGarbage
<1>5. CASE Mark
  <2>1. late' \in BOOLEAN
    BY <1>5, Zenon DEF Mark, PennTypes
  <2>. QED BY <1>5, <2>1 DEF Mark, IoRest, slicing, reading, counts, PennTypes
<1>6. CASE ReadTimeout
  <2>1. torn' = torn \/ torn' = TRUE
    BY <1>6, Zenon DEF ReadTimeout, PennTypes
  <2>2. torn' \in BOOLEAN
    BY <1>6, Zenon DEF ReadTimeout, PennTypes
  <2>. QED BY <1>6, <2>2 DEF ReadTimeout, IoRest, slicing, counts, PennTypes
<1>7. CASE BeginMillislice
  <2>1. /\ mstate' = mstate \/ mstate' = "MillisliceIncomplete"
        /\ UNCHANGED <<part, runStart, boundary, lastId, fragment, misled>>
    BY <1>7, Zenon DEF BeginMillislice, slicing
  <2>3. words' \subseteq Int /\ remaining' \subseteq Int /\ overlap' \subseteq Int
    <3>1. words \subseteq Int /\ remaining \subseteq Int /\ overlap \subseteq Int
      BY DEF PennTypes
    <3>2. \/ words' = words /\ remaining' = remaining /\ overlap' = overlap
          \/ words' = overlap \union remaining /\ remaining' = {} /\ overlap' = {}
      BY <1>7, Zenon DEF BeginMillislice, slicing, Prepend
    <3>. QED BY <3>1, <3>2
  <2>2. /\ IoRest
        /\ UNCHANGED <<conn, stream, current, reading, empty, filled, suspended, exception, late>>
    BY <1>7, Zenon DEF BeginMillislice
  <2>. QED BY <2>1, <2>2, <2>3 DEF IoRest, reading, counts, PennTypes
<1>8. CASE PopTimeout
  <2>1. exception' \in BOOLEAN
    BY <1>8, Zenon DEF PopTimeout, GiveUp, PennTypes
  <2>2. /\ IoRest
        /\ UNCHANGED <<conn, stream, current, mstate, slicing, reading, empty, filled, suspended, late>>
    BY <1>8, Zenon DEF PopTimeout
  <2>. QED BY <2>1, <2>2 DEF IoRest, slicing, reading, counts, PennTypes
<1>9. CASE ReadError
  <2>1. exception' \in BOOLEAN /\ conn' \in {conn, "none"}
    BY <1>9, Zenon DEF ReadError, PennTypes
  <2>2. /\ IoRest
        /\ UNCHANGED <<stream, current, mstate, slicing, torn, empty, filled, suspended, late>>
    BY <1>9, Zenon DEF ReadError
  <2>. QED BY <2>1, <2>2 DEF IoRest, slicing, counts, PennTypes
<1>10. CASE Accept \/ AcceptSuspend \/ Read \/ Resume \/ Pop \/ ReceiveSome
  <2>1. /\ IoRest /\ conn' \in {conn, "open"}
        /\ UNCHANGED <<stream, mstate, slicing, torn, filled, suspended, exception, late>>
    BY <1>10, Zenon DEF Accept, AcceptSuspend, Read, Resume, Pop, ReceiveSome, reading
  <2>. QED BY <2>1 DEF IoRest, slicing, counts, PennTypes
<1>. QED BY <1>1, <1>2, <1>3, <1>4, <1>5, <1>6, <1>7, <1>8, <1>9, <1>10 DEF IoSteps

LEMMA TypesArtdaq ==
  ASSUME PennTypes, ArtdaqSteps
  PROVE  PennTypes'
<1>1. CASE Reset
  <2>1. clean' \in BOOLEAN /\ fresh' \in BOOLEAN
    BY <1>1, Zenon DEF Reset
  <2>2. torn' \in BOOLEAN
    BY <1>1 DEF Reset
  <2>3. /\ fragment' = FALSE /\ misled' = FALSE /\ lastId' = NoId /\ part' = "header"
        /\ mstate' = "MillisliceEmpty" /\ words' = {} /\ remaining' = {} /\ overlap' = {}
        /\ runStart' = 0 /\ boundary' = 0 /\ taken' = 0
    BY <1>1, Zenon DEF Reset, ResetTimes
  <2>4. stream' \in Seq(Item)
    BY <1>1 DEF Reset, Flush, PennTypes, Item
  <2>5. ArtdaqRest /\ UNCHANGED <<boardOn, suspend, suspended, answered, late, firstSlice, runs>>
    BY <1>1, Zenon DEF Reset
  <2>. QED
    BY <2>1, <2>2, <2>3, <2>4, <2>5 DEF ArtdaqRest, PennTypes, Item, Parts
<1>2. CASE StartRelease
  <2>1. runs' \in Nat
    BY <1>2 DEF StartRelease, PennTypes
  <2>. QED
    BY <1>2, <2>1 DEF StartRelease, ArtdaqRest, receiver, slicing, reading, PennTypes
<1>3. CASE TakeFilled
  <2>1. taken' \in Nat
    BY <1>3 DEF TakeFilled, PennTypes
  <2>. QED
    BY <1>3, <2>1 DEF TakeFilled, ArtdaqRest, receiver, slicing, reading, marks, PennTypes
<1>4. CASE StopEnds
  <2>1. answered' \in BOOLEAN
    BY <1>4, Zenon DEF StopEnds, PennTypes
  <2>. QED
    <3>1. /\ ArtdaqRest
          /\ UNCHANGED <<boardOn, stream, receiver, queues, suspend, suspended, clean, late, fresh,
                         counts>>
      BY <1>4, Zenon DEF StopEnds
    <3>. QED BY <2>1, <3>1 DEF ArtdaqRest, receiver, slicing, reading, counts, PennTypes
<1>5. CASE StartRun
  <2>1. boardOn' \in BOOLEAN /\ firstSlice' \in Nat
    BY <1>5 DEF StartRun, PennTypes
  <2>2. /\ ArtdaqRest
        /\ UNCHANGED <<stream, receiver, queues, suspend, suspended, marks, taken, runs>>
    BY <1>5, Zenon DEF StartRun
  <2>. QED BY <2>1, <2>2 DEF ArtdaqRest, receiver, slicing, reading, marks, PennTypes
<1>6. CASE StopRun
  <2>1. boardOn' \in BOOLEAN
    BY <1>6 DEF StopRun, PennTypes
  <2>2. ArtdaqRest /\ UNCHANGED <<stream, receiver, queues, suspend, suspended, history>>
    BY <1>6, Zenon DEF StopRun
  <2>. QED BY <2>1, <2>2 DEF ArtdaqRest, receiver, slicing, reading, history, marks, counts, PennTypes
<1>7. CASE Commit
  BY <1>7 DEF Commit, ArtdaqRest, receiver, slicing, reading, marks, PennTypes
<1>8. CASE ClearSuspend \/ DataTimeout \/ Stop
  <2>1. /\ ArtdaqRest /\ UNCHANGED <<boardOn, stream, receiver, suspended, history>>
    BY <1>8, Zenon DEF ClearSuspend, DataTimeout, Stop
  <2>2. suspend' \in BOOLEAN
    BY <1>8, Zenon DEF ClearSuspend, DataTimeout, Stop, PennTypes
  <2>. QED BY <2>1, <2>2 DEF ArtdaqRest, receiver, slicing, reading, history, marks, counts, PennTypes
<1>10. CASE ClearFlag
  <2>1. /\ ArtdaqRest /\ suspended' = FALSE /\ late' = FALSE
        /\ UNCHANGED <<boardOn, stream, receiver, suspend, answered, clean, fresh, counts>>
    BY <1>10, Zenon DEF ClearFlag
  <2>2. late' \in BOOLEAN /\ suspended' \in BOOLEAN
    BY <2>1
  <2>3. UNCHANGED <<boardOn, stream, current, mstate, slicing, torn, suspend, answered, clean, fresh,
                    firstSlice, taken, runs, nextSlice, conn, exception>>
    BY <2>1, Zenon DEF ArtdaqRest, receiver, reading, counts
  <2>. QED BY <2>2, <2>3 DEF slicing, PennTypes
<1>9. CASE Throws
  <2>1. ArtdaqRest /\ UNCHANGED <<boardOn, stream, receiver, queues, suspend, suspended, history>>
    BY <1>9, Zenon DEF Throws
  <2>. QED BY <2>1 DEF ArtdaqRest, receiver, slicing, reading, history, marks, counts, PennTypes
<1>. QED BY <1>1, <1>2, <1>3, <1>4, <1>5, <1>6, <1>7, <1>8, <1>9, <1>10 DEF ArtdaqSteps

LEMMA TypesStep ==
  ASSUME PennTypes, [Next]_vars
  PROVE  PennTypes'
<1>1. CASE UNCHANGED vars
  BY <1>1 DEF vars, board, slicing, reading, queues, flags, history, marks, counts, PennTypes
<1>. QED BY <1>1, TypesBoard, TypesIo, TypesArtdaq DEF Next

-----------------------------------------------------------------------------
(* The stream. *)

\* What is left of a stream whose first part is taken is again one.
LEMMA TailOfChain ==
  ASSUME NEW s \in Seq(Item), s # <<>>, Chain(s)
  PROVE  /\ Chain(Tail(s))
         /\ Tail(s) # <<>> => /\ Follows(s[1], Tail(s)[1])
                              /\ Tail(s)[Len(Tail(s))] = s[Len(s)]
<1>1. PICK t, n : t = Tail(s) /\ n = Len(s)
  OBVIOUS
<1>2. /\ n \in Nat \ {0} /\ Len(t) = n - 1 /\ t \in Seq(Item)
      /\ \A i \in 1..(n - 1) : t[i] = s[i + 1]
  BY <1>1, TailOfItems
<1>3. \A i \in 1..(n - 1) : Follows(s[i], s[i + 1])
  BY <1>1 DEF Chain
<1>4. ASSUME NEW i \in 1..(Len(t) - 1) PROVE Follows(t[i], t[i + 1])
  <2>1. i \in 1..(n - 1) /\ i + 1 \in 1..(n - 1) /\ (i + 1) + 1 \in Nat
    BY <1>2
  <2>2. t[i] = s[i + 1] /\ t[i + 1] = s[(i + 1) + 1]
    BY <1>2, <2>1
  <2>. QED BY <1>3, <2>1, <2>2
<1>5. ASSUME t # <<>> PROVE Follows(s[1], t[1]) /\ t[Len(t)] = s[n]
  <2>1. Len(t) # 0
    BY <1>2, <1>5
  <2>2. 1 \in 1..(n - 1) /\ n - 1 \in 1..(n - 1) /\ (n - 1) + 1 = n
    BY <1>2, <2>1
  <2>3. t[1] = s[1 + 1] /\ t[n - 1] = s[n]
    BY <1>2, <2>2
  <2>4. Follows(s[1], s[1 + 1])
    BY <1>3, <2>2
  <2>. QED BY <1>2, <2>3, <2>4
<1>. QED BY <1>1, <1>4, <1>5 DEF Chain

\* And so is what is left when more are taken.
LEMMA SuffixOfChain ==
  ASSUME NEW s \in Seq(Item), Chain(s), NEW k \in 1..Len(s)
  PROVE  LET t == SubSeq(s, k + 1, Len(s)) IN Chain(t) /\ (t # <<>> => t[Len(t)] = s[Len(s)])
<1>1. PICK t, n : t = SubSeq(s, k + 1, Len(s)) /\ n = Len(s)
  OBVIOUS
<1>2. /\ n \in Nat \ {0} /\ k \in 1..n /\ Len(t) = n - k /\ t \in Seq(Item)
      /\ \A i \in 1..(n - k) : t[i] = s[i + k]
  BY <1>1, SuffixOfItems
<1>3. \A i \in 1..(n - 1) : Follows(s[i], s[i + 1])
  BY <1>1 DEF Chain
<1>4. ASSUME NEW i \in 1..(Len(t) - 1) PROVE Follows(t[i], t[i + 1])
  <2>1. i \in 1..(n - k) /\ i + 1 \in 1..(n - k) /\ i + k \in 1..(n - 1) /\ (i + 1) + k = (i + k) + 1
    BY <1>2
  <2>2. t[i] = s[i + k] /\ t[i + 1] = s[(i + k) + 1]
    BY <1>2, <2>1
  <2>. QED BY <1>3, <2>1, <2>2
<1>5. ASSUME t # <<>> PROVE t[Len(t)] = s[n]
  <2>1. Len(t) # 0
    BY <1>2, <1>5
  <2>2. n - k \in 1..(n - k) /\ (n - k) + k = n
    BY <1>2, <2>1
  <2>. QED BY <1>2, <2>2
<1>. QED BY <1>1, <1>4, <1>5 DEF Chain

\* A connection that closes may lose the payload whose header is the last thing it brought.
LEMMA FrontOfChain ==
  ASSUME NEW s \in Seq(Item), s # <<>>, Chain(s), s[Len(s)].part = "payload"
  PROVE  /\ Chain(Front(s))
         /\ Front(s) # <<>> => /\ Front(s)[1] = s[1]
                               /\ Front(s)[Len(Front(s))].slice = s[Len(s)].slice
<1>1. PICK t, n : t = Front(s) /\ n = Len(s)
  OBVIOUS
<1>2. /\ n \in Nat \ {0} /\ Len(t) = n - 1 /\ t \in Seq(Item)
      /\ \A i \in 1..(n - 1) : t[i] = s[i]
  BY <1>1, TailOfItems, FrontOfItems
<1>3. \A i \in 1..(n - 1) : Follows(s[i], s[i + 1])
  BY <1>1 DEF Chain
<1>4. ASSUME NEW i \in 1..(Len(t) - 1) PROVE Follows(t[i], t[i + 1])
  <2>1. i \in 1..(n - 1) /\ i + 1 \in 1..(n - 1)
    BY <1>2
  <2>2. t[i] = s[i] /\ t[i + 1] = s[i + 1]
    BY <1>2, <2>1
  <2>. QED BY <1>3, <2>1, <2>2
<1>5. ASSUME t # <<>> PROVE t[1] = s[1] /\ t[Len(t)].slice = s[n].slice
  <2>1. Len(t) # 0
    BY <1>2, <1>5
  <2>2. 1 \in 1..(n - 1) /\ n - 1 \in 1..(n - 1) /\ (n - 1) + 1 = n
    BY <1>2, <2>1
  <2>3. t[1] = s[1] /\ t[n - 1] = s[n - 1]
    BY <1>2, <2>2
  <2>4. Follows(s[n - 1], s[n])
    BY <1>3, <2>2
  <2>5. s[n - 1] \in Item /\ s[n].part = "payload"
    BY <1>1, <1>2, <2>2
  <2>6. s[n].slice = s[n - 1].slice
    BY <2>4, <2>5 DEF Follows, Item, Parts
  <2>. QED BY <1>2, <2>3, <2>6
<1>. QED BY <1>1, <1>4, <1>5 DEF Chain

\* The board adds a whole microslice, after at most MaxLost that it lost.
Sends(s, n, t) == t = s \o <<[part |-> "header", slice |-> n], [part |-> "payload", slice |-> n]>>
MayFollow(s, n, z) == s # <<>> => /\ s[Len(s)].part = "payload" /\ z = s[Len(s)].slice + 1
                                  /\ n \in z..(z + MaxLost)

LEMMA ChainSent ==
  ASSUME NEW s \in Seq(Item), Chain(s), NEW n \in Nat, NEW t, NEW z \in Nat,
         Sends(s, n, t), MayFollow(s, n, z)
  PROVE  /\ Chain(t) /\ t \in Seq(Item) /\ t # <<>>
         /\ t[Len(t)].part = "payload" /\ t[Len(t)].slice = n
         /\ (s = <<>> => t[1].part = "header" /\ t[1].slice = n) /\ (s # <<>> => t[1] = s[1])
<1>a. PICK h, p : h = [part |-> "header", slice |-> n] /\ p = [part |-> "payload", slice |-> n]
  OBVIOUS
<1>b. t = s \o <<h, p>>
  BY <1>a DEF Sends
<1>1. PICK m : m = Len(s)
  OBVIOUS
<1>2. m \in Nat /\ (s = <<>> <=> m = 0)
  BY <1>1
<1>3. /\ t \in Seq(Item) /\ Len(t) = m + 2 /\ \A i \in 1..m : t[i] = s[i]
      /\ t[m + 1] = h /\ t[m + 2] = p
  BY <1>1, <1>a, <1>b, SliceSent
<1>4. ASSUME NEW i \in 1..(Len(t) - 1) PROVE Follows(t[i], t[i + 1])
  <2>1. CASE i < m
    <3>1. i \in 1..m /\ i + 1 \in 1..m /\ i \in 1..(m - 1)
      BY <1>2, <2>1
    <3>. QED BY <1>1, <1>3, <3>1 DEF Chain
  <2>2. CASE i = m
    <3>1. m \in 1..m /\ s # <<>>
      BY <1>2, <2>2
    <3>2. s[m] \in Item /\ s[m].part = "payload" /\ n \in (s[m].slice + 1)..(s[m].slice + 1 + MaxLost)
      BY <1>1, <3>1 DEF MayFollow
    <3>3. h.part = "header" /\ h.slice = n
      BY <1>a
    <3>4. Follows(s[m], h)
      BY <3>2, <3>3 DEF Follows
    <3>. QED BY <1>3, <2>2, <3>1, <3>4
  <2>3. CASE i = m + 1
    <3>1. Follows(h, p)
      BY <1>a DEF Follows
    <3>2. i + 1 = m + 2
      BY <1>2, <2>3
    <3>. QED BY <1>3, <2>3, <3>1, <3>2
  <2>. QED BY <1>2, <1>3, <2>1, <2>2, <2>3
<1>5. t # <<>> /\ t[Len(t)] = p
  BY <1>2, <1>3
<1>6. (s = <<>> => t[1] = h) /\ (s # <<>> => t[1] = s[1])
  BY <1>2, <1>3
<1>7. p.part = "payload" /\ p.slice = n /\ h.part = "header" /\ h.slice = n
  BY <1>a
<1>. QED BY <1>1, <1>3, <1>4, <1>5, <1>6, <1>7 DEF Chain

LEMMA StreamBoard ==
  ASSUME PennTypes, StreamRight, BoardSteps
  PROVE  StreamRight'
<1>0. /\ stream \in Seq(Item) /\ nextSlice \in Nat /\ MaxLost \in Nat /\ part \in Parts
      /\ UNCHANGED <<part, torn, lastId>>
  BY BoundsAssumption DEF PennTypes, Item, BoardSteps, BoardConnects, BoardSends, BoardCloses,
                          BoardRest, slicing, reading
<1>1. CASE BoardConnects
  BY <1>1 DEF BoardConnects, StreamRight, Chain
<1>2. CASE BoardSends
  <2>1. PICK lost \in 0..MaxLost : /\ SendSlice(nextSlice + lost)
                                   /\ nextSlice' = nextSlice + lost + 1
    BY <1>2 DEF BoardSends
  <2>2. PICK n : n = nextSlice + lost
    OBVIOUS
  <2>3. n \in Nat /\ n \in nextSlice..(nextSlice + MaxLost) /\ nextSlice' = n + 1
    BY <1>0, <2>1, <2>2
  <2>4. conn \in {"pending", "open"} /\ conn' = conn
    BY <1>2 DEF BoardSends
  <2>5. stream # <<>> => stream[Len(stream)].part = "payload"
                         /\ nextSlice = stream[Len(stream)].slice + 1
    BY <2>4 DEF StreamRight
  <2>6. Chain(stream) /\ Sends(stream, n, stream') /\ MayFollow(stream, n, nextSlice)
    BY <2>1, <2>2, <2>3, <2>5 DEF SendSlice, StreamRight, Sends, MayFollow
  <2>7. PICK s, t, y : s = stream /\ t = stream' /\ y = nextSlice
    OBVIOUS
  <2>8. /\ Chain(t) /\ t \in Seq(Item) /\ t # <<>>
        /\ t[Len(t)].part = "payload" /\ t[Len(t)].slice = n
        /\ (s = <<>> => t[1].part = "header") /\ (s # <<>> => t[1] = s[1])
    <3>1. /\ s \in Seq(Item) /\ n \in Nat /\ y \in Nat /\ Chain(s) /\ Sends(s, n, t)
          /\ MayFollow(s, n, y)
      <4>1. s \in Seq(Item) /\ n \in Nat /\ y \in Nat
        BY <1>0, <2>3, <2>7
      <4>2. Chain(s)
        BY <2>6, <2>7
      <4>3. Sends(s, n, t)
        BY <2>6, <2>7
      <4>4. MayFollow(s, n, y)
        BY <2>6, <2>7
      <4>. QED BY <4>1, <4>2, <4>3, <4>4
    <3>. QED BY <3>1, ChainSent
  <2>9. (stream = <<>> => stream'[1].part = "header") /\ (stream # <<>> => stream'[1] = stream[1])
    BY <2>7, <2>8
  <2>10. part' = "payload" /\ stream' # <<>> /\ stream'[1].part = "payload" /\ ~torn'
           => lastId' = stream'[1].slice % IdModulus
    BY <1>0, <2>9, Zenon DEF StreamRight
  <2>11. /\ Chain(stream') /\ stream' # <<>>
         /\ stream'[Len(stream')].part = "payload" /\ stream'[Len(stream')].slice = n
    BY <2>7, <2>8
  <2>. QED BY <2>3, <2>4, <2>10, <2>11 DEF StreamRight, Chain
<1>3. CASE BoardCloses
  <2>1. conn = "open" /\ nextSlice' = nextSlice
    BY <1>3 DEF BoardCloses
  <2>2. CASE stream' = <<>>
    BY <2>1, <2>2 DEF StreamRight, Chain
  <2>3. CASE stream' = stream /\ conn' = "closed"
    BY <1>0, <2>1, <2>3, Zenon DEF StreamRight, Chain
  <2>4. CASE stream # <<>> /\ stream' = Front(stream) /\ conn' = "closed"
    <3>1. stream[Len(stream)].part = "payload" /\ Chain(stream)
      BY <2>1, <2>4 DEF StreamRight
    <3>2. PICK t : t = Front(stream)
      OBVIOUS
    <3>3. Chain(t) /\ (t # <<>> => t[1] = stream[1] /\ t[Len(t)].slice = stream[Len(stream)].slice)
      BY <1>0, <2>4, <3>1, <3>2, FrontOfChain
    <3>4. stream' = t
      BY <2>4, <3>2
    <3>5. Chain(stream') /\ (stream' # <<>> => nextSlice' = stream'[Len(stream')].slice + 1)
      BY <2>1, <2>4, <3>3, <3>4 DEF StreamRight
    <3>6. part' = "payload" /\ stream' # <<>> /\ stream'[1].part = "payload" /\ ~torn'
           => lastId' = stream'[1].slice % IdModulus
      BY <1>0, <2>4, <3>3, <3>4, Zenon DEF StreamRight
    <3>. QED BY <2>4, <3>5, <3>6 DEF StreamRight, Chain
  <2>5. \/ stream' = <<>>
        \/ stream' = stream /\ conn' = "closed"
        \/ stream # <<>> /\ stream' = Front(stream) /\ conn' = "closed"
    <3>1. \/ conn' = "closed" /\ stream' = stream
          \/ stream' = <<>>
          \/ conn' = "closed" /\ stream' = IF stream = <<>> THEN <<>> ELSE Front(stream)
      BY <1>3 DEF BoardCloses
    <3>2. PICK f : f = Front(stream)
      OBVIOUS
    <3>. QED BY <3>1, <3>2
  <2>. QED BY <2>2, <2>3, <2>4, <2>5
<1>. QED BY <1>1, <1>2, <1>3 DEF BoardSteps

\* Taking a part of the stream leaves what follows it.
LEMMA StreamTaken ==
  ASSUME PennTypes, StreamRight, stream # <<>>, conn \in {"open", "closed"}
  PROVE  LET t == Tail(stream) IN
         /\ Chain(t)
         /\ t # <<>> => /\ Follows(stream[1], t[1]) /\ nextSlice = t[Len(t)].slice + 1
                        /\ conn # "closed" => t[Len(t)].part = "payload"
<1>1. stream \in Seq(Item) /\ Chain(stream)
  BY DEF PennTypes, Item, StreamRight
<1>2. PICK t : t = Tail(stream)
  OBVIOUS
<1>3. Chain(t) /\ (t # <<>> => Follows(stream[1], t[1]) /\ t[Len(t)] = stream[Len(stream)])
  BY <1>1, <1>2, TailOfChain
<1>. QED BY <1>2, <1>3 DEF StreamRight

LEMMA StreamKept ==
  ASSUME PennTypes, StreamRight, UNCHANGED <<stream, nextSlice, part, lastId>>, ~torn' => ~torn,
         conn' = conn \/ stream = <<>> \/ (conn = "pending" /\ conn' = "open")
  PROVE  StreamRight'
<1>1. Chain(stream') /\ (stream' # <<>> => nextSlice' = stream'[Len(stream')].slice + 1)
  BY Zenon DEF StreamRight
<1>2. stream' # <<>> /\ conn' # "closed" => stream'[Len(stream')].part = "payload"
  BY DEF StreamRight
<1>3. conn' \in {"none", "reset"} => stream' = <<>>
  BY DEF StreamRight
<1>4. part' = "payload" /\ stream' # <<>> /\ stream'[1].part = "payload" /\ ~torn'
         => lastId' = stream'[1].slice % IdModulus
  BY Zenon DEF StreamRight
<1>. QED BY <1>1, <1>2, <1>3, <1>4 DEF StreamRight, Chain

LEMMA StreamIo ==
  ASSUME PennTypes, StreamRight, IoSteps
  PROVE  StreamRight'
<1>0. /\ stream \in Seq(Item) /\ nextSlice' = nextSlice /\ part \in Parts
      /\ conn \in {"none", "pending", "open", "closed", "reset"}
  BY DEF PennTypes, Item, IoSteps, Accept, AcceptSuspend, Mark, Read, Resume, Pop, PopTimeout,
         BeginMillislice, ReceiveHeader, ReceivePayload, Dies, ReceiveSome, ReadTimeout,
         ReceiveGarbage, ReadError, IoRest
<1>1. CASE stream' = Tail(stream) /\ stream # <<>> /\ conn \in {"open", "closed"} /\ conn' = conn
  <2>1. PICK t : t = Tail(stream)
    OBVIOUS
  <2>2. /\ Chain(t)
        /\ t # <<>> => /\ Follows(stream[1], t[1]) /\ nextSlice = t[Len(t)].slice + 1
                       /\ conn # "closed" => t[Len(t)].part = "payload"
    BY <1>1, <2>1, StreamTaken
  <2>3. stream' = t
    BY <1>1, <2>1
  <2>4. ASSUME part' = "payload", t # <<>>, t[1].part = "payload", ~torn'
        PROVE  lastId' = t[1].slice % IdModulus
    <3>1. stream[1] \in Item /\ Head(stream) = stream[1]
      BY <1>0, <1>1, TailOfItems
    <3>2. stream[1].part = "header" /\ t[1].slice = stream[1].slice
      BY <2>2, <2>4, <3>1 DEF Follows, Item, Parts
    <3>3. CASE ReceiveHeader
      BY <3>1, <3>2, <3>3 DEF ReceiveHeader
    <3>4. CASE ReceivePayload \/ (Dies /\ Receives("payload"))
      BY <3>1, <3>2, <3>4 DEF ReceivePayload, Receives
    <3>5. CASE ReceiveGarbage
      BY <2>4, <3>5 DEF ReceiveGarbage
    <3>6. CASE stream' = stream
      <4>1. Len(Tail(stream)) = Len(stream) - 1 /\ Len(stream) \in Nat
        BY <1>0, <1>1, TailOfItems
      <4>. QED BY <1>1, <3>6, <4>1
    <3>. QED BY <3>3, <3>4, <3>5, <3>6 DEF IoSteps, Accept, AcceptSuspend, Mark, Read, Resume, Pop,
                PopTimeout, BeginMillislice, ReceiveSome, ReadTimeout, ReadError, Dies
  <2>. QED BY <1>0, <1>1, <2>2, <2>3, <2>4 DEF StreamRight, Chain
<1>3. CASE ReceiveHeader \/ ReceivePayload \/ (Dies /\ Receives("payload"))
  BY <1>1, <1>3 DEF ReceiveHeader, ReceivePayload, Dies, Receives
<1>2. CASE ReceiveGarbage
  <2>1. PICK k \in 1..Len(stream) : stream' = SubSeq(stream, k + 1, Len(stream))
    BY <1>2 DEF ReceiveGarbage
  <2>2. torn' = TRUE /\ conn' = conn /\ conn \in {"open", "closed"} /\ stream # <<>>
    BY <1>2 DEF ReceiveGarbage, OutOfStep
  <2>3. PICK t : t = SubSeq(stream, k + 1, Len(stream))
    OBVIOUS
  <2>4. Chain(t) /\ (t # <<>> => t[Len(t)] = stream[Len(stream)])
    BY <1>0, <2>3, SuffixOfChain DEF StreamRight
  <2>. QED BY <1>0, <2>1, <2>2, <2>3, <2>4 DEF StreamRight, Chain
<1>4. ASSUME stream' = stream, slicing' = slicing, ~torn' => ~torn,
             conn' = conn \/ stream = <<>> \/ (conn = "pending" /\ conn' = "open")
      PROVE  StreamRight'
  <2>1. UNCHANGED <<stream, nextSlice, part, lastId>>
    BY <1>0, <1>4 DEF slicing
  <2>. QED BY <1>4, <2>1, StreamKept
<1>5. CASE Accept
  <2>1. stream' = stream /\ slicing' = slicing /\ torn' = torn /\ conn = "pending" /\ conn' = "open"
    BY <1>5, Zenon DEF Accept, reading
  <2>. QED BY <1>4, <2>1, Zenon
<1>6. CASE ReadError
  <2>1. stream' = stream /\ slicing' = slicing /\ torn' = torn /\ (conn' = conn \/ stream = <<>>)
    BY <1>6, Zenon DEF ReadError
  <2>. QED BY <1>4, <2>1, Zenon
<1>7. CASE ReadTimeout
  <2>1. stream' = stream /\ slicing' = slicing /\ conn' = conn /\ torn' = (torn \/ partial)
    BY <1>7, Zenon DEF ReadTimeout
  <2>. QED BY <1>4, <2>1, Zenon
<1>8. CASE BeginMillislice
  <2>1. stream' = stream /\ conn' = conn /\ part' = part /\ lastId' = lastId /\ torn' = torn
    BY <1>8, Zenon DEF BeginMillislice, slicing, reading
  <2>. QED BY <1>0, <2>1, StreamKept
<1>9. CASE ReceiveSome \/ AcceptSuspend \/ Mark \/ Read \/ Resume \/ Pop \/ PopTimeout
  <2>1. stream' = stream /\ slicing' = slicing /\ conn' = conn /\ torn' = torn
    BY <1>9, Zenon DEF ReceiveSome, AcceptSuspend, Mark, Read, Resume, Pop, PopTimeout, reading
  <2>. QED BY <1>4, <2>1, Zenon
<1>10. CASE Dies /\ ~Receives("payload")
  <2>1. stream' = stream /\ slicing' = slicing /\ conn' = conn /\ torn' = torn
    BY <1>10, Zenon DEF Dies
  <2>. QED BY <1>4, <2>1, Zenon
<1>. QED BY <1>2, <1>3, <1>5, <1>6, <1>7, <1>8, <1>9, <1>10 DEF IoSteps

LEMMA StreamArtdaq ==
  ASSUME PennTypes, StreamRight, ArtdaqSteps
  PROVE  StreamRight'
<1>1. CASE Reset
  <2>1. part' = "header" /\ stream' \in {stream, <<>>} /\ UNCHANGED <<nextSlice, conn>>
    BY <1>1 DEF Reset, Flush, ArtdaqRest
  <2>. QED BY <2>1 DEF StreamRight, Chain
<1>2. CASE UNCHANGED <<stream, nextSlice, conn, slicing, reading>>
  BY <1>2, Zenon DEF slicing, reading, StreamRight, Chain
<1>3. CASE ~Reset
  <2>1. UNCHANGED <<nextSlice, conn>>
    BY DEF ArtdaqSteps, StartRelease, Commit, Reset, ClearSuspend, ClearFlag, StartRun, TakeFilled,
           Throws, DataTimeout, StopRun, Stop, StopEnds, ArtdaqRest
  <2>2. UNCHANGED <<stream, receiver>>
    BY <1>3, Zenon DEF ArtdaqSteps, StartRelease, Commit, ClearSuspend, ClearFlag, StartRun, TakeFilled,
           Throws, DataTimeout, StopRun, Stop, StopEnds
  <2>. QED BY <1>2, <2>1, <2>2 DEF receiver
<1>. QED BY <1>1, <1>3

LEMMA StreamStep ==
  ASSUME PennTypes, StreamRight, [Next]_vars
  PROVE  StreamRight'
<1>1. CASE UNCHANGED vars
  BY <1>1, Zenon DEF vars, board, slicing, reading, StreamRight, Chain
<1>. QED BY <1>1, StreamBoard, StreamIo, StreamArtdaq DEF Next

-----------------------------------------------------------------------------
(* The flags of a stop, and what is there before the first run. *)

LEMMA SuspendIo ==
  ASSUME SuspendRight, FirstRight, IoSteps
  PROVE  SuspendRight'
<1>0. runs' = runs /\ answered' = answered /\ clean' = clean /\ suspend' = suspend
  BY Zenon DEF IoSteps, Accept, AcceptSuspend, Mark, Read, Resume, Pop, PopTimeout, BeginMillislice,
         ReceiveHeader, ReceivePayload, Dies, ReceiveSome, ReadTimeout, ReceiveGarbage, ReadError,
         IoRest, counts
<1>1. ASSUME gpc' = gpc, suspended' = suspended, late' = late,
             suspend /\ io \in OutOfTheWay => io' \in OutOfTheWay
      PROVE  SuspendRight'
  <2>1. suspended' /\ ~late' => IF suspend' THEN io' \in OutOfTheWay ELSE gpc' \in {"clearFlag", "dead"}
    <3>1. CASE suspend
      BY <1>0, <1>1, <3>1, Zenon DEF SuspendRight
    <3>2. CASE ~suspend
      BY <1>0, <1>1, <3>2, Zenon DEF SuspendRight
    <3>. QED BY <3>1, <3>2, Zenon
  <2>2. /\ gpc' \in Started => ~suspend'
        /\ gpc' = "waiting" => suspend'
        /\ gpc' = "stopped" /\ runs' > 0 => suspend' /\ (answered' => suspended' /\ ~late')
        /\ gpc' \in {"precommit", "clear"} =>
             runs' > 0 /\ (runs' > 1 => suspend' /\ (clean' => suspended' /\ ~late'))
        /\ runs' = 0 => gpc' = "stopped"
    BY <1>0, <1>1, Zenon DEF SuspendRight
  <2>. QED BY <2>1, <2>2, Zenon DEF SuspendRight, OutOfTheWay, Started
<1>2. CASE Mark
  <2>1. gpc' = gpc /\ suspended' = TRUE /\ late' = (late \/ ~suspend) /\ io' \in {"parked", "accepting"}
    BY <1>2, Zenon DEF Mark, IoRest, AwaitRestart
  <2>2. suspended' /\ ~late' => IF suspend' THEN io' \in OutOfTheWay ELSE gpc' \in {"clearFlag", "dead"}
    BY <1>0, <2>1, Zenon DEF OutOfTheWay
  <2>3. /\ gpc' \in Started => ~suspend'
        /\ gpc' = "waiting" => suspend'
        /\ runs' = 0 => gpc' = "stopped"
    BY <1>0, <2>1, Zenon DEF SuspendRight
  <2>4. gpc' = "stopped" /\ runs' > 0 => suspend' /\ (answered' => suspended' /\ ~late')
    BY <1>0, <2>1, Zenon DEF SuspendRight
  <2>5. gpc' \in {"precommit", "clear"} =>
             runs' > 0 /\ (runs' > 1 => suspend' /\ (clean' => suspended' /\ ~late'))
    BY <1>0, <2>1, Zenon DEF SuspendRight
  <2>. QED BY <2>2, <2>3, <2>4, <2>5, Zenon DEF SuspendRight, OutOfTheWay, Started
<1>3. CASE Dies
  <2>1. gpc' = "dead" /\ suspended' = suspended /\ late' = late /\ stream # <<>>
    BY <1>3, Zenon DEF Dies, Receives, OutOfStep
  <2>2. runs # 0
    BY <2>1, Zenon DEF FirstRight
  <2>3. suspended /\ ~late => ~suspend
    <3>1. io = "reading"
      BY <1>3, Zenon DEF Dies, Receives, OutOfStep
    <3>2. io \notin OutOfTheWay
      BY <3>1 DEF OutOfTheWay
    <3>. QED BY <3>2, Zenon DEF SuspendRight
  <2>4. /\ gpc' \notin Started /\ gpc' # "waiting" /\ gpc' # "stopped"
        /\ gpc' \notin {"precommit", "clear"}
    BY <2>1 DEF Started
  <2>5. suspended' /\ ~late' => IF suspend' THEN io' \in OutOfTheWay ELSE gpc' \in {"clearFlag", "dead"}
    BY <1>0, <2>1, <2>3, Zenon
  <2>. QED BY <1>0, <2>2, <2>4, <2>5, Zenon DEF SuspendRight, OutOfTheWay, Started
<1>4. CASE io \notin OutOfTheWay /\ ~Dies /\ ~Mark
  <2>1. gpc' = gpc /\ suspended' = suspended /\ late' = late
    BY <1>4, Zenon DEF IoSteps, Accept, AcceptSuspend, Read, Resume, Pop, PopTimeout, BeginMillislice,
         ReceiveHeader, ReceivePayload, ReceiveSome, ReadTimeout, ReceiveGarbage, ReadError, IoRest
  <2>. QED BY <1>1, <1>4, <2>1, Zenon
<1>5. CASE Accept \/ AcceptSuspend
  <2>1. /\ gpc' = gpc /\ suspended' = suspended /\ late' = late
        /\ io' \in {"read", "markAccept"}
    BY <1>5, Zenon DEF Accept, AcceptSuspend, IoRest
  <2>. QED BY <1>1, <2>1, Zenon DEF OutOfTheWay
<1>6. CASE Read \/ Resume
  <2>1. /\ gpc' = gpc /\ suspended' = suspended /\ late' = late
        /\ suspend => io' = "mark"
    BY <1>6, Zenon DEF Read, Resume, IoRest
  <2>. QED BY <1>1, <2>1, Zenon DEF OutOfTheWay
<1>7. CASE Pop \/ PopTimeout \/ BeginMillislice \/ ReceiveHeader \/ ReceivePayload \/ ReceiveSome
           \/ ReadTimeout \/ ReceiveGarbage \/ ReadError
  <2>1. io \in {"pop", "popped", "reading"}
    BY <1>7 DEF Pop, PopTimeout, BeginMillislice, ReceiveHeader, ReceivePayload, ReceiveSome,
                ReadTimeout, ReceiveGarbage, ReadError, Receives, OutOfStep
  <2>2. io \notin OutOfTheWay
    BY <2>1 DEF OutOfTheWay
  <2>. QED BY <1>2, <1>3, <1>4, <2>2
<1>. QED BY <1>2, <1>3, <1>5, <1>6, <1>7 DEF IoSteps

LEMMA SuspendArtdaq ==
  ASSUME PennTypes, SuspendRight, ArtdaqSteps
  PROVE  SuspendRight'
<1>0. io' = io /\ runs \in Nat
  BY DEF ArtdaqSteps, StartRelease, Commit, Reset, ClearSuspend, ClearFlag, StartRun, TakeFilled,
         Throws, DataTimeout, StopRun, Stop, StopEnds, ArtdaqRest, PennTypes
<1>1. CASE StartRelease
  <2>1. /\ gpc = "stopped" /\ gpc' = "precommit" /\ clean' = answered
        /\ suspend' = suspend /\ suspended' = suspended /\ late' = late
    BY <1>1, Zenon DEF StartRelease
  <2>2. runs' > 0 /\ runs' # 0 /\ (runs' > 1 => runs > 0)
    BY <1>0, <1>1 DEF StartRelease
  <2>3. gpc' \notin Started /\ gpc' # "waiting" /\ gpc' # "stopped"
    BY <2>1 DEF Started
  <2>4. suspended /\ ~late => suspend /\ io \in OutOfTheWay
    BY <2>1, Zenon DEF SuspendRight
  <2>. QED BY <1>0, <2>1, <2>2, <2>3, <2>4, Zenon DEF SuspendRight, OutOfTheWay, Started
<1>2. CASE Commit \/ Reset
  <2>1. /\ gpc = "precommit" /\ (gpc' = "precommit" \/ gpc' = "clear") /\ (clean' => clean)
        /\ suspend' = suspend /\ suspended' = suspended /\ late' = late /\ runs' = runs
    <3>1. CASE Commit
      BY <3>1, Zenon DEF Commit, marks
    <3>2. CASE Reset
      BY <3>2, Zenon DEF Reset
    <3>. QED BY <1>2, <3>1, <3>2
  <2>2. gpc' \notin Started /\ gpc' # "waiting" /\ gpc' # "stopped" /\ gpc' \in {"precommit", "clear"}
    BY <2>1 DEF Started
  <2>3. runs > 0 /\ runs # 0 /\ (runs > 1 => suspend /\ (clean => suspended /\ ~late))
    <3>1. gpc # "stopped" /\ gpc \in {"precommit", "clear"}
      BY <2>1
    <3>. QED BY <2>1, <3>1, Zenon DEF SuspendRight
  <2>4. suspended /\ ~late => suspend /\ io \in OutOfTheWay
    BY <2>1, Zenon DEF SuspendRight
  <2>. QED BY <1>0, <2>1, <2>2, <2>3, <2>4, Zenon DEF SuspendRight, OutOfTheWay, Started
<1>3. CASE ClearSuspend
  <2>1. /\ gpc = "clear" /\ gpc' = "clearFlag" /\ suspend' = FALSE /\ UNCHANGED runs
    BY <1>3, Zenon DEF ClearSuspend, history, counts
  <2>2. runs # 0
    BY <2>1, Zenon DEF SuspendRight
  <2>. QED BY <2>1, <2>2, Zenon DEF SuspendRight
<1>4. CASE ClearFlag \/ StartRun \/ TakeFilled \/ Throws \/ DataTimeout \/ StopRun
  <2>1. gpc \in Started
    BY <1>4 DEF ClearFlag, StartRun, TakeFilled, Throws, DataTimeout, StopRun, Started
  <2>2. gpc' \in {"command", "running", "failed", "stopping", "halting"}
    BY <1>4 DEF ClearFlag, StartRun, TakeFilled, Throws, DataTimeout, StopRun
  <2>3. /\ gpc' \in Started /\ gpc' # "waiting" /\ gpc' # "stopped"
        /\ gpc' \notin {"precommit", "clear"} /\ gpc # "stopped"
    BY <2>1, <2>2 DEF Started
  <2>4. suspend' = suspend /\ runs' = runs
    BY <1>4, Zenon DEF ClearFlag, StartRun, TakeFilled, Throws, DataTimeout, StopRun, history, counts
  <2>5. ~(suspended' /\ ~late')
    <3>1. CASE ClearFlag
      BY <3>1, Zenon DEF ClearFlag
    <3>2. CASE StartRun \/ TakeFilled \/ Throws \/ DataTimeout \/ StopRun
      <4>1. suspended' = suspended /\ late' = late
        BY <3>2, Zenon DEF StartRun, TakeFilled, Throws, DataTimeout, StopRun, history, marks
      <4>2. gpc \notin {"clearFlag", "dead"}
        BY <3>2 DEF StartRun, TakeFilled, Throws, DataTimeout, StopRun
      <4>. QED BY <2>1, <4>1, <4>2, Zenon DEF SuspendRight
    <3>. QED BY <1>4, <3>1, <3>2
  <2>. QED BY <2>1, <2>3, <2>4, <2>5, Zenon DEF SuspendRight
<1>5. CASE Stop
  <2>1. /\ gpc \in {"stopping", "halting"} /\ gpc' = "waiting" /\ suspend' = TRUE
        /\ suspended' = suspended /\ late' = late /\ runs' = runs
    BY <1>5, Zenon DEF Stop, history, marks, counts
  <2>2. /\ gpc \in Started /\ gpc \notin {"clearFlag", "dead"} /\ gpc # "stopped"
        /\ gpc' \notin Started /\ gpc' # "stopped" /\ gpc' \notin {"precommit", "clear"}
    BY <2>1 DEF Started
  <2>3. ~(suspended /\ ~late) /\ runs # 0
    BY <2>2, Zenon DEF SuspendRight
  <2>. QED BY <2>1, <2>2, <2>3, Zenon DEF SuspendRight
<1>6. CASE StopEnds
  <2>1. /\ gpc = "waiting" /\ gpc' = "stopped" /\ answered' = (suspended /\ ~late)
        /\ suspend' = suspend /\ suspended' = suspended /\ late' = late /\ runs' = runs
    BY <1>6, Zenon DEF StopEnds, counts
  <2>2. suspend /\ gpc' \notin Started /\ gpc' # "waiting" /\ gpc' \notin {"precommit", "clear"}
    BY <2>1 DEF SuspendRight, Started
  <2>3. suspended /\ ~late => io \in OutOfTheWay
    BY <2>2, Zenon DEF SuspendRight
  <2>. QED BY <1>0, <2>1, <2>2, <2>3, Zenon DEF SuspendRight, OutOfTheWay, Started
<1>. QED BY <1>1, <1>2, <1>3, <1>4, <1>5, <1>6 DEF ArtdaqSteps

LEMMA SuspendStep ==
  ASSUME PennTypes, SuspendRight, FirstRight, [Next]_vars
  PROVE  SuspendRight'
<1>1. CASE UNCHANGED vars
  <2>1. /\ suspended' = suspended /\ late' = late /\ suspend' = suspend /\ io' = io /\ gpc' = gpc
        /\ runs' = runs /\ answered' = answered /\ clean' = clean
    BY <1>1, Zenon DEF vars, flags, history, marks, counts
  <2>. QED BY <2>1, Zenon DEF SuspendRight, OutOfTheWay, Started
<1>2. CASE BoardSteps
  <2>1. BoardRest
    BY <1>2 DEF BoardSteps, BoardConnects, BoardSends, BoardCloses
  <2>2. /\ suspended' = suspended /\ late' = late /\ suspend' = suspend /\ io' = io /\ gpc' = gpc
        /\ runs' = runs /\ answered' = answered /\ clean' = clean
    BY <2>1, Zenon DEF BoardRest, flags, history, marks, counts
  <2>. QED BY <2>2, Zenon DEF SuspendRight, OutOfTheWay, Started
<1>. QED BY <1>1, <1>2, SuspendIo, SuspendArtdaq DEF Next

Early == gpc \in {"precommit", "clear", "clearFlag", "command"}

LEMMA FirstIo ==
  ASSUME PennTypes, SuspendRight, FirstRight, IoSteps
  PROVE  FirstRight'
<1>0. /\ runs' = runs /\ answered' = answered /\ clean' = clean /\ suspend' = suspend
      /\ mapped' = mapped /\ boardOn' = boardOn /\ stream \in Seq(Item)
  BY DEF IoSteps, Accept, AcceptSuspend, Mark, Read, Resume, Pop, PopTimeout, BeginMillislice,
         ReceiveHeader, ReceivePayload, Dies, ReceiveSome, ReadTimeout, ReceiveGarbage, ReadError,
         IoRest, counts, PennTypes, Item
<1>1. ASSUME stream = <<>>
      PROVE  /\ gpc' = gpc /\ filled' = filled /\ runStart' = runStart /\ stream' = stream
             /\ empty = <<>> => empty' = empty /\ current' = current
  <2>1. ~ReceiveHeader /\ ~ReceivePayload /\ ~Dies /\ ~ReceiveGarbage
    BY <1>1, Zenon DEF ReceiveHeader, ReceivePayload, Dies, ReceiveGarbage, Receives, OutOfStep
  <2>2. gpc' = gpc /\ filled' = filled /\ stream' = stream
    BY <2>1, Zenon DEF IoSteps, Accept, AcceptSuspend, Mark, Read, Resume, Pop, PopTimeout, BeginMillislice,
         ReceiveSome, ReadTimeout, ReadError, IoRest
  <2>3. runStart' = runStart
    BY <2>1, Zenon DEF IoSteps, Accept, AcceptSuspend, Mark, Read, Resume, Pop, PopTimeout, BeginMillislice,
         ReceiveSome, ReadTimeout, ReadError, slicing
  <2>4. empty = <<>> => empty' = empty /\ current' = current
    BY <2>1, Zenon DEF IoSteps, Accept, AcceptSuspend, Mark, Read, Resume, Pop, PopTimeout, BeginMillislice,
         ReceiveSome, ReadTimeout, ReadError
  <2>. QED BY <2>2, <2>3, <2>4
<1>2. CASE runs = 0
  <2>1. stream = <<>>
    BY <1>2, Zenon DEF FirstRight
  <2>. QED BY <1>0, <1>1, <1>2, <2>1, Zenon DEF FirstRight
<1>3. CASE runs = 1 /\ Early /\ runs # 0
  <2>1. stream = <<>>
    BY <1>3, Zenon DEF FirstRight, Early
  <2>. QED BY <1>0, <1>1, <1>3, <2>1, Zenon DEF FirstRight, Early
<1>4. CASE runs # 0 /\ ~(runs = 1 /\ Early)
  <2>1. gpc' = gpc \/ gpc' = "dead"
    BY Zenon DEF IoSteps, Accept, AcceptSuspend, Mark, Read, Resume, Pop, PopTimeout, BeginMillislice,
         ReceiveHeader, ReceivePayload, Dies, ReceiveSome, ReadTimeout, ReceiveGarbage, ReadError,
         IoRest
  <2>2. ~(runs' = 1 /\ gpc' \in {"precommit", "clear", "clearFlag", "command"})
    BY <1>0, <1>4, <2>1 DEF Early
  <2>. QED BY <1>0, <1>4, <2>2, Zenon DEF FirstRight
<1>. QED BY <1>2, <1>3, <1>4

LEMMA FirstArtdaq ==
  ASSUME PennTypes, SuspendRight, FirstRight, ArtdaqSteps
  PROVE  FirstRight'
<1>0. runs \in Nat /\ (runs = 0 => gpc = "stopped")
  BY DEF PennTypes, SuspendRight
<1>1. CASE StartRelease
  <2>1. /\ gpc = "stopped" /\ filled' = <<>> /\ suspend' = suspend /\ stream' = stream
        /\ runStart' = runStart /\ boardOn' = boardOn
    BY <1>1, Zenon DEF StartRelease, receiver, slicing
  <2>2. runs' # 0 /\ (runs' = 1 => runs = 0)
    BY <1>0, <1>1 DEF StartRelease
  <2>3. gpc \in {"stopped", "precommit", "clear"}
    BY <2>1
  <2>. QED BY <2>1, <2>2, <2>3, Zenon DEF FirstRight
<1>2. CASE Commit \/ Reset
  <2>1. /\ gpc = "precommit" /\ filled' = filled /\ suspend' = suspend
        /\ runStart' \in {0, runStart} /\ boardOn' = boardOn /\ runs' = runs
        /\ stream' \in {<<>>, stream}
    BY <1>2 DEF Commit, Reset, ResetTimes, Flush, receiver, slicing, queues
  <2>2. /\ gpc \in {"precommit", "clear", "clearFlag", "command"}
        /\ gpc \in {"stopped", "precommit", "clear"} /\ runs # 0
    BY <1>0, <2>1
  <2>3. runs = 1 => /\ ~boardOn /\ stream = <<>> /\ filled = <<>> /\ runStart = 0 /\ ~suspend
    BY <2>2, Zenon DEF FirstRight
  <2>4. runs = 1 => stream' = <<>> /\ runStart' = 0
    BY <2>1, <2>3
  <2>. QED BY <2>1, <2>2, <2>3, <2>4, Zenon DEF FirstRight
<1>3. CASE ClearSuspend \/ ClearFlag
  <2>1. /\ gpc \in {"clear", "clearFlag"} /\ filled' = filled /\ boardOn' = boardOn
        /\ runStart' = runStart /\ stream' = stream /\ runs' = runs
        /\ gpc' \notin {"stopped", "precommit", "clear"}
    BY <1>3 DEF ClearSuspend, ClearFlag, receiver, slicing, queues, history, counts
  <2>2. gpc \in {"precommit", "clear", "clearFlag", "command"} /\ runs # 0
    BY <1>0, <2>1
  <2>. QED BY <2>1, <2>2, Zenon DEF FirstRight
<1>4. CASE StartRun \/ TakeFilled \/ Throws \/ DataTimeout \/ StopRun \/ Stop \/ StopEnds
  <2>1. runs' = runs
    BY <1>4, Zenon DEF StartRun, TakeFilled, Throws, DataTimeout, StopRun, Stop, StopEnds, history, counts
  <2>2. gpc # "stopped"
    BY <1>4 DEF StartRun, TakeFilled, Throws, DataTimeout, StopRun, Stop, StopEnds
  <2>3. gpc' \notin {"precommit", "clear", "clearFlag", "command"}
    BY <1>4 DEF StartRun, TakeFilled, Throws, DataTimeout, StopRun, Stop, StopEnds
  <2>4. runs # 0
    BY <1>0, <2>2
  <2>. QED BY <2>1, <2>3, <2>4, Zenon DEF FirstRight
<1>. QED BY <1>1, <1>2, <1>3, <1>4 DEF ArtdaqSteps

LEMMA FirstStep ==
  ASSUME PennTypes, SuspendRight, FirstRight, [Next]_vars
  PROVE  FirstRight'
<1>1. CASE UNCHANGED vars
  <2>1. /\ suspend' = suspend /\ gpc' = gpc /\ runs' = runs /\ answered' = answered /\ clean' = clean
        /\ empty' = empty /\ mapped' = mapped /\ current' = current /\ boardOn' = boardOn
        /\ stream' = stream /\ filled' = filled /\ runStart' = runStart
    BY <1>1, Zenon DEF vars, board, flags, history, marks, counts, queues, slicing
  <2>. QED BY <2>1, Zenon DEF FirstRight
<1>2. CASE BoardSteps
  <2>1. BoardRest
    BY <1>2 DEF BoardSteps, BoardConnects, BoardSends, BoardCloses
  <2>2. /\ suspend' = suspend /\ gpc' = gpc /\ runs' = runs /\ answered' = answered /\ clean' = clean
        /\ empty' = empty /\ mapped' = mapped /\ current' = current
        /\ filled' = filled /\ runStart' = runStart
    BY <2>1, Zenon DEF BoardRest, flags, history, marks, counts, queues, slicing
  <2>3. ~boardOn /\ stream = <<>> => ~boardOn' /\ stream' = <<>>
    BY <1>2, Zenon DEF BoardSteps, BoardConnects, BoardSends, BoardCloses
  <2>. QED BY <2>2, <2>3, Zenon DEF FirstRight
<1>. QED BY <1>1, <1>2, FirstIo, FirstArtdaq DEF Next

-----------------------------------------------------------------------------
(* The buffers that are lent. *)

LEMMA LendHands ==
  ASSUME NEW e, NEW f, NEW m, LendingOf(e, f, NoBuffer, m), e # <<>>
  PROVE  LendingOf(Tail(e), f, Head(e), m) /\ Head(e) # NoBuffer
<1>1. /\ e \in Seq(Buffers) /\ f \in Seq(Millislices) /\ IsFiniteSet(m) /\ Cardinality(m) <= Precommit
      /\ EachOnce(e, f, NoBuffer) /\ m = {b \in Buffers : HeldIn(b, e, f, NoBuffer)}
      /\ Cardinality(m) = Len(e) + Len(f) + 0
  BY DEF LendingOf
<1>2. PICK t, x, n, k : t = Tail(e) /\ x = Head(e) /\ n = Len(e) /\ k = Len(f)
  OBVIOUS
<1>3. /\ t \in Seq(Buffers) /\ n \in Nat \ {0} /\ k \in Nat /\ Len(t) = n - 1 /\ x = e[1]
      /\ x \in Buffers /\ \A i \in 1..(n - 1) : t[i] = e[i + 1]
  BY <1>1, <1>2
<1>4. \A i \in 1..(n - 1) : i + 1 \in 1..n /\ i + 1 # 1
  BY <1>3
<1>5. 1 \in 1..n /\ \A i \in 1..n : i = 1 \/ (i - 1 \in 1..(n - 1) /\ i = (i - 1) + 1)
  BY <1>3
<1>6. EachOnce(t, f, x)
  <2>1. \A i, j \in 1..(n - 1) : i # j => t[i] # t[j]
    <3>. SUFFICES ASSUME NEW i \in 1..(n - 1), NEW j \in 1..(n - 1), i # j PROVE t[i] # t[j]
      OBVIOUS
    <3>1. i + 1 \in 1..n /\ j + 1 \in 1..n /\ i + 1 # j + 1
      BY <1>3
    <3>. QED BY <1>1, <1>2, <1>3, <3>1 DEF EachOnce
  <2>2. \A i \in 1..(n - 1) : (\A j \in 1..k : t[i] # f[j].buffer) /\ t[i] # x
    BY <1>1, <1>2, <1>3, <1>4, <1>5 DEF EachOnce
  <2>3. \A j \in 1..k : f[j].buffer # x
    BY <1>1, <1>2, <1>3, <1>5 DEF EachOnce
  <2>. QED BY <1>1, <1>2, <1>3, <2>1, <2>2, <2>3 DEF EachOnce
<1>7. ASSUME NEW b \in Buffers PROVE HeldIn(b, e, f, NoBuffer) <=> HeldIn(b, t, f, x)
  <2>1. b # NoBuffer
    BY BoundsAssumption
  <2>2. (\E i \in 1..n : e[i] = b) <=> b = x \/ \E i \in 1..(n - 1) : t[i] = b
    <3>1. ASSUME NEW i \in 1..n, e[i] = b
          PROVE  b = x \/ \E l \in 1..(n - 1) : t[l] = b
      <4>1. CASE i = 1
        BY <1>3, <1>4, <1>5, <3>1, <4>1
      <4>2. CASE i # 1
        <5>1. i - 1 \in 1..(n - 1) /\ i = (i - 1) + 1
          BY <1>3, <4>2
        <5>. QED BY <1>3, <3>1, <5>1
      <4>. QED BY <4>1, <4>2
    <3>2. ASSUME NEW i \in 1..(n - 1), t[i] = b
          PROVE  \E l \in 1..n : e[l] = b
      BY <1>3, <1>4, <3>2
    <3>3. b = x => \E l \in 1..n : e[l] = b
      BY <1>3, <1>4, <1>5
    <3>. QED BY <3>1, <3>2, <3>3
  <2>. QED BY <1>2, <1>3, <2>1, <2>2 DEF HeldIn
<1>8. m = {b \in Buffers : HeldIn(b, t, f, x)}
  BY <1>1, <1>7
<1>9. x # NoBuffer
  BY <1>3, BoundsAssumption
<1>10. Cardinality(m) = Len(t) + Len(f) + 1
  BY <1>1, <1>2, <1>3
<1>. QED BY <1>1, <1>2, <1>3, <1>6, <1>8, <1>9, <1>10 DEF LendingOf

LEMMA LendFills ==
  ASSUME NEW e, NEW f, NEW h, NEW m, NEW y \in Millislices, LendingOf(e, f, h, m), h # NoBuffer,
         y.buffer = h
  PROVE  LendingOf(e, Append(f, y), NoBuffer, m)
<1>1. /\ e \in Seq(Buffers) /\ f \in Seq(Millislices) /\ IsFiniteSet(m) /\ Cardinality(m) <= Precommit
      /\ EachOnce(e, f, h) /\ m = {b \in Buffers : HeldIn(b, e, f, h)}
      /\ Cardinality(m) = Len(e) + Len(f) + 1 /\ h \in Buffers
  BY DEF LendingOf
<1>2. PICK g, n, k : g = Append(f, y) /\ n = Len(e) /\ k = Len(f)
  OBVIOUS
<1>3. /\ g \in Seq(Millislices) /\ n \in Nat /\ k \in Nat /\ Len(g) = k + 1 /\ g[k + 1] = y
      /\ \A i \in 1..k : g[i] = f[i]
  BY <1>1, <1>2
<1>4. k + 1 \in 1..(k + 1) /\ \A i \in 1..(k + 1) : i = k + 1 \/ (i \in 1..k /\ i # k + 1)
  BY <1>3
<1>5. \A i \in 1..k : i \in 1..(k + 1)
  BY <1>3
<1>6. EachOnce(e, g, NoBuffer)
  <2>1. \A i, j \in 1..(k + 1) : i # j => g[i].buffer # g[j].buffer
    BY <1>1, <1>2, <1>3, <1>4 DEF EachOnce
  <2>2. \A i \in 1..n : \A j \in 1..(k + 1) : e[i] # g[j].buffer
    BY <1>1, <1>2, <1>3, <1>4 DEF EachOnce
  <2>3. \A i \in 1..n : e[i] # NoBuffer
    <3>1. \A i \in 1..n : e[i] \in Buffers
      BY <1>1, <1>2
    <3>. QED BY <3>1, BoundsAssumption
  <2>4. \A j \in 1..(k + 1) : g[j].buffer # NoBuffer
    <3>1. \A j \in 1..(k + 1) : g[j] \in Millislices
      BY <1>3
    <3>. QED BY <3>1, BoundsAssumption DEF Millislices
  <2>. QED BY <1>1, <1>2, <1>3, <2>1, <2>2, <2>3, <2>4 DEF EachOnce
<1>7. ASSUME NEW b \in Buffers PROVE HeldIn(b, e, f, h) <=> HeldIn(b, e, g, NoBuffer)
  <2>1. b # NoBuffer
    BY BoundsAssumption
  <2>2. (\E j \in 1..(k + 1) : g[j].buffer = b) <=> b = h \/ \E j \in 1..k : f[j].buffer = b
    BY <1>3, <1>4, <1>5
  <2>. QED BY <1>2, <1>3, <2>1, <2>2 DEF HeldIn
<1>8. m = {b \in Buffers : HeldIn(b, e, g, NoBuffer)}
  BY <1>1, <1>7
<1>9. Cardinality(m) = Len(e) + Len(g) + 0
  BY <1>1, <1>2, <1>3
<1>. QED BY <1>1, <1>2, <1>3, <1>6, <1>8, <1>9 DEF LendingOf

LEMMA LendCommits ==
  ASSUME NEW e, NEW f, NEW h, NEW m, LendingOf(e, f, h, m), NEW x \in Buffers, x \notin m,
         Cardinality(m) < Precommit
  PROVE  LendingOf(Append(e, x), f, h, m \cup {x})
<1>1. /\ e \in Seq(Buffers) /\ f \in Seq(Millislices) /\ IsFiniteSet(m) /\ h \in Buffers \cup {NoBuffer}
      /\ EachOnce(e, f, h) /\ m = {b \in Buffers : HeldIn(b, e, f, h)}
      /\ Cardinality(m) = Len(e) + Len(f) + (IF h = NoBuffer THEN 0 ELSE 1)
  BY DEF LendingOf
<1>2. PICK t, n, k : t = Append(e, x) /\ n = Len(e) /\ k = Len(f)
  OBVIOUS
<1>3. /\ t \in Seq(Buffers) /\ n \in Nat /\ k \in Nat /\ Len(t) = n + 1 /\ t[n + 1] = x
      /\ \A i \in 1..n : t[i] = e[i]
  BY <1>1, <1>2
<1>4. n + 1 \in 1..(n + 1) /\ \A i \in 1..(n + 1) : i = n + 1 \/ (i \in 1..n /\ i # n + 1)
  BY <1>3
<1>5. \A i \in 1..n : i \in 1..(n + 1)
  BY <1>3
<1>6. ~HeldIn(x, e, f, h)
  BY <1>1
<1>7. EachOnce(t, f, h)
  <2>1. \A i, j \in 1..(n + 1) : i # j => t[i] # t[j]
    BY <1>1, <1>2, <1>3, <1>4, <1>6 DEF EachOnce, HeldIn
  <2>2. \A i \in 1..(n + 1) : (\A j \in 1..k : t[i] # f[j].buffer) /\ t[i] # h
    BY <1>1, <1>2, <1>3, <1>4, <1>6 DEF EachOnce, HeldIn
  <2>. QED BY <1>1, <1>2, <1>3, <2>1, <2>2 DEF EachOnce
<1>8. ASSUME NEW b \in Buffers PROVE HeldIn(b, t, f, h) <=> HeldIn(b, e, f, h) \/ b = x
  <2>1. (\E i \in 1..(n + 1) : t[i] = b) <=> b = x \/ \E i \in 1..n : e[i] = b
    BY <1>3, <1>4, <1>5
  <2>. QED BY <1>2, <1>3, <2>1 DEF HeldIn
<1>9. m \cup {x} = {b \in Buffers : HeldIn(b, t, f, h)}
  BY <1>1, <1>8
<1>10. /\ IsFiniteSet(m \cup {x}) /\ Cardinality(m \cup {x}) = Cardinality(m) + 1
  BY <1>1, FS_AddElement
<1>11. Cardinality(m) \in Nat /\ Precommit \in Nat
  BY <1>1, FS_CardinalityType, BoundsAssumption
<1>12. Cardinality(m \cup {x}) <= Precommit
  BY <1>10, <1>11
<1>13. PICK c : c = IF h = NoBuffer THEN 0 ELSE 1
  OBVIOUS
<1>14. c \in Nat
  BY <1>13
<1>15. Cardinality(m \cup {x}) = Len(t) + Len(f) + c
  BY <1>1, <1>2, <1>3, <1>10, <1>13, <1>14
<1>. QED BY <1>1, <1>2, <1>3, <1>7, <1>9, <1>10, <1>12, <1>13, <1>15 DEF LendingOf

LEMMA LendTaken ==
  ASSUME NEW e, NEW f, NEW h, NEW m, LendingOf(e, f, h, m), f # <<>>
  PROVE  /\ Head(f).buffer \in m /\ Cardinality(m \ {Head(f).buffer}) < Precommit
         /\ LendingOf(e, Tail(f), h, m \ {Head(f).buffer})
<1>1. /\ e \in Seq(Buffers) /\ f \in Seq(Millislices) /\ IsFiniteSet(m) /\ h \in Buffers \cup {NoBuffer}
      /\ EachOnce(e, f, h) /\ m = {b \in Buffers : HeldIn(b, e, f, h)} /\ Cardinality(m) <= Precommit
      /\ Cardinality(m) = Len(e) + Len(f) + (IF h = NoBuffer THEN 0 ELSE 1)
  BY DEF LendingOf
<1>2. PICK t, x, n, k : t = Tail(f) /\ x = Head(f).buffer /\ n = Len(e) /\ k = Len(f)
  OBVIOUS
<1>3. /\ t \in Seq(Millislices) /\ n \in Nat /\ k \in Nat \ {0} /\ Len(t) = k - 1
      /\ \A i \in 1..(k - 1) : t[i] = f[i + 1]
  BY <1>1, <1>2
<1>a. x = f[1].buffer /\ x \in Buffers
  <2>1. Head(f) = f[1] /\ f[1] \in Millislices
    BY <1>1
  <2>. QED BY <1>2, <2>1 DEF Millislices
<1>4. \A i \in 1..(k - 1) : i + 1 \in 1..k /\ i + 1 # 1
  BY <1>3
<1>5. 1 \in 1..k /\ \A i \in 1..k : i = 1 \/ (i - 1 \in 1..(k - 1) /\ i = (i - 1) + 1)
  BY <1>3
<1>6. x \in m
  BY <1>1, <1>2, <1>a, <1>5 DEF HeldIn
<1>7. EachOnce(e, t, h)
  <2>1. \A i, j \in 1..(k - 1) : i # j => t[i].buffer # t[j].buffer
    <3>. SUFFICES ASSUME NEW i \in 1..(k - 1), NEW j \in 1..(k - 1), i # j
                  PROVE  t[i].buffer # t[j].buffer
      OBVIOUS
    <3>1. i + 1 \in 1..k /\ j + 1 \in 1..k /\ i + 1 # j + 1
      BY <1>3
    <3>. QED BY <1>1, <1>2, <1>3, <3>1 DEF EachOnce
  <2>2. \A j \in 1..(k - 1) : (\A i \in 1..n : e[i] # t[j].buffer) /\ t[j].buffer # h
    BY <1>1, <1>2, <1>3, <1>4 DEF EachOnce
  <2>. QED BY <1>1, <1>2, <1>3, <2>1, <2>2 DEF EachOnce
<1>8. ASSUME NEW b \in Buffers PROVE HeldIn(b, e, t, h) <=> HeldIn(b, e, f, h) /\ b # x
  <2>1. (\E j \in 1..k : f[j].buffer = b) <=> b = x \/ \E j \in 1..(k - 1) : t[j].buffer = b
    <3>1. ASSUME NEW j \in 1..k, f[j].buffer = b
          PROVE  b = x \/ \E l \in 1..(k - 1) : t[l].buffer = b
      <4>1. CASE j = 1
        BY <1>3, <1>a, <1>4, <1>5, <3>1, <4>1
      <4>2. CASE j # 1
        <5>1. j - 1 \in 1..(k - 1) /\ j = (j - 1) + 1
          BY <1>3, <4>2
        <5>. QED BY <1>3, <3>1, <5>1
      <4>. QED BY <4>1, <4>2
    <3>2. ASSUME NEW j \in 1..(k - 1), t[j].buffer = b
          PROVE  \E l \in 1..k : f[l].buffer = b
      BY <1>3, <1>4, <3>2
    <3>3. b = x => \E l \in 1..k : f[l].buffer = b
      BY <1>3, <1>a, <1>4, <1>5
    <3>. QED BY <3>1, <3>2, <3>3
  <2>2. b = x => b # h /\ (\A i \in 1..n : e[i] # b) /\ \A j \in 1..(k - 1) : t[j].buffer # b
    BY <1>1, <1>2, <1>3, <1>a, <1>4, <1>5 DEF EachOnce
  <2>. QED BY <1>2, <1>3, <2>1, <2>2 DEF HeldIn
<1>9. m \ {x} = {b \in Buffers : HeldIn(b, e, t, h)}
  BY <1>1, <1>8
<1>10. /\ IsFiniteSet(m \ {x}) /\ Cardinality(m \ {x}) = Cardinality(m) - 1
  BY <1>1, <1>6, FS_RemoveElement
<1>11. Cardinality(m) \in Nat /\ Precommit \in Nat
  BY <1>1, FS_CardinalityType, BoundsAssumption
<1>12. Cardinality(m \ {x}) < Precommit
  BY <1>1, <1>10, <1>11
<1>b. Cardinality(m \ {x}) <= Precommit
  BY <1>1, <1>10, <1>11
<1>13. PICK c : c = IF h = NoBuffer THEN 0 ELSE 1
  OBVIOUS
<1>14. c \in Nat
  BY <1>13
<1>15. Cardinality(m \ {x}) = Len(e) + Len(t) + c
  BY <1>1, <1>2, <1>3, <1>10, <1>13, <1>14
<1>. QED BY <1>1, <1>2, <1>3, <1>6, <1>7, <1>9, <1>10, <1>12, <1>b, <1>13, <1>15 DEF LendingOf

\* A thread that is not out of the way is in a run whose state it has.
LEMMA BusyInRun ==
  ASSUME PennTypes, SuspendRight, clean, io \notin OutOfTheWay
  PROVE  InRun /\ Hand = current /\ ~(gpc = "clear" /\ runs > 1)
<1>1. ASSUME gpc \in {"precommit", "clear"} PROVE runs > 0 /\ ~(runs > 1)
  BY <1>1, Zenon DEF SuspendRight
<1>2. runs \in Nat
  BY DEF PennTypes
<1>3. (gpc = "precommit" => runs = 1 /\ ~(runs > 1)) /\ (gpc = "clear" => ~(runs > 1))
  BY <1>1, <1>2
<1>. QED BY <1>3, Zenon DEF InRun, Hand

\* The io thread takes buffers and gives them back only while it has a hold of the run's state.
LEMMA IoBusy ==
  ASSUME IoSteps, io \in OutOfTheWay
  PROVE  /\ gpc' = gpc /\ current' = current /\ mstate' = mstate /\ empty' = empty
         /\ filled' = filled /\ slicing' = slicing /\ stream' = stream /\ exception' = exception
         /\ io' \in OutOfTheWay \/ ((Read \/ Resume) /\ ~suspend)
<1>1. io \notin {"pop", "popped", "reading"}
  BY DEF OutOfTheWay
<1>2. Accept \/ AcceptSuspend \/ Mark \/ Read \/ Resume
  BY <1>1 DEF IoSteps, Pop, PopTimeout, BeginMillislice, ReceiveHeader, ReceivePayload, Dies,
              ReceiveSome, ReadTimeout, ReceiveGarbage, ReadError, Receives, OutOfStep
<1>3. /\ gpc' = gpc /\ current' = current /\ mstate' = mstate /\ empty' = empty
      /\ filled' = filled /\ slicing' = slicing /\ stream' = stream /\ exception' = exception
  BY <1>2, Zenon DEF Accept, AcceptSuspend, Mark, Read, Resume, IoRest
<1>4. io' \in {"read", "markAccept", "parked", "accepting", "mark"} \/ ((Read \/ Resume) /\ ~suspend)
  <2>1. CASE Accept \/ AcceptSuspend \/ Mark
    BY <2>1, Zenon DEF Accept, AcceptSuspend, Mark, AwaitRestart
  <2>2. CASE Read \/ Resume
    BY <2>2, Zenon DEF Read, Resume
  <2>. QED BY <1>2, <2>1, <2>2
<1>. QED BY <1>3, <1>4, Zenon DEF OutOfTheWay

\* With no room to spare among the buffers that are lent there is still one more.
LEMMA NewBufferIs ==
  ASSUME NEW m, m = mapped, LendingOf(empty, filled, Hand, m),
         Cardinality(m) < Precommit \/ current \in m \/ current = NoBuffer
  PROVE  NewBuffer \in Buffers /\ NewBuffer \notin m
<1>1. PICK x : x = m \union {current} \union ToSet(empty) \union {f.buffer : f \in ToSet(filled)}
  OBVIOUS
<1>2. IsFiniteSet(m) /\ Cardinality(m) <= Precommit /\ m = {b \in Buffers : HeldIn(b, empty, filled, Hand)}
      /\ empty \in Seq(Buffers) /\ filled \in Seq(Millislices)
  BY DEF LendingOf
<1>3. ToSet(empty) \subseteq m
  <2>. SUFFICES ASSUME NEW b \in ToSet(empty) PROVE b \in m
    OBVIOUS
  <2>1. PICK i \in 1..Len(empty) : b = empty[i]
    BY <1>2 DEF ToSet
  <2>. QED BY <1>2, <2>1 DEF HeldIn
<1>4. {f.buffer : f \in ToSet(filled)} \subseteq m
  <2>. SUFFICES ASSUME NEW f \in ToSet(filled) PROVE f.buffer \in m
    OBVIOUS
  <2>1. PICK i \in 1..Len(filled) : f = filled[i]
    BY <1>2 DEF ToSet
  <2>2. filled[i] \in Millislices
    BY <1>2
  <2>. QED BY <1>2, <2>1, <2>2 DEF HeldIn, Millislices
<1>5. x = m \union {current}
  BY <1>1, <1>3, <1>4
<1>6. IsFiniteSet(x) /\ Cardinality(x) = IF current \in m THEN Cardinality(m) ELSE Cardinality(m) + 1
  BY <1>2, <1>5, FS_AddElement
<1>7. Cardinality(m) \in Nat /\ Precommit \in Nat
  BY <1>2, FS_CardinalityType, BoundsAssumption
<1>8. \E z : IsFiniteSet(z) /\ Cardinality(z) <= Precommit /\ (Buffers \subseteq x => Buffers \subseteq z)
  <2>1. CASE current = NoBuffer
    <3>1. Buffers \subseteq x => Buffers \subseteq m
      BY <1>5, <2>1, BoundsAssumption
    <3>. QED BY <1>2, <3>1
  <2>2. CASE current # NoBuffer
    <3>1. Cardinality(x) <= Precommit
      BY <1>2, <1>6, <1>7, <2>2
    <3>. QED BY <1>6, <3>1
  <2>. QED BY <2>1, <2>2
<1>9. \E b \in Buffers : b \notin x
  <2>. SUFFICES ASSUME Buffers \subseteq x PROVE FALSE
    OBVIOUS
  <2>z. PICK z : IsFiniteSet(z) /\ Cardinality(z) <= Precommit /\ Buffers \subseteq z
    BY <1>8
  <2>1. IsFiniteSet(Buffers) /\ Cardinality(Buffers) <= Cardinality(z)
    BY <2>z, FS_Subset
  <2>2. Cardinality(Buffers) > Precommit
    BY <2>1, RoomAssumption
  <2>3. Cardinality(Buffers) \in Nat /\ Cardinality(z) \in Nat
    BY <2>z, <2>1, FS_CardinalityType
  <2>. QED BY <1>7, <2>z, <2>1, <2>2, <2>3
<1>10. NewBuffer = CHOOSE b \in Buffers : b \notin x
  BY <1>1 DEF NewBuffer
<1>11. NewBuffer \in Buffers /\ NewBuffer \notin x
  BY <1>9, <1>10
<1>. QED BY <1>5, <1>11

LEMMA HandLent ==
  ASSUME LendingOf(empty, filled, Hand, mapped), Hand = current, current # NoBuffer
  PROVE  current \in mapped
BY DEF LendingOf, HeldIn

\* What is taken out of step fills the millislice that is being filled, or only goes into it.
Spoilt(b, f, g) ==
  \E w \in SUBSET Int, e \in Nat :
    g = Append(f, [buffer |-> b, words |-> w, end |-> e, inStep |-> FALSE])
LEMMA GarbageFills ==
  ASSUME PennTypes, ReceiveGarbage
  PROVE  /\ io = "reading" /\ io' = "read" /\ stream # <<>> /\ gpc' = gpc /\ empty' = empty
         /\ torn' = TRUE
         /\ \/ mstate' = "MillisliceIncomplete" /\ current' = current /\ filled' = filled
            \/ /\ mstate' = "MillisliceEmpty" /\ current # NoBuffer /\ current' = NoBuffer
               /\ Spoilt(current, filled, filled') /\ runStart' # 0
         /\ runStart # 0 => runStart' = runStart
<1>1. /\ io = "reading" /\ io' = "read" /\ stream # <<>> /\ gpc' = gpc /\ empty' = empty
      /\ torn' = TRUE
  BY DEF ReceiveGarbage, OutOfStep, IoRest
<1>2. CASE GarbledHeader
  BY <1>1, <1>2 DEF GarbledHeader
<1>3. CASE GarbledPayload
  <2>1. runStart' \in Nat \ {0} /\ (runStart # 0 => runStart' = runStart)
    BY <1>3, TimesOfGarbage
  <2>2. CASE remaining' = {}
    <3>1. mstate' = "MillisliceIncomplete" /\ current' = current /\ filled' = filled
      BY <1>3, <2>2 DEF GarbledPayload
    <3>. QED BY <1>1, <2>1, <3>1
  <2>3. CASE remaining' # {}
    <3>1. PICK e : e = IF runStart = 0 THEN SomeTime + MillisliceSize - 1 ELSE boundary
      OBVIOUS
    <3>2. /\ mstate' = "MillisliceEmpty" /\ current # NoBuffer /\ current' = NoBuffer
          /\ filled' = Append(filled, [buffer |-> current, words |-> words', end |-> e,
                                       inStep |-> FALSE])
      BY <1>3, <2>3, <3>1 DEF GarbledPayload
    <3>3. e \in Nat
      BY <3>1, TicksAssumption DEF SomeTime, PennTypes
    <3>4. words' \in SUBSET Int
      BY <1>3 DEF GarbledPayload, Garbage
    <3>5. Spoilt(current, filled, filled')
      BY <3>2, <3>3, <3>4 DEF Spoilt
    <3>. QED BY <1>1, <2>1, <3>2, <3>5
  <2>. QED BY <2>2, <2>3
<1>. QED BY <1>2, <1>3 DEF ReceiveGarbage

LEMMA LendingIo ==
  ASSUME PennTypes, SuspendRight, FirstRight, HandRight, LendingRight, IoSteps
  PROVE  LendingRight'
<1>0. clean' = clean /\ runs' = runs /\ mapped' = mapped
  BY Zenon DEF IoSteps, Accept, AcceptSuspend, Mark, Read, Resume, Pop, PopTimeout, BeginMillislice,
         ReceiveHeader, ReceivePayload, Dies, ReceiveSome, ReadTimeout, ReceiveGarbage, ReadError,
         IoRest, counts
<1>. SUFFICES ASSUME clean PROVE LendingRight'
  BY <1>0, Zenon DEF LendingRight
<1>1. LendingOf(empty, filled, Hand, mapped) /\ (gpc = "precommit" => filled = <<>>)
  BY DEF LendingRight
<1>2. ASSUME gpc' = gpc, empty' = empty, filled' = filled, current' = current PROVE LendingRight'
  <2>1. Hand' = Hand
    BY <1>0, <1>2 DEF Hand
  <2>2. LendingOf(empty', filled', Hand', mapped')
    BY <1>0, <1>1, <1>2, <2>1
  <2>. QED BY <1>1, <1>2, <2>2 DEF LendingRight, LendingOf, EachOnce, HeldIn, Millislices
<1>3. CASE io \in OutOfTheWay
  BY <1>2, <1>3, IoBusy
<1>4. CASE io \notin OutOfTheWay
  <2>1. InRun /\ Hand = current
    BY <1>4, BusyInRun
  <2>2. ASSUME gpc' = gpc PROVE Hand' = current'
    BY <1>0, <2>1, <2>2 DEF InRun, Hand
  <2>3. CASE Pop
    <3>1. /\ empty # <<>> /\ current' = Head(empty) /\ empty' = Tail(empty) /\ filled' = filled
          /\ gpc' = gpc /\ io = "pop"
      BY <2>3, Zenon DEF Pop, IoRest
    <3>2. Hand = NoBuffer
      BY <2>1, <3>1 DEF HandRight
    <3>3. PICK e, f, m : e = empty /\ f = filled /\ m = mapped
      OBVIOUS
    <3>4. LendingOf(Tail(e), f, Head(e), m)
      BY <1>1, <3>1, <3>2, <3>3, LendHands
    <3>5. LendingOf(empty', filled', Hand', mapped')
      BY <1>0, <2>2, <3>1, <3>3, <3>4
    <3>. QED BY <1>1, <3>1, <3>5 DEF LendingRight, LendingOf, EachOnce, HeldIn, Millislices
  <2>4. CASE ReceivePayload
    <3>1. PICK n : n = Head(stream).slice
      OBVIOUS
    <3>2. Receives("payload") /\ Complete(n) /\ gpc' = gpc /\ empty' = empty
      BY <2>4, <3>1 DEF ReceivePayload, IoRest
    <3>3. CASE After(n) = {}
      <4>1. UNCHANGED <<current, filled>>
        BY <3>2, <3>3, Zenon DEF Complete
      <4>. QED BY <1>2, <3>2, <4>1
    <3>4. CASE After(n) # {}
      <4>1. /\ filled' = Append(filled, [buffer |-> current, words |-> words \union UpTo(n),
                                         end |-> Boundary(n), inStep |-> TRUE])
            /\ current' = NoBuffer /\ words' = words \union UpTo(n) /\ current # NoBuffer
        <5>1. Push(n)
          BY <3>2, <3>4, Zenon DEF Complete
        <5>. QED BY <2>4, <3>1, <3>4, <5>1 DEF ReceivePayload, Push
      <4>2. words' \subseteq Int /\ boundary' \in Nat
        BY TypesIo DEF PennTypes
      <4>3. boundary' = Boundary(n) + MillisliceSize /\ MillisliceSize \in Nat
        BY <3>2, <3>4, TicksAssumption DEF Complete, Push
      <4>4. Boundary(n) \in Int
        <5>1. stream \in Seq(Item) /\ stream # <<>>
          BY <3>2 DEF PennTypes, Item, Receives
        <5>2. n \in Nat
          BY <3>1, <5>1, TailOfItems DEF Item
        <5>3. PICK g : g = n * SliceTicks
          OBVIOUS
        <5>4. g \in Nat
          BY <5>2, <5>3, TicksAssumption
        <5>. QED BY <4>3, <5>3, <5>4 DEF Boundary, FirstWord, PennTypes
      <4>5. gpc # "precommit"
        <5>. SUFFICES ASSUME gpc = "precommit" PROVE FALSE
          OBVIOUS
        <5>1. runs = 1 /\ stream # <<>>
          BY <2>1, <3>2 DEF InRun, Receives
        <5>. QED BY <5>1, Zenon DEF FirstRight
      <4>6. PICK y : y = [buffer |-> current, words |-> words \union UpTo(n), end |-> Boundary(n),
                          inStep |-> TRUE]
        OBVIOUS
      <4>7. current \in Buffers
        BY <1>1, <2>1, <4>1 DEF LendingOf
      <4>8. y \in Millislices /\ y.buffer = current
        BY <4>1, <4>2, <4>4, <4>6, <4>7 DEF Millislices
      <4>9. PICK e, f, h, m : e = empty /\ f = filled /\ h = current /\ m = mapped
        OBVIOUS
      <4>10. LendingOf(e, Append(f, y), NoBuffer, m)
        BY <1>1, <2>1, <4>1, <4>8, <4>9, LendFills
      <4>11. LendingOf(empty', filled', Hand', mapped')
        BY <1>0, <2>2, <3>2, <4>1, <4>6, <4>9, <4>10
      <4>. QED BY <3>2, <4>5, <4>11 DEF LendingRight, LendingOf, EachOnce, HeldIn, Millislices
    <3>. QED BY <3>3, <3>4
  <2>5. CASE Dies
    <3>1. gpc' = "dead" /\ empty' = empty /\ filled' = filled /\ current' = current
      BY <2>5, Zenon DEF Dies
    <3>2. Hand' = current'
      BY <3>1 DEF Hand
    <3>3. LendingOf(empty', filled', Hand', mapped')
      BY <1>0, <1>1, <2>1, <3>1, <3>2
    <3>. QED BY <3>1, <3>3 DEF LendingRight, LendingOf, EachOnce, HeldIn, Millislices
  <2>6. CASE ReceiveGarbage
    <3>1. gpc' = gpc /\ empty' = empty /\ stream # <<>>
      BY <2>6, GarbageFills
    <3>2. CASE current' = current /\ filled' = filled
      BY <1>2, <3>1, <3>2
    <3>3. CASE current # NoBuffer /\ current' = NoBuffer /\ Spoilt(current, filled, filled')
      <4>1. PICK w \in SUBSET Int, d \in Nat :
              filled' = Append(filled, [buffer |-> current, words |-> w, end |-> d, inStep |-> FALSE])
        BY <3>3 DEF Spoilt
      <4>2. PICK y : y = [buffer |-> current, words |-> w, end |-> d, inStep |-> FALSE]
        OBVIOUS
      <4>3. current \in Buffers
        BY <1>1, <2>1, <3>3 DEF LendingOf
      <4>4. y \in Millislices /\ y.buffer = current
        BY <4>2, <4>3 DEF Millislices
      <4>5. PICK e, f, h, m : e = empty /\ f = filled /\ h = current /\ m = mapped
        OBVIOUS
      <4>6. LendingOf(e, Append(f, y), NoBuffer, m)
        BY <1>1, <2>1, <3>3, <4>4, <4>5, LendFills
      <4>7. LendingOf(empty', filled', Hand', mapped')
        BY <1>0, <2>2, <3>1, <3>3, <4>1, <4>2, <4>5, <4>6
      <4>8. gpc # "precommit"
        <5>. SUFFICES ASSUME gpc = "precommit" PROVE FALSE
          OBVIOUS
        <5>1. runs = 1 /\ stream # <<>>
          BY <2>1, <3>1 DEF InRun
        <5>. QED BY <5>1, Zenon DEF FirstRight
      <4>. QED BY <3>1, <4>7, <4>8 DEF LendingRight, LendingOf, EachOnce, HeldIn, Millislices
    <3>. QED BY <2>6, <3>2, <3>3, GarbageFills
  <2>7. CASE ~Pop /\ ~ReceivePayload /\ ~Dies /\ ~ReceiveGarbage
    <3>1. /\ gpc' = gpc /\ empty' = empty /\ filled' = filled /\ current' = current
      BY <2>7, Zenon DEF IoSteps, Accept, AcceptSuspend, Mark, Read, Resume, PopTimeout, BeginMillislice,
         ReceiveHeader, ReceiveSome, ReadTimeout, ReadError, IoRest
    <3>. QED BY <1>2, <3>1
  <2>. QED BY <2>3, <2>4, <2>5, <2>6, <2>7
<1>. QED BY <1>3, <1>4

LEMMA LendingOfNothing ==
  LendingOf(<<>>, <<>>, NoBuffer, {})
<1>b. NoBuffer \notin Buffers
  BY BoundsAssumption
<1>1. Len(<<>>) = 0 /\ <<>> \in Seq(Buffers) /\ <<>> \in Seq(Millislices)
  OBVIOUS
<1>2. IsFiniteSet({}) /\ Cardinality({}) = 0 /\ 0 <= Precommit
  BY FS_EmptySet, BoundsAssumption
<1>3. {} = {b \in Buffers : HeldIn(b, <<>>, <<>>, NoBuffer)}
  BY <1>b, <1>1 DEF HeldIn
<1>4. EachOnce(<<>>, <<>>, NoBuffer)
  BY <1>1 DEF EachOnce
<1>. QED BY <1>1, <1>2, <1>3, <1>4 DEF LendingOf

LEMMA LendingArtdaq ==
  ASSUME PennTypes, SuspendRight, FirstRight, HandRight, LendingRight, ArtdaqSteps
  PROVE  LendingRight'
<1>a. ASSUME LendingOf(empty', filled', Hand', mapped'), gpc' = "precommit" => filled' = <<>>
      PROVE  LendingRight'
  BY <1>a DEF LendingRight, LendingOf, EachOnce, HeldIn, Millislices
<1>b. NoBuffer \notin Buffers /\ runs \in Nat
  BY BoundsAssumption DEF PennTypes
<1>1. CASE StartRelease
  <2>1. /\ empty' = <<>> /\ filled' = <<>> /\ mapped' = {} /\ gpc' = "precommit"
        /\ current' = current /\ runs' = runs + 1
    BY <1>1 DEF StartRelease, receiver
  <2>2. Hand' = NoBuffer
    <3>1. CASE runs = 0
      <4>1. current = NoBuffer
        BY <3>1, Zenon DEF FirstRight
      <4>. QED BY <2>1, <4>1 DEF Hand
    <3>2. CASE runs # 0
      <4>1. runs' > 1
        BY <1>b, <2>1, <3>2
      <4>. QED BY <2>1, <4>1 DEF Hand
    <3>. QED BY <3>1, <3>2
  <2>3. LendingOf(<<>>, <<>>, NoBuffer, {})
    BY LendingOfNothing
  <2>. QED BY <1>a, <2>1, <2>2, <2>3
<1>. SUFFICES ASSUME ~StartRelease, clean PROVE LendingRight'
  <2>1. CASE ~StartRelease /\ ~clean
    <3>1. ~clean'
      <4>1. CASE Reset
        BY <2>1, <4>1, Zenon DEF Reset
      <4>2. CASE ~Reset
        BY <2>1, <4>2, Zenon DEF ArtdaqSteps, Commit, ClearSuspend, ClearFlag, StartRun, TakeFilled,
           Throws, DataTimeout, StopRun, Stop, StopEnds, history, marks
      <4>. QED BY <4>1, <4>2
    <3>. QED BY <3>1, Zenon DEF LendingRight
  <2>. QED BY <1>1, <2>1
<1>2. LendingOf(empty, filled, Hand, mapped) /\ (gpc = "precommit" => filled = <<>>)
  BY DEF LendingRight
<1>3. runs' = runs
  BY Zenon DEF ArtdaqSteps, Commit, Reset, ClearSuspend, ClearFlag, StartRun, TakeFilled,
           Throws, DataTimeout, StopRun, Stop, StopEnds, history, counts
<1>4. CASE Commit
  <2>1. /\ gpc = "precommit" /\ gpc' = gpc /\ Cardinality(mapped) < Precommit
        /\ mapped' = mapped \union {NewBuffer} /\ empty' = Append(empty, NewBuffer)
        /\ current' = current /\ filled' = filled
    BY <1>4 DEF Commit, receiver
  <2>2. PICK e, f, h, m, x : e = empty /\ f = filled /\ h = Hand /\ m = mapped /\ x = NewBuffer
    OBVIOUS
  <2>3. x \in Buffers /\ x \notin m
    BY <1>2, <2>1, <2>2, NewBufferIs
  <2>4. LendingOf(Append(e, x), f, h, m \cup {x})
    BY <1>2, <2>1, <2>2, <2>3, LendCommits
  <2>5. Hand' = Hand
    BY <1>3, <2>1 DEF Hand
  <2>. QED BY <1>a, <1>2, <2>1, <2>2, <2>4, <2>5
<1>5. CASE Reset /\ clean'
  <2>1. /\ gpc = "precommit" /\ gpc' = "clear" /\ current' = NoBuffer /\ (runs = 1 => current = NoBuffer)
        /\ empty' = empty /\ filled' = filled /\ mapped' = mapped
    <3>1. runs = 1 => current = NoBuffer
      BY <1>5, Zenon DEF Reset
    <3>. QED BY <1>5, <3>1 DEF Reset, queues
  <2>2. Hand = NoBuffer
    <3>1. runs = 1 \/ runs > 1
      <4>1. runs > 0
        BY <2>1, Zenon DEF SuspendRight
      <4>. QED BY <1>b, <4>1
    <3>. QED BY <2>1, <3>1 DEF Hand
  <2>3. Hand' = NoBuffer
    BY <2>1 DEF Hand
  <2>. QED BY <1>a, <1>2, <2>1, <2>2, <2>3
<1>6. CASE Reset /\ ~clean'
  BY <1>6, Zenon DEF LendingRight
<1>7. CASE TakeFilled
  <2>1. gpc \in {"running", "stopping"} /\ filled # <<>> /\ filled' = Tail(filled) /\ current' = current
    BY <1>7 DEF TakeFilled, receiver
  <2>2. Hand = current
    BY <2>1 DEF Hand
  <2>3. PICK e, f, h, m, x, y : /\ e = empty /\ f = filled /\ h = Hand /\ m = mapped /\ x = NewBuffer
                                /\ y = Head(filled).buffer
    OBVIOUS
  <2>4. y \in m /\ Cardinality(m \ {y}) < Precommit /\ LendingOf(e, Tail(f), h, m \ {y})
    BY <1>2, <2>1, <2>3, LendTaken
  <2>5. mapped' = (m \ {y}) \union {x} /\ empty' = Append(e, x) /\ gpc' = gpc
    BY <1>7, <2>3, <2>4 DEF TakeFilled
  <2>6. x \in Buffers /\ x \notin m
    <3>1. current \in m \/ current = NoBuffer
      <4>1. CASE current # NoBuffer
        BY <1>2, <2>2, <2>3, <4>1, HandLent
      <4>2. CASE current = NoBuffer
        BY <4>2
      <4>. QED BY <4>1, <4>2
    <3>. QED BY <1>2, <2>3, <3>1, NewBufferIs
  <2>7. LendingOf(Append(e, x), Tail(f), h, (m \ {y}) \cup {x})
    BY <2>4, <2>6, LendCommits
  <2>8. Hand' = h
    BY <2>1, <2>2, <2>3, <2>5 DEF Hand
  <2>. QED BY <1>a, <2>1, <2>3, <2>5, <2>7, <2>8
<1>8. CASE ClearSuspend \/ ClearFlag \/ StartRun \/ Throws \/ DataTimeout \/ StopRun \/ Stop \/ StopEnds
  <2>1. gpc # "precommit" /\ gpc' # "precommit"
    BY <1>8 DEF ClearSuspend, ClearFlag, StartRun, Throws, DataTimeout, StopRun, Stop, StopEnds
  <2>2. empty' = empty /\ filled' = filled /\ mapped' = mapped /\ current' = current
    BY <1>8, Zenon DEF ClearSuspend, ClearFlag, StartRun, Throws, DataTimeout, StopRun, Stop, StopEnds,
                       queues, receiver
  <2>3. Hand = current /\ Hand' = current
    BY <2>1, <2>2 DEF Hand
  <2>. QED BY <1>a, <1>2, <2>1, <2>2, <2>3
<1>. QED BY <1>4, <1>5, <1>6, <1>7, <1>8 DEF ArtdaqSteps

LEMMA LendingStep ==
  ASSUME PennTypes, SuspendRight, FirstRight, HandRight, LendingRight, [Next]_vars
  PROVE  LendingRight'
<1>1. ASSUME UNCHANGED <<clean, gpc, runs, current, queues>> PROVE LendingRight'
  <2>1. /\ clean' = clean /\ gpc' = gpc /\ runs' = runs /\ current' = current /\ empty' = empty
        /\ filled' = filled /\ mapped' = mapped
    BY <1>1 DEF queues
  <2>2. Hand' = Hand
    BY <2>1 DEF Hand
  <2>3. SUFFICES ASSUME clean'
                 PROVE  LendingOf(empty', filled', Hand', mapped') /\ (gpc' = "precommit" => filled' = <<>>)
    BY Zenon DEF LendingRight, LendingOf, EachOnce, HeldIn, Millislices
  <2>4. clean
    BY <2>1, <2>3, Zenon
  <2>5. LendingOf(empty, filled, Hand, mapped) /\ (gpc = "precommit" => filled = <<>>)
    BY <2>4, Zenon DEF LendingRight
  <2>. QED BY <2>1, <2>2, <2>5
<1>2. CASE UNCHANGED vars
  BY <1>1, <1>2 DEF vars, history, marks, counts
<1>3. CASE BoardSteps
  <2>1. BoardRest
    BY <1>3 DEF BoardSteps, BoardConnects, BoardSends, BoardCloses
  <2>. QED BY <1>1, <2>1 DEF BoardRest, history, marks, counts
<1>. QED BY <1>2, <1>3, LendingIo, LendingArtdaq DEF Next

LEMMA HandIo ==
  ASSUME PennTypes, SuspendRight, FirstRight, LendingRight, HandRight, IoSteps
  PROVE  HandRight'
<1>0. clean' = clean /\ runs' = runs /\ suspend' = suspend
  BY Zenon DEF IoSteps, Accept, AcceptSuspend, Mark, Read, Resume, Pop, PopTimeout, BeginMillislice,
         ReceiveHeader, ReceivePayload, Dies, ReceiveSome, ReadTimeout, ReceiveGarbage, ReadError,
         IoRest, counts
<1>. SUFFICES ASSUME clean PROVE HandRight'
  BY <1>0, Zenon DEF HandRight, InRun
<1>1. CASE io \in OutOfTheWay /\ io' \in OutOfTheWay
  <2>1. gpc' = gpc /\ current' = current /\ mstate' = mstate
    BY <1>1, IoBusy
  <2>2. io \notin {"popped", "reading", "pop"} /\ io' \notin {"popped", "reading", "pop"}
    BY <1>1 DEF OutOfTheWay
  <2>. QED BY <1>0, <2>1, <2>2, Zenon DEF HandRight, InRun
<1>2. CASE io \in OutOfTheWay /\ (Read \/ Resume) /\ ~suspend
  <2>1. gpc' = gpc /\ current' = current /\ mstate' = mstate
    BY <1>2, IoBusy
  <2>2. io' = IF mstate = "MillisliceEmpty" THEN "pop" ELSE "reading"
    BY <1>2, Zenon DEF Read, Resume, Proceed
  <2>3. io # "popped"
    BY <1>2 DEF OutOfTheWay
  <2>4. mstate \in {"MillisliceEmpty", "MillisliceIncomplete"}
    BY DEF PennTypes
  <2>5. InRun' = InRun
    BY <1>0, <2>1, Zenon DEF InRun
  <2>6. InRun => /\ mstate = "MillisliceEmpty" => current = NoBuffer
                 /\ mstate = "MillisliceIncomplete" => current # NoBuffer
    BY <1>2, <2>3, Zenon DEF HandRight
  <2>7. clean /\ gpc' = "clear" /\ runs > 1 => current' = NoBuffer
    BY <2>1, Zenon DEF HandRight
  <2>8. InRun' => /\ io' \in {"popped", "reading"} => current' # NoBuffer
                  /\ io' = "reading" => mstate' = "MillisliceIncomplete"
                  /\ io' = "popped" => mstate' = "MillisliceEmpty"
                  /\ io' = "pop" => current' = NoBuffer
                  /\ mstate' = "MillisliceIncomplete" => current' # NoBuffer
                  /\ mstate' = "MillisliceEmpty" /\ current' # NoBuffer => io' = "popped" \/ suspend'
    BY <2>1, <2>2, <2>4, <2>5, <2>6
  <2>. QED BY <1>0, <2>7, <2>8, Zenon DEF HandRight
<1>3. CASE io \notin OutOfTheWay
  <2>0. InRun /\ Hand = current /\ ~(gpc = "clear" /\ runs > 1)
    BY <1>3, BusyInRun
  <2>a. /\ io \in {"popped", "reading"} => current # NoBuffer
        /\ io = "reading" => mstate = "MillisliceIncomplete"
        /\ io = "popped" => mstate = "MillisliceEmpty"
        /\ io = "pop" => current = NoBuffer
        /\ mstate = "MillisliceIncomplete" => current # NoBuffer
        /\ mstate = "MillisliceEmpty" /\ current # NoBuffer => io = "popped" \/ suspend
    BY <2>0, Zenon DEF HandRight
  <2>c. gpc' = gpc \/ gpc' = "dead"
    BY Zenon DEF IoSteps, Accept, AcceptSuspend, Mark, Read, Resume, Pop, PopTimeout, BeginMillislice,
         ReceiveHeader, ReceivePayload, Dies, ReceiveSome, ReadTimeout, ReceiveGarbage, ReadError, IoRest
  <2>d. ~(clean' /\ gpc' = "clear" /\ runs' > 1)
    BY <1>0, <2>0, <2>c
  <2>e. ASSUME /\ io' \in {"popped", "reading"} => current' # NoBuffer
               /\ io' = "reading" => mstate' = "MillisliceIncomplete"
               /\ io' = "popped" => mstate' = "MillisliceEmpty"
               /\ io' = "pop" => current' = NoBuffer
               /\ mstate' = "MillisliceIncomplete" => current' # NoBuffer
               /\ mstate' = "MillisliceEmpty" /\ current' # NoBuffer => io' = "popped" \/ suspend'
        PROVE  HandRight'
    BY <2>d, <2>e, Zenon DEF HandRight
  <2>1. CASE Pop
    <3>1. /\ io = "pop" /\ empty # <<>> /\ current' = Head(empty) /\ io' = "popped" /\ mstate' = mstate
      BY <2>1, Zenon DEF Pop
    <3>2. LendingOf(empty, filled, Hand, mapped)
      BY Zenon DEF LendingRight
    <3>3. Head(empty) \in Buffers
      BY <3>1, <3>2 DEF LendingOf
    <3>4. current' # NoBuffer
      BY <3>1, <3>3, BoundsAssumption
    <3>5. mstate = "MillisliceEmpty"
      BY <2>a, <3>1 DEF PennTypes
    <3>. QED BY <2>e, <3>1, <3>4, <3>5
  <2>2. CASE BeginMillislice
    <3>1. io = "popped" /\ current' = current
      BY <2>2, Zenon DEF BeginMillislice
    <3>2. \/ suspend /\ io' = "mark" /\ mstate' = mstate
          \/ io' = "reading" /\ mstate' = "MillisliceIncomplete"
      BY <2>2, Zenon DEF BeginMillislice
    <3>3. CASE suspend /\ io' = "mark" /\ mstate' = mstate
      <4>1. /\ mstate' = "MillisliceIncomplete" => current' # NoBuffer
            /\ io' \notin {"popped", "reading", "pop"}
        BY <2>a, <3>1, <3>3
      <4>. QED BY <1>0, <2>e, <3>3, <4>1
    <3>4. CASE io' = "reading" /\ mstate' = "MillisliceIncomplete"
      BY <2>a, <2>e, <3>1, <3>4
    <3>. QED BY <3>2, <3>3, <3>4
  <2>3. CASE ReceivePayload
    <3>1. io = "reading" /\ io' = "read"
      BY <2>3, Zenon DEF ReceivePayload, Receives
    <3>2. \/ mstate' = "MillisliceIncomplete" /\ current' = current
          \/ mstate' = "MillisliceEmpty" /\ current' = NoBuffer
      <4>1. PICK n : Complete(n)
        BY <2>3 DEF ReceivePayload
      <4>. QED BY <4>1, Zenon DEF Complete, Push
    <3>. QED BY <2>a, <2>e, <3>1, <3>2
  <2>b. CASE ReceiveGarbage
    <3>1. io = "reading" /\ io' = "read"
      BY <2>b, GarbageFills
    <3>2. \/ mstate' = "MillisliceIncomplete" /\ current' = current
          \/ mstate' = "MillisliceEmpty" /\ current' = NoBuffer
      BY <2>b, GarbageFills
    <3>. QED BY <2>a, <2>e, <3>1, <3>2
  <2>4. CASE ReceiveHeader \/ Dies \/ ReceiveSome \/ ReadTimeout \/ ReadError
    <3>1. io = "reading" /\ current' = current /\ mstate' \in {mstate, "MillisliceIncomplete"}
      <4>1. io = "reading" /\ current' = current /\ (mstate' = mstate \/ mstate' = "MillisliceIncomplete")
        BY <2>4, Zenon DEF ReceiveHeader, Dies, OutOfStep, ReceiveSome, ReadTimeout, ReadError, Receives
      <4>. QED BY <4>1
    <3>2. io' \in {"read", "reading", "accepting", "ended"}
      <4>1. io' = "read" \/ io' = "reading" \/ io' = "accepting" \/ io' = "ended"
        BY <2>4, <3>1, Zenon DEF ReceiveHeader, Dies, ReceiveSome, ReadTimeout, ReadError, Receives
      <4>. QED BY <4>1
    <3>3. mstate' = "MillisliceIncomplete" /\ current' # NoBuffer
      BY <2>a, <3>1
    <3>. QED BY <2>e, <3>2, <3>3
  <2>5. CASE PopTimeout
    <3>1. /\ io = "pop" /\ current' = current /\ mstate' = mstate
          /\ (io' = "pop" \/ io' = "mark" \/ io' = "ended")
      BY <2>5, Zenon DEF PopTimeout, GiveUp
    <3>2. mstate = "MillisliceEmpty" /\ current = NoBuffer
      BY <2>a, <3>1 DEF PennTypes
    <3>. QED BY <2>e, <3>1, <3>2
  <2>6. CASE Accept \/ AcceptSuspend \/ Mark \/ Read \/ Resume
    <3>1. io \in OutOfTheWay
      BY <2>6, Zenon DEF Accept, AcceptSuspend, Mark, Read, Resume, OutOfTheWay
    <3>. QED BY <1>3, <3>1
  <2>. QED BY <2>b, <2>1, <2>2, <2>3, <2>4, <2>5, <2>6, Zenon DEF IoSteps
<1>4. io \in OutOfTheWay => io' \in OutOfTheWay \/ ((Read \/ Resume) /\ ~suspend)
  BY IoBusy
<1>. QED BY <1>1, <1>2, <1>3, <1>4, Zenon

LEMMA HandArtdaq ==
  ASSUME PennTypes, SuspendRight, FirstRight, HandRight, ArtdaqSteps
  PROVE  HandRight'
<1>0. io' = io /\ runs \in Nat
  BY DEF ArtdaqSteps, StartRelease, Commit, Reset, ClearSuspend, ClearFlag, StartRun, TakeFilled,
         Throws, DataTimeout, StopRun, Stop, StopEnds, ArtdaqRest, PennTypes
<1>a. ASSUME InRun, current' = current, mstate' = mstate, (suspend' = suspend) \/ suspend',
             gpc' # "clear"
      PROVE  HandRight'
  <2>1. /\ io \in {"popped", "reading"} => current # NoBuffer
        /\ io = "reading" => mstate = "MillisliceIncomplete"
        /\ io = "popped" => mstate = "MillisliceEmpty"
        /\ io = "pop" => current = NoBuffer
        /\ mstate = "MillisliceIncomplete" => current # NoBuffer
        /\ mstate = "MillisliceEmpty" /\ current # NoBuffer => io = "popped" \/ suspend
    BY <1>a, Zenon DEF HandRight
  <2>2. suspend => suspend'
    BY <1>a, Zenon
  <2>. QED BY <1>0, <1>a, <2>1, <2>2, Zenon DEF HandRight
<1>1. CASE StartRelease
  <2>1. /\ gpc = "stopped" /\ gpc' = "precommit" /\ current' = current /\ mstate' = mstate
        /\ suspend' = suspend
    BY <1>1, Zenon DEF StartRelease, receiver
  <2>2. CASE runs = 0
    <3>1. clean
      BY <2>2, Zenon DEF FirstRight
    <3>2. InRun /\ gpc' # "clear"
      BY <2>1, <3>1, Zenon DEF InRun
    <3>. QED BY <1>a, <2>1, <3>2, Zenon
  <2>3. CASE runs # 0
    <3>1. runs' # 1
      BY <1>0, <1>1, <2>3 DEF StartRelease
    <3>2. ~InRun' /\ gpc' # "clear"
      BY <2>1, <3>1, Zenon DEF InRun
    <3>. QED BY <3>2, Zenon DEF HandRight
  <2>. QED BY <2>2, <2>3
<1>2. CASE Commit
  <2>1. /\ gpc = "precommit" /\ gpc' = gpc /\ current' = current /\ mstate' = mstate
        /\ suspend' = suspend /\ clean' = clean /\ runs' = runs
    BY <1>2, Zenon DEF Commit, receiver, marks
  <2>. QED BY <1>0, <2>1, Zenon DEF HandRight, InRun
<1>3. CASE Reset
  <2>0. CASE ~clean'
    BY <2>0, Zenon DEF HandRight, InRun
  <2>1. CASE clean'
    <3>1. /\ gpc = "precommit" /\ gpc' = "clear" /\ current' = NoBuffer /\ mstate' = "MillisliceEmpty"
          /\ clean /\ (runs = 1 => current = NoBuffer)
      BY <1>3, <2>1, Zenon DEF Reset
    <3>2. io \notin {"popped", "reading"}
      <4>1. CASE runs = 1
        <5>1. InRun /\ current = NoBuffer
          BY <3>1, <4>1, Zenon DEF InRun
        <5>. QED BY <5>1, Zenon DEF HandRight
      <4>2. CASE runs # 1
        <5>1. gpc \in {"precommit", "clear"} /\ gpc \notin {"clearFlag", "dead"}
          BY <3>1
        <5>2. runs > 0
          BY <5>1, Zenon DEF SuspendRight
        <5>3. runs > 1
          BY <1>0, <4>2, <5>2
        <5>4. suspend /\ suspended /\ ~late
          BY <3>1, <5>1, <5>3, Zenon DEF SuspendRight
        <5>5. io \in OutOfTheWay
          BY <5>4, Zenon DEF SuspendRight
        <5>. QED BY <5>5 DEF OutOfTheWay
      <4>. QED BY <4>1, <4>2
    <3>3. io' \notin {"popped", "reading"} /\ mstate' # "MillisliceIncomplete"
      BY <1>0, <3>1, <3>2
    <3>4. io' # "popped" /\ io' # "reading"
      BY <3>3
    <3>. QED BY <3>1, <3>3, <3>4, Zenon DEF HandRight
  <2>. QED BY <2>0, <2>1
<1>4. CASE ClearSuspend
  <2>0. /\ gpc = "clear" /\ gpc' = "clearFlag" /\ current' = current /\ mstate' = mstate
        /\ clean' = clean /\ runs' = runs
    BY <1>4, Zenon DEF ClearSuspend, receiver, history, marks, counts
  <2>1. CASE clean
    <3>1. InRun
      BY <2>0, <2>1, Zenon DEF InRun
    <3>2. current = NoBuffer \/ ~suspend
      <4>1. gpc \in {"precommit", "clear"} /\ gpc \in {"precommit", "clear", "clearFlag", "command"}
            /\ gpc \in {"stopped", "precommit", "clear"}
        BY <2>0
      <4>2. runs > 0
        BY <4>1, Zenon DEF SuspendRight
      <4>3. runs = 1 \/ runs > 1
        BY <1>0, <4>2
      <4>4. CASE runs = 1
        BY <4>1, <4>4, Zenon DEF FirstRight
      <4>5. CASE runs > 1
        BY <2>0, <2>1, <4>5, Zenon DEF HandRight
      <4>. QED BY <4>3, <4>4, <4>5
    <3>. QED BY <1>0, <2>0, <3>1, <3>2, Zenon DEF HandRight
  <2>2. CASE ~clean
    BY <2>0, <2>2, Zenon DEF HandRight, InRun
  <2>. QED BY <2>1, <2>2
<1>5. CASE ClearFlag \/ StartRun \/ TakeFilled \/ Throws \/ DataTimeout \/ StopRun \/ Stop \/ StopEnds
  <2>1. gpc # "precommit" /\ gpc' # "precommit" /\ gpc' # "clear"
    BY <1>5 DEF ClearFlag, StartRun, TakeFilled, Throws, DataTimeout, StopRun, Stop, StopEnds
  <2>2. current' = current /\ mstate' = mstate /\ clean' = clean
    BY <1>5, Zenon DEF ClearFlag, StartRun, TakeFilled, Throws, DataTimeout, StopRun, Stop, StopEnds,
                       receiver, history, marks
  <2>3. suspend' = suspend \/ suspend'
    BY <1>5, Zenon DEF ClearFlag, StartRun, TakeFilled, Throws, DataTimeout, StopRun, Stop, StopEnds
  <2>4. CASE clean
    <3>1. InRun
      BY <2>1, <2>4, Zenon DEF InRun
    <3>. QED BY <1>a, <2>1, <2>2, <2>3, <3>1, Zenon
  <2>5. CASE ~clean
    BY <2>2, <2>5, Zenon DEF HandRight, InRun
  <2>. QED BY <2>4, <2>5
<1>. QED BY <1>1, <1>2, <1>3, <1>4, <1>5 DEF ArtdaqSteps

LEMMA HandStep ==
  ASSUME PennTypes, SuspendRight, FirstRight, LendingRight, HandRight, [Next]_vars
  PROVE  HandRight'
<1>1. ASSUME /\ clean' = clean /\ gpc' = gpc /\ runs' = runs /\ current' = current
             /\ mstate' = mstate /\ io' = io /\ suspend' = suspend
      PROVE  HandRight'
  BY <1>1, Zenon DEF HandRight, InRun
<1>2. CASE UNCHANGED vars
  <2>1. /\ clean' = clean /\ gpc' = gpc /\ runs' = runs /\ current' = current
        /\ mstate' = mstate /\ io' = io /\ suspend' = suspend
    BY <1>2, Zenon DEF vars, history, marks, counts, flags
  <2>. QED BY <1>1, <2>1
<1>3. CASE BoardSteps
  <2>1. BoardRest
    BY <1>3 DEF BoardSteps, BoardConnects, BoardSends, BoardCloses
  <2>2. /\ clean' = clean /\ gpc' = gpc /\ runs' = runs /\ current' = current
        /\ mstate' = mstate /\ io' = io /\ suspend' = suspend
    BY <2>1, Zenon DEF BoardRest, history, marks, counts, flags
  <2>. QED BY <1>1, <2>2
<1>. QED BY <1>2, <1>3, HandIo, HandArtdaq DEF Next

-----------------------------------------------------------------------------
(* The cutting of the stream at the boundaries. *)

LEMMA CutBegins ==
  ASSUME NEW s \in Int, NEW e \in Int, NEW d \in Int, NEW w, NEW r, NEW o,
         CutOf(s, e, d, "MillisliceEmpty", w, r, o)
  PROVE  CutOf(s, e, d, "MillisliceIncomplete", o \union r, {}, {})
<1>0. MillisliceSize \in Nat /\ Overlap \in Nat /\ SliceTicks \in Nat
      /\ SliceTicks + Overlap <= MillisliceSize
  BY TicksAssumption
<1>1. PICK c : c = d - MillisliceSize
  OBVIOUS
<1>2. /\ c \in Int /\ e <= c + SliceTicks /\ s <= c /\ s <= e /\ c < e /\ e <= d
      /\ r = (c + 1)..e /\ o = {k \in (c - Overlap + 1)..c : s <= k}
  BY <1>1, <1>0 DEF CutOf
<1>3. o \union r = WindowOf(s, d, e)
  <2>1. PICK p : p = c - Overlap + 1 /\ p \in Int /\ p <= c + 1
    BY <1>0, <1>2
  <2>2. WindowOf(s, d, e) = {k \in p..d : s <= k /\ k <= e}
    BY <1>1, <2>1 DEF WindowOf
  <2>3. ASSUME NEW k \in Int PROVE k \in o \union r <=> p <= k /\ k <= d /\ s <= k /\ k <= e
    BY <1>2, <2>1, <2>3
  <2>4. o \union r \subseteq Int
    BY <1>2, <2>1
  <2>. QED BY <2>2, <2>3, <2>4
<1>4. {} = {k \in (d - Overlap + 1)..d : s <= k /\ k <= e}
  <2>1. e <= d - Overlap
    BY <1>0, <1>1, <1>2
  <2>. QED BY <1>0, <2>1
<1>. QED BY <1>1, <1>2, <1>3, <1>4 DEF CutOf

\* The words e + 1 to e + SliceTicks of a microslice, split at the boundary d.
NewWords(e) == (e + 1)..(e + SliceTicks)
NewUpTo(e, d) == {k \in NewWords(e) : k <= d}
NewAfter(e, d) == {k \in NewWords(e) : k > d}
NewOverlap(e, d) == {k \in NewWords(e) : k > d - Overlap /\ k <= d}

LEMMA CutFirst ==
  ASSUME NEW e \in Int, NEW d \in Int, d = e + MillisliceSize
  PROVE  /\ CutOf(e + 1, e + SliceTicks, d, "MillisliceIncomplete",
                  NewUpTo(e, d), {}, NewOverlap(e, d))
         /\ NewAfter(e, d) = {}
<1>0. MillisliceSize \in Nat /\ Overlap \in Nat /\ SliceTicks \in Nat \ {0}
      /\ SliceTicks <= MillisliceSize
  BY TicksAssumption
<1>1. e + 1 <= e + SliceTicks /\ d - MillisliceSize < e + SliceTicks /\ e + SliceTicks <= d
  BY <1>0
<1>2. NewAfter(e, d) = {}
  BY <1>0, <1>1 DEF NewAfter, NewWords
<1>3. NewUpTo(e, d) = WindowOf(e + 1, d, e + SliceTicks)
  BY <1>0, <1>1 DEF NewUpTo, NewWords, WindowOf
<1>4. NewOverlap(e, d) = {k \in (d - Overlap + 1)..d : e + 1 <= k /\ k <= e + SliceTicks}
  BY <1>0, <1>1 DEF NewOverlap, NewWords
<1>. QED BY <1>1, <1>2, <1>3, <1>4 DEF CutOf

LEMMA CutGoesOn ==
  ASSUME NEW s \in Int, NEW e \in Int, NEW d \in Int, NEW w, NEW r, NEW o,
         CutOf(s, e, d, "MillisliceIncomplete", w, r, o), e + SliceTicks <= d
  PROVE  CutOf(s, e + SliceTicks, d, "MillisliceIncomplete",
               w \union NewUpTo(e, d), {}, o \union NewOverlap(e, d))
<1>0. MillisliceSize \in Nat /\ Overlap \in Nat /\ SliceTicks \in Nat
  BY TicksAssumption
<1>1. PICK g : g = e + SliceTicks /\ g \in Int /\ e <= g /\ g <= d
  BY <1>0
<1>2. /\ s <= e /\ d - MillisliceSize < e /\ w = WindowOf(s, d, e)
      /\ o = {k \in (d - Overlap + 1)..d : s <= k /\ k <= e}
  BY DEF CutOf
<1>3. w \union NewUpTo(e, d) = WindowOf(s, d, g)
  <2>1. PICK p : p = d - MillisliceSize - Overlap + 1 /\ p \in Int /\ p <= e + 1
    BY <1>0, <1>2
  <2>2. WindowOf(s, d, e) = {k \in p..d : s <= k /\ k <= e}
        /\ WindowOf(s, d, g) = {k \in p..d : s <= k /\ k <= g}
        /\ NewUpTo(e, d) = {k \in (e + 1)..g : k <= d}
    BY <1>1, <2>1 DEF WindowOf, NewUpTo, NewWords
  <2>. QED BY <1>1, <1>2, <2>1, <2>2
<1>4. o \union NewOverlap(e, d) = {k \in (d - Overlap + 1)..d : s <= k /\ k <= g}
  BY <1>0, <1>1, <1>2 DEF NewOverlap, NewWords
<1>5. d - MillisliceSize < g /\ s <= g
  BY <1>0, <1>1, <1>2
<1>. QED BY <1>1, <1>3, <1>4, <1>5 DEF CutOf

LEMMA CutEnds ==
  ASSUME NEW s \in Int, NEW e \in Int, NEW d \in Int, NEW w, NEW r, NEW o, NEW q,
         CutOf(s, e, d, "MillisliceIncomplete", w, r, o), ~(e + SliceTicks <= d)
  PROVE  /\ CutOf(s, e + SliceTicks, d + MillisliceSize, "MillisliceEmpty",
                  q, NewAfter(e, d), o \union NewOverlap(e, d))
         /\ w \union NewUpTo(e, d) = WholeWindow(s, d)
<1>0. MillisliceSize \in Nat /\ Overlap \in Nat /\ SliceTicks \in Nat /\ SliceTicks <= MillisliceSize
  BY TicksAssumption
<1>1. PICK g : g = e + SliceTicks /\ g \in Int /\ e <= g /\ d < g
  BY <1>0
<1>2. /\ s <= e /\ d - MillisliceSize < e /\ e <= d /\ w = WindowOf(s, d, e)
      /\ o = {k \in (d - Overlap + 1)..d : s <= k /\ k <= e}
  BY DEF CutOf
<1>3. w \union NewUpTo(e, d) = WholeWindow(s, d)
  <2>1. PICK p : p = d - MillisliceSize - Overlap + 1 /\ p \in Int /\ p <= e + 1
    BY <1>0, <1>2
  <2>2. WindowOf(s, d, e) = {k \in p..d : s <= k /\ k <= e}
        /\ NewUpTo(e, d) = {k \in (e + 1)..g : k <= d}
    BY <1>1, <2>1 DEF WindowOf, NewUpTo, NewWords
  <2>. QED BY <1>1, <1>2, <2>1, <2>2 DEF WholeWindow
<1>4. o \union NewOverlap(e, d) = {k \in (d - Overlap + 1)..d : s <= k}
  BY <1>0, <1>1, <1>2 DEF NewOverlap, NewWords
<1>5. NewAfter(e, d) = (d + 1)..g
  BY <1>0, <1>1, <1>2 DEF NewAfter, NewWords
<1>6. PICK h : h = d + MillisliceSize /\ h \in Int /\ h - MillisliceSize = d
  BY <1>0
<1>7. s <= g /\ d < g /\ g <= h /\ g <= d + SliceTicks /\ s <= d
  BY <1>0, <1>1, <1>2, <1>6
<1>8. CutOf(s, g, h, "MillisliceEmpty", q, NewAfter(e, d), o \union NewOverlap(e, d))
  <2>1. /\ h - MillisliceSize < g /\ g <= h - MillisliceSize + SliceTicks /\ s <= h - MillisliceSize
        /\ NewAfter(e, d) = (h - MillisliceSize + 1)..g
        /\ o \union NewOverlap(e, d)
             = {k \in (h - MillisliceSize - Overlap + 1)..(h - MillisliceSize) : s <= k}
    BY <1>4, <1>5, <1>6, <1>7
  <2>. QED BY <1>7, <2>1 DEF CutOf
<1>. QED BY <1>1, <1>3, <1>6, <1>8

LEMMA NextEnd ==
  ASSUME NEW s \in Int, NEW u \in Int, NEW m \in Nat
  PROVE  (s - 1 + u * m) + m = s - 1 + (u + 1) * m
<1>1. PICK v : v = u * m /\ v \in Int
  OBVIOUS
<1>2. (u + 1) * m = v + m
  BY <1>1, Products
<1>3. (s - 1 + v) + m = s - 1 + (v + m)
  BY <1>1
<1>. QED BY <1>1, <1>2, <1>3

\* The millislice that is complete joins the others, and one that is taken leaves them.
LEMMA FilledGrows ==
  ASSUME NEW s \in Int, NEW f \in Seq(Millislices), NEW n \in Int, NEW y \in Millislices, NEW d \in Int,
         FilledOf(s, f, n), d = EndOf(s, n + Len(f) + 1),
         y.end = d, y.words = WholeWindow(s, d)
  PROVE  /\ FilledOf(s, Append(f, y), n)
         /\ d + MillisliceSize = EndOf(s, n + Len(Append(f, y)) + 1)
<1>1. PICK g, l : g = Append(f, y) /\ l = Len(f)
  OBVIOUS
<1>2. l \in Nat /\ Len(g) = l + 1 /\ g[l + 1] = y /\ \A i \in 1..l : g[i] = f[i]
  BY <1>1
<1>3. ASSUME NEW i \in 1..Len(g)
      PROVE  /\ g[i].end = EndOf(s, n + i)
             /\ g[i].words = WholeWindow(s, g[i].end)
  <2>1. CASE i = l + 1
    <3>1. n + i = n + l + 1
      BY <1>2, <2>1
    <3>2. g[i] = y
      BY <1>2, <2>1
    <3>3. y.end = EndOf(s, n + i)
      BY <1>1, <3>1
    <3>. QED BY <3>2, <3>3
  <2>2. CASE i # l + 1
    <3>1. i \in 1..l
      BY <1>2, <2>2
    <3>2. g[i] = f[i]
      BY <1>2, <3>1
    <3>. QED BY <1>1, <3>1, <3>2 DEF FilledOf
  <2>. QED BY <2>1, <2>2
<1>4. d + MillisliceSize = EndOf(s, n + Len(g) + 1)
  <2>1. PICK u : u = n + l + 1 /\ u \in Int /\ n + Len(g) + 1 = u + 1
    BY <1>2
  <2>2. PICK m : m = MillisliceSize /\ m \in Nat
    BY TicksAssumption
  <2>a. d = s - 1 + u * m
    BY <1>1, <2>1, <2>2 DEF EndOf
  <2>b. (s - 1 + u * m) + m = s - 1 + (u + 1) * m
    BY <2>1, <2>2, NextEnd, Zenon
  <2>3. d + m = s - 1 + (u + 1) * m
    BY <2>a, <2>b, Zenon
  <2>. QED BY <2>1, <2>2, <2>3, Zenon DEF EndOf
<1>. QED BY <1>1, <1>3, <1>4 DEF FilledOf

LEMMA FilledShrinks ==
  ASSUME NEW s \in Int, NEW f \in Seq(Millislices), NEW n \in Int, f # <<>>, FilledOf(s, f, n)
  PROVE  /\ FilledOf(s, Tail(f), n + 1)
         /\ n + Len(f) + 1 = (n + 1) + Len(Tail(f)) + 1
<1>1. PICK g, l : g = Tail(f) /\ l = Len(f)
  OBVIOUS
<1>2. l \in Nat /\ l # 0 /\ Len(g) = l - 1 /\ \A i \in 1..(l - 1) : g[i] = f[i + 1]
  BY <1>1
<1>3. ASSUME NEW i \in 1..Len(g)
      PROVE  /\ g[i].end = EndOf(s, n + 1 + i)
             /\ g[i].words = WholeWindow(s, g[i].end)
  <2>1. i \in 1..(l - 1) /\ i + 1 \in 1..l
    BY <1>2
  <2>2. g[i] = f[i + 1]
    BY <1>2, <2>1
  <2>3. PICK j : j = i + 1 /\ n + 1 + i = n + j
    OBVIOUS
  <2>4. /\ f[j].end = EndOf(s, n + j)
        /\ f[j].words = WholeWindow(s, f[j].end)
    BY <1>1, <2>1, <2>3 DEF FilledOf
  <2>. QED BY <2>2, <2>3, <2>4
<1>. QED BY <1>1, <1>2, <1>3 DEF FilledOf

\* A number that is right tells that none was lost.
LEMMA NoneLost ==
  ASSUME NEW b \in Nat, NEW n \in Nat, n \in (b + 1)..(b + 1 + MaxLost),
         n % IdModulus = ((b % IdModulus) + 1) % IdModulus
  PROVE  n = b + 1
<1>0. IdModulus \in Nat /\ IdModulus > 1 /\ MaxLost \in Nat /\ MaxLost < IdModulus
  BY TicksAssumption, BoundsAssumption, RoomAssumption
<1>1. PICK m : m = IdModulus /\ m \in Nat /\ m > 1
  BY <1>0
<1>2. ASSUME NEW x \in Nat
      PROVE  \E q \in Int, r \in 0..(m - 1), c \in Int : r = x % m /\ c = q * m /\ x = c + r
  <2>1. PICK q, r, c : q = x \div m /\ r = x % m /\ c = q * m
    OBVIOUS
  <2>a. m \in Nat \ {0} /\ x \in Int
    BY <1>1
  <2>b. x \div m \in Int /\ x % m \in 0..m - 1 /\ x = (x \div m) * m + (x % m)
    BY <2>a, Division, Zenon
  <2>2. q \in Int /\ r \in 0..(m - 1) /\ x = c + r
    BY <2>1, <2>b
  <2>3. c \in Int
    BY <1>1, <2>1, <2>2
  <2>. QED BY <2>1, <2>2, <2>3
<1>3. PICK q1 \in Int, r1 \in 0..(m - 1), c1 \in Int : r1 = b % m /\ c1 = q1 * m /\ b = c1 + r1
  BY <1>2
<1>4. PICK q2 \in Int, r2 \in 0..(m - 1), c2 \in Int : r2 = n % m /\ c2 = q2 * m /\ n = c2 + r2
  BY <1>2
<1>5. PICK x : x = r1 + 1 /\ x \in Nat
  BY <1>1, <1>3
<1>6. PICK q3 \in Int, r3 \in 0..(m - 1), c3 \in Int : r3 = x % m /\ c3 = q3 * m /\ x = c3 + r3
  BY <1>2, <1>5
<1>7. r2 = r3
  BY <1>1, <1>3, <1>4, <1>5, <1>6
<1>9. n - (b + 1) = c2 - c1 - c3
  BY <1>1, <1>3, <1>4, <1>5, <1>6, <1>7
<1>10. PICK z : z = q2 - q1 - q3 /\ z \in Int
  BY <1>3, <1>4, <1>6
<1>11. c2 - c1 - c3 = z * m
  <2>1. (q2 - q1) * m = c2 - c1 /\ q2 - q1 \in Int
    BY <1>1, <1>3, <1>4, Products
  <2>2. (q2 - q1 - q3) * m = (q2 - q1) * m - q3 * m
    BY <1>1, <1>6, <2>1, Products
  <2>. QED BY <1>6, <1>10, <2>1, <2>2
<1>12. z * m = n - (b + 1) /\ 0 <= n - (b + 1) /\ n - (b + 1) < m
  BY <1>0, <1>1, <1>9, <1>11
<1>13. z = 0
  <2>1. z * m < m /\ -m < z * m
    BY <1>1, <1>12
  <2>. QED BY <1>1, <1>10, <2>1, OneMultiple
<1>14. z * m = 0
  BY <1>1, <1>13
<1>. QED BY <1>12, <1>14

LEMMA NextKept ==
  ASSUME NEW b, NextIs(b), UNCHANGED <<part, lastId, stream, nextSlice>>, ~torn' => ~torn,
         conn = "reset" => conn' = "reset"
  PROVE  NextIs(b)'
<1>1. part' = part /\ lastId' = lastId /\ stream' = stream /\ nextSlice' = nextSlice
  OBVIOUS
<1>2. part' = "header" => lastId' = b % IdModulus
  BY <1>1 DEF NextIs
<1>3. part' = "header" /\ ~torn' /\ conn' # "reset" =>
        IF stream' = <<>> THEN nextSlice' = b + 1
        ELSE stream'[1].part = "header" /\ stream'[1].slice \in (b + 1)..(b + 1 + MaxLost)
  BY <1>1, Zenon DEF NextIs
<1>4. part' = "payload" /\ ~torn' /\ stream' # <<>> /\ stream'[1].part = "payload"
        => stream'[1].slice = b + 1
  BY <1>1, Zenon DEF NextIs
<1>. QED BY <1>2, <1>3, <1>4, Zenon DEF NextIs

LEMMA SlicingKept ==
  ASSUME SlicingRight, InRun' => InRun, PennInStep' => PennInStep, slicing' = slicing,
         UNCHANGED <<mstate, filled, taken>>, \A b \in Nat : NextIs(b) => NextIs(b)'
  PROVE  SlicingRight'
<1>1. /\ words' = words /\ remaining' = remaining /\ overlap' = overlap /\ runStart' = runStart
      /\ boundary' = boundary /\ lastId' = lastId /\ part' = part
      /\ mstate' = mstate /\ filled' = filled /\ taken' = taken
  BY Zenon DEF slicing
<1>2. ASSUME SliceSoFar PROVE SliceSoFar'
  <2>1. CASE runStart = 0
    <3>1. NothingReceived
      BY <1>2, <2>1, Zenon DEF SliceSoFar
    <3>2. NothingReceived'
      BY <1>1, <3>1, Zenon DEF NothingReceived
    <3>. QED BY <1>1, <2>1, <3>2, Zenon DEF SliceSoFar
  <2>2. CASE runStart # 0
    <3>1. PICK a \in Nat, b \in Nat : Received(a, b)
      BY <1>2, <2>2, Zenon DEF SliceSoFar
    <3>2. a <= b /\ runStart = FirstWord(a) /\ NextIs(b) /\ CutRight(runStart, (b + 1) * SliceTicks)
      BY <3>1, Zenon DEF Received
    <3>3. NextIs(b)'
      BY <3>2, Zenon
    <3>4. CutRight(runStart, (b + 1) * SliceTicks)'
      BY <1>1, <3>2 DEF CutRight
    <3>5. Received(a, b)'
      BY <1>1, <3>2, <3>3, <3>4, Zenon DEF Received, FirstWord
    <3>. QED BY <1>1, <2>2, <3>5, Zenon DEF SliceSoFar
  <2>. QED BY <2>1, <2>2
<1>. QED BY <1>2, Zenon DEF SlicingRight

LEMMA SlicingBoard ==
  ASSUME PennTypes, StreamRight, SlicingRight, BoardSteps
  PROVE  SlicingRight'
<1>0. BoardRest
  BY DEF BoardSteps, BoardConnects, BoardSends, BoardCloses
<1>1. /\ slicing' = slicing /\ mstate' = mstate /\ filled' = filled /\ taken' = taken /\ torn' = torn
      /\ exception' = exception /\ gpc' = gpc /\ clean' = clean /\ runs' = runs
  BY <1>0, Zenon DEF BoardRest, reading, queues, flags, history, marks, counts
<1>2. (InRun' => InRun) /\ (PennInStep' => PennInStep)
  <2>1. misled' = misled
    BY <1>1, Zenon DEF slicing
  <2>. QED BY <1>1, <2>1, Zenon DEF InRun, PennInStep
<1>3. part' = part /\ lastId' = lastId
  BY <1>1, Zenon DEF slicing
<1>4. stream \in Seq(Item) /\ nextSlice \in Nat /\ MaxLost \in Nat /\ part \in Parts
  BY BoundsAssumption DEF PennTypes, Item
<1>5. ASSUME NEW b \in Nat, NextIs(b) PROVE NextIs(b)'
  <2>a. part = "header" =>
       /\ lastId = b % IdModulus
       /\ ~torn /\ conn # "reset" =>
            IF stream = <<>> THEN nextSlice = b + 1
            ELSE stream[1].part = "header" /\ stream[1].slice \in (b + 1)..(b + 1 + MaxLost)
    BY <1>5 DEF NextIs
  <2>b. part = "payload" /\ ~torn /\ stream # <<>> /\ stream[1].part = "payload"
       => stream[1].slice = b + 1
    BY <1>5 DEF NextIs
  <2>c. ASSUME part = "header" /\ ~torn /\ conn' # "reset" =>
                 IF stream' = <<>> THEN nextSlice' = b + 1
                 ELSE stream'[1].part = "header" /\ stream'[1].slice \in (b + 1)..(b + 1 + MaxLost),
               part = "payload" /\ ~torn /\ stream' # <<>> /\ stream'[1].part = "payload"
                 => stream'[1].slice = b + 1
        PROVE  NextIs(b)'
    BY <1>1, <1>3, <2>a, <2>c, Zenon DEF NextIs
  <2>1. CASE BoardConnects
    <3>1. conn # "reset" /\ stream = <<>> /\ stream' = <<>> /\ nextSlice' = nextSlice
      BY <2>1 DEF BoardConnects, StreamRight
    <3>2. part = "header" /\ ~torn => nextSlice' = b + 1
      BY <2>a, <3>1, Zenon
    <3>. QED BY <2>c, <3>1, <3>2, Zenon
  <2>2. CASE BoardSends
    <3>1. PICK lost \in 0..MaxLost : /\ SendSlice(nextSlice + lost)
                                     /\ conn # "reset" /\ conn' = conn
      BY <2>2 DEF BoardSends
    <3>2. PICK n : n = nextSlice + lost
      OBVIOUS
    <3>3. n \in Nat /\ n \in nextSlice..(nextSlice + MaxLost)
      BY <1>4, <3>2
    <3>4. Len(stream') # 0 /\ stream' # <<>> /\ (stream # <<>> => stream'[1] = stream[1])
          /\ (stream = <<>> => stream'[1].part = "header" /\ stream'[1].slice = n)
      <4>1. PICK s, t : s = stream /\ t = stream'
        OBVIOUS
      <4>2. t = s \o <<[part |-> "header", slice |-> n], [part |-> "payload", slice |-> n]>>
        BY <3>1, <3>2, <4>1 DEF SendSlice
      <4>3. Len(t) # 0 /\ t # <<>> /\ (s # <<>> => t[1] = s[1])
            /\ (s = <<>> => t[1].part = "header" /\ t[1].slice = n)
        <5>1. s \in Seq(Item) /\ n \in Nat
          BY <1>4, <3>3, <4>1
        <5>2. /\ t \in Seq(Item) /\ Len(t) = Len(s) + 2 /\ \A i \in 1..Len(s) : t[i] = s[i]
              /\ t[Len(s) + 1] = [part |-> "header", slice |-> n]
          BY <4>2, <5>1, SliceSent
        <5>3. Len(s) \in Nat /\ (s = <<>> => Len(s) = 0) /\ (s # <<>> => 1 \in 1..Len(s))
          BY <5>1
        <5>4. s = <<>> => t[1] = [part |-> "header", slice |-> n]
          BY <5>2, <5>3
        <5>5. s # <<>> => t[1] = s[1]
          BY <5>2, <5>3
        <5>6. Len(t) # 0 /\ t # <<>>
          BY <5>2, <5>3
        <5>. QED BY <5>4, <5>5, <5>6
      <4>. QED BY <4>1, <4>3
    <3>5. part = "header" /\ ~torn =>
            stream'[1].part = "header" /\ stream'[1].slice \in (b + 1)..(b + 1 + MaxLost)
      <4>1. CASE stream = <<>>
        <5>1. part = "header" /\ ~torn => nextSlice = b + 1
          BY <2>a, <3>1, <4>1, Zenon
        <5>2. nextSlice = b + 1 => n \in (b + 1)..(b + 1 + MaxLost)
          BY <3>3
        <5>. QED BY <3>4, <4>1, <5>1, <5>2, Zenon
      <4>2. CASE stream # <<>>
        BY <2>a, <3>1, <3>4, <4>2, Zenon
      <4>. QED BY <4>1, <4>2
    <3>6. part = "payload" /\ ~torn /\ stream'[1].part = "payload" => stream'[1].slice = b + 1
      <4>1. CASE stream = <<>>
        BY <3>4, <4>1
      <4>2. CASE stream # <<>>
        BY <2>b, <3>4, <4>2, Zenon
      <4>. QED BY <4>1, <4>2
    <3>. QED BY <2>c, <3>4, <3>5, <3>6, Zenon
  <2>3. CASE BoardCloses
    <3>1. conn = "open" /\ nextSlice' = nextSlice
      BY <2>3 DEF BoardCloses
    <3>2. CASE conn' = "reset" /\ stream' = <<>>
      BY <2>c, <3>2, Zenon
    <3>3. CASE stream' = stream
      <4>1. conn # "reset"
        BY <3>1
      <4>. QED BY <2>a, <2>b, <2>c, <3>1, <3>3, <4>1, Zenon
    <3>4. CASE stream # <<>> /\ stream' = Front(stream)
      <4>1. PICK s, t : s = stream /\ t = Front(s)
        OBVIOUS
      <4>2. s \in Seq(Item) /\ s # <<>> /\ s[Len(s)].part = "payload"
        BY <1>4, <3>1, <3>4, <4>1 DEF StreamRight
      <4>3. /\ Len(t) = Len(s) - 1 /\ Len(s) \in Nat \ {0} /\ t \in Seq(Item)
            /\ \A i \in 1..(Len(s) - 1) : t[i] = s[i]
        BY <4>1, <4>2, TailOfItems, FrontOfItems
      <4>4. t = <<>> => s[1].part = "payload"
        <5>1. t = <<>> => Len(t) = 0
          OBVIOUS
        <5>2. Len(t) = 0 => Len(s) = 1
          BY <4>3
        <5>. QED BY <4>2, <5>1, <5>2
      <4>5. t # <<>> => t[1] = s[1]
        BY <4>3
      <4>6. stream' = t
        BY <3>4, <4>1
      <4>7. part = "header" /\ ~torn => /\ stream[1].part = "header"
                                        /\ stream[1].slice \in (b + 1)..(b + 1 + MaxLost)
        BY <2>a, <3>1, <3>4
      <4>8. part = "header" /\ ~torn =>
              /\ stream' # <<>> /\ stream'[1].part = "header"
              /\ stream'[1].slice \in (b + 1)..(b + 1 + MaxLost)
        <5>1. t = <<>> => stream[1].part # "header"
          BY <4>1, <4>4
        <5>. QED BY <4>1, <4>5, <4>6, <4>7, <5>1, Zenon
      <4>9. part = "payload" /\ ~torn /\ stream' # <<>> /\ stream'[1].part = "payload"
              => stream'[1].slice = b + 1
        BY <2>b, <3>4, <4>1, <4>5, <4>6, Zenon
      <4>. QED BY <2>c, <4>8, <4>9, Zenon
    <3>. QED BY <2>3, <3>2, <3>3, <3>4 DEF BoardCloses
  <2>. QED BY <2>1, <2>2, <2>3 DEF BoardSteps
<1>. QED BY <1>1, <1>2, <1>5, SlicingKept, Zenon

\* A microslice's words, by the tick before its first one.
LEMMA WordsAre ==
  ASSUME NEW n \in Nat, NEW e, e = n * SliceTicks, NEW d, d = Boundary(n)
  PROVE  /\ e \in Nat /\ FirstWord(n) = e + 1 /\ (n + 1) * SliceTicks = e + SliceTicks
         /\ UpTo(n) = NewUpTo(e, d) /\ After(n) = NewAfter(e, d) /\ InOverlap(n) = NewOverlap(e, d)
<1>1. SliceTicks \in Nat
  BY TicksAssumption
<1>2. e \in Nat
  BY <1>1
<1>3. (n + 1) * SliceTicks = e + SliceTicks
  <2>1. (n + 1) * SliceTicks = n * SliceTicks + 1 * SliceTicks /\ 1 * SliceTicks = SliceTicks
    BY <1>1, Products
  <2>. QED BY <2>1
<1>4. WordsOf(n) = NewWords(e)
  BY <1>3 DEF WordsOf, NewWords
<1>5. FirstWord(n) = e + 1
  BY DEF FirstWord
<1>6. UpTo(n) = NewUpTo(e, d) /\ After(n) = NewAfter(e, d) /\ InOverlap(n) = NewOverlap(e, d)
  BY <1>4, Zenon DEF UpTo, After, InOverlap, NewUpTo, NewAfter, NewOverlap
<1>. QED BY <1>2, <1>3, <1>5, <1>6

LEMMA PayloadNext ==
  ASSUME PennTypes, StreamRight, ReceivePayload, NEW n, n = Head(stream).slice
  PROVE  /\ n \in Nat /\ NextIs(n)' /\ stream # <<>> /\ stream[1].part = "payload"
         /\ stream[1].slice = n /\ part = "payload" /\ ~torn
<1>1. /\ conn \in {"open", "closed"} /\ stream # <<>> /\ Head(stream).part = "payload"
      /\ part = "payload" /\ stream' = Tail(stream)
  BY DEF ReceivePayload, Receives
<1>a. ~torn
  BY Zenon DEF ReceivePayload, Receives
<1>2. part' = "header" /\ lastId' = lastId /\ conn' = conn /\ nextSlice' = nextSlice
  BY Zenon DEF ReceivePayload, IoRest
<1>3. stream \in Seq(Item)
  BY DEF PennTypes, Item
<1>4. Head(stream) = stream[1] /\ stream[1] \in Item /\ Len(stream) \in Nat \ {0}
      /\ Len(Tail(stream)) = Len(stream) - 1
  BY <1>1, <1>3, TailOfItems
<1>5. n \in Nat /\ stream[1].part = "payload" /\ stream[1].slice = n
  BY <1>1, <1>4 DEF Item
<1>6. lastId = n % IdModulus
  BY <1>1, <1>a, <1>5, Zenon DEF StreamRight
<1>7. PICK t : t = Tail(stream)
  OBVIOUS
<1>8. t # <<>> => t[1].part = "header" /\ t[1].slice \in (n + 1)..(n + 1 + MaxLost)
  <2>1. t # <<>> => Follows(stream[1], t[1])
    BY <1>1, <1>7, StreamTaken
  <2>. QED BY <1>5, <2>1 DEF Follows
<1>9. t = <<>> => nextSlice = n + 1
  <2>1. t = <<>> => Len(stream) = 1
    BY <1>4, <1>7
  <2>2. nextSlice = stream[Len(stream)].slice + 1
    BY <1>1 DEF StreamRight
  <2>. QED BY <1>5, <2>1, <2>2
<1>10. NextIs(n)'
  <2>1. part' # "payload" /\ stream' = t
    BY <1>1, <1>2, <1>7
  <2>. QED BY <1>2, <1>6, <1>8, <1>9, <2>1, Zenon DEF NextIs
<1>. QED BY <1>1, <1>a, <1>5, <1>10

LEMMA SlicingPayload ==
  ASSUME PennTypes, PennTypes', StreamRight, SliceSoFar, mstate = "MillisliceIncomplete",
         filled \in Seq(Millislices), filled' \in Seq(Millislices), ReceivePayload
  PROVE  SliceSoFar'
<1>1. PICK n : n = Head(stream).slice
  OBVIOUS
<1>2. /\ n \in Nat /\ NextIs(n)' /\ stream # <<>> /\ stream[1].part = "payload"
      /\ stream[1].slice = n /\ part = "payload" /\ ~torn
  BY <1>1, PayloadNext
<1>3. PICK e, d : e = n * SliceTicks /\ d = Boundary(n)
  OBVIOUS
<1>4. /\ e \in Nat /\ FirstWord(n) = e + 1 /\ (n + 1) * SliceTicks = e + SliceTicks
      /\ UpTo(n) = NewUpTo(e, d) /\ After(n) = NewAfter(e, d) /\ InOverlap(n) = NewOverlap(e, d)
  BY <1>2, <1>3, WordsAre
<1>5. /\ runStart' = StartTime(n) /\ words' = words \union NewUpTo(e, d)
      /\ remaining' = NewAfter(e, d) /\ overlap' = overlap \union NewOverlap(e, d)
      /\ Complete(n) /\ taken' = taken
  BY <1>1, <1>4 DEF ReceivePayload, IoRest, counts
<1>6. MillisliceSize \in Nat /\ Overlap \in Nat /\ SliceTicks \in Nat \ {0} /\ SliceTicks <= MillisliceSize
      /\ taken \in Nat /\ runStart \in Nat /\ boundary \in Nat
  BY TicksAssumption DEF PennTypes
<1>7. NewAfter(e, d) = {} => /\ mstate' = "MillisliceIncomplete" /\ boundary' = d /\ filled' = filled
  BY <1>3, <1>4, <1>5, Zenon DEF Complete
<1>8. CASE runStart = 0
  <2>1. NothingReceived
    BY <1>8, Zenon DEF SliceSoFar
  <2>2. words = {} /\ overlap = {} /\ taken = 0 /\ filled = <<>>
    BY <2>1 DEF NothingReceived
  <2>3. d = e + MillisliceSize
    BY <1>3, <1>4, <1>6, <1>8 DEF Boundary
  <2>4. /\ CutOf(e + 1, e + SliceTicks, d, "MillisliceIncomplete", NewUpTo(e, d), {}, NewOverlap(e, d))
        /\ NewAfter(e, d) = {}
    BY <1>4, <1>6, <2>3, CutFirst
  <2>5. runStart' = e + 1 /\ runStart' # 0 /\ runStart' = FirstWord(n)
    BY <1>4, <1>5, <1>8 DEF StartTime
  <2>6. CutOf(runStart', e + SliceTicks, boundary', mstate', words', remaining', overlap')
    BY <1>5, <1>7, <2>2, <2>4, <2>5
  <2>7. boundary' = EndOf(runStart', taken' + Len(filled') + 1)
    <3>1. taken' + Len(filled') + 1 = 1
      BY <1>5, <1>7, <2>2, <2>4
    <3>2. boundary' = runStart' - 1 + MillisliceSize
      BY <1>4, <1>6, <1>7, <2>3, <2>4, <2>5
    <3>3. 1 * MillisliceSize = MillisliceSize
      BY <1>6
    <3>. QED BY <3>1, <3>2, <3>3 DEF EndOf
  <2>8. FilledOf(runStart', filled', taken')
    <3>1. Len(filled') = 0
      BY <1>7, <2>2, <2>4
    <3>. QED BY <3>1 DEF FilledOf
  <2>9. CutRight(runStart, (n + 1) * SliceTicks)'
    BY <1>4, <2>6, <2>7, <2>8 DEF CutRight
  <2>10. Received(n, n)'
    <3>1. n <= n
      BY <1>2
    <3>. QED BY <1>2, <2>5, <2>9, <3>1, Zenon DEF Received, FirstWord
  <2>. QED BY <1>2, <2>5, <2>10, Zenon DEF SliceSoFar
<1>9. CASE runStart # 0
  <2>1. PICK a \in Nat, b \in Nat : Received(a, b)
    BY <1>9, Zenon DEF SliceSoFar
  <2>2. a <= b /\ runStart = FirstWord(a) /\ NextIs(b) /\ CutRight(runStart, (b + 1) * SliceTicks)
    BY <2>1, Zenon DEF Received
  <2>3. n = b + 1 /\ a <= n
    <3>1. stream[1].slice = b + 1
      BY <1>2, <2>2, Zenon DEF NextIs
    <3>. QED BY <1>2, <2>2, <3>1
  <2>4. PICK s, w, r, o : s = runStart /\ w = words /\ r = remaining /\ o = overlap
    OBVIOUS
  <2>5. /\ d = EndOf(s, taken + Len(filled) + 1) /\ d \in Int /\ s \in Int
        /\ FilledOf(s, filled, taken) /\ CutOf(s, e, d, "MillisliceIncomplete", w, r, o)
    <3>1. d = boundary
      BY <1>3, <1>9 DEF Boundary
    <3>2. (b + 1) * SliceTicks = e
      BY <1>3, <2>3
    <3>3. CutRight(s, e)
      BY <2>2, <2>4, <3>2
    <3>. QED BY <1>6, <2>4, <3>1, <3>3 DEF CutRight
  <2>6. runStart' = s /\ runStart' = FirstWord(a)
    BY <1>5, <1>9, <2>2, <2>4 DEF StartTime
  <2>7. CutRight(runStart, e + SliceTicks)'
    <3>1. CASE e + SliceTicks <= d
      <4>1. NewAfter(e, d) = {}
        BY <1>4, <1>6, <2>5, <3>1 DEF NewAfter, NewWords
      <4>2. CutOf(s, e + SliceTicks, d, "MillisliceIncomplete",
                  w \union NewUpTo(e, d), {}, o \union NewOverlap(e, d))
        BY <1>4, <2>5, <3>1, CutGoesOn
      <4>3. CutOf(s, e + SliceTicks, boundary', mstate', words', remaining', overlap')
        BY <1>5, <1>7, <2>4, <4>1, <4>2
      <4>. QED BY <1>5, <1>7, <2>5, <2>6, <4>1, <4>3 DEF CutRight
    <3>2. CASE ~(e + SliceTicks <= d)
      <4>1. NewAfter(e, d) # {}
        <5>1. e + SliceTicks \in NewAfter(e, d)
          BY <1>4, <1>6, <2>5, <3>2 DEF NewAfter, NewWords
        <5>. QED BY <5>1
      <4>2. Push(n)
        BY <1>4, <1>5, <4>1, Zenon DEF Complete
      <4>3. PICK y : y = [buffer |-> current, words |-> words \union UpTo(n), end |-> Boundary(n),
                          inStep |-> TRUE]
        OBVIOUS
      <4>4. /\ filled' = Append(filled, y) /\ mstate' = "MillisliceEmpty"
            /\ boundary' = d + MillisliceSize
            /\ y.end = d /\ y.words = w \union NewUpTo(e, d)
        BY <1>3, <1>4, <2>4, <4>2, <4>3 DEF Push
      <4>q. PICK q : q = words'
        OBVIOUS
      <4>e. e \in Int
        BY <1>4
      <4>5. /\ CutOf(s, e + SliceTicks, d + MillisliceSize, "MillisliceEmpty",
                     q, NewAfter(e, d), o \union NewOverlap(e, d))
            /\ w \union NewUpTo(e, d) = WholeWindow(s, d)
        <5>1. /\ s \in Int /\ e \in Int /\ d \in Int
              /\ CutOf(s, e, d, "MillisliceIncomplete", w, r, o) /\ ~(e + SliceTicks <= d)
          BY <2>5, <3>2, <4>e
        <5>. QED BY <5>1, CutEnds
      <4>6. CutOf(s, e + SliceTicks, boundary', mstate', words', remaining', overlap')
        BY <1>5, <2>4, <4>4, <4>5, <4>q
      <4>7. y \in Millislices
        <5>1. PICK f, g : f = filled /\ g = filled'
          OBVIOUS
        <5>2. f \in Seq(Millislices) /\ g \in Seq(Millislices) /\ g = Append(f, y)
          BY <4>4, <5>1
        <5>3. Len(g) = Len(f) + 1 /\ g[Len(f) + 1] = y /\ Len(f) \in Nat
          BY <5>2
        <5>4. Len(f) + 1 \in 1..Len(g)
          BY <5>3
        <5>5. g[Len(f) + 1] \in Millislices
          BY <5>2, <5>4
        <5>. QED BY <5>3, <5>5
      <4>8. /\ FilledOf(s, filled', taken)
            /\ d + MillisliceSize = EndOf(s, taken + Len(filled') + 1)
        <5>1. PICK f, k : f = filled /\ k = taken
          OBVIOUS
        <5>2. f \in Seq(Millislices) /\ k \in Int /\ FilledOf(s, f, k)
              /\ d = EndOf(s, k + Len(f) + 1)
          BY <1>6, <2>5, <5>1
        <5>3. y.words = WholeWindow(s, d)
          BY <4>4, <4>5
        <5>4. /\ FilledOf(s, Append(f, y), k)
              /\ d + MillisliceSize = EndOf(s, k + Len(Append(f, y)) + 1)
          <6>1. /\ s \in Int /\ f \in Seq(Millislices) /\ k \in Int /\ y \in Millislices /\ d \in Int
                /\ FilledOf(s, f, k) /\ y.end = d /\ y.words = WholeWindow(s, d)
            BY <2>5, <4>4, <4>7, <5>2, <5>3
          <6>. QED BY <5>2, <6>1, FilledGrows, SMTT(30)
        <5>. QED BY <4>4, <5>1, <5>4
      <4>. QED BY <1>5, <2>6, <4>4, <4>6, <4>8 DEF CutRight
    <3>. QED BY <3>1, <3>2
  <2>8. CutRight(runStart, (n + 1) * SliceTicks)'
    BY <1>4, <2>7
  <2>9. Received(a, n)'
    BY <1>2, <2>3, <2>6, <2>8, Zenon DEF Received, FirstWord
  <2>. QED BY <1>2, <2>9, <2>6, <1>9, <2>4, Zenon DEF SliceSoFar
<1>. QED BY <1>8, <1>9

LEMMA SlicingHeader ==
  ASSUME PennTypes, StreamRight, SliceSoFar, mstate = "MillisliceIncomplete", ReceiveHeader, PennInStep'
  PROVE  SliceSoFar'
<1>1. /\ conn \in {"open", "closed"} /\ stream # <<>> /\ Head(stream).part = "header"
      /\ part = "header" /\ stream' = Tail(stream) /\ stream \in Seq(Item)
  BY DEF ReceiveHeader, Receives, PennTypes, Item
<1>2. ~torn /\ part' = "payload"
  BY Zenon DEF ReceiveHeader, Receives
<1>3. /\ words' = words /\ remaining' = remaining /\ overlap' = overlap /\ runStart' = runStart
      /\ boundary' = boundary /\ mstate' = mstate /\ filled' = filled /\ taken' = taken
  BY Zenon DEF ReceiveHeader, IoRest, counts
<1>4. PICK n : n = Head(stream).slice
  OBVIOUS
<1>5. /\ Head(stream) = stream[1] /\ stream[1].part = "header" /\ stream[1].slice = n /\ n \in Nat
  BY <1>1, <1>4, TailOfItems DEF Item
<1>6. CheckId(n % IdModulus)
  BY <1>4, Zenon DEF ReceiveHeader
<1>7. lastId # NoId => n % IdModulus = (lastId + 1) % IdModulus
  <2>1. /\ exception' = (exception \/ Gap(n % IdModulus)) /\ misled' = (misled \/ Again(n % IdModulus))
        /\ ~exception' /\ ~misled'
    BY <1>6, Zenon DEF CheckId, PennInStep
  <2>2. ~Gap(n % IdModulus) /\ ~Again(n % IdModulus)
    BY <2>1, Zenon
  <2>. QED BY <2>2, Zenon DEF Gap
<1>8. part' # "header"
  BY <1>2
<1>9. CASE runStart = 0
  <2>1. NothingReceived
    BY <1>9, Zenon DEF SliceSoFar
  <2>2. NothingReceived'
    BY <1>3, <1>8, <2>1, Zenon DEF NothingReceived
  <2>. QED BY <1>3, <1>9, <2>2, Zenon DEF SliceSoFar
<1>10. CASE runStart # 0
  <2>1. PICK a \in Nat, b \in Nat : Received(a, b)
    BY <1>10, Zenon DEF SliceSoFar
  <2>2. a <= b /\ runStart = FirstWord(a) /\ NextIs(b) /\ CutRight(runStart, (b + 1) * SliceTicks)
    BY <2>1, Zenon DEF Received
  <2>3. lastId = b % IdModulus
    BY <1>1, <2>2, Zenon DEF NextIs
  <2>4. n \in (b + 1)..(b + 1 + MaxLost)
    <3>1. conn # "reset"
      BY <1>1
    <3>2. stream[1].slice \in (b + 1)..(b + 1 + MaxLost)
      BY <1>1, <1>2, <2>2, <3>1, Zenon DEF NextIs
    <3>. QED BY <1>5, <3>2
  <2>5. n = b + 1
    <3>1. b % IdModulus # NoId
      <4>1. IdModulus \in Nat \ {0}
        BY TicksAssumption
      <4>2. b % IdModulus \in 0..IdModulus - 1
        BY <4>1, Division
      <4>. QED BY <4>1, <4>2 DEF NoId
    <3>2. n % IdModulus = ((b % IdModulus) + 1) % IdModulus
      BY <1>7, <2>3, <3>1, Zenon
    <3>. QED BY <1>5, <2>4, <3>2, NoneLost
  <2>6. stream' # <<>> /\ stream'[1].part = "payload" => stream'[1].slice = b + 1
    <3>1. PICK t : t = Tail(stream)
      OBVIOUS
    <3>2. t # <<>> => Follows(stream[1], t[1])
      BY <1>1, <3>1, StreamTaken
    <3>. QED BY <1>1, <1>5, <2>5, <3>1, <3>2 DEF Follows
  <2>7. NextIs(b)'
    BY <1>8, <2>6, Zenon DEF NextIs
  <2>8. CutRight(runStart, (b + 1) * SliceTicks)'
    BY <1>3, <2>2 DEF CutRight
  <2>9. Received(a, b)'
    BY <1>3, <2>2, <2>7, <2>8, Zenon DEF Received, FirstWord
  <2>. QED BY <1>3, <1>10, <2>9, Zenon DEF SliceSoFar
<1>. QED BY <1>9, <1>10

LEMMA SlicingBegins ==
  ASSUME PennTypes, SliceSoFar, mstate = "MillisliceEmpty", BeginMillislice, ~suspend
  PROVE  SliceSoFar'
<1>1. /\ words' = overlap \union remaining /\ overlap' = {} /\ remaining' = {}
      /\ mstate' = "MillisliceIncomplete"
      /\ part' = part /\ runStart' = runStart /\ boundary' = boundary /\ lastId' = lastId
      /\ filled' = filled /\ taken' = taken /\ stream' = stream /\ nextSlice' = nextSlice
      /\ conn' = conn /\ torn' = torn
  BY Zenon DEF BeginMillislice, Prepend, IoRest, counts, reading
<1>2. CASE runStart = 0
  <2>1. NothingReceived
    BY <1>2, Zenon DEF SliceSoFar
  <2>2. overlap \union remaining = {}
    BY <2>1 DEF NothingReceived
  <2>3. NothingReceived'
    BY <1>1, <2>1, <2>2, Zenon DEF NothingReceived
  <2>. QED BY <1>1, <1>2, <2>3, Zenon DEF SliceSoFar
<1>3. CASE runStart # 0
  <2>1. PICK a \in Nat, b \in Nat : Received(a, b)
    BY <1>3, Zenon DEF SliceSoFar
  <2>2. a <= b /\ runStart = FirstWord(a) /\ NextIs(b) /\ CutRight(runStart, (b + 1) * SliceTicks)
    BY <2>1, Zenon DEF Received
  <2>3. NextIs(b)'
    <3>1. UNCHANGED <<part, lastId, stream, nextSlice>> /\ (conn = "reset" => conn' = "reset")
      BY <1>1
    <3>2. ~torn' => ~torn
      BY <1>1, Zenon
    <3>. QED BY <2>2, <3>1, <3>2, NextKept
  <2>4. PICK e, d, s, w, r, o : /\ e = (b + 1) * SliceTicks /\ d = boundary /\ s = runStart
                                /\ w = words /\ r = remaining /\ o = overlap
    OBVIOUS
  <2>5. CutOf(s, e, d, "MillisliceEmpty", w, r, o) /\ s \in Int /\ e \in Int /\ d \in Int
    <3>1. SliceTicks \in Nat
      BY TicksAssumption
    <3>2. e \in Int
      BY <2>4, <3>1
    <3>. QED BY <2>2, <2>4, <3>2 DEF CutRight, PennTypes
  <2>6. CutOf(s, e, d, "MillisliceIncomplete", o \union r, {}, {})
    BY <2>5, CutBegins
  <2>7. CutRight(runStart, e)'
    <3>1. boundary = EndOf(runStart, taken + Len(filled) + 1) /\ FilledOf(runStart, filled, taken)
      BY <2>2 DEF CutRight
    <3>2. boundary' = EndOf(runStart', taken' + Len(filled') + 1) /\ FilledOf(runStart', filled', taken')
      BY <1>1, <3>1
    <3>3. CutOf(runStart', e, boundary', mstate', words', remaining', overlap')
      BY <1>1, <2>4, <2>6
    <3>. QED BY <3>2, <3>3 DEF CutRight
  <2>8. Received(a, b)'
    BY <1>1, <2>2, <2>3, <2>4, <2>7, Zenon DEF Received, FirstWord
  <2>. QED BY <1>1, <1>3, <2>8, Zenon DEF SliceSoFar
<1>. QED BY <1>2, <1>3

LEMMA SlicingIo ==
  ASSUME PennTypes, PennTypes', StreamRight, SuspendRight, LendingRight, LendingRight', HandRight,
         SlicingRight, IoSteps
  PROVE  SlicingRight'
<1>0. clean' = clean /\ runs' = runs
  BY Zenon DEF IoSteps, Accept, AcceptSuspend, Mark, Read, Resume, Pop, PopTimeout, BeginMillislice,
         ReceiveHeader, ReceivePayload, Dies, ReceiveSome, ReadTimeout, ReceiveGarbage, ReadError,
         IoRest, counts
<1>1. CASE ~clean
  BY <1>0, <1>1, Zenon DEF SlicingRight, InRun
<1>2. CASE clean /\ Dies /\ current = NoBuffer
  <2>1. io = "reading" /\ current = NoBuffer /\ io \notin OutOfTheWay
    BY <1>2 DEF Dies, Receives, OutOfStep, OutOfTheWay
  <2>2. InRun
    BY <1>2, <2>1, BusyInRun
  <2>3. io \in {"popped", "reading"}
    BY <2>1
  <2>. QED BY <2>1, <2>2, <2>3, Zenon DEF HandRight
<1>3. CASE clean /\ ~(Dies /\ current = NoBuffer)
  <2>a. InRun' => InRun
    <3>1. CASE Dies
      <4>1. io = "reading"
        BY <3>1, Zenon DEF Dies, Receives, OutOfStep
      <4>2. io \notin OutOfTheWay
        BY <4>1 DEF OutOfTheWay
      <4>. QED BY <1>3, <4>2, BusyInRun
    <3>2. CASE ~Dies
      <4>1. gpc' = gpc
        BY <3>2, Zenon DEF IoSteps, Accept, AcceptSuspend, Mark, Read, Resume, Pop, PopTimeout,
             BeginMillislice, ReceiveHeader, ReceivePayload, ReceiveSome, ReadTimeout, ReceiveGarbage,
             ReadError, IoRest
      <4>. QED BY <1>0, <4>1, Zenon DEF InRun
    <3>. QED BY <3>1, <3>2
  <2>b. PennInStep' => PennInStep
    <3>1. CASE ReceiveGarbage
      <4>1. torn' = TRUE
        BY <3>1, Zenon DEF ReceiveGarbage
      <4>. QED BY <4>1, Zenon DEF PennInStep
    <3>2. CASE ReceiveHeader
      <4>1. /\ exception' = (exception \/ Gap(Head(stream).slice % IdModulus)) /\ torn' = torn
            /\ misled' = (misled \/ Again(Head(stream).slice % IdModulus))
        BY <3>2, Zenon DEF ReceiveHeader, CheckId
      <4>. QED BY <4>1, Zenon DEF PennInStep
    <3>3. CASE ~ReceiveGarbage /\ ~ReceiveHeader
      <4>1. ~exception' => ~exception
        BY <3>3, Zenon DEF IoSteps, Accept, AcceptSuspend, Mark, Read, Resume, Pop, PopTimeout,
             BeginMillislice, ReceivePayload, Dies, ReceiveSome, ReadTimeout, ReadError, GiveUp
      <4>2. misled' = misled
        BY <3>3, Zenon DEF IoSteps, Accept, AcceptSuspend, Mark, Read, Resume, Pop, PopTimeout,
             BeginMillislice, ReceivePayload, Dies, ReceiveSome, ReadTimeout, ReadError, slicing
      <4>3. ~torn' => ~torn
        BY <3>3, Zenon DEF IoSteps, Accept, AcceptSuspend, Mark, Read, Resume, Pop, PopTimeout,
             BeginMillislice, ReceivePayload, Dies, ReceiveSome, ReadTimeout, ReadError, reading
      <4>. QED BY <4>1, <4>2, <4>3, Zenon DEF PennInStep
    <3>. QED BY <3>1, <3>2, <3>3
  <2>c. InRun /\ PennInStep => SliceSoFar
    BY Zenon DEF SlicingRight
  <2>1. CASE ReceiveHeader \/ ReceivePayload
    <3>1. io = "reading"
      BY <2>1, Zenon DEF ReceiveHeader, ReceivePayload, Receives
    <3>2. io \notin OutOfTheWay
      BY <3>1 DEF OutOfTheWay
    <3>3. InRun
      BY <1>3, <3>2, BusyInRun
    <3>4. mstate = "MillisliceIncomplete"
      BY <3>1, <3>3, Zenon DEF HandRight
    <3>5. filled \in Seq(Millislices) /\ filled' \in Seq(Millislices)
      <4>1. LendingOf(empty, filled, Hand, mapped)
        BY <1>3, Zenon DEF LendingRight
      <4>2. LendingOf(empty, filled, Hand, mapped)'
        BY <1>0, <1>3, Zenon DEF LendingRight
      <4>. QED BY <4>1, <4>2 DEF LendingOf, Millislices
    <3>6. CASE ReceiveHeader
      <4>1. ASSUME PennInStep' PROVE SliceSoFar'
        <5>1. SliceSoFar
          BY <2>b, <2>c, <3>3, <4>1, Zenon
        <5>. QED BY <3>4, <3>6, <4>1, <5>1, SlicingHeader
      <4>. QED BY <4>1, Zenon DEF SlicingRight
    <3>7. CASE ReceivePayload
      <4>1. ASSUME PennInStep' PROVE SliceSoFar'
        <5>1. SliceSoFar
          BY <2>b, <2>c, <3>3, <4>1, Zenon
        <5>. QED BY <3>4, <3>5, <3>7, <5>1, SlicingPayload
      <4>. QED BY <4>1, Zenon DEF SlicingRight
    <3>. QED BY <2>1, <3>6, <3>7
  <2>2. CASE BeginMillislice /\ ~suspend
    <3>1. io = "popped"
      BY <2>2, Zenon DEF BeginMillislice
    <3>2. io \notin OutOfTheWay
      BY <3>1 DEF OutOfTheWay
    <3>3. InRun
      BY <1>3, <3>2, BusyInRun
    <3>4. mstate = "MillisliceEmpty"
      BY <3>1, <3>3, Zenon DEF HandRight
    <3>5. ASSUME PennInStep' PROVE SliceSoFar'
      <4>1. SliceSoFar
        BY <2>b, <2>c, <3>3, <3>5, Zenon
      <4>. QED BY <2>2, <3>4, <4>1, SlicingBegins
    <3>. QED BY <3>5, Zenon DEF SlicingRight
  <2>3. ASSUME slicing' = slicing, UNCHANGED <<mstate, filled, taken>>,
               \A b \in Nat : NextIs(b) => NextIs(b)'
        PROVE  SlicingRight'
    BY <2>3, <2>a, <2>b, SlicingKept, Zenon
  <2>4. CASE ReceiveGarbage
    <3>1. torn' = TRUE
      BY <2>4, Zenon DEF ReceiveGarbage
    <3>. QED BY <3>1, Zenon DEF SlicingRight, PennInStep
  <2>5. CASE \/ Accept \/ AcceptSuspend \/ Mark \/ Read \/ Resume \/ Pop \/ PopTimeout
             \/ (BeginMillislice /\ suspend) \/ ReceiveSome \/ ReadTimeout \/ ReadError
             \/ (Dies /\ ~Receives("payload"))
    <3>1. slicing' = slicing
      BY <2>5, Zenon DEF Accept, AcceptSuspend, Mark, Read, Resume, Pop, PopTimeout, BeginMillislice,
           ReceiveSome, ReadTimeout, ReadError, Dies
    <3>2. mstate' = mstate /\ filled' = filled /\ taken' = taken /\ stream' = stream
          /\ nextSlice' = nextSlice
      BY <2>5, Zenon DEF Accept, AcceptSuspend, Mark, Read, Resume, Pop, PopTimeout, BeginMillislice,
           ReceiveSome, ReadTimeout, ReadError, Dies, IoRest, counts
    <3>3. part' = part /\ lastId' = lastId
      BY <3>1, Zenon DEF slicing
    <3>4. ~torn' => ~torn
      BY <2>5, Zenon DEF Accept, AcceptSuspend, Mark, Read, Resume, Pop, PopTimeout, BeginMillislice,
           ReceiveSome, ReadTimeout, ReadError, Dies, reading
    <3>5. conn = "reset" => conn' = "reset"
      <4>1. CASE ReadError
        <5>1. conn' = conn \/ conn = "closed"
          BY <4>1, Zenon DEF ReadError
        <5>. QED BY <5>1
      <4>2. CASE ~ReadError
        <5>1. conn' = conn \/ conn = "pending"
          BY <2>5, <4>2, Zenon DEF Accept, AcceptSuspend, Mark, Read, Resume, Pop, PopTimeout,
               BeginMillislice, ReceiveSome, ReadTimeout, Dies
        <5>. QED BY <5>1
      <4>. QED BY <4>1, <4>2
    <3>6. UNCHANGED <<part, lastId, stream, nextSlice>> /\ UNCHANGED <<mstate, filled, taken>>
      BY <3>2, <3>3
    <3>7. ASSUME NEW b \in Nat, NextIs(b) PROVE NextIs(b)'
      BY <3>4, <3>5, <3>6, <3>7, NextKept
    <3>. QED BY <2>3, <3>1, <3>6, <3>7, Zenon
  <2>6. Dies => ~Receives("payload")
    BY <1>3, Zenon DEF Dies, OutOfStep, Receives
  <2>. QED BY <1>3, <2>1, <2>2, <2>4, <2>5, <2>6, Zenon DEF IoSteps
<1>. QED BY <1>1, <1>2, <1>3, Zenon

LEMMA SlicingArtdaq ==
  ASSUME PennTypes, SuspendRight, FirstRight, LendingRight, SlicingRight, ArtdaqSteps
  PROVE  SlicingRight'
<1>0. lastId \in Nat \cup {NoId} /\ taken \in Nat /\ runs \in Nat /\ runStart \in Nat
  BY DEF PennTypes
<1>1. CASE StartRelease
  <2>1. /\ gpc = "stopped" /\ gpc' = "precommit" /\ filled' = <<>> /\ slicing' = slicing
        /\ taken' = taken /\ torn' = torn
    BY <1>1, Zenon DEF StartRelease, receiver, reading
  <2>2. PennInStep' = PennInStep
    <3>1. exception' = exception
      BY <1>1, Zenon DEF StartRelease, ArtdaqRest
    <3>2. misled' = misled
      BY <2>1, Zenon DEF slicing
    <3>. QED BY <2>1, <3>1, <3>2, Zenon DEF PennInStep
  <2>3. CASE runs = 0
    <3>1. clean /\ filled = <<>> /\ runStart = 0
      BY <2>3, Zenon DEF FirstRight
    <3>2. InRun
      BY <2>1, <3>1, Zenon DEF InRun
    <3>3. ASSUME PennInStep' PROVE SliceSoFar'
      <4>1. NothingReceived
        BY <2>2, <3>1, <3>2, <3>3, Zenon DEF SlicingRight, SliceSoFar
      <4>2. /\ words' = words /\ remaining' = remaining /\ overlap' = overlap /\ runStart' = runStart
            /\ lastId' = lastId /\ part' = part
        BY <2>1, Zenon DEF slicing
      <4>3. NothingReceived'
        BY <2>1, <4>1, <4>2, Zenon DEF NothingReceived
      <4>. QED BY <3>1, <4>2, <4>3, Zenon DEF SliceSoFar
    <3>. QED BY <3>3, Zenon DEF SlicingRight
  <2>4. CASE runs # 0
    <3>1. runs' # 1
      BY <1>0, <1>1, <2>4 DEF StartRelease
    <3>. QED BY <2>1, <3>1, Zenon DEF SlicingRight, InRun
  <2>. QED BY <2>3, <2>4
<1>2. CASE Reset
  <2>1. /\ gpc = "precommit" /\ words' = {} /\ remaining' = {} /\ overlap' = {} /\ taken' = 0
        /\ lastId' = NoId /\ filled' = filled /\ runStart' = 0
    BY <1>2, Zenon DEF Reset, ResetTimes, queues
  <2>2. CASE clean
    <3>1. filled = <<>>
      BY <2>1, <2>2, Zenon DEF LendingRight
    <3>2. NothingReceived'
      BY <2>1, <3>1, Zenon DEF NothingReceived
    <3>. QED BY <2>1, <3>2, Zenon DEF SliceSoFar, SlicingRight
  <2>3. CASE ~clean
    <3>1. ~clean'
      BY <1>2, <2>3, Zenon DEF Reset
    <3>. QED BY <3>1, Zenon DEF SlicingRight, InRun
  <2>. QED BY <2>2, <2>3
<1>3. CASE ~StartRelease /\ ~Reset
  <2>1. slicing' = slicing /\ mstate' = mstate /\ stream' = stream /\ torn' = torn
    BY <1>3, Zenon DEF ArtdaqSteps, Commit, ClearSuspend, ClearFlag, StartRun, TakeFilled, Throws,
         DataTimeout, StopRun, Stop, StopEnds, receiver, reading
  <2>2. clean' = clean /\ runs' = runs
    BY <1>3, Zenon DEF ArtdaqSteps, Commit, ClearSuspend, ClearFlag, StartRun, TakeFilled, Throws,
         DataTimeout, StopRun, Stop, StopEnds, history, marks, counts
  <2>3. nextSlice' = nextSlice /\ conn' = conn /\ exception' = exception
    BY <1>3, Zenon DEF ArtdaqSteps, Commit, ClearSuspend, ClearFlag, StartRun, TakeFilled, Throws,
         DataTimeout, StopRun, Stop, StopEnds, ArtdaqRest
  <2>4. part' = part /\ lastId' = lastId
    BY <2>1, Zenon DEF slicing
  <2>5. ASSUME NEW b \in Nat, NextIs(b) PROVE NextIs(b)'
    <3>1. UNCHANGED <<part, lastId, stream, nextSlice>> /\ (conn = "reset" => conn' = "reset")
      BY <2>1, <2>3, <2>4
    <3>2. ~torn' => ~torn
      BY <2>1, Zenon
    <3>. QED BY <2>5, <3>1, <3>2, NextKept
  <2>6. InRun' => InRun
    <3>1. gpc = "precommit" => gpc' = "precommit"
      BY <1>3 DEF ArtdaqSteps, Commit, ClearSuspend, ClearFlag, StartRun, TakeFilled, Throws,
           DataTimeout, StopRun, Stop, StopEnds
    <3>. QED BY <2>2, <3>1, Zenon DEF InRun
  <2>7. PennInStep' => PennInStep
    <3>1. misled' = misled
      BY <2>1, Zenon DEF slicing
    <3>. QED BY <2>1, <2>3, <3>1, Zenon DEF PennInStep
  <2>8. CASE UNCHANGED <<filled, taken>>
    <3>1. UNCHANGED <<mstate, filled, taken>>
      BY <2>1, <2>8
    <3>. QED BY <2>1, <2>5, <2>6, <2>7, <3>1, SlicingKept, Zenon
  <2>9. CASE TakeFilled /\ ~clean
    BY <2>2, <2>9, Zenon DEF SlicingRight, InRun
  <2>10. CASE TakeFilled /\ clean
    <3>1. gpc \in {"running", "stopping"} /\ filled # <<>> /\ filled' = Tail(filled)
      BY <2>10 DEF TakeFilled
    <3>2. LendingOf(empty, filled, Hand, mapped)
      BY <2>10, Zenon DEF LendingRight
    <3>3. Head(filled).buffer \in mapped
      <4>1. PICK e, f, h, m : e = empty /\ f = filled /\ h = Hand /\ m = mapped
        OBVIOUS
      <4>2. Head(f).buffer \in m
        BY <3>1, <3>2, <4>1, LendTaken
      <4>. QED BY <4>1, <4>2
    <3>4. taken' = taken + 1
      BY <2>10, <3>3, Zenon DEF TakeFilled
    <3>5. InRun
      <4>1. gpc # "precommit"
        BY <3>1
      <4>. QED BY <2>10, <4>1, Zenon DEF InRun
    <3>6. /\ words' = words /\ remaining' = remaining /\ overlap' = overlap /\ runStart' = runStart
          /\ boundary' = boundary
      BY <2>1, Zenon DEF slicing
    <3>7. ASSUME PennInStep' PROVE SliceSoFar'
      <4>1. SliceSoFar
        BY <2>7, <3>5, <3>7, Zenon DEF SlicingRight
      <4>2. runStart # 0
        BY <3>1, <4>1, Zenon DEF SliceSoFar, NothingReceived
      <4>3. PICK a \in Nat, b \in Nat : Received(a, b)
        BY <4>1, <4>2, Zenon DEF SliceSoFar
      <4>4. a <= b /\ runStart = FirstWord(a) /\ NextIs(b) /\ CutRight(runStart, (b + 1) * SliceTicks)
        BY <4>3, Zenon DEF Received
      <4>5. PICK e : e = (b + 1) * SliceTicks
        OBVIOUS
      <4>6. /\ boundary = EndOf(runStart, taken + Len(filled) + 1)
            /\ FilledOf(runStart, filled, taken)
            /\ CutOf(runStart, e, boundary, mstate, words, remaining, overlap)
        BY <4>4, <4>5 DEF CutRight
      <4>7. FilledOf(runStart, Tail(filled), taken + 1)
            /\ taken + Len(filled) + 1 = (taken + 1) + Len(Tail(filled)) + 1
        <5>1. PICK s, f, n : s = runStart /\ f = filled /\ n = taken
          OBVIOUS
        <5>2. s \in Int /\ f \in Seq(Millislices) /\ n \in Int /\ f # <<>> /\ FilledOf(s, f, n)
          BY <1>0, <3>1, <3>2, <4>6, <5>1 DEF LendingOf
        <5>3. FilledOf(s, Tail(f), n + 1) /\ n + Len(f) + 1 = (n + 1) + Len(Tail(f)) + 1
          BY <5>2, FilledShrinks
        <5>. QED BY <5>1, <5>3
      <4>8. /\ boundary' = EndOf(runStart', taken' + Len(filled') + 1)
            /\ FilledOf(runStart', filled', taken')
        BY <3>1, <3>4, <3>6, <4>6, <4>7
      <4>9. CutOf(runStart', e, boundary', mstate', words', remaining', overlap')
        BY <2>1, <3>6, <4>6
      <4>10. CutRight(runStart, e)'
        BY <4>8, <4>9 DEF CutRight
      <4>11. NextIs(b)'
        BY <2>5, <4>4, Zenon
      <4>12. Received(a, b)'
        BY <3>6, <4>4, <4>5, <4>10, <4>11, Zenon DEF Received, FirstWord
      <4>. QED BY <3>6, <4>2, <4>12, Zenon DEF SliceSoFar
    <3>. QED BY <3>7, Zenon DEF SlicingRight
  <2>11. TakeFilled \/ UNCHANGED <<filled, taken>>
    BY <1>3, Zenon DEF ArtdaqSteps, Commit, ClearSuspend, ClearFlag, StartRun, Throws,
         DataTimeout, StopRun, Stop, StopEnds, queues, history, counts
  <2>. QED BY <2>8, <2>9, <2>10, <2>11, Zenon
<1>. QED BY <1>1, <1>2, <1>3

LEMMA SlicingStep ==
  ASSUME PennTypes, PennTypes', StreamRight, SuspendRight, FirstRight, LendingRight, LendingRight',
         HandRight, SlicingRight, [Next]_vars
  PROVE  SlicingRight'
<1>1. CASE UNCHANGED vars
  <2>1. /\ slicing' = slicing /\ mstate' = mstate /\ filled' = filled /\ taken' = taken /\ torn' = torn
        /\ exception' = exception /\ gpc' = gpc /\ clean' = clean /\ runs' = runs /\ stream' = stream
        /\ nextSlice' = nextSlice /\ conn' = conn
    BY <1>1, Zenon DEF vars, board, reading, queues, flags, history, marks, counts
  <2>2. (InRun' => InRun) /\ (PennInStep' => PennInStep) /\ (~torn' => ~torn)
    <3>1. misled' = misled
      BY <2>1, Zenon DEF slicing
    <3>. QED BY <2>1, <3>1, Zenon DEF InRun, PennInStep
  <2>3. part' = part /\ lastId' = lastId
    BY <2>1, Zenon DEF slicing
  <2>4. UNCHANGED <<part, lastId, stream, nextSlice>> /\ (conn = "reset" => conn' = "reset")
        /\ UNCHANGED <<mstate, filled, taken>>
    BY <2>1, <2>3
  <2>5. ASSUME NEW b \in Nat, NextIs(b) PROVE NextIs(b)'
    BY <2>2, <2>4, <2>5, NextKept
  <2>. QED BY <2>1, <2>2, <2>4, <2>5, SlicingKept, Zenon
<1>. QED BY <1>1, SlicingBoard, SlicingIo, SlicingArtdaq DEF Next

-----------------------------------------------------------------------------
(* What was filled stays right when the reader is out of step. *)

LEMMA GoodGrows ==
  ASSUME NEW S, NEW s, NEW f \in Seq(S), NEW n, NEW y \in S, GoodOnes(s, f, n), ~y.inStep
  PROVE  GoodOnes(s, Append(f, y), n)
<1>1. PICK g, l : g = Append(f, y) /\ l = Len(f)
  OBVIOUS
<1>2. l \in Nat /\ Len(g) = l + 1 /\ g[l + 1] = y /\ \A i \in 1..l : g[i] = f[i]
  BY <1>1
<1>3. ASSUME NEW i \in 1..Len(g), g[i].inStep
      PROVE  g[i].end = EndOf(s, n + i) /\ g[i].words = WholeWindow(s, g[i].end)
  <2>1. i # l + 1
    BY <1>2, <1>3
  <2>2. i \in 1..l
    BY <1>2, <2>1
  <2>3. g[i] = f[i]
    BY <1>2, <2>2
  <2>4. f[i].inStep
    BY <1>3, <2>3
  <2>. QED BY <1>1, <2>2, <2>3, <2>4 DEF GoodOnes
<1>. QED BY <1>1, <1>3 DEF GoodOnes

LEMMA GoodShrinks ==
  ASSUME NEW S, NEW s, NEW f \in Seq(S), NEW n \in Int, f # <<>>, GoodOnes(s, f, n)
  PROVE  GoodOnes(s, Tail(f), n + 1)
<1>1. PICK g, l : g = Tail(f) /\ l = Len(f)
  OBVIOUS
<1>2. l \in Nat /\ l # 0 /\ Len(g) = l - 1 /\ \A i \in 1..(l - 1) : g[i] = f[i + 1]
  BY <1>1
<1>3. ASSUME NEW i \in 1..Len(g), g[i].inStep
      PROVE  g[i].end = EndOf(s, n + 1 + i) /\ g[i].words = WholeWindow(s, g[i].end)
  <2>1. i \in 1..(l - 1) /\ i + 1 \in 1..l
    BY <1>2
  <2>2. g[i] = f[i + 1]
    BY <1>2, <2>1
  <2>3. PICK j : j = i + 1 /\ n + 1 + i = n + j
    OBVIOUS
  <2>4. f[j].inStep
    BY <1>3, <2>2, <2>3
  <2>5. f[j].end = EndOf(s, n + j) /\ f[j].words = WholeWindow(s, f[j].end)
    BY <1>1, <2>1, <2>3, <2>4 DEF GoodOnes
  <2>. QED BY <2>2, <2>3, <2>5
<1>. QED BY <1>1, <1>3 DEF GoodOnes

LEMMA GoodOfAll ==
  ASSUME NEW s, NEW f, NEW n, FilledOf(s, f, n)
  PROVE  GoodOnes(s, f, n)
BY DEF FilledOf, GoodOnes

\* While the reader is in step all that is filled is right; out of step it adds none that is said
\* to be, and leaves the others.
LEMMA KeptStep ==
  ASSUME PennTypes, PennTypes', SuspendRight, FirstRight, LendingRight, SlicingRight', KeptRight,
         [Next]_vars
  PROVE  KeptRight'
<1>. SUFFICES ASSUME InRun', ~exception', ~misled'
              PROVE  GoodOnes(runStart', filled', taken') /\ (runStart' = 0 => filled' = <<>>)
  BY Zenon DEF KeptRight, GoodOnes
<1>1. CASE ~torn'
  <2>1. SliceSoFar'
    BY <1>1, Zenon DEF SlicingRight, PennInStep
  <2>2. CASE runStart' = 0
    <3>1. filled' = <<>>
      BY <2>1, <2>2, Zenon DEF SliceSoFar, NothingReceived
    <3>2. Len(filled') = 0
      BY <3>1
    <3>. QED BY <3>1, <3>2 DEF GoodOnes
  <2>3. CASE runStart' # 0
    <3>1. FilledOf(runStart', filled', taken')
      BY <2>1, <2>3, Zenon DEF SliceSoFar, Received, CutRight
    <3>2. PICK s, f, n : s = runStart' /\ f = filled' /\ n = taken'
      OBVIOUS
    <3>3. GoodOnes(s, f, n)
      BY <3>1, <3>2, GoodOfAll
    <3>. QED BY <2>3, <3>2, <3>3
  <2>. QED BY <2>2, <2>3
<1>2. CASE torn' /\ UNCHANGED <<runStart, filled, taken, exception, misled>> /\ (InRun' => InRun)
  <2>1. GoodOnes(runStart, filled, taken) /\ (runStart = 0 => filled = <<>>)
    BY <1>2 DEF KeptRight
  <2>. QED BY <1>2, <2>1
<1>3. CASE torn' /\ BoardSteps
  <2>1. BoardRest
    BY <1>3 DEF BoardSteps, BoardConnects, BoardSends, BoardCloses
  <2>2. UNCHANGED <<runStart, filled, taken, exception, misled>> /\ gpc' = gpc /\ clean' = clean
        /\ runs' = runs
    BY <2>1, Zenon DEF BoardRest, slicing, queues, flags, history, marks, counts
  <2>. QED BY <1>2, <1>3, <2>2, Zenon DEF InRun
<1>4. CASE torn' /\ UNCHANGED vars
  <2>1. UNCHANGED <<runStart, filled, taken, exception, misled>> /\ gpc' = gpc /\ clean' = clean
        /\ runs' = runs
    BY <1>4, Zenon DEF vars, slicing, queues, flags, history, marks, counts
  <2>. QED BY <1>2, <1>4, <2>1, Zenon DEF InRun
<1>5. CASE torn' /\ IoSteps
  <2>1. clean' = clean /\ runs' = runs /\ taken' = taken
    BY <1>5, Zenon DEF IoSteps, Accept, AcceptSuspend, Mark, Read, Resume, Pop, PopTimeout, BeginMillislice,
         ReceiveHeader, ReceivePayload, Dies, ReceiveSome, ReadTimeout, ReceiveGarbage, ReadError,
         IoRest, counts
  <2>2. clean
    BY <2>1, Zenon DEF InRun
  <2>3. InRun
    <3>1. CASE Dies
      <4>1. io = "reading"
        BY <3>1, Zenon DEF Dies, Receives, OutOfStep
      <4>2. io \notin OutOfTheWay
        BY <4>1 DEF OutOfTheWay
      <4>. QED BY <2>2, <4>2, BusyInRun
    <3>2. CASE ~Dies
      <4>1. gpc' = gpc
        BY <1>5, <3>2, Zenon DEF IoSteps, Accept, AcceptSuspend, Mark, Read, Resume, Pop, PopTimeout,
             BeginMillislice, ReceiveHeader, ReceivePayload, ReceiveSome, ReadTimeout, ReceiveGarbage,
             ReadError, IoRest
      <4>. QED BY <2>1, <4>1, Zenon DEF InRun
    <3>. QED BY <3>1, <3>2
  <2>4. ~ReceiveHeader /\ ~ReceivePayload
    BY <1>5, Zenon DEF ReceiveHeader, ReceivePayload, Receives
  <2>5. ~exception
    <3>1. CASE ReceiveGarbage
      <4>1. CASE GarbledHeader
        BY <4>1 DEF GarbledHeader, Distrust
      <4>2. CASE GarbledPayload
        BY <4>2 DEF GarbledPayload, Distrust
      <4>. QED BY <3>1, <4>1, <4>2 DEF ReceiveGarbage
    <3>2. CASE ~ReceiveGarbage
      BY <1>5, <2>4, <3>2, Zenon DEF IoSteps, Accept, AcceptSuspend, Mark, Read, Resume, Pop, PopTimeout,
           BeginMillislice, Dies, ReceiveSome, ReadTimeout, ReadError, GiveUp
    <3>. QED BY <3>1, <3>2
  <2>6. misled' = misled
    BY <1>5, <2>4, Zenon DEF IoSteps, Accept, AcceptSuspend, Mark, Read, Resume, Pop, PopTimeout,
         BeginMillislice, Dies, ReceiveSome, ReadTimeout, ReceiveGarbage, ReadError, slicing
  <2>7. GoodOnes(runStart, filled, taken) /\ (runStart = 0 => filled = <<>>)
    BY <2>3, <2>5, <2>6 DEF KeptRight
  <2>8. CASE ReceiveGarbage
    <3>1. runStart # 0 => runStart' = runStart
      BY <2>8, GarbageFills
    <3>2. GoodOnes(runStart', filled, taken)
      <4>1. CASE runStart = 0
        <5>1. Len(filled) = 0
          BY <2>7, <4>1
        <5>. QED BY <5>1 DEF GoodOnes
      <4>2. CASE runStart # 0
        BY <2>7, <3>1, <4>2
      <4>. QED BY <4>1, <4>2
    <3>3. CASE filled' = filled
      <4>1. runStart' = 0 => runStart = 0
        BY <3>1
      <4>. QED BY <2>1, <2>7, <3>2, <3>3, <4>1
    <3>4. CASE Spoilt(current, filled, filled') /\ runStart' # 0 /\ current # NoBuffer
      <4>1. LendingOf(empty, filled, Hand, mapped)
        BY <2>2, Zenon DEF LendingRight
      <4>2. io = "reading"
        BY <2>8, GarbageFills
      <4>3. Hand = current
        <5>1. io \notin OutOfTheWay
          BY <4>2 DEF OutOfTheWay
        <5>. QED BY <2>2, <5>1, BusyInRun
      <4>4. filled \in Seq(Millislices) /\ current \in Buffers
        BY <3>4, <4>1, <4>3 DEF LendingOf
      <4>5. PICK w \in SUBSET Int, e \in Nat :
              filled' = Append(filled, [buffer |-> current, words |-> w, end |-> e, inStep |-> FALSE])
        BY <3>4 DEF Spoilt
      <4>6. PICK y : y = [buffer |-> current, words |-> w, end |-> e, inStep |-> FALSE]
        OBVIOUS
      <4>7. y \in Millislices /\ ~y.inStep
        BY <4>4, <4>6 DEF Millislices
      <4>8. PICK s, f, n : s = runStart' /\ f = filled /\ n = taken
        OBVIOUS
      <4>9. GoodOnes(s, Append(f, y), n)
        BY <3>2, <4>4, <4>7, <4>8, GoodGrows
      <4>. QED BY <2>1, <3>4, <4>5, <4>6, <4>8, <4>9
    <3>. QED BY <2>8, <3>3, <3>4, GarbageFills
  <2>9. CASE ~ReceiveGarbage
    <3>1. runStart' = runStart
      BY <1>5, <2>4, <2>9, Zenon DEF IoSteps, Accept, AcceptSuspend, Mark, Read, Resume, Pop, PopTimeout,
           BeginMillislice, Dies, ReceiveSome, ReadTimeout, ReadError, slicing
    <3>2. filled' = filled
      BY <1>5, <2>4, <2>9, Zenon DEF IoSteps, Accept, AcceptSuspend, Mark, Read, Resume, Pop, PopTimeout,
           BeginMillislice, Dies, ReceiveSome, ReadTimeout, ReadError
    <3>. QED BY <2>1, <2>7, <3>1, <3>2
  <2>. QED BY <2>8, <2>9
<1>6. CASE torn' /\ ArtdaqSteps
  <2>1. runs \in Nat /\ taken \in Nat
    BY DEF PennTypes
  <2>2. exception' = exception
    BY <1>6, Zenon DEF ArtdaqSteps, StartRelease, Commit, Reset, ClearSuspend, ClearFlag, StartRun,
         TakeFilled, Throws, DataTimeout, StopRun, Stop, StopEnds, ArtdaqRest
  <2>3. CASE StartRelease
    <3>1. gpc' = "precommit" /\ filled' = <<>> /\ runs' = runs + 1 /\ runStart' = runStart
      BY <2>3, Zenon DEF StartRelease, receiver, slicing
    <3>2. Len(filled') = 0
      BY <3>1
    <3>. QED BY <3>1, <3>2 DEF GoodOnes
  <2>4. CASE Reset
    <3>1. filled' = filled /\ gpc = "precommit"
      BY <2>4, Zenon DEF Reset, queues
    <3>2. clean
      BY <2>4, Zenon DEF Reset, InRun
    <3>3. filled = <<>>
      BY <3>1, <3>2, Zenon DEF LendingRight
    <3>4. Len(filled') = 0
      BY <3>1, <3>3
    <3>. QED BY <3>1, <3>3, <3>4 DEF GoodOnes
  <2>5. CASE ~StartRelease /\ ~Reset
    <3>1. slicing' = slicing
      BY <1>6, <2>5, Zenon DEF ArtdaqSteps, Commit, ClearSuspend, ClearFlag, StartRun, TakeFilled, Throws,
           DataTimeout, StopRun, Stop, StopEnds, receiver
    <3>2. runStart' = runStart /\ misled' = misled
      BY <3>1, Zenon DEF slicing
    <3>3. clean' = clean /\ runs' = runs
      BY <1>6, <2>5, Zenon DEF ArtdaqSteps, Commit, ClearSuspend, ClearFlag, StartRun, TakeFilled, Throws,
           DataTimeout, StopRun, Stop, StopEnds, history, marks, counts
    <3>4. InRun
      <4>1. gpc = "precommit" => gpc' = "precommit"
        BY <1>6, <2>5 DEF ArtdaqSteps, Commit, ClearSuspend, ClearFlag, StartRun, TakeFilled, Throws,
             DataTimeout, StopRun, Stop, StopEnds
      <4>. QED BY <3>3, <4>1, Zenon DEF InRun
    <3>5. GoodOnes(runStart, filled, taken) /\ (runStart = 0 => filled = <<>>)
      BY <2>2, <3>2, <3>4 DEF KeptRight
    <3>6. CASE UNCHANGED <<filled, taken>>
      BY <3>2, <3>5, <3>6
    <3>7. CASE TakeFilled
      <4>1. clean /\ filled # <<>> /\ filled' = Tail(filled)
        BY <3>4, <3>7, Zenon DEF TakeFilled, InRun
      <4>2. LendingOf(empty, filled, Hand, mapped)
        BY <4>1, Zenon DEF LendingRight
      <4>3. Head(filled).buffer \in mapped
        <5>1. PICK e, f, h, m : e = empty /\ f = filled /\ h = Hand /\ m = mapped
          OBVIOUS
        <5>2. Head(f).buffer \in m
          BY <4>1, <4>2, <5>1, LendTaken
        <5>. QED BY <5>1, <5>2
      <4>4. taken' = taken + 1
        BY <3>7, <4>3, Zenon DEF TakeFilled
      <4>5. PICK s, f, n : s = runStart /\ f = filled /\ n = taken
        OBVIOUS
      <4>6. f \in Seq(Millislices) /\ n \in Int /\ f # <<>> /\ GoodOnes(s, f, n)
        BY <2>1, <3>5, <4>1, <4>2, <4>5 DEF LendingOf
      <4>7. GoodOnes(s, Tail(f), n + 1)
        BY <4>6, GoodShrinks
      <4>8. GoodOnes(runStart', filled', taken')
        BY <3>2, <4>1, <4>4, <4>5, <4>7
      <4>9. runStart' # 0
        BY <3>2, <3>5, <4>1
      <4>. QED BY <4>8, <4>9
    <3>8. TakeFilled \/ UNCHANGED <<filled, taken>>
      BY <1>6, <2>5, Zenon DEF ArtdaqSteps, Commit, ClearSuspend, ClearFlag, StartRun, Throws,
           DataTimeout, StopRun, Stop, StopEnds, queues, history, counts
    <3>. QED BY <3>6, <3>7, <3>8
  <2>. QED BY <2>3, <2>4, <2>5
<1>7. torn' \in BOOLEAN
  BY DEF PennTypes
<1>. QED BY <1>1, <1>3, <1>4, <1>5, <1>6, Zenon DEF Next

-----------------------------------------------------------------------------
(* A run that begins afresh, the initial state and the theorem. *)

\* A microslice of the run, or of a later one, begins after those of before the run.
LEMMA LaterWord ==
  ASSUME NEW m \in Nat, NEW n \in Nat, n >= m
  PROVE  FirstWord(n) > m * SliceTicks
<1>1. PICK k : k = n - m /\ k \in Nat /\ n = m + k
  OBVIOUS
<1>2. SliceTicks \in Nat
  BY TicksAssumption
<1>3. n * SliceTicks = m * SliceTicks + k * SliceTicks
  BY <1>1, <1>2, Products
<1>4. PICK x, y : x = m * SliceTicks /\ y = k * SliceTicks /\ x \in Nat /\ y \in Nat
  BY <1>1, <1>2
<1>5. FirstWord(n) = x + y + 1
  BY <1>3, <1>4 DEF FirstWord
<1>6. x + y + 1 > x
  BY <1>4
<1>. QED BY <1>4, <1>5, <1>6

Cleared == gpc \in {"clear", "clearFlag", "command"}
Going == gpc \in {"running", "stopping"}
SentSince(s, n) == \A i \in 1..Len(s) : s[i].slice >= n

LEMMA FreshBoard ==
  ASSUME PennTypes, FreshRight, BoardSteps
  PROVE  FreshRight'
<1>1. BoardRest
  BY DEF BoardSteps, BoardConnects, BoardSends, BoardCloses
<1>2. gpc' = gpc /\ fresh' = fresh /\ firstSlice' = firstSlice /\ runStart' = runStart /\ torn' = torn
  BY <1>1, Zenon DEF BoardRest, history, marks, counts, slicing, reading
<1>3. stream \in Seq(Item) /\ nextSlice \in Nat /\ firstSlice \in Nat /\ MaxLost \in Nat
  BY BoundsAssumption DEF PennTypes, Item
<1>4. ASSUME fresh, Cleared PROVE ~boardOn' /\ stream' = <<>> /\ runStart' = 0
  <2>1. ~boardOn /\ stream = <<>> /\ runStart = 0
    BY <1>4, Zenon DEF FreshRight, Cleared
  <2>2. BoardConnects
    BY <2>1, Zenon DEF BoardSteps, BoardSends, BoardCloses
  <2>. QED BY <1>2, <2>1, <2>2, Zenon DEF BoardConnects
<1>5. ASSUME fresh, Going
      PROVE  /\ firstSlice <= nextSlice' /\ SentSince(stream', firstSlice)
             /\ ~torn /\ runStart # 0 => runStart > firstSlice * SliceTicks
  <2>1. /\ firstSlice <= nextSlice /\ \A i \in 1..Len(stream) : stream[i].slice >= firstSlice
        /\ ~torn /\ runStart # 0 => runStart > firstSlice * SliceTicks
    BY <1>5, Zenon DEF FreshRight, Going
  <2>2. CASE BoardConnects
    BY <2>1, <2>2 DEF BoardConnects, SentSince
  <2>3. CASE BoardSends
    <3>1. PICK lost \in 0..MaxLost : /\ SendSlice(nextSlice + lost)
                                     /\ nextSlice' = nextSlice + lost + 1
      BY <2>3 DEF BoardSends
    <3>2. PICK s, t, n : s = stream /\ t = stream' /\ n = nextSlice + lost
      OBVIOUS
    <3>3. n \in Nat /\ s \in Seq(Item) /\ n >= nextSlice /\ nextSlice' = n + 1
      BY <1>3, <3>1, <3>2
    <3>4. t = s \o <<[part |-> "header", slice |-> n], [part |-> "payload", slice |-> n]>>
      BY <3>1, <3>2 DEF SendSlice
    <3>5. /\ t \in Seq(Item) /\ Len(t) = Len(s) + 2 /\ \A i \in 1..Len(s) : t[i] = s[i]
          /\ t[Len(s) + 1] = [part |-> "header", slice |-> n]
          /\ t[Len(s) + 2] = [part |-> "payload", slice |-> n]
      BY <3>3, <3>4, SliceSent
    <3>6. PICK k : k = Len(s) /\ k \in Nat
      BY <3>3
    <3>7. t[k + 1].slice = n /\ t[k + 2].slice = n
      BY <3>5, <3>6
    <3>8. n >= firstSlice
      BY <1>3, <2>1, <3>3
    <3>9. ASSUME NEW i \in 1..Len(t) PROVE t[i].slice >= firstSlice
      <4>1. i \in 1..k \/ i = k + 1 \/ i = k + 2
        BY <3>5, <3>6
      <4>2. CASE i \in 1..k
        <5>1. t[i] = s[i] /\ s[i].slice >= firstSlice
          BY <2>1, <3>2, <3>5, <3>6, <4>2
        <5>. QED BY <5>1
      <4>3. CASE i = k + 1 \/ i = k + 2
        BY <3>7, <3>8, <4>3
      <4>. QED BY <4>1, <4>2, <4>3
    <3>10. firstSlice <= nextSlice'
      BY <1>3, <3>3, <3>8
    <3>. QED BY <2>1, <3>2, <3>9, <3>10 DEF SentSince
  <2>4. CASE BoardCloses
    <3>1. nextSlice' = nextSlice
      BY <2>4 DEF BoardCloses
    <3>2. CASE stream' = <<>> \/ stream' = stream
      BY <2>1, <3>1, <3>2 DEF SentSince
    <3>3. CASE stream # <<>> /\ stream' = Front(stream)
      <4>1. PICK s, t : s = stream /\ t = Front(s)
        OBVIOUS
      <4>2. /\ Len(t) = Len(s) - 1 /\ Len(s) \in Nat
            /\ \A i \in 1..(Len(s) - 1) : t[i] = s[i]
        BY <1>3, <3>3, <4>1, FrontOfItems
      <4>3. ASSUME NEW i \in 1..Len(t) PROVE t[i].slice >= firstSlice
        <5>1. i \in 1..(Len(s) - 1) /\ i \in 1..Len(s)
          BY <4>2
        <5>2. t[i] = s[i] /\ s[i].slice >= firstSlice
          BY <2>1, <4>1, <4>2, <5>1
        <5>. QED BY <5>2
      <4>4. SentSince(t, firstSlice)
        BY <4>3 DEF SentSince
      <4>. QED BY <2>1, <3>1, <3>3, <4>1, <4>4
    <3>. QED BY <2>4, <3>2, <3>3 DEF BoardCloses
  <2>. QED BY <2>2, <2>3, <2>4 DEF BoardSteps
<1>. QED BY <1>2, <1>4, <1>5, Zenon DEF FreshRight, Cleared, Going, SentSince

LEMMA FreshIo ==
  ASSUME PennTypes, FreshRight, IoSteps
  PROVE  FreshRight'
<1>1. /\ fresh' = fresh /\ firstSlice' = firstSlice /\ boardOn' = boardOn /\ nextSlice' = nextSlice
      /\ (gpc' = gpc \/ gpc' = "dead")
  BY Zenon DEF IoSteps, Accept, AcceptSuspend, Mark, Read, Resume, Pop, PopTimeout, BeginMillislice,
         ReceiveHeader, ReceivePayload, Dies, ReceiveSome, ReadTimeout, ReceiveGarbage, ReadError,
         IoRest, counts
<1>2. stream \in Seq(Item) /\ firstSlice \in Nat
  BY DEF PennTypes, Item
<1>3. \/ stream' = stream \/ (stream # <<>> /\ stream' = Tail(stream))
      \/ \E k \in 1..Len(stream) : stream' = SubSeq(stream, k + 1, Len(stream))
  <2>1. CASE ReceiveGarbage
    BY <2>1, Zenon DEF ReceiveGarbage
  <2>2. CASE ~ReceiveGarbage
    BY <2>2, Zenon DEF IoSteps, Accept, AcceptSuspend, Mark, Read, Resume, Pop, PopTimeout,
         BeginMillislice, ReceiveHeader, ReceivePayload, Dies, ReceiveSome, ReadTimeout, ReadError,
         Receives
  <2>. QED BY <2>1, <2>2
<1>8. ~torn' => ~torn /\ ~ReceiveGarbage
  <2>1. CASE ReceiveGarbage
    BY <2>1, Zenon DEF ReceiveGarbage
  <2>2. CASE ~ReceiveGarbage
    BY <2>2, Zenon DEF IoSteps, Accept, AcceptSuspend, Mark, Read, Resume, Pop, PopTimeout,
         BeginMillislice, ReceiveHeader, ReceivePayload, Dies, ReceiveSome, ReadTimeout, ReadError,
         reading
  <2>. QED BY <2>1, <2>2
<1>4. \/ runStart' = runStart \/ ReceiveGarbage
      \/ ReceivePayload /\ runStart = 0 /\ runStart' = FirstWord(Head(stream).slice)
  <2>1. CASE ReceivePayload
    BY <2>1, Zenon DEF ReceivePayload, StartTime
  <2>2. CASE ~ReceivePayload
    BY <2>2, Zenon DEF IoSteps, Accept, AcceptSuspend, Mark, Read, Resume, Pop, PopTimeout,
         BeginMillislice, ReceiveHeader, Dies, ReceiveSome, ReadTimeout, ReadError, slicing
  <2>. QED BY <2>1, <2>2
<1>5. ASSUME fresh, Cleared PROVE ~boardOn' /\ stream' = <<>> /\ runStart' = 0
  <2>1. ~boardOn /\ stream = <<>> /\ runStart = 0
    BY <1>5, Zenon DEF FreshRight, Cleared
  <2>2. ~ReceivePayload /\ ~ReceiveGarbage
    BY <2>1, Zenon DEF ReceivePayload, Receives, ReceiveGarbage, OutOfStep
  <2>3. ~\E k \in 1..Len(stream) : stream' = SubSeq(stream, k + 1, Len(stream))
    <3>1. Len(stream) = 0
      BY <2>1
    <3>. QED BY <3>1
  <2>. QED BY <1>1, <1>3, <1>4, <2>1, <2>2, <2>3, Zenon
<1>6. ASSUME fresh, Going
      PROVE  /\ firstSlice <= nextSlice' /\ SentSince(stream', firstSlice)
             /\ ~torn' /\ runStart' # 0 => runStart' > firstSlice * SliceTicks
  <2>1. /\ firstSlice <= nextSlice /\ \A i \in 1..Len(stream) : stream[i].slice >= firstSlice
        /\ ~torn /\ runStart # 0 => runStart > firstSlice * SliceTicks
    BY <1>6, Zenon DEF FreshRight, Going
  <2>2. SentSince(stream', firstSlice)
    <3>1. CASE stream' = stream
      BY <2>1, <3>1 DEF SentSince
    <3>2. CASE stream # <<>> /\ stream' = Tail(stream)
      <4>1. PICK s, t : s = stream /\ t = Tail(s)
        OBVIOUS
      <4>2. /\ Len(t) = Len(s) - 1 /\ Len(s) \in Nat
            /\ \A i \in 1..(Len(s) - 1) : t[i] = s[i + 1]
        BY <1>2, <3>2, <4>1, TailOfItems
      <4>3. ASSUME NEW i \in 1..Len(t) PROVE t[i].slice >= firstSlice
        <5>1. i \in 1..(Len(s) - 1) /\ i + 1 \in 1..Len(s)
          BY <4>2
        <5>2. t[i] = s[i + 1] /\ s[i + 1].slice >= firstSlice
          BY <2>1, <4>1, <4>2, <5>1
        <5>. QED BY <5>2
      <4>4. SentSince(t, firstSlice)
        BY <4>3 DEF SentSince
      <4>. QED BY <3>2, <4>1, <4>4
    <3>3. ASSUME NEW k \in 1..Len(stream), stream' = SubSeq(stream, k + 1, Len(stream))
          PROVE  SentSince(stream', firstSlice)
      <4>1. PICK s, t : s = stream /\ t = SubSeq(s, k + 1, Len(s))
        OBVIOUS
      <4>2. /\ Len(t) = Len(s) - k /\ Len(s) \in Nat /\ k \in 1..Len(s)
            /\ \A i \in 1..(Len(s) - k) : t[i] = s[i + k]
        BY <1>2, <4>1, SuffixOfItems
      <4>3. ASSUME NEW i \in 1..Len(t) PROVE t[i].slice >= firstSlice
        <5>1. i \in 1..(Len(s) - k) /\ i + k \in 1..Len(s)
          BY <4>2
        <5>2. t[i] = s[i + k] /\ s[i + k].slice >= firstSlice
          BY <2>1, <4>1, <4>2, <5>1
        <5>. QED BY <5>2
      <4>4. SentSince(t, firstSlice)
        BY <4>3 DEF SentSince
      <4>. QED BY <3>3, <4>1, <4>4
    <3>. QED BY <1>3, <3>1, <3>2, <3>3
  <2>3. ~torn' /\ runStart' # 0 => runStart' > firstSlice * SliceTicks
    <3>1. CASE ReceivePayload /\ runStart' = FirstWord(Head(stream).slice)
      <4>1. PICK n : n = Head(stream).slice
        OBVIOUS
      <4>2. stream # <<>>
        BY <3>1, Zenon DEF ReceivePayload, Receives
      <4>3. Head(stream) = stream[1] /\ stream[1] \in Item /\ Len(stream) \in Nat \ {0}
        BY <1>2, <4>2, TailOfItems
      <4>4. n \in Nat /\ n >= firstSlice
        <5>1. 1 \in 1..Len(stream)
          BY <4>3
        <5>2. stream[1].slice >= firstSlice
          BY <2>1, <5>1, Zenon
        <5>3. n = stream[1].slice /\ n \in Nat
          BY <4>1, <4>3 DEF Item
        <5>. QED BY <5>2, <5>3
      <4>5. FirstWord(n) > firstSlice * SliceTicks
        BY <1>2, <4>4, LaterWord
      <4>. QED BY <3>1, <4>1, <4>5
    <3>2. CASE runStart' = runStart
      BY <1>8, <2>1, <3>2, Zenon
    <3>3. CASE ReceiveGarbage
      BY <1>8, <3>3, Zenon
    <3>. QED BY <1>4, <3>1, <3>2, <3>3
  <2>. QED BY <1>1, <2>1, <2>2, <2>3
<1>7. (Cleared' => Cleared) /\ (Going' => Going)
  BY <1>1 DEF Cleared, Going
<1>. QED BY <1>1, <1>5, <1>6, <1>7, Zenon DEF FreshRight, Cleared, Going, SentSince

LEMMA FreshArtdaq ==
  ASSUME PennTypes, FreshRight, ArtdaqSteps
  PROVE  FreshRight'
<1>0. nextSlice' = nextSlice /\ nextSlice \in Nat
  BY DEF ArtdaqSteps, StartRelease, Commit, Reset, ClearSuspend, ClearFlag, StartRun, TakeFilled,
         Throws, DataTimeout, StopRun, Stop, StopEnds, ArtdaqRest, PennTypes
<1>1. CASE StartRelease \/ Commit \/ Throws \/ DataTimeout \/ Stop \/ StopEnds
  <2>1. gpc' \in {"precommit", "failed", "waiting", "stopped"}
    BY <1>1 DEF StartRelease, Commit, Throws, DataTimeout, Stop, StopEnds
  <2>2. ~Cleared' /\ ~Going'
    BY <2>1 DEF Cleared, Going
  <2>. QED BY <2>2, Zenon DEF FreshRight, Cleared, Going
<1>2. CASE Reset
  <2>1. /\ gpc' = "clear" /\ boardOn' = boardOn /\ runStart' = 0
        /\ stream' = IF deadlineOf = "DataSocket" THEN <<>> ELSE stream
    BY <1>2, Zenon DEF Reset, ResetTimes, Flush
  <2>2. fresh' = (~boardOn /\ (deadlineOf = "DataSocket" \/ stream = <<>>))
    BY <1>2, Zenon DEF Reset
  <2>3. fresh' => ~boardOn' /\ stream' = <<>>
    BY <2>1, <2>2, Zenon
  <2>4. ~Going'
    BY <2>1 DEF Going
  <2>. QED BY <2>1, <2>3, <2>4, Zenon DEF FreshRight, Going
<1>3. CASE ClearSuspend \/ ClearFlag
  <2>1. Cleared /\ ~Going'
    BY <1>3 DEF ClearSuspend, ClearFlag, Cleared, Going
  <2>2. fresh' = fresh /\ boardOn' = boardOn /\ stream' = stream /\ runStart' = runStart
    BY <1>3, Zenon DEF ClearSuspend, ClearFlag, receiver, slicing, history, marks
  <2>. QED BY <2>1, <2>2, Zenon DEF FreshRight, Cleared, Going
<1>4. CASE StartRun
  <2>1. Cleared /\ ~Cleared'
    BY <1>4 DEF StartRun, Cleared
  <2>2. /\ fresh' = fresh /\ stream' = stream /\ runStart' = runStart /\ firstSlice' = nextSlice
    BY <1>4, Zenon DEF StartRun, receiver, slicing, marks
  <2>3. fresh => stream = <<>> /\ runStart = 0
    BY <2>1, Zenon DEF FreshRight, Cleared
  <2>4. firstSlice' <= nextSlice'
    BY <1>0, <2>2
  <2>5. fresh' => SentSince(stream', firstSlice') /\ runStart' = 0
    <3>1. ASSUME stream' = <<>> PROVE SentSince(stream', firstSlice')
      BY <3>1 DEF SentSince
    <3>. QED BY <2>2, <2>3, <3>1, Zenon
  <2>. QED BY <2>1, <2>4, <2>5, Zenon DEF FreshRight, Cleared, SentSince
<1>5. CASE TakeFilled \/ StopRun
  <2>1. ~Cleared' /\ (Going' => Going)
    BY <1>5 DEF TakeFilled, StopRun, Cleared, Going
  <2>2. /\ fresh' = fresh /\ stream' = stream /\ runStart' = runStart /\ firstSlice' = firstSlice
        /\ torn' = torn
    BY <1>5, Zenon DEF TakeFilled, StopRun, receiver, slicing, reading, history, marks, counts
  <2>. QED BY <1>0, <2>1, <2>2, Zenon DEF FreshRight, Cleared, Going
<1>. QED BY <1>1, <1>2, <1>3, <1>4, <1>5 DEF ArtdaqSteps

LEMMA FreshStep ==
  ASSUME PennTypes, FreshRight, [Next]_vars
  PROVE  FreshRight'
<1>1. CASE UNCHANGED vars
  <2>1. /\ gpc' = gpc /\ fresh' = fresh /\ firstSlice' = firstSlice /\ runStart' = runStart
        /\ boardOn' = boardOn /\ stream' = stream /\ nextSlice' = nextSlice /\ torn' = torn
    BY <1>1, Zenon DEF vars, board, slicing, reading, history, marks, counts
  <2>. QED BY <2>1, Zenon DEF FreshRight
<1>. QED BY <1>1, FreshBoard, FreshIo, FreshArtdaq DEF Next

LEMMA PennInitially == Init => PennInv
<1>. SUFFICES ASSUME Init PROVE PennInv
  OBVIOUS
<1>1. PennTypes
  <2>1. /\ boardOn \in BOOLEAN /\ torn \in BOOLEAN /\ exception \in BOOLEAN /\ clean \in BOOLEAN
        /\ fragment \in BOOLEAN /\ misled \in BOOLEAN
        /\ fresh \in BOOLEAN /\ answered \in BOOLEAN /\ late \in BOOLEAN /\ suspend \in BOOLEAN
        /\ suspended \in BOOLEAN
    BY DEF Init
  <2>2. /\ conn \in {"none", "pending", "open", "closed", "reset"}
        /\ part \in Parts /\ mstate \in {"MillisliceEmpty", "MillisliceIncomplete"}
        /\ words = {} /\ remaining = {} /\ overlap = {} /\ lastId = NoId
        /\ nextSlice = 0 /\ runStart = 0 /\ boundary = 0 /\ firstSlice = 0 /\ taken = 0 /\ runs = 0
        /\ stream = <<>>
    BY DEF Init, Parts
  <2>3. stream \in Seq([part : Parts, slice : Nat])
    BY <2>2
  <2>4. /\ words \subseteq Int /\ remaining \subseteq Int /\ overlap \subseteq Int
        /\ lastId \in Nat \cup {NoId} /\ nextSlice \in Nat /\ runStart \in Nat /\ boundary \in Nat
        /\ firstSlice \in Nat /\ taken \in Nat /\ runs \in Nat
    BY <2>2
  <2>. QED BY <2>1, <2>2, <2>3, <2>4, Zenon DEF PennTypes
<1>2. StreamRight
  BY DEF Init, StreamRight, Chain
<1>3. SuspendRight
  BY DEF Init, SuspendRight, Started
<1>4. FirstRight
  BY DEF Init, FirstRight
<1>5. LendingRight
  <2>1. empty = <<>> /\ filled = <<>> /\ mapped = {} /\ Hand = NoBuffer
    BY DEF Init, Hand
  <2>2. LendingOf(<<>>, <<>>, NoBuffer, {})
    BY LendingOfNothing
  <2>. QED BY <2>1, <2>2 DEF LendingRight
<1>6. HandRight
  BY DEF Init, HandRight
<1>7. SlicingRight
  BY DEF Init, SlicingRight, SliceSoFar, NothingReceived
<1>8. FreshRight
  BY DEF Init, FreshRight
<1>9. KeptRight
  BY DEF Init, KeptRight, GoodOnes
<1>. QED BY <1>1, <1>2, <1>3, <1>4, <1>5, <1>6, <1>7, <1>8, <1>9 DEF PennInv

\* The buffers that are lent are those in the queues and in hand.
LEMMA LentIs ==
  ASSUME LendingOf(empty, filled, Hand, mapped), Hand = current
  PROVE  Lent = mapped
<1>1. /\ empty \in Seq(Buffers) /\ filled \in Seq(Millislices) /\ current \in Buffers \cup {NoBuffer}
      /\ mapped = {b \in Buffers : HeldIn(b, empty, filled, current)} /\ NoBuffer \notin Buffers
  BY BoundsAssumption DEF LendingOf
<1>2. ToSet(empty) = {b \in Buffers : \E i \in 1..Len(empty) : empty[i] = b}
  <2>1. \A i \in 1..Len(empty) : empty[i] \in Buffers
    BY <1>1
  <2>2. ToSet(empty) = {empty[i] : i \in 1..Len(empty)}
    BY <1>1 DEF ToSet
  <2>. QED BY <2>1, <2>2
<1>3. {f.buffer : f \in ToSet(filled)} = {b \in Buffers : \E j \in 1..Len(filled) : filled[j].buffer = b}
  <2>1. \A j \in 1..Len(filled) : filled[j].buffer \in Buffers
    <3>1. \A j \in 1..Len(filled) : filled[j] \in Millislices
      BY <1>1
    <3>. QED BY <3>1 DEF Millislices
  <2>2. ToSet(filled) = {filled[j] : j \in 1..Len(filled)}
    BY <1>1 DEF ToSet
  <2>. QED BY <2>1, <2>2
<1>4. {b \in {current} : b # NoBuffer} = {b \in Buffers : b = current}
  BY <1>1
<1>. QED BY <1>1, <1>2, <1>3, <1>4 DEF Lent, HeldIn

LEMMA PennInvRight == PennInv => MillislicesRight
<1>. SUFFICES ASSUME PennInv PROVE MillislicesRight
  OBVIOUS
<1>1. /\ PennTypes /\ SuspendRight /\ FirstRight /\ LendingRight /\ HandRight /\ KeptRight
      /\ FreshRight
  BY DEF PennInv
<1>2. ASSUME clean, ~exception, ~misled, NEW i \in DOMAIN filled, filled[i].inStep
      PROVE  /\ filled[i].end = runStart - 1 + (taken + i) * MillisliceSize
             /\ filled[i].words =
                  {t \in (filled[i].end - MillisliceSize - Overlap + 1)..filled[i].end : t >= runStart}
  <2>1. LendingOf(empty, filled, Hand, mapped) /\ (gpc = "precommit" => filled = <<>>)
    BY <1>1, <1>2, Zenon DEF LendingRight
  <2>2. filled \in Seq(Millislices)
    BY <2>1 DEF LendingOf
  <2>3. i \in 1..Len(filled) /\ filled # <<>>
    BY <1>2, <2>2
  <2>4. InRun
    BY <1>2, <2>1, <2>3, Zenon DEF InRun
  <2>5. GoodOnes(runStart, filled, taken)
    BY <1>1, <1>2, <2>4, Zenon DEF KeptRight
  <2>9. /\ filled[i].end = EndOf(runStart, taken + i)
        /\ filled[i].words = WholeWindow(runStart, filled[i].end)
    BY <1>2, <2>3, <2>5, Zenon DEF GoodOnes
  <2>10. WholeWindow(runStart, filled[i].end)
           = {t \in (filled[i].end - MillisliceSize - Overlap + 1)..filled[i].end : t >= runStart}
    <3>a. filled[i] \in Millislices
      BY <2>2, <2>3
    <3>b. runStart \in Nat
      BY <1>1 DEF PennTypes
    <3>1. filled[i].end \in Int /\ runStart \in Nat
      BY <3>a, <3>b DEF Millislices
    <3>2. PICK x, y : x = filled[i].end /\ y = runStart
      OBVIOUS
    <3>3. WholeWindow(y, x) = {t \in (x - MillisliceSize - Overlap + 1)..x : t >= y}
      BY <3>1, <3>2, TicksAssumption DEF WholeWindow
    <3>. QED BY <3>2, <3>3
  <2>. QED BY <2>9, <2>10 DEF EndOf
<1>3. RunsNotMixed
  BY <1>1, Zenon DEF RunsNotMixed, FreshRight
<1>4. BuffersConserved
  <2>. SUFFICES ASSUME clean, gpc # "precommit"
                PROVE  /\ Lent = mapped
                       /\ Cardinality(mapped) =
                            Len(empty) + Len(filled) + (IF current = NoBuffer THEN 0 ELSE 1)
                       /\ io \in {"popped", "reading"} => current # NoBuffer
    BY Zenon DEF BuffersConserved
  <2>1. LendingOf(empty, filled, Hand, mapped)
    BY <1>1, Zenon DEF LendingRight
  <2>2. Hand = current
    BY DEF Hand
  <2>3. Lent = mapped
    BY <2>1, <2>2, LentIs
  <2>4. Cardinality(mapped) = Len(empty) + Len(filled) + (IF current = NoBuffer THEN 0 ELSE 1)
    BY <2>1, <2>2 DEF LendingOf
  <2>5. InRun
    BY Zenon DEF InRun
  <2>6. io \in {"popped", "reading"} => current # NoBuffer
    BY <1>1, <2>5, Zenon DEF HandRight
  <2>. QED BY <2>3, <2>4, <2>6
<1>5. MillisliceExact
  BY <1>2, Zenon DEF MillisliceExact
<1>. QED BY <1>3, <1>4, <1>5 DEF MillislicesRight, StreamExact

(* What artdaq is given is the stream of the run, cut at the boundaries without a loss or a
   repetition, and every buffer it lent is in one hand, in every behaviour of the reader, for
   every size of microslices, millislices and overlap, however many buffers and runs there are: up
   to where the reader is out of step with its connection, or takes microslices lost for none. *)
THEOREM MillislicesStayRight == Spec => []MillislicesRight
<1>1. Init => PennInv
  BY PennInitially
<1>2. PennInv /\ [Next]_vars => PennInv'
  <2>. SUFFICES ASSUME PennInv, [Next]_vars PROVE PennInv'
    OBVIOUS
  <2>1. /\ PennTypes /\ StreamRight /\ SuspendRight /\ FirstRight /\ LendingRight /\ HandRight
        /\ SlicingRight /\ KeptRight /\ FreshRight
    BY DEF PennInv
  <2>2. PennTypes'
    BY <2>1, TypesStep
  <2>3. StreamRight' /\ SuspendRight' /\ FirstRight'
    BY <2>1, StreamStep, SuspendStep, FirstStep
  <2>4. LendingRight'
    BY <2>1, LendingStep
  <2>5. HandRight'
    BY <2>1, HandStep
  <2>6. SlicingRight'
    BY <2>1, <2>2, <2>4, SlicingStep
  <2>7. FreshRight'
    BY <2>1, FreshStep
  <2>8. KeptRight'
    BY <2>1, <2>2, <2>6, KeptStep
  <2>. QED BY <2>2, <2>3, <2>4, <2>5, <2>6, <2>7, <2>8 DEF PennInv
<1>. QED BY <1>1, <1>2, PennInvRight, PTL DEF Spec
=============================================================================
