------------------------------- MODULE HitFinder -------------------------------
(***************************************************************************)
(* How the trigger primitive finder of a FELIX link finds hits. For each   *)
(* wire it follows the pedestal and the quartiles of the samples, filters  *)
(* the samples less the pedestal, and makes a hit of each time in which    *)
(* the filtered samples are above a multiple of the distance of the        *)
(* quartiles. The code works on registers of many 16-bit lanes; a plain    *)
(* version, against which the tests compare it, on one wire at a time.     *)
(* Both run here on the same samples; their state stays for the next       *)
(* message.                                                                *)
(***************************************************************************)
EXTENDS Integers, Sequences, FiniteSetsExt, SequencesExt

CONSTANTS
  Lanes,          \* lanes of one 64-bit element of a register: 4
  Width,          \* bits of a lane: 16
  TapExponent,    \* tap_exponent: 6
  Taps,           \* taps, eight of which the last is 0
  Factor,         \* of the distance of the quartiles, the threshold: 5
  AccLimit,       \* acclimit: 10
  Spread,         \* first distance of the quartiles from the pedestal: 3
  FramesInMsg,    \* FRAMES_PER_MSG: 12
  ClocksPerTick,  \* clocksPerTPCTick: 25
  Registers,      \* samples of all lanes at a time, 12 bits of the lane's 16
  MaxHitMsgs      \* messages (bound)

Lane == 0..(Lanes - 1)
NTAPS == Len(Taps)
multiplier == 2^TapExponent
adcMax == (2^(Width - 1) - 1) \div multiplier
sigmaMax == 2^(Width - 1) \div (multiplier * Factor)

ASSUME HitFinderAssumption ==
  /\ Lanes \in Nat /\ AccLimit \in Nat /\ Spread \in Nat
  /\ FramesInMsg \in Nat \ {0} /\ MaxHitMsgs \in Nat
  /\ Registers \subseteq [Lane -> Nat] /\ Registers # {}

VARIABLES
  avx,        \* state of the lanes in the code's ChanState
  naive,      \* and in that of the plain version
  message,    \* number of the message
  itime,      \* samples of it that have been processed
  rows,       \* hits written by the code, for all lanes at once
  plain,      \* hits written by the plain version
  made,       \* the primitives made of the code's hits
  above,      \* history: the exact filtered samples over the threshold of a lane, and their times
  clamped,    \* history: the distance of the quartiles has once been clamped
  wrapped     \* history: a filtered sample has once not fitted into the lane

hitVars == <<avx, naive, itime, message, rows, plain, made, above, clamped, wrapped>>

\* what of a number remains in a lane
Signed(x) == ((x + 2^(Width - 1)) % 2^Width) - 2^(Width - 1)
Largest == 2^(Width - 1) - 1
Saturated(x) == IF x > Largest THEN Largest ELSE IF x < -Largest - 1 THEN -Largest - 1 ELSE x
Smaller(x, y) == IF x < y THEN x ELSE y

\* setState(), of the first sample: an estimate of a quantile and the accumulator that moves it
Estimate(x) == [m |-> x, acc |-> 0]
NewLane(s) ==
  [median |-> Estimate(s), q25 |-> Estimate(s - Spread), q75 |-> Estimate(s + Spread),
   prev |-> [j \in 0..(NTAPS - 1) |-> 0], over |-> FALSE, charge |-> 0, tover |-> 0]

HitInit ==
  /\ message = 1 /\ itime = 0 /\ rows = <<>> /\ plain = {} /\ made = {}
  /\ \E r \in Registers : avx = [l \in Lane |-> NewLane(r[l])]
  /\ naive = avx
  /\ above = [l \in Lane |-> {}] /\ clamped = FALSE /\ wrapped = FALSE

Tick == (message - 1) * FramesInMsg + itime    \* of the sample that comes next
Slot == Tick % NTAPS                           \* absTimeModNTAPS
-----------------------------------------------------------------------------
(* Both: the filter, over samples already remembered, and the clean sample. *)

FilterSum(c, n) == MapThenSumSet(LAMBDA j : Taps[j + 1] * c.prev[(j + Slot) % NTAPS], 0..(n - 1))
Clean(c, s) == Smaller(s - c.median.m, adcMax)
Distance(c) == c.q75.m - c.q25.m
-----------------------------------------------------------------------------
(* The plain version, one lane. *)

Update(e, s) ==
  LET acc == IF s > e.m THEN e.acc + 1 ELSE IF s < e.m THEN e.acc - 1 ELSE e.acc IN
  IF acc > AccLimit THEN Estimate(e.m + 1)
  ELSE IF acc < -AccLimit THEN Estimate(e.m - 1) ELSE [e EXCEPT !.acc = acc]

Followed(c, s) ==
  [c EXCEPT !.q25 = IF s < c.median.m THEN Update(@, s) ELSE @,
            !.q75 = IF s > c.median.m THEN Update(@, s) ELSE @,
            !.median = Update(@, s)]

PlainFilter(c) == Signed(FilterSum(c, NTAPS))
PlainOver(c) == PlainFilter(c) > Factor * Distance(c) * multiplier

PlainHit(c, over) ==
  IF over THEN [c EXCEPT !.charge = Signed(Smaller(@ + (PlainFilter(c) \div multiplier), Largest)),
                         !.tover = Signed(@ + 1), !.over = TRUE]
  ELSE IF c.over THEN [c EXCEPT !.charge = 0, !.tover = 0, !.over = FALSE] ELSE c

\* the lane after a sample, and the hit that ended with it
PlainStep(c, s) ==
  LET f == Followed(c, s) IN [PlainHit(f, PlainOver(f)) EXCEPT !.prev[Slot] = Clean(f, s)]
PlainHits(c, l, s) ==
  LET f == Followed(c, s) IN
  IF c.over /\ ~PlainOver(f)
    THEN {[lane |-> l, end |-> itime, charge |-> c.charge, tover |-> c.tover]} ELSE {}
-----------------------------------------------------------------------------
(* The code, all lanes of an element. *)

\* frugal_accum_update_avx2() adds nothing to lanes that are masked out
Masked(e, s, mask) ==
  LET toAdd == IF s > e.m THEN 1 ELSE IF s = e.m THEN 0 ELSE -1
      acc == e.acc + (IF mask THEN toAdd ELSE 0)
      isGt == acc > AccLimit
      isLt == -acc > AccLimit IN
  [m |-> e.m + (IF ~mask THEN 0 ELSE IF isLt THEN -1 ELSE IF isGt THEN 1 ELSE 0),
   acc |-> IF mask /\ (isLt \/ isGt) THEN 0 ELSE acc]

FollowedAll(r) ==
  [l \in Lane |->
     LET c == avx[l] s == r[l] IN
     [c EXCEPT !.q25 = Masked(@, s, s < c.median.m), !.q75 = Masked(@, s, s > c.median.m),
               !.median = Masked(@, s, TRUE)]]

Clamp(d) == Smaller(d, sigmaMax)

\* the product is one of elements, not of lanes: what leaves a lane goes into the next
Thresholds(d) ==
  LET Element == MapThenSumSet(LAMBDA l : (d[l] % (2^Width)) * 2^(Width * l), Lane)
      product == (Element * multiplier * Factor) % (2^(Width * Lanes)) IN
  [l \in Lane |-> Signed(product \div 2^(Width * l))]

SevenTaps == NTAPS - 1                         \* the last one, 0, is left out
Filters(cs) == [l \in Lane |-> Signed(FilterSum(cs[l], SevenTaps))]

\* over the threshold: charge and time are added in those lanes
Charged(cs, filt, over) ==
  [l \in Lane |->
     [cs[l] EXCEPT !.charge = Saturated(@ + (IF over[l] THEN filt[l] \div multiplier ELSE 0)),
                   !.tover = Saturated(@ + (IF over[l] THEN 1 ELSE 0))]]

Reset(c) == [c EXCEPT !.charge = 0, !.tover = 0]

\* a row is written when a hit ends in any lane; charges of other lanes are masked out
Row(cs, left) ==
  [time |-> itime, charge |-> [l \in Lane |-> IF left[l] THEN cs[l].charge ELSE 0],
   tover |-> [l \in Lane |-> cs[l].tover]]

Overs(cs) ==
  LET th == Thresholds([l \in Lane |-> Clamp(Distance(cs[l]))]) IN
  [l \in Lane |-> Filters(cs)[l] > th[l]]
-----------------------------------------------------------------------------
(* One sample of every lane. *)

Sample(r) ==
  LET cs == FollowedAll(r)
      over == Overs(cs)
      added == Charged(cs, Filters(cs), over)
      left == [l \in Lane |-> avx[l].over /\ ~over[l]] IN
  /\ itime < FramesInMsg /\ itime' = itime + 1
  /\ Tick = 0 => \A l \in Lane : r[l] = avx[l].median.m
  /\ rows' = IF \E l \in Lane : left[l] THEN Append(rows, Row(added, left)) ELSE rows
  /\ avx' = [l \in Lane |-> [(IF left[l] THEN Reset(added[l]) ELSE added[l])
                               EXCEPT !.over = over[l], !.prev[Slot] = Clean(cs[l], r[l])]]
  /\ naive' = [l \in Lane |-> PlainStep(naive[l], r[l])]
  /\ plain' = plain \cup UNION {PlainHits(naive[l], l, r[l]) : l \in Lane}
  /\ above' = [l \in Lane |->
       IF FilterSum(cs[l], NTAPS) > Factor * Distance(cs[l]) * multiplier
       THEN above[l] \cup {<<Tick, FilterSum(cs[l], NTAPS)>>} ELSE above[l]]
  /\ clamped' = (clamped \/ \E l \in Lane : Distance(cs[l]) > sigmaMax)
  /\ wrapped' = (wrapped \/ \E l \in Lane : FilterSum(cs[l], NTAPS) # Filters(cs)[l])
  /\ UNCHANGED <<message, made>>

\* the wire's lane is that of the charge; a lane without charge has no hit
ReadBack ==
  {h \in UNION {{[lane |-> l, end |-> rows[i].time, charge |-> rows[i].charge[l],
                  tover |-> rows[i].tover[l]] : l \in Lane} : i \in DOMAIN rows} : h.charge # 0}

Stamp == (message - 1) * FramesInMsg * ClocksPerTick     \* of the message's first frame
EndStart(h) == Stamp + ClocksPerTick * h.end   \* variant: the time of the hit's end
HitStart(h) == Stamp + ClocksPerTick * (h.end - h.tover)

\* addHitsToQueue()
Primitives ==
  {[lane |-> h.lane, start |-> HitStart(h), span |-> ClocksPerTick * h.tover,
    charge |-> h.charge] : h \in ReadBack}

NextMessage ==
  /\ itime = FramesInMsg /\ message < MaxHitMsgs
  /\ message' = message + 1 /\ itime' = 0 /\ rows' = <<>> /\ plain' = {}
  /\ made' = made \cup Primitives
  /\ UNCHANGED <<avx, naive, above, clamped, wrapped>>

HitNext == (\E r \in Registers : Sample(r)) \/ NextMessage

HitSpec == HitInit /\ [][HitNext]_hitVars
-----------------------------------------------------------------------------
(* Properties. *)

LaneState == [median : [m : Int, acc : Int], q25 : [m : Int, acc : Int], q75 : [m : Int, acc : Int],
           prev : [0..(NTAPS - 1) -> Int], over : BOOLEAN, charge : Int, tover : Int]

(* Every variable has its type; what is kept fits into a lane. *)
HitTypeOK ==
  /\ avx \in [Lane -> LaneState] /\ naive \in [Lane -> LaneState]
  /\ itime \in 0..FramesInMsg /\ message \in 0..MaxHitMsgs
  /\ \A l \in Lane : \A c \in {avx[l], naive[l]} : \A x \in {c.median, c.q25, c.q75} :
       x.m = Signed(x.m) /\ x.acc \in -AccLimit..AccLimit
  /\ clamped \in BOOLEAN /\ wrapped \in BOOLEAN

(* The quartiles never cross, so that the product of elements that makes the *)
(* thresholds carries nothing from one lane into the next.                   *)
QuartilesInOrder == \A l \in Lane : Distance(avx[l]) >= 0 /\ Distance(naive[l]) >= 0

(* The test that compares both versions: message after message they find the *)
(* same hits, also those that began in an earlier message, as long as no     *)
(* threshold had to be clamped, but for hits without charge.                 *)
HitsAgree == clamped \/ ReadBack = {h \in plain : h.charge # 0}

\* a longest run of times above the threshold, before the last one
IsRun(l, a, b) ==
  LET times == {x[1] : x \in above[l]} IN
  a..(b - 1) \subseteq times /\ (a - 1) \notin times /\ b \notin times

\* what should be made of a lane
RunsOf(l, last) ==
  {[lane |-> l, start |-> ab[1] * ClocksPerTick, span |-> (ab[2] - ab[1]) * ClocksPerTick,
    charge |-> Saturated(MapThenSumSet(LAMBDA x : x[2] \div multiplier,
                                       {x \in above[l] : x[1] \in ab[1]..(ab[2] - 1)}))] :
     ab \in {ab \in (0..last) \X (0..last) : ab[1] < ab[2] /\ IsRun(l, ab[1], ab[2])}}

(* The primitives made are the times in which the exact filtered samples of  *)
(* a lane are over the threshold, with their charge, each once, wherever the *)
(* boundaries of messages lie; only those of charge 0 are left out. This as  *)
(* long as no threshold was clamped and every filtered sample fitted into    *)
(* its lane: a sample far below the pedestal does not, and makes hits that   *)
(* are none.                                                                 *)
SpansTrue ==
  clamped \/ wrapped \/
    made = {p \in UNION {RunsOf(l, (message - 1) * FramesInMsg - 1) : l \in Lane} : p.charge # 0}

(* Both versions find the same hits, and these are the times over the        *)
(* threshold, wherever messages end.                                         *)
HitsTrue == HitsAgree /\ SpansTrue
=============================================================================
