---------------------------- MODULE FelixReorder ----------------------------
(***************************************************************************)
(* The reordering of FELIX frames. The frames of a window come in          *)
(* messages, interleaved by channel; the fragment has the samples of each  *)
(* channel together, then a bitfield of the frames whose headers are not   *)
(* what frame 0 lets expect, then the headers of frame 0 and of those. One *)
(* facility, with one count of such frames, serves every link.             *)
(*                                                                         *)
(* A sample is three nibbles. Four segments of a frame, of twelve bytes    *)
(* and eight channels each, are done alike wherever they are: they stand   *)
(* for all of its data.                                                    *)
(***************************************************************************)
EXTENDS Integers, Sequences, FiniteSets

CONSTANTS
  Links,           \* links whose windows are reordered
  NumFrames,       \* frames of a window
  FramesPerMsg,    \* frames of a message
  HeaderBytes      \* bytes of the headers of one frame (80)

ASSUME ReorderAssumption ==
  /\ {NumFrames, FramesPerMsg, HeaderBytes} \subseteq Nat \ {0} /\ NumFrames % FramesPerMsg = 0

VARIABLES
  avx,          \* the machine has AVX2, and the configuration lets it be used
  deviating,    \* of each link, the frames whose headers are not as expected
  step,         \* of each link: idle, headers, count, data, message or done
  frame,        \* of each link: the frame in hand
  numFaulty,    \* m_num_faulty_frames, of the facility
  bitfield,     \* of each link: the frames whose bit is set
  headersAt,    \* of each link: the frame whose headers are at each place
  samples,      \* of each link: the nibbles at each row of each frame done
  finalSize,    \* of each link
  crossed       \* history: another link used the facility at the same time

reorderVars == <<avx, deviating, step, frame, numFaulty, bitfield, headersAt, samples, finalSize,
                 crossed>>

Frames == 0 .. NumFrames - 1
Places == 0 .. Cardinality(Links) * NumFrames
Rows == 0..31
SegmentBytes == 0..11

ReorderInit ==
  /\ avx \in BOOLEAN /\ deviating \in [Links -> SUBSET (Frames \ {0})]
  /\ step = [l \in Links |-> "idle"] /\ frame = [l \in Links |-> 0] /\ numFaulty = 0
  /\ bitfield = [l \in Links |-> {}] /\ headersAt = [l \in Links |-> [p \in Places |-> -1]]
  /\ samples = [l \in Links |-> <<>>] /\ finalSize = [l \in Links |-> 0]
  /\ crossed = [l \in Links |-> FALSE]
-----------------------------------------------------------------------------
(* Where the samples go. *)

\* WIBFrame: the bytes of a segment are those of two ADCs in turn, and each ADC has four
\* samples there; of the eight channels of an ADC four are in one segment, four in the next
Byte(seg, p) ==
  [j \in 1..2 |-> [seg |-> seg, adc |-> p % 2, nibble |-> 2 * (p \div 2) + j - 1]]
Channel(ch) ==
  [j \in 1..3 |-> [seg |-> 2 * (ch \div 16) + ((ch % 8) \div 4), adc |-> (ch \div 8) % 2,
                   nibble |-> 3 * (ch % 4) + j - 1]]

\* the baseline copies channel by channel
Baseline == [row \in Rows |-> Channel(row)]

\* the byte positions p0 of the first and the third sample of an ADC (p1 is the next but
\* one), and of the second and the fourth, which begin in the middle of a byte
Even == <<0, 6>>
Odd == <<2, 8>>
\* lane i of the registers, the lowest first: two samples of segment 0, of segment 1, the
\* same of the other ADC, and all that of segments 2 and 3
LaneSeg(i) == 2 * (i \div 8) + ((i \div 2) % 2)
LaneAdc(i) == (i \div 4) % 2
LaneWord(positions, i) ==
  LET p0 == positions[1 + (i % 2)] + LaneAdc(i)
  IN  Byte(LaneSeg(i), p0) \o Byte(LaneSeg(i), p0 + 2)

\* one register is masked, the other shifted by a nibble first; their lanes go to the rows
\* in turn
Vectorised == [row \in Rows |-> LET i == row \div 2 IN
                 IF row % 2 = 0 THEN SubSeq(LaneWord(Even, i), 1, 3)
                                ELSE SubSeq(LaneWord(Odd, i), 2, 4)]

Reordered == IF avx THEN Vectorised ELSE Baseline
-----------------------------------------------------------------------------
(* A window of a link. *)

Busy == {l \in Links : step[l] \notin {"idle", "done"}}

ReorderStart(l) ==
  /\ step[l] = "idle" /\ step' = [step EXCEPT ![l] = "headers"] /\ numFaulty' = 0
  /\ crossed' = [k \in Links |-> crossed[k] \/ (Busy # {} /\ k \in Busy \cup {l})]
  /\ UNCHANGED <<avx, deviating, frame, bitfield, headersAt, samples, finalSize>>

\* the headers of frame 0 are kept and the bits cleared, those of a later frame are compared,
\* and kept if they differ
HandleHeaders(l) ==
  /\ step[l] = "headers"
  /\ IF frame[l] = 0
       THEN /\ bitfield' = [bitfield EXCEPT ![l] = {}]
            /\ headersAt' = [headersAt EXCEPT ![l][0] = 0]
            /\ step' = [step EXCEPT ![l] = "data"]
     ELSE IF frame[l] \in deviating[l]
       THEN /\ headersAt' = [headersAt EXCEPT ![l][numFaulty + 1] = frame[l]]
            /\ step' = [step EXCEPT ![l] = "count"] /\ UNCHANGED bitfield
     ELSE step' = [step EXCEPT ![l] = "data"] /\ UNCHANGED <<bitfield, headersAt>>
  /\ UNCHANGED <<avx, deviating, frame, numFaulty, samples, finalSize, crossed>>

\* the count is read again, or as the place was found, whatever another thread made of it
CountFaulty(l) ==
  /\ step[l] = "count" /\ step' = [step EXCEPT ![l] = "data"]
  /\ numFaulty' \in {numFaulty + 1} \cup {p \in Places : headersAt[l][p] = frame[l]}
  /\ bitfield' = [bitfield EXCEPT ![l] = @ \cup {frame[l]}]
  /\ UNCHANGED <<avx, deviating, frame, headersAt, samples, finalSize, crossed>>

ReorderData(l) ==
  /\ step[l] = "data" /\ samples' = [samples EXCEPT ![l] = Append(@, Reordered)]
  /\ frame' = [frame EXCEPT ![l] = @ + 1]
  /\ step' = [step EXCEPT ![l] = IF frame'[l] % FramesPerMsg = 0 THEN "message" ELSE "headers"]
  /\ UNCHANGED <<avx, deviating, numFaulty, bitfield, headersAt, finalSize, crossed>>

\* the bytes past the samples: the bitfield, the headers of frame 0 and of n others
ReorderedSize(n) == (NumFrames + 7) \div 8 + HeaderBytes * (n + 1)
\* those of the fragment, which has room for the headers of all frames: of the bytes of
\* m_timeWindowByteSizeOut the samples are left out here as well
Room == HeaderBytes * NumFrames + (NumFrames + 7) \div 8

\* the next message of the queue, or the size of the whole
NextMessage(l) ==
  /\ step[l] = "message"
  /\ IF frame[l] < NumFrames
       THEN step' = [step EXCEPT ![l] = "headers"] /\ UNCHANGED finalSize
       ELSE /\ step' = [step EXCEPT ![l] = "done"]
            /\ finalSize' = [finalSize EXCEPT ![l] = ReorderedSize(numFaulty)]
  /\ UNCHANGED <<avx, deviating, frame, numFaulty, bitfield, headersAt, samples, crossed>>

ReorderNext ==
  \E l \in Links : ReorderStart(l) \/ HandleHeaders(l) \/ CountFaulty(l) \/ ReorderData(l)
                   \/ NextMessage(l)

ReorderSpec == ReorderInit /\ [][ReorderNext]_reorderVars
-----------------------------------------------------------------------------
(* Properties. *)

\* the faulty frames of all links that may be under way together
Deviating == {<<l, f>> \in Links \X Frames : f \in deviating[l]}

\* the headers that a link has written are within its fragment
HeadersFit(l) == \A p \in Places : headersAt[l][p] # -1 => ReorderedSize(p) <= Room

(* The samples of a fragment are in the order of channels, with AVX2 as      *)
(* without, and the bit of a frame is set when its headers deviate, whoever  *)
(* else uses the facility. The headers kept are those of frame 0 and of the  *)
(* deviating frames in turn, and the size counts just them, when no other    *)
(* link used the facility at the same time or no link had such a frame. What *)
(* is written, and the size, stay within the room of the fragment, "not the  *)
(* actual size, but the maximum size", unless links that ran at the same     *)
(* time have as many deviating frames between them as a window has frames.   *)
ReorderedRight ==
  \A l \in Links :
    /\ (crossed[l] /\ Cardinality(Deviating) >= NumFrames) \/ (HeadersFit(l) /\ finalSize[l] <= Room)
    /\ step[l] = "done" =>
         /\ samples[l] = [fr \in 1..NumFrames |-> Baseline]
         /\ bitfield[l] = deviating[l]
         /\ ~crossed[l] \/ Deviating = {} =>
              LET n == Cardinality(deviating[l]) IN
              /\ finalSize[l] = ReorderedSize(n)
              /\ {headersAt[l][p] : p \in 0..n} = {0} \cup deviating[l]
              /\ \A p \in 1..n : headersAt[l][p] > headersAt[l][p - 1]
=============================================================================
