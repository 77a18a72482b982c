----------------------------- MODULE CTB_proofs ------------------------------
(***************************************************************************)
(* Proofs about CTB, for every size of the buffers, every group size and   *)
(* every run: the types, the bookkeeping of the TS word counter, the line  *)
(* of words from the board to artdaq with the stamps of its fragments, and *)
(* the reader as an OrderedDelivery of the words of one run.               *)
(*                                                                         *)
(* The parts: the counter (TypeOK, TSCountInv); induction over sets of     *)
(* numbers and over sequences; the operators on sequences that the model   *)
(* is built from (Among, WordsOf, LastTime, StampOf); the invariant SInv   *)
(* with one lemma per conjunct and step; the properties; the refinement.   *)
(***************************************************************************)
EXTENDS CTB, FiniteSetTheorems, SequenceTheorems, WellFoundedInduction, NaturalsInduction, TLAPS

(***************************************************************************)
(* Counting the TS words of a queue.                                       *)
(***************************************************************************)

\* The indices of TS words are a finite set no larger than the queue.
LEMMA CountTSType ==
  ASSUME NEW s, Len(s) \in Nat
  PROVE  /\ IsFiniteSet(TSIndices(s))
         /\ CountTS(s) \in 0..Len(s)
<1>1. IsFiniteSet(1..Len(s)) /\ Cardinality(1..Len(s)) = Len(s)
  <2>1. 1 \in Int /\ Len(s) \in Int
    OBVIOUS
  <2>2. IsFiniteSet(1..Len(s)) /\ Cardinality(1..Len(s)) = (IF 1 > Len(s) THEN 0 ELSE Len(s) - 1 + 1)
    BY ONLY <2>1, FS_Interval, Zenon
  <2>3. QED
    BY <2>2
<1>2. TSIndices(s) \subseteq 1..Len(s)
  BY DEF TSIndices
<1>3. QED
  BY <1>1, <1>2, FS_Subset, FS_CardinalityType DEF CountTS

\* One more word in the buffer leaves a bound on the words to come a bound.
LEMMA RoomGrows ==
  ASSUME NEW a \in Nat, NEW b \in Nat, NEW n \in Nat, n <= a + b
  PROVE  n <= a + (b + 1)
OBVIOUS

\* No TS word is in an empty queue.
LEMMA CountTSEmpty == CountTS(<<>>) = 0
<1>1. TSIndices(<<>>) = {}
  BY DEF TSIndices
<1>2. QED
  BY <1>1, FS_EmptySet DEF CountTS

\* The count of a single word.
LEMMA CountTSOne ==
  ASSUME NEW w
  PROVE  CountTS(<<w>>) = IF IsTSWord(w) THEN 1 ELSE 0
<1>1. TSIndices(<<w>>) = IF IsTSWord(w) THEN {1} ELSE {}
  BY DEF TSIndices
<1>2. QED
  BY <1>1, FS_EmptySet, FS_Singleton DEF CountTS

\* A push adds the pushed word to the count.
LEMMA CountTSAppend ==
  ASSUME NEW S, NEW s \in Seq(S), NEW w \in S
  PROVE  CountTS(Append(s, w)) = CountTS(s) + (IF IsTSWord(w) THEN 1 ELSE 0)
<1> DEFINE n == Len(s)
           t == Append(s, w)
<1>1. n \in Nat /\ Len(t) = n + 1 /\ t[n + 1] = w /\ \A i \in 1..n : t[i] = s[i]
  BY AppendProperties, LenProperties
<1>2. TSIndices(t) = TSIndices(s) \cup (IF IsTSWord(w) THEN {n + 1} ELSE {})
  BY <1>1 DEF TSIndices
<1>3. n + 1 \notin TSIndices(s)
  BY <1>1 DEF TSIndices
<1>4. IsFiniteSet(TSIndices(s)) /\ Cardinality(TSIndices(s)) \in Nat
  BY <1>1, CountTSType, FS_CardinalityType
<1>5. CASE IsTSWord(w)
  <2>1. Cardinality(TSIndices(s) \cup {n + 1}) = Cardinality(TSIndices(s)) + 1
    BY <1>3, <1>4, FS_AddElement
  <2>2. QED
    BY <1>2, <1>5, <2>1 DEF CountTS
<1>6. CASE ~IsTSWord(w)
  <2>1. TSIndices(t) = TSIndices(s)
    BY <1>2, <1>6
  <2>2. QED
    BY <1>4, <1>6, <2>1 DEF CountTS
<1>7. QED
  BY <1>5, <1>6

\* A pop takes the popped word from the count.
LEMMA CountTSTail ==
  ASSUME NEW S, NEW s \in Seq(S), s # <<>>
  PROVE  CountTS(s) = CountTS(Tail(s)) + (IF IsTSWord(Head(s)) THEN 1 ELSE 0)
<1> DEFINE t == Tail(s)
           A == TSIndices(t)
           B == TSIndices(s) \ {1}
           f == [i \in A |-> i + 1]
<1>1. /\ Len(s) \in Nat \ {0} /\ Len(t) = Len(s) - 1 /\ Head(s) = s[1]
      /\ \A i \in 1..Len(t) : t[i] = s[i + 1]
  BY HeadTailProperties, LenProperties
<1>2. IsFiniteSet(A) /\ Cardinality(A) \in Nat
  BY <1>1, CountTSType, FS_CardinalityType
<1>3. f \in Bijection(A, B)
  <2>1. f \in [A -> B]
    BY <1>1 DEF TSIndices
  <2>2. \A i, j \in A : f[i] = f[j] => i = j
    BY <1>1 DEF TSIndices
  <2>3. \A k \in B : \E i \in A : f[i] = k
    <3> TAKE k \in B
    <3>1. k \in 2..Len(s) /\ IsTSWord(s[k])
      BY <1>1 DEF TSIndices
    <3>2. k - 1 \in 1..Len(t) /\ t[k - 1] = s[k]
      BY <1>1, <3>1
    <3>3. k - 1 \in A
      <4>1. IsTSWord(t[k - 1])
        BY <3>1, <3>2 DEF IsTSWord
      <4>2. QED
        BY <3>2, <4>1 DEF TSIndices
    <3>4. f[k - 1] = k
      BY <3>1, <3>3
    <3>5. WITNESS k - 1 \in A
    <3>6. QED
      BY <3>4
  <2>4. QED
    BY <2>1, <2>2, <2>3 DEF Bijection, Injection, Surjection, IsInjective
<1>4. IsFiniteSet(B) /\ Cardinality(B) = Cardinality(A)
  BY <1>2, <1>3, FS_Bijection DEF ExistsBijection
<1>5. CASE IsTSWord(Head(s))
  <2>1. TSIndices(s) = B \cup {1} /\ 1 \notin B
    BY <1>1, <1>5 DEF TSIndices
  <2>2. Cardinality(TSIndices(s)) = Cardinality(B) + 1
    BY <1>4, <2>1, FS_AddElement
  <2>3. QED
    BY <1>4, <1>5, <2>2 DEF CountTS
<1>6. CASE ~IsTSWord(Head(s))
  <2>1. TSIndices(s) = B
    BY <1>1, <1>6 DEF TSIndices
  <2>2. CountTS(s) = CountTS(t) /\ CountTS(t) \in Nat
    BY <1>2, <1>4, <2>1 DEF CountTS
  <2>3. QED
    BY <1>6, <2>2
<1>7. QED
  BY <1>5, <1>6

(***************************************************************************)
(* The inductive invariant. Beside the types it says where the threads are *)
(* relative to each other: the receiver does not run while start() resets  *)
(* its state, it holds a word exactly when it pushes, a packet is not read *)
(* past its end, a fragment begun never asks for more words than the queue *)
(* holds, and a TS word is only dropped on the receiver's way out.         *)
(***************************************************************************)
PhaseInv ==
  /\ cpc \in {"stopped", "resetWords", "zeroTS", "genJoin"} => rpc = "idle"
  /\ cpc # "stopped" => run >= 1

ReceiverInv ==
  /\ rpc = "push" => hand \in Word
  /\ rpc = "word" => left >= 1
  /\ dropped \in {0, 1}
  /\ dropped = 1 => rpc \in {"close", "done", "idle"}
  /\ cpc = "zeroTS" /\ ~startRace => wordBuf = <<>>

PopInv ==
  gpc = "pop" => /\ Len(cur.words) < nWords
                 /\ ~startRace => nWords <= Len(cur.words) + Len(wordBuf)

IInv == TypeOK /\ PhaseInv /\ ReceiverInv /\ PopInv /\ TSCountMatches

USE DEF control, receiver, builder, shared

\* The types of the numeric constants, one by one.
LEMMA Constants ==
  /\ WordCap \in Nat \ {0} /\ FragCap \in Nat \ {0} /\ PacketMax \in Nat \ {0}
  /\ MaxWords \in Nat /\ MaxRuns \in Nat
  /\ UIntMax \in Nat /\ UIntMax >= WordCap + 2
  /\ ZeroTimes \subseteq BOOLEAN
  BY CTBAssumption

\* The clock values of words are timestamps.
LEMMA TimeFacts == NoTime \in Time /\ \A w \in Word \cup {NoWord} : TimeOf(w) \in Time
  BY Constants DEF NoTime, Time, TimeOf, Word, NoWord

\* A queue reset under a running pop holds old words, and no more than its capacity.
LEMMA ResurrectedType ==
  ASSUME wordBuf \in Seq(Word), wordBuf # <<>>
  PROVE  \A q \in Resurrected : q \in Seq(Word) /\ Len(q) \in 1..WordCap
<1> SUFFICES ASSUME NEW q \in Resurrected PROVE q \in Seq(Word) /\ Len(q) \in 1..WordCap
  OBVIOUS
<1>1. PICK old \in BoundedSeq(ToSet(wordBuf), WordCap - 1) : q = <<Head(wordBuf)>> \o old
  BY DEF Resurrected
<1>2. WordCap \in Nat \ {0}
  BY Constants
<1>3. PICK m \in 0..(WordCap - 1) : old \in [1..m -> ToSet(wordBuf)]
  BY <1>1 DEF BoundedSeq, SeqOf
<1>4. ToSet(wordBuf) \subseteq Word /\ Head(wordBuf) \in Word
  BY HeadTailProperties, ElementOfSeq DEF ToSet
<1>5. m \in Nat /\ old \in [1..m -> Word]
  BY <1>2, <1>3, <1>4
<1>6. old \in Seq(Word) /\ Len(old) = m
  BY <1>5, LenProperties, SeqDef
<1>7. <<Head(wordBuf)>> \in Seq(Word) /\ Len(<<Head(wordBuf)>>) = 1
  BY <1>4
<1>8. q \in Seq(Word) /\ Len(q) = 1 + m
  BY <1>1, <1>6, <1>7, ConcatProperties
<1>9. QED
  BY <1>2, <1>3, <1>8

\* The initial state satisfies the invariant.
LEMMA InitIInv == Init => IInv
<1> SUFFICES ASSUME Init PROVE IInv
  OBVIOUS
<1>1. ControlTypes
  <2>1. 0 \in 0..MaxRuns
    BY Constants
  <2>2. QED
    BY <2>1 DEF Init, ControlTypes
<1>2. ReceiverTypes
  <2>1. wordBuf = <<>> /\ rcvd = <<>> /\ left = 0 /\ nTS = 0
    BY DEF Init
  <2>2. 0 \in 0..PacketMax /\ 0 \in 0..UIntMax /\ 0 <= WordCap /\ 0 <= MaxWords
    BY Constants
  <2>3. <<>> \in Seq(Word) /\ Len(<<>>) = 0
    BY EmptySeq
  <2>4. QED
    BY <2>1, <2>2, <2>3 DEF Init, ReceiverTypes
<1>3. BuilderTypes
  <2>1. cur.words = <<>> /\ cur \in Fragment /\ lastTS \in Time
    BY TimeFacts, EmptySeq DEF Init, Fragment
  <2>2. 0 \in 0..WordCap /\ 0 <= FragCap
    BY Constants
  <2>3. fragBuf = <<>> /\ nWords = 0
    BY DEF Init
  <2>4. <<>> \in Seq(Fragment) /\ Len(<<>>) = 0
    BY EmptySeq
  <2>5. Len(cur.words) <= nWords /\ nWords \in 0..WordCap /\ Len(fragBuf) <= FragCap
    BY <2>1, <2>2, <2>3, <2>4
  <2>6. QED
    BY <2>1, <2>3, <2>4, <2>5 DEF Init, BuilderTypes
<1>4. PhaseInv /\ ReceiverInv /\ PopInv
  BY DEF Init, PhaseInv, ReceiverInv, PopInv
<1>5. TSCountMatches
  BY CountTSEmpty DEF Init, TSCountMatches, InHand
<1>6. QED
  BY <1>1, <1>2, <1>3, <1>4, <1>5 DEF IInv, TypeOK

\* Every step keeps the types of the control state and the phases of start() and stop().
LEMMA StepControl ==
  ASSUME ControlTypes, PhaseInv, Next
  PROVE  (ControlTypes /\ PhaseInv)'
<1>1. CASE Start
  <2>1. run' = run + 1 /\ run < MaxRuns /\ MaxRuns \in Nat
    BY <1>1, Constants DEF Start
  <2>2. run' \in 1..MaxRuns
    BY <2>1 DEF ControlTypes
  <2>3. run' \in 0..MaxRuns /\ run' >= 1
    BY <2>2, Constants
  <2>4. cpc' = "resetWords" /\ shouldStop' = FALSE /\ UNCHANGED <<rpc, thrown, ctrlRunning, conn, startRace>>
    BY <1>1 DEF Start
  <2>5. ControlTypes'
    BY <2>3, <2>4 DEF ControlTypes
  <2>6. PhaseInv'
    BY <1>1, <2>3, <2>4 DEF Start, PhaseInv
  <2>7. QED
    BY <2>5, <2>6
<1>2. CASE ResetWords
  <2>1. startRace' \in BOOLEAN
    BY <1>2 DEF ResetWords, ControlTypes
  <2>2. QED
    BY <1>2, <2>1 DEF ResetWords, ControlTypes, PhaseInv
<1>3. CASE ZeroTS
  BY <1>3 DEF ZeroTS, Step, ControlTypes, PhaseInv
<1>4. CASE SendStart
  BY <1>4 DEF SendStart, Step, ControlTypes, PhaseInv
<1>5. CASE StopGenerator
  BY <1>5 DEF StopGenerator, Step, ControlTypes, PhaseInv
<1>6. CASE SendStop
  BY <1>6 DEF SendStop, Step, ControlTypes, PhaseInv
<1>7. CASE StopReceiver
  BY <1>7 DEF StopReceiver, Step, ControlTypes, PhaseInv
<1>8. CASE JoinReceiver
  BY <1>8 DEF JoinReceiver, Step, ControlTypes, PhaseInv
<1>9. CASE JoinGenerator
  BY <1>9 DEF JoinGenerator, Step, ControlTypes, PhaseInv
<1>10. CASE GetNext
  BY <1>10 DEF GetNext, Step, ControlTypes, PhaseInv
<1>11. CASE GetNextError
  BY <1>11 DEF GetNextError, Step, ControlTypes, PhaseInv
<1>12. CASE StopCommand
  BY <1>12 DEF StopCommand, Step, ControlTypes, PhaseInv
<1>13. CASE Accept
  BY <1>13 DEF Accept, Step, ControlTypes, PhaseInv
<1>14. CASE Loop
  BY <1>14 DEF Loop, Step, ControlTypes, PhaseInv
<1>15. CASE ReadHeader
  BY <1>15 DEF ReadHeader, Step, ControlTypes, PhaseInv
<1>16. CASE ReadWord
  BY <1>16 DEF ReadWord, Step, ControlTypes, PhaseInv
<1>17. CASE ReadEOF
  BY <1>17 DEF ReadEOF, Step, ControlTypes, PhaseInv
<1>18. CASE PushWord
  BY <1>18 DEF PushWord, Step, ControlTypes, PhaseInv
<1>19. CASE DropWord
  BY <1>19 DEF DropWord, Step, ControlTypes, PhaseInv
<1>20. CASE Close
  BY <1>20 DEF Close, Step, ControlTypes, PhaseInv
<1>21. CASE BoardCloses
  BY <1>21 DEF BoardCloses, Step, ControlTypes, PhaseInv
<1>22. CASE CheckStop
  BY <1>22 DEF CheckStop, Step, ControlTypes, PhaseInv
<1>23. CASE BeginFragment
  BY <1>23 DEF BeginFragment, Step, ControlTypes, PhaseInv
<1>24. CASE PopWord
  BY <1>24 DEF PopWord, Step, ControlTypes, PhaseInv
<1>25. CASE PushFragment
  BY <1>25 DEF PushFragment, Step, ControlTypes, PhaseInv
<1>26. QED
  BY <1>1, <1>2, <1>3, <1>4, <1>5, <1>6, <1>7, <1>8, <1>9, <1>10, <1>11, <1>12, <1>13,
     <1>14, <1>15, <1>16, <1>17, <1>18, <1>19, <1>20, <1>21, <1>22, <1>23, <1>24, <1>25 DEF Next, Control, Reader, Receiver, Generator

\* Every step keeps the types of the receiver and its position.
LEMMA StepReceiver ==
  ASSUME ControlTypes, PhaseInv, ReceiverTypes, ReceiverInv, Next
  PROVE  (ReceiverTypes /\ ReceiverInv)'
<1>1. CASE Start
  <2>1. rcvd' \in Seq(Word) /\ Len(rcvd') = 0 /\ MaxWords \in Nat
    BY <1>1, EmptySeq, Constants DEF Start
  <2>2. QED
    BY <1>1, <2>1 DEF Start, ReceiverTypes, ReceiverInv
<1>2. CASE ResetWords
  <2>1. wordBuf' \in Seq(Word) /\ Len(wordBuf') <= WordCap
    <3>1. CASE wordBuf' = <<>>
      BY <3>1, EmptySeq, Constants
    <3>2. CASE wordBuf # <<>> /\ wordBuf' \in Resurrected
      BY <3>2, ResurrectedType, Constants DEF ReceiverTypes
    <3>3. QED
      BY <1>2, <3>1, <3>2 DEF ResetWords
  <2>2. QED
    BY <1>2, <2>1 DEF ResetWords, ReceiverTypes, ReceiverInv
<1>3. CASE ZeroTS
  BY <1>3, Constants DEF ZeroTS, ReceiverTypes, ReceiverInv
<1>4. CASE SendStart
  BY <1>4 DEF SendStart, Step, ReceiverTypes, ReceiverInv
<1>5. CASE StopGenerator
  BY <1>5 DEF StopGenerator, Step, ReceiverTypes, ReceiverInv
<1>6. CASE SendStop
  BY <1>6 DEF SendStop, Step, ReceiverTypes, ReceiverInv
<1>7. CASE StopReceiver
  BY <1>7 DEF StopReceiver, Step, ReceiverTypes, ReceiverInv
<1>8. CASE JoinReceiver
  BY <1>8 DEF JoinReceiver, Step, ReceiverTypes, ReceiverInv
<1>9. CASE JoinGenerator
  BY <1>9 DEF JoinGenerator, Step, ReceiverTypes, ReceiverInv
<1>10. CASE GetNext
  BY <1>10 DEF GetNext, Step, ReceiverTypes, ReceiverInv
<1>11. CASE GetNextError
  BY <1>11 DEF GetNextError, Step, ReceiverTypes, ReceiverInv
<1>12. CASE StopCommand
  BY <1>12 DEF StopCommand, Step, ReceiverTypes, ReceiverInv
<1>13. CASE Accept
  BY <1>13 DEF Accept, Step, ReceiverTypes, ReceiverInv
<1>14. CASE Loop
  BY <1>14 DEF Loop, Step, ReceiverTypes, ReceiverInv
<1>15. CASE ReadHeader
  BY <1>15 DEF ReadHeader, Step, ReceiverTypes, ReceiverInv
<1>16. CASE ReadWord
  <2>1. PICK k \in Kinds, z \in BOOLEAN :
               LET w == [run |-> run, id |-> Len(rcvd) + 1, kind |-> k, zero |-> z]
               IN /\ hand' = w /\ rcvd' = Append(rcvd, w)
                  /\ nTS' = IF IsTSWord(w) THEN Inc(nTS) ELSE nTS
                  /\ rError' = (rError \/ IsFeedbackWord(w))
    BY <1>16, Constants DEF ReadWord
  <2>2. run \in 1..MaxRuns /\ Len(rcvd) + 1 \in 1..MaxWords
    BY <1>16, Constants DEF ReadWord, Step, PhaseInv, ControlTypes, ReceiverTypes
  <2>3. hand' \in Word
    BY <2>1, <2>2 DEF Word
  <2>4. rcvd' \in Seq(Word) /\ Len(rcvd') = Len(rcvd) + 1
    BY <2>1, <2>3, AppendProperties DEF ReceiverTypes
  <2>5. nTS' \in 0..UIntMax /\ rError' \in BOOLEAN
    BY <2>1, Constants DEF Inc, IsFeedbackWord, ReceiverTypes
  <2>6. left' \in 0..PacketMax
    BY <1>16, Constants DEF ReadWord, Step, ReceiverTypes, ReceiverInv
  <2>7. QED
    BY <1>16, <2>2, <2>3, <2>4, <2>5, <2>6 DEF ReadWord, Step, ReceiverTypes, ReceiverInv
<1>17. CASE ReadEOF
  BY <1>17 DEF ReadEOF, Step, ReceiverTypes, ReceiverInv
<1>18. CASE PushWord
  <2>1. hand \in Word
    BY <1>18 DEF PushWord, Step, ReceiverInv
  <2>2. wordBuf' \in Seq(Word) /\ Len(wordBuf') = Len(wordBuf) + 1
    BY <1>18, <2>1, AppendProperties DEF PushWord, ReceiverTypes
  <2>3. rpc' \in {"close", "word", "loop"} /\ (rpc' = "word" => left >= 1)
    BY <1>18 DEF PushWord, Step, AfterPush, ReceiverTypes
  <2>4. Len(wordBuf') <= WordCap
    BY <1>18, <2>2, Constants DEF PushWord, ReceiverTypes
  <2>5. ReceiverTypes'
    BY <1>18, <2>2, <2>3, <2>4 DEF PushWord, ReceiverTypes
  <2>6. cpc' # "zeroTS"
    BY <1>18 DEF PushWord, Step, PhaseInv
  <2>7. dropped' \in {0, 1} /\ dropped' # 1
    BY <1>18 DEF PushWord, Step, ReceiverInv
  <2>8. ReceiverInv'
    BY <1>18, <2>3, <2>6, <2>7 DEF PushWord, ReceiverInv
  <2>9. QED
    BY <2>5, <2>8
<1>19. CASE DropWord
  BY <1>19 DEF DropWord, Step, ReceiverTypes, ReceiverInv
<1>20. CASE Close
  BY <1>20 DEF Close, Step, ReceiverTypes, ReceiverInv
<1>21. CASE BoardCloses
  BY <1>21 DEF BoardCloses, Step, ReceiverTypes, ReceiverInv
<1>22. CASE CheckStop
  BY <1>22 DEF CheckStop, Step, ReceiverTypes, ReceiverInv
<1>23. CASE BeginFragment
  BY <1>23 DEF BeginFragment, Step, ReceiverTypes, ReceiverInv
<1>24. CASE PopWord
  <2>1. wordBuf' \in Seq(Word) /\ Len(wordBuf') <= Len(wordBuf)
    BY <1>24, HeadTailProperties DEF PopWord, ReceiverTypes
  <2>2. nTS' \in 0..UIntMax
    <3>1. nTS' = nTS \/ nTS' = Dec(nTS)
      BY <1>24 DEF PopWord
    <3>2. Dec(nTS) \in 0..UIntMax
      BY Constants DEF Dec, ReceiverTypes
    <3>3. QED
      BY <3>1, <3>2 DEF ReceiverTypes
  <2>3. Len(wordBuf') <= WordCap
    BY <2>1, Constants DEF ReceiverTypes
  <2>4. QED
    BY <1>24, <2>1, <2>2, <2>3 DEF PopWord, ReceiverTypes, ReceiverInv
<1>25. CASE PushFragment
  BY <1>25 DEF PushFragment, Step, ReceiverTypes, ReceiverInv
<1>26. QED
  BY <1>1, <1>2, <1>3, <1>4, <1>5, <1>6, <1>7, <1>8, <1>9, <1>10, <1>11, <1>12, <1>13,
     <1>14, <1>15, <1>16, <1>17, <1>18, <1>19, <1>20, <1>21, <1>22, <1>23, <1>24, <1>25 DEF Next, Control, Reader, Receiver, Generator

\* Every step keeps the types of the generator and its claim on the word queue.
LEMMA StepBuilder ==
  ASSUME ControlTypes, ReceiverTypes, BuilderTypes, PopInv, Next
  PROVE  (BuilderTypes /\ PopInv)'
<1>1. CASE Start
  BY <1>1 DEF Start, Step, BuilderTypes, PopInv
<1>2. CASE ResetWords
  BY <1>2 DEF ResetWords, ControlTypes, BuilderTypes, PopInv
<1>3. CASE ZeroTS
  BY <1>3 DEF ZeroTS, Step, BuilderTypes, PopInv
<1>4. CASE SendStart
  BY <1>4 DEF SendStart, Step, BuilderTypes, PopInv
<1>5. CASE StopGenerator
  BY <1>5 DEF StopGenerator, Step, BuilderTypes, PopInv
<1>6. CASE SendStop
  BY <1>6 DEF SendStop, Step, BuilderTypes, PopInv
<1>7. CASE StopReceiver
  BY <1>7 DEF StopReceiver, Step, BuilderTypes, PopInv
<1>8. CASE JoinReceiver
  BY <1>8 DEF JoinReceiver, Step, BuilderTypes, PopInv
<1>9. CASE JoinGenerator
  <2>1. fragBuf' \in Seq(Fragment) /\ Len(fragBuf') = 0
    BY <1>9, EmptySeq DEF JoinGenerator
  <2>2. QED
    BY <1>9, <2>1, Constants DEF JoinGenerator, BuilderTypes, PopInv
<1>10. CASE GetNext
  <2>1. fragBuf' \in Seq(Fragment) /\ Len(fragBuf') = 0
    BY <1>10, EmptySeq DEF GetNext
  <2>2. QED
    BY <1>10, <2>1, Constants DEF GetNext, BuilderTypes, PopInv
<1>11. CASE GetNextError
  BY <1>11 DEF GetNextError, Step, BuilderTypes, PopInv
<1>12. CASE StopCommand
  BY <1>12 DEF StopCommand, Step, BuilderTypes, PopInv
<1>13. CASE Accept
  BY <1>13 DEF Accept, Step, BuilderTypes, PopInv
<1>14. CASE Loop
  BY <1>14 DEF Loop, Step, BuilderTypes, PopInv
<1>15. CASE ReadHeader
  BY <1>15 DEF ReadHeader, Step, BuilderTypes, PopInv
<1>16. CASE ReadWord
  BY <1>16 DEF ReadWord, Step, BuilderTypes, PopInv
<1>17. CASE ReadEOF
  BY <1>17 DEF ReadEOF, Step, BuilderTypes, PopInv
<1>18. CASE PushWord
  <2>1. Len(wordBuf') = Len(wordBuf) + 1
    BY <1>18 DEF PushWord, ReceiverTypes
  <2>2. Len(wordBuf) \in Nat
    BY LenProperties DEF ReceiverTypes
  <2>3. BuilderTypes'
    BY <1>18 DEF PushWord, BuilderTypes
  <2>4. nWords \in Nat /\ Len(cur.words) \in Nat
    BY LenProperties, Constants DEF BuilderTypes, Fragment
  <2>5. PopInv'
    <3>1. UNCHANGED <<gpc, cur, nWords, startRace>>
      BY <1>18 DEF PushWord
    <3>2. Len(cur'.words) = Len(cur.words)
      BY <3>1
    <3>3. QED
      <4>1. gpc = "pop" /\ ~startRace => nWords' <= Len(cur'.words) + Len(wordBuf')
        <5>1. gpc = "pop" /\ ~startRace => nWords <= Len(cur.words) + Len(wordBuf)
          BY DEF PopInv
        <5>2. nWords <= Len(cur.words) + Len(wordBuf)
                => nWords <= Len(cur.words) + (Len(wordBuf) + 1)
          BY <2>2, <2>4, RoomGrows
        <5>3. nWords' = nWords /\ Len(cur'.words) + Len(wordBuf') = Len(cur.words) + (Len(wordBuf) + 1)
          BY <2>1, <3>1, <3>2
        <5>4. QED
          BY <5>1, <5>2, <5>3
      <4>2. QED
        BY <3>1, <3>2, <4>1 DEF PopInv
  <2>6. QED
    BY <2>3, <2>5
<1>19. CASE DropWord
  BY <1>19 DEF DropWord, Step, BuilderTypes, PopInv
<1>20. CASE Close
  BY <1>20 DEF Close, Step, BuilderTypes, PopInv
<1>21. CASE BoardCloses
  BY <1>21 DEF BoardCloses, Step, BuilderTypes, PopInv
<1>22. CASE CheckStop
  BY <1>22 DEF CheckStop, Step, BuilderTypes, PopInv
<1>23. CASE BeginFragment
  <2>1. cur'.words = <<>> /\ nWords' = Len(wordBuf) /\ Len(cur'.words) = 0
    BY <1>23 DEF BeginFragment
  <2>2. cur' \in Fragment
    BY <1>23, EmptySeq DEF BeginFragment, Fragment, BuilderTypes
  <2>3. Len(wordBuf) \in 0..WordCap /\ (wordBuf # <<>> => Len(wordBuf) > 0)
    BY EmptySeq, LenProperties, Constants DEF ReceiverTypes
  <2>4. BuilderTypes'
    BY <1>23, <2>1, <2>2, <2>3 DEF BeginFragment, BuilderTypes
  <2>5. PopInv'
    BY <1>23, <2>1, <2>3 DEF BeginFragment, PopInv
  <2>6. QED
    BY <2>4, <2>5
<1>24. CASE PopWord
  <2> DEFINE w == IF wordBuf = <<>> THEN temp ELSE Head(wordBuf)
             timed == CarriesTime(w)
  <2>1. w \in Word \cup {NoWord}
    BY HeadTailProperties DEF ReceiverTypes, BuilderTypes
  <2>2. TimeOf(w) \in Time
    BY <2>1, TimeFacts
  <2>3. /\ wordBuf' = IF wordBuf = <<>> THEN wordBuf ELSE Tail(wordBuf)
        /\ temp' = w /\ lastTS' = IF timed THEN TimeOf(w) ELSE lastTS
        /\ cur' = [words |-> Append(cur.words, w),
                   stamp |-> IF timed /\ cur.stamp = NoTime THEN TimeOf(w) ELSE cur.stamp]
        /\ gError' = (gError \/ IsFeedbackWord(w))
        /\ gpc' \in {"pop", "push"} /\ (gpc' = "pop" => Len(cur.words) + 1 # nWords)
        /\ nWords' = nWords /\ startRace' = startRace
    BY <1>24 DEF PopWord
  <2>4. Len(wordBuf') = IF wordBuf = <<>> THEN 0 ELSE Len(wordBuf) - 1
    BY <2>3, HeadTailProperties, EmptySeq DEF ReceiverTypes
  <2>5. /\ Append(cur.words, w) \in Seq(Word \cup {NoWord})
        /\ Len(Append(cur.words, w)) = Len(cur.words) + 1
    BY <2>1, AppendProperties DEF Fragment, BuilderTypes
  <2>6. cur' \in Fragment /\ Len(cur'.words) = Len(cur.words) + 1
    BY <2>2, <2>3, <2>5 DEF Fragment, BuilderTypes
  <2>7. gError' \in BOOLEAN /\ lastTS' \in Time
    BY <2>2, <2>3 DEF IsFeedbackWord, BuilderTypes
  <2>8. Len(cur.words) < nWords /\ Len(cur.words) \in Nat /\ nWords \in Nat
    BY <1>24, Constants DEF PopWord, PopInv, Fragment, BuilderTypes
  <2>9. BuilderTypes'
    BY <1>24, <2>1, <2>3, <2>6, <2>7, <2>8 DEF PopWord, BuilderTypes
  <2>10. Len(wordBuf) \in Nat /\ (wordBuf = <<>> => Len(wordBuf) = 0)
    BY EmptySeq, LenProperties DEF ReceiverTypes
  <2>11. PopInv'
    <3>1. SUFFICES ASSUME gpc' = "pop"
                   PROVE  /\ Len(cur'.words) < nWords'
                          /\ ~startRace' => nWords' <= Len(cur'.words) + Len(wordBuf')
      BY DEF PopInv
    <3>2. Len(cur'.words) < nWords'
      BY <2>3, <2>6, <2>8, <3>1
    <3>3. ~startRace => nWords <= Len(cur.words) + Len(wordBuf)
      BY <1>24 DEF PopWord, PopInv
    <3>4. ~startRace' => nWords' <= Len(cur'.words) + Len(wordBuf')
      <4>1. wordBuf # <<>> \/ startRace
        BY <2>8, <2>10, <3>3
      <4>2. UNCHANGED <<startRace, nWords>> /\ Len(cur'.words) = Len(cur.words) + 1
        BY <2>3, <2>6
      <4>3. wordBuf # <<>> => Len(wordBuf') = Len(wordBuf) - 1
        BY <2>4
      <4>4. QED
        BY <2>8, <2>10, <3>3, <4>1, <4>2, <4>3
    <3>5. QED
      BY <3>2, <3>4
  <2>12. QED
    BY <2>9, <2>11
<1>25. CASE PushFragment
  <2>1. cur' \in Fragment /\ Len(cur'.words) = 0 /\ nWords' = 0
    BY <1>25, TimeFacts, EmptySeq DEF PushFragment, Fragment
  <2>2. fragBuf' \in Seq(Fragment) /\ Len(fragBuf') = Len(fragBuf) + 1
    BY <1>25, AppendProperties DEF PushFragment, BuilderTypes
  <2>3. QED
    BY <1>25, <2>1, <2>2, Constants DEF PushFragment, BuilderTypes, PopInv
<1>26. QED
  BY <1>1, <1>2, <1>3, <1>4, <1>5, <1>6, <1>7, <1>8, <1>9, <1>10, <1>11, <1>12, <1>13,
     <1>14, <1>15, <1>16, <1>17, <1>18, <1>19, <1>20, <1>21, <1>22, <1>23, <1>24, <1>25 DEF Next, Control, Reader, Receiver, Generator

\* A step that leaves the queue, the counter and the word in hand alone keeps the count.
LEMMA CountFrame ==
  ASSUME TSCountMatches, UNCHANGED <<nTS, wordBuf, dropped, startRace>>,
         InHand' = InHand, cpc # "zeroTS" \/ cpc' = "zeroTS"
  PROVE  TSCountMatches'
BY DEF TSCountMatches

\* Every step keeps the TS word counter equal to the words it stands for.
LEMMA StepCount ==
  ASSUME IInv, Next
  PROVE  TSCountMatches'
<1>1. CASE Start
  BY <1>1, CountFrame DEF Start, Step, InHand, IInv
<1>2. CASE ResetWords
  BY <1>2 DEF ResetWords, TSCountMatches
<1>3. CASE ZeroTS
  <2>1. startRace \/ wordBuf' = <<>>
    BY <1>3 DEF ZeroTS, IInv, ReceiverInv
  <2>2. nTS' = 0 /\ dropped' = 0 /\ InHand' = <<>> /\ startRace' = startRace
    BY <1>3 DEF ZeroTS, InHand
  <2>3. QED
    BY <2>1, <2>2, CountTSEmpty DEF TSCountMatches
<1>4. CASE SendStart
  BY <1>4, CountFrame DEF SendStart, Step, InHand, IInv
<1>5. CASE StopGenerator
  BY <1>5, CountFrame DEF StopGenerator, Step, InHand, IInv
<1>6. CASE SendStop
  BY <1>6, CountFrame DEF SendStop, Step, InHand, IInv
<1>7. CASE StopReceiver
  BY <1>7, CountFrame DEF StopReceiver, Step, InHand, IInv
<1>8. CASE JoinReceiver
  BY <1>8, CountFrame DEF JoinReceiver, Step, InHand, IInv
<1>9. CASE JoinGenerator
  BY <1>9, CountFrame DEF JoinGenerator, Step, InHand, IInv
<1>10. CASE GetNext
  BY <1>10, CountFrame DEF GetNext, Step, InHand, IInv
<1>11. CASE GetNextError
  BY <1>11, CountFrame DEF GetNextError, Step, InHand, IInv
<1>12. CASE StopCommand
  BY <1>12, CountFrame DEF StopCommand, Step, InHand, IInv
<1>13. CASE Accept
  BY <1>13, CountFrame DEF Accept, Step, InHand, IInv
<1>14. CASE Loop
  BY <1>14, CountFrame DEF Loop, Step, InHand, IInv
<1>15. CASE ReadHeader
  BY <1>15, CountFrame DEF ReadHeader, Step, InHand, IInv
<1>16. CASE ReadWord
  <2>1. InHand = <<>> /\ InHand' = <<hand'>> /\ dropped = 0 /\ cpc # "zeroTS"
    BY <1>16 DEF ReadWord, Step, InHand, IInv, ReceiverInv, PhaseInv
  <2>2. nTS' = IF IsTSWord(hand') THEN Inc(nTS) ELSE nTS
    BY <1>16 DEF ReadWord
  <2>3. UNCHANGED <<wordBuf, dropped, startRace>>
    BY <1>16 DEF ReadWord
  <2>4. ~startRace => nTS = CountTS(wordBuf)
    BY <2>1, CountTSEmpty, CountTSType, LenProperties
    DEF TSCountMatches, IInv, TypeOK, ReceiverTypes
  <2>5. CountTS(wordBuf) \in 0..WordCap
    BY CountTSType, LenProperties, Constants DEF IInv, TypeOK, ReceiverTypes
  <2>6. ~startRace => Inc(nTS) = nTS + 1
    BY <2>4, <2>5, Constants DEF Inc
  <2>7. QED
    BY <2>1, <2>2, <2>3, <2>4, <2>5, <2>6, CountTSOne DEF TSCountMatches
<1>17. CASE ReadEOF
  BY <1>17, CountFrame DEF ReadEOF, Step, InHand, IInv
<1>18. CASE PushWord
  <2>1. InHand = <<hand>> /\ InHand' = <<>> /\ hand \in Word /\ cpc # "zeroTS"
    BY <1>18 DEF PushWord, Step, AfterPush, InHand, IInv, ReceiverInv, PhaseInv
  <2>2. wordBuf' = Append(wordBuf, hand) /\ UNCHANGED <<nTS, dropped, startRace>>
    BY <1>18 DEF PushWord
  <2>3. CountTS(wordBuf') = CountTS(wordBuf) + CountTS(<<hand>>)
    BY <2>1, <2>2, CountTSAppend, CountTSOne DEF IInv, TypeOK, ReceiverTypes
  <2>4. CountTS(wordBuf) \in Nat /\ CountTS(<<hand>>) \in Nat /\ dropped \in Nat
    BY CountTSType, CountTSOne, LenProperties DEF IInv, TypeOK, ReceiverTypes, ReceiverInv
  <2>5. QED
    BY <2>1, <2>2, <2>3, <2>4, CountTSEmpty DEF TSCountMatches, IInv
<1>19. CASE DropWord
  <2>1. InHand = <<hand>> /\ InHand' = <<>> /\ dropped = 0 /\ cpc # "zeroTS"
    BY <1>19 DEF DropWord, Step, InHand, IInv, ReceiverInv, PhaseInv
  <2>2. dropped' = CountTS(<<hand>>)
    BY <1>19, <2>1, CountTSOne DEF DropWord
  <2>3. UNCHANGED <<nTS, wordBuf, startRace>>
    BY <1>19 DEF DropWord
  <2>4. CountTS(wordBuf) \in Nat /\ CountTS(<<hand>>) \in Nat
    BY CountTSType, CountTSOne, LenProperties DEF IInv, TypeOK, ReceiverTypes
  <2>5. QED
    BY <2>1, <2>2, <2>3, <2>4, CountTSEmpty DEF TSCountMatches, IInv
<1>20. CASE Close
  BY <1>20, CountFrame DEF Close, Step, InHand, IInv
<1>21. CASE BoardCloses
  BY <1>21, CountFrame DEF BoardCloses, Step, InHand, IInv
<1>22. CASE CheckStop
  BY <1>22, CountFrame DEF CheckStop, Step, InHand, IInv
<1>23. CASE BeginFragment
  BY <1>23, CountFrame DEF BeginFragment, Step, InHand, IInv
<1>24. CASE PopWord
  <2> DEFINE w == Head(wordBuf)
  <2>1. SUFFICES ASSUME ~startRace, cpc # "zeroTS"
                 PROVE  nTS' = CountTS(wordBuf') + CountTS(InHand') + dropped'
    BY <1>24 DEF PopWord, TSCountMatches
  <2>2. wordBuf # <<>>
    <3>1. Len(cur.words) < nWords /\ nWords <= Len(cur.words) + Len(wordBuf)
      BY <1>24, <2>1 DEF PopWord, IInv, PopInv
    <3>2. Len(cur.words) \in Nat /\ nWords \in Nat
      BY LenProperties, Constants DEF IInv, TypeOK, BuilderTypes, Fragment
    <3>3. QED
      BY <3>1, <3>2, EmptySeq
  <2>3. /\ wordBuf' = Tail(wordBuf) /\ nTS' = IF IsTSWord(w) THEN Dec(nTS) ELSE nTS
        /\ UNCHANGED <<dropped, InHand>>
    BY <1>24, <2>2 DEF PopWord, InHand
  <2>4. CountTS(wordBuf) = CountTS(Tail(wordBuf)) + (IF IsTSWord(w) THEN 1 ELSE 0)
    BY <2>2, CountTSTail DEF IInv, TypeOK, ReceiverTypes
  <2>5. CountTS(Tail(wordBuf)) \in Nat
    BY <2>2, CountTSType, HeadTailProperties, LenProperties DEF IInv, TypeOK, ReceiverTypes
  <2>6. CountTS(InHand) \in Nat /\ dropped \in Nat
    BY CountTSOne, CountTSEmpty DEF InHand, IInv, ReceiverInv
  <2>7. nTS = CountTS(wordBuf) + CountTS(InHand) + dropped
    BY <2>1 DEF IInv, TSCountMatches
  <2>8. CASE IsTSWord(w)
    <3>1. Dec(nTS) = nTS - 1
      BY <2>4, <2>5, <2>6, <2>7, <2>8 DEF Dec
    <3>2. QED
      BY <2>3, <2>4, <2>5, <2>6, <2>7, <2>8, <3>1
  <2>9. CASE ~IsTSWord(w)
    BY <2>3, <2>4, <2>5, <2>6, <2>7, <2>9
  <2>10. QED
    BY <2>8, <2>9
<1>25. CASE PushFragment
  BY <1>25, CountFrame DEF PushFragment, Step, InHand, IInv
<1>26. QED
  BY <1>1, <1>2, <1>3, <1>4, <1>5, <1>6, <1>7, <1>8, <1>9, <1>10, <1>11, <1>12,
     <1>13, <1>14, <1>15, <1>16, <1>17, <1>18, <1>19, <1>20, <1>21, <1>22, <1>23, <1>24, <1>25
  DEF Next, Control, Reader, Receiver, Generator

\* A stuttering step changes nothing the invariant speaks of.
LEMMA StutterIInv == IInv /\ UNCHANGED vars => IInv'
BY DEF IInv, TypeOK, ControlTypes, ReceiverTypes, BuilderTypes, PhaseInv, ReceiverInv, PopInv,
       TSCountMatches, InHand, vars

\* The inductive invariant holds in every reachable state.
THEOREM Invariance == Spec => []IInv
<1>1. Init => IInv
  BY InitIInv
<1>2. IInv /\ [Next]_vars => IInv'
  <2> SUFFICES ASSUME IInv, [Next]_vars PROVE IInv'
    OBVIOUS
  <2>1. CASE Next
    <3>1. TypeOK /\ PhaseInv /\ ReceiverInv /\ PopInv
      BY DEF IInv
    <3>2. (ControlTypes /\ PhaseInv)'
      BY <2>1, <3>1, StepControl DEF TypeOK
    <3>3. (ReceiverTypes /\ ReceiverInv)'
      BY <2>1, <3>1, StepReceiver DEF TypeOK
    <3>4. (BuilderTypes /\ PopInv)'
      BY <2>1, <3>1, StepBuilder DEF TypeOK
    <3>5. TSCountMatches'
      BY <2>1, StepCount
    <3>6. QED
      BY <3>2, <3>3, <3>4, <3>5 DEF IInv, TypeOK
  <2>2. CASE UNCHANGED vars
    BY <2>2, StutterIInv
  <2>3. QED
    BY <2>1, <2>2
<1>3. QED
  BY <1>1, <1>2, PTL DEF Spec

(***************************************************************************)
(* Every variable of the reader keeps its type, whatever the sizes of the  *)
(* buffers, the groups and the number of runs.                             *)
(***************************************************************************)
THEOREM TypeCorrect == Spec => []TypeOK
<1>1. IInv => TypeOK
  BY DEF IInv
<1>2. QED
  BY <1>1, Invariance, PTL

(***************************************************************************)
(* The counter of TS words that start(), the receiver and the generator    *)
(* share without a lock counts the TS words it should, so it never wraps   *)
(* below zero, unless the queue was reset under a running pop.             *)
(***************************************************************************)
THEOREM TSCountCorrect == Spec => []TSCountMatches
<1>1. IInv => TSCountMatches
  BY DEF IInv
<1>2. QED
  BY <1>1, Invariance, PTL
\* Induction over the natural numbers, with a set for the property.
LEMMA SetInduction ==
  ASSUME NEW T, 0 \in T, \A n \in Nat : n \in T => n + 1 \in T
  PROVE  Nat \subseteq T
<1> DEFINE B == Nat \ T
           R == {p \in Nat \X Nat : p[1] < p[2]}
<1>1. IsWellFoundedOn(R, Nat)
  <2>1. IsWellFoundedOn(OpToRel(<, Nat), Nat)
    BY NatLessThanWellFounded
  <2>2. OpToRel(<, Nat) = R
    BY DEF OpToRel
  <2>3. QED
    BY <2>1, <2>2
<1>2. SUFFICES ASSUME B # {} PROVE FALSE
  OBVIOUS
<1>3. PICK x \in B : \A y \in B : <<y, x>> \notin R
  <2>1. B \subseteq Nat
    OBVIOUS
  <2>2. HIDE DEF B, R
  <2>3. QED
    BY <1>1, <1>2, <2>1, WFMin
<1>4. x \in Nat /\ x # 0 /\ x \notin T
  BY <1>3
<1>5. x - 1 \in Nat /\ x - 1 < x /\ (x - 1) + 1 = x
  BY <1>4
<1>6. x - 1 \notin T
  BY <1>4, <1>5
<1>7. QED
  BY <1>3, <1>4, <1>5, <1>6

\* Induction over the sequences of a set, from the empty one by appending.
LEMMA SeqInduction ==
  ASSUME NEW S, NEW P, <<>> \in P,
         \A s \in Seq(S) : \A e \in S : s \in P => Append(s, e) \in P
  PROVE  Seq(S) \subseteq P
<1> DEFINE T == {n \in Nat : \A s \in Seq(S) : Len(s) = n => s \in P}
<1>1. 0 \in T
  <2>1. \A s \in Seq(S) : Len(s) = 0 => s = <<>>
    BY EmptySeq
  <2>2. QED
    BY <2>1
<1>2. ASSUME NEW n \in Nat, n \in T
      PROVE  n + 1 \in T
  <2>1. ASSUME NEW s \in Seq(S), Len(s) = n + 1
        PROVE  s \in P
    <3>1. s # <<>>
      BY <2>1, EmptySeq
    <3>2. PICK t \in Seq(S), e \in S : s = Append(t, e)
      BY <3>1, SequenceEmptyOrAppend
    <3>3. Len(t) = n
      BY <2>1, <3>2, AppendProperties, LenProperties
    <3>4. t \in P
      BY <1>2, <3>2, <3>3
    <3>5. QED
      BY <3>2, <3>4
  <2>2. QED
    BY <2>1
<1>3. Nat \subseteq T
  <2>1. \A n \in Nat : n \in T => n + 1 \in T
    BY <1>2
  <2>2. HIDE DEF T
  <2>3. QED
    BY <1>1, <2>1, SetInduction
<1>4. QED
  BY <1>3, LenProperties

(***************************************************************************)
(* Picking the members of a set from a sequence.                           *)
(***************************************************************************)
Keeps(f, s, T, n) ==
  f = [i \in 0..n |-> IF i = 0 THEN <<>>
                      ELSE IF s[i] \in T THEN Append(f[i - 1], s[i]) ELSE f[i - 1]]

\* What two such functions say of a common beginning agrees.
LEMMA KeepsAgree ==
  ASSUME NEW f, NEW g, NEW s, NEW t, NEW T, NEW m \in Nat, NEW n \in Nat, m <= n,
         Keeps(f, s, T, m), Keeps(g, t, T, n), \A i \in 1..m : s[i] = t[i]
  PROVE  \A i \in 0..m : f[i] = g[i]
<1> DEFINE A == {i \in Nat : i <= m => f[i] = g[i]}
<1>1. 0 \in A
  <2>1. 0 \in 0..m /\ 0 \in 0..n
    OBVIOUS
  <2>2. f[0] = <<>> /\ g[0] = <<>>
    BY <2>1 DEF Keeps
  <2>3. QED
    BY <2>2
<1>2. ASSUME NEW i \in Nat, i \in A
      PROVE  i + 1 \in A
  <2>1. SUFFICES ASSUME i + 1 <= m PROVE f[i + 1] = g[i + 1]
    OBVIOUS
  <2>2. i + 1 \in 0..m /\ i + 1 \in 0..n /\ i + 1 # 0 /\ (i + 1) - 1 = i /\ i + 1 \in 1..m
    BY <2>1
  <2>3. f[i + 1] = IF s[i + 1] \in T THEN Append(f[i], s[i + 1]) ELSE f[i]
    BY <2>2 DEF Keeps
  <2>4. g[i + 1] = IF t[i + 1] \in T THEN Append(g[i], t[i + 1]) ELSE g[i]
    BY <2>2 DEF Keeps
  <2>5. f[i] = g[i] /\ s[i + 1] = t[i + 1]
    BY <1>2, <2>1, <2>2
  <2>6. QED
    BY <2>3, <2>4, <2>5
<1>3. Nat \subseteq A
  <2>1. \A i \in Nat : i \in A => i + 1 \in A
    BY <1>2
  <2>2. HIDE DEF A
  <2>3. QED
    BY <1>1, <2>1, SetInduction
<1>4. QED
  BY <1>3

\* Such a function exists.
LEMMA KeepsExists ==
  ASSUME NEW s, NEW T, NEW n \in Nat
  PROVE  \E f : Keeps(f, s, T, n)
<1> DEFINE A == {k \in Nat : \E f : Keeps(f, s, T, k)}
<1>1. 0 \in A
  <2>1. Keeps([i \in 0..0 |-> <<>>], s, T, 0)
    BY DEF Keeps
  <2>2. QED
    BY <2>1
<1>2. ASSUME NEW k \in Nat, k \in A
      PROVE  k + 1 \in A
  <2>1. PICK f : Keeps(f, s, T, k)
    BY <1>2
  <2>2. PICK v : v = IF s[k + 1] \in T THEN Append(f[k], s[k + 1]) ELSE f[k]
    OBVIOUS
  <2>3. PICK g : g = [i \in 0..(k + 1) |-> IF i = k + 1 THEN v ELSE f[i]]
    OBVIOUS
  <2>4. \A i \in 0..k : f[i] = IF i = 0 THEN <<>>
                               ELSE IF s[i] \in T THEN Append(f[i - 1], s[i]) ELSE f[i - 1]
    BY <2>1 DEF Keeps
  <2>5. ASSUME NEW i \in 0..(k + 1)
        PROVE  g[i] = IF i = 0 THEN <<>>
                      ELSE IF s[i] \in T THEN Append(g[i - 1], s[i]) ELSE g[i - 1]
    <3>1. CASE i = k + 1
      <4>1. i # 0 /\ i - 1 = k /\ k \in 0..(k + 1) /\ k # k + 1
        BY <3>1
      <4>2. g[i] = v /\ g[k] = f[k]
        BY <2>3, <3>1, <4>1
      <4>3. QED
        BY <2>2, <3>1, <4>1, <4>2
    <3>2. CASE i # k + 1
      <4>1. i \in 0..k /\ g[i] = f[i]
        BY <2>3, <3>2
      <4>2. i # 0 => g[i - 1] = f[i - 1]
        BY <2>3, <4>1
      <4>3. QED
        BY <2>4, <4>1, <4>2
    <3>3. QED
      BY <3>1, <3>2
  <2>6. Keeps(g, s, T, k + 1)
    BY <2>3, <2>5 DEF Keeps
  <2>7. QED
    BY <2>6
<1>3. Nat \subseteq A
  <2>1. \A k \in Nat : k \in A => k + 1 \in A
    BY <1>2
  <2>2. HIDE DEF A
  <2>3. QED
    BY <1>1, <2>1, SetInduction
<1>4. QED
  BY <1>3

\* Among is the last value of the function.
LEMMA AmongIs ==
  ASSUME NEW s, NEW T, Len(s) \in Nat
  PROVE  \E f : Keeps(f, s, T, Len(s)) /\ Among(s, T) = f[Len(s)]
<1> DEFINE g == CHOOSE f : Keeps(f, s, T, Len(s))
<1>1. Keeps(g, s, T, Len(s))
  BY KeepsExists
<1>2. Among(s, T) = g[Len(s)]
  BY DEF Among, Keeps
<1>3. QED
  BY <1>1, <1>2

\* Nothing is picked from the empty sequence.
LEMMA AmongEmpty ==
  ASSUME NEW T
  PROVE  Among(<<>>, T) = <<>>
<1>1. PICK f : Keeps(f, <<>>, T, 0) /\ Among(<<>>, T) = f[0]
  BY AmongIs, EmptySeq
<1>2. f[0] = <<>>
  BY <1>1 DEF Keeps
<1>3. QED
  BY <1>1, <1>2

\* An appended element is picked if it is a member, after what was picked before.
LEMMA AmongAppend ==
  ASSUME NEW S, NEW s \in Seq(S), NEW e \in S, NEW T
  PROVE  Among(Append(s, e), T) = IF e \in T THEN Append(Among(s, T), e) ELSE Among(s, T)
<1>1. PICK t : t = Append(s, e)
  OBVIOUS
<1>2. PICK n : n = Len(s)
  OBVIOUS
<1>3. n \in Nat /\ Len(t) = n + 1 /\ t[n + 1] = e /\ \A i \in 1..n : s[i] = t[i]
  BY <1>1, <1>2, AppendProperties, LenProperties
<1>4. PICK f : Keeps(f, s, T, n) /\ Among(s, T) = f[n]
  BY <1>2, <1>3, AmongIs
<1>5. PICK g : Keeps(g, t, T, n + 1) /\ Among(t, T) = g[n + 1]
  <2>1. Len(t) \in Nat
    BY <1>3
  <2>2. QED
    BY <1>3, <2>1, AmongIs
<1>6. f[n] = g[n]
  <2>1. n \in Nat /\ n + 1 \in Nat /\ n <= n + 1 /\ n \in 0..n
    BY <1>3
  <2>2. \A i \in 0..n : f[i] = g[i]
    BY <1>3, <1>4, <1>5, <2>1, KeepsAgree
  <2>3. QED
    BY <2>1, <2>2
<1>7. g[n + 1] = IF t[n + 1] \in T THEN Append(g[n], t[n + 1]) ELSE g[n]
  <2>1. n + 1 \in 0..(n + 1) /\ n + 1 # 0 /\ (n + 1) - 1 = n
    BY <1>3
  <2>2. QED
    BY <1>5, <2>1 DEF Keeps
<1>8. QED
  BY <1>1, <1>3, <1>4, <1>5, <1>6, <1>7

\* What is picked are members of the set, in the sequence.
LEMMA AmongType ==
  ASSUME NEW S, NEW s \in Seq(S), NEW T
  PROVE  Among(s, T) \in Seq(S \cap T) /\ Among(s, T) \in Seq(S)
<1> DEFINE P == {t \in Seq(S) : Among(t, T) \in Seq(S \cap T)}
<1>1. <<>> \in P
  BY AmongEmpty, EmptySeq
<1>2. ASSUME NEW t \in Seq(S), NEW e \in S, t \in P
      PROVE  Append(t, e) \in P
  <2>1. Append(t, e) \in Seq(S) /\ Among(t, T) \in Seq(S \cap T)
    BY <1>2, AppendProperties
  <2>2. Among(Append(t, e), T) = IF e \in T THEN Append(Among(t, T), e) ELSE Among(t, T)
    BY AmongAppend
  <2>3. e \in T => Append(Among(t, T), e) \in Seq(S \cap T)
    BY <2>1, AppendProperties
  <2>4. QED
    BY <2>1, <2>2, <2>3
<1>3. Seq(S) \subseteq P
  <2>1. \A t \in Seq(S) : \A e \in S : t \in P => Append(t, e) \in P
    BY <1>2
  <2>2. HIDE DEF P
  <2>3. QED
    BY <1>1, <2>1, SeqInduction
<1>4. Among(s, T) \in Seq(S \cap T)
  BY <1>3
<1>5. QED
  BY <1>4, SeqMonotonic

\* Concatenation with an appended sequence.
LEMMA ConcatAppend ==
  ASSUME NEW S, NEW s \in Seq(S), NEW t \in Seq(S), NEW e \in S
  PROVE  s \o Append(t, e) = Append(s \o t, e)
<1>1. <<e>> \in Seq(S)
  OBVIOUS
<1>2. Append(t, e) = t \o <<e>> /\ s \o t \in Seq(S)
  BY AppendIsConcat, ConcatProperties
<1>3. Append(s \o t, e) = (s \o t) \o <<e>>
  BY <1>2, AppendIsConcat
<1>4. QED
  BY <1>1, <1>2, <1>3, ConcatAssociative

\* What is picked from a concatenation.
LEMMA AmongConcat ==
  ASSUME NEW S, NEW s \in Seq(S), NEW t \in Seq(S), NEW T
  PROVE  Among(s \o t, T) = Among(s, T) \o Among(t, T)
<1> DEFINE P == {u \in Seq(S) : Among(s \o u, T) = Among(s, T) \o Among(u, T)}
<1>0. Among(s, T) \in Seq(S)
  BY AmongType
<1>1. <<>> \in P
  <2>1. s \o <<>> = s /\ Among(s, T) \o <<>> = Among(s, T) /\ <<>> \in Seq(S)
    BY <1>0, ConcatEmptySeq, EmptySeq
  <2>2. QED
    BY <2>1, AmongEmpty
<1>2. ASSUME NEW u \in Seq(S), NEW e \in S, u \in P
      PROVE  Append(u, e) \in P
  <2>1. Append(u, e) \in Seq(S) /\ s \o u \in Seq(S) /\ Among(u, T) \in Seq(S)
    BY AppendProperties, ConcatProperties, AmongType
  <2>2. s \o Append(u, e) = Append(s \o u, e)
    BY ConcatAppend
  <2>3. Among(Append(s \o u, e), T) = IF e \in T THEN Append(Among(s \o u, T), e) ELSE Among(s \o u, T)
    BY <2>1, AmongAppend
  <2>4. Among(Append(u, e), T) = IF e \in T THEN Append(Among(u, T), e) ELSE Among(u, T)
    BY AmongAppend
  <2>5. Among(s \o u, T) = Among(s, T) \o Among(u, T)
    BY <1>2
  <2>6. Among(s, T) \o Append(Among(u, T), e) = Append(Among(s, T) \o Among(u, T), e)
    BY <1>0, <2>1, ConcatAppend
  <2>7. Among(s \o Append(u, e), T) = Among(s, T) \o Among(Append(u, e), T)
    BY <2>2, <2>3, <2>4, <2>5, <2>6
  <2>8. QED
    BY <2>1, <2>7
<1>3. Seq(S) \subseteq P
  <2>1. \A u \in Seq(S) : \A e \in S : u \in P => Append(u, e) \in P
    BY <1>2
  <2>2. HIDE DEF P
  <2>3. QED
    BY <1>1, <2>1, SeqInduction
<1>4. QED
  BY <1>3

\* Nothing is picked from a sequence without members.
LEMMA AmongNone ==
  ASSUME NEW S, NEW s \in Seq(S), NEW T, \A i \in 1..Len(s) : s[i] \notin T
  PROVE  Among(s, T) = <<>>
<1>1. PICK U : U = S \ T
  OBVIOUS
<1>2. s \in Seq(U)
  <2>1. Len(s) \in Nat /\ s \in [1..Len(s) -> S]
    BY LenProperties
  <2>2. s \in [1..Len(s) -> U]
    BY <1>1, <2>1
  <2>3. QED
    BY <2>1, <2>2, SeqDef
<1>3. Among(s, T) \in Seq(U \cap T)
  BY <1>2, AmongType
<1>4. U \cap T = {}
  BY <1>1
<1>5. Among(s, T) \in Seq({})
  BY <1>3, <1>4
<1>6. QED
  <2>1. PICK r : r = Among(s, T)
    OBVIOUS
  <2>2. Len(r) \in Nat /\ r \in Seq({})
    BY <1>5, <2>1, LenProperties
  <2>3. Len(r) # 0 => r[1] \in {}
    BY <2>2, ElementOfSeq
  <2>4. r = <<>>
    BY <2>2, <2>3, EmptySeq
  <2>5. QED
    BY <2>1, <2>4

(***************************************************************************)
(* The words of a sequence of fragments.                                   *)
(***************************************************************************)
Joins(f, q, n) ==
  f = [i \in 1..n |-> IF i = 1 THEN q[i] ELSE f[i - 1] \o q[i]]

\* What two such functions say of a common beginning agrees.
LEMMA JoinsAgree ==
  ASSUME NEW f, NEW g, NEW q, NEW r, NEW m \in Nat, NEW n \in Nat, m <= n,
         Joins(f, q, m), Joins(g, r, n), \A i \in 1..m : q[i] = r[i]
  PROVE  \A i \in 1..m : f[i] = g[i]
<1> DEFINE A == {i \in Nat : i \in 1..m => f[i] = g[i]}
<1>1. 0 \in A
  OBVIOUS
<1>2. ASSUME NEW i \in Nat, i \in A
      PROVE  i + 1 \in A
  <2>1. SUFFICES ASSUME i + 1 <= m PROVE f[i + 1] = g[i + 1]
    OBVIOUS
  <2>2. i + 1 \in 1..m /\ i + 1 \in 1..n /\ (i + 1) - 1 = i /\ (i + 1 = 1 <=> i = 0)
    BY <2>1
  <2>3. f[i + 1] = IF i = 0 THEN q[i + 1] ELSE f[i] \o q[i + 1]
    BY <2>2 DEF Joins
  <2>4. g[i + 1] = IF i = 0 THEN r[i + 1] ELSE g[i] \o r[i + 1]
    BY <2>2 DEF Joins
  <2>5. (i # 0 => f[i] = g[i]) /\ q[i + 1] = r[i + 1]
    BY <1>2, <2>1, <2>2
  <2>6. QED
    BY <2>3, <2>4, <2>5
<1>3. Nat \subseteq A
  <2>1. \A i \in Nat : i \in A => i + 1 \in A
    BY <1>2
  <2>2. HIDE DEF A
  <2>3. QED
    BY <1>1, <2>1, SetInduction
<1>4. QED
  BY <1>3

\* In particular on the last value of the shorter one.
LEMMA JoinsLast ==
  ASSUME NEW f, NEW g, NEW q, NEW r, NEW n \in Nat \ {0}, NEW k \in Nat, k = n + 1,
         Joins(f, q, n), Joins(g, r, k), \A i \in 1..n : q[i] = r[i]
  PROVE  f[n] = g[n]
<1>1. n \in Nat /\ n <= k /\ n \in 1..n
  OBVIOUS
<1>2. \A i \in 1..n : f[i] = g[i]
  BY <1>1, JoinsAgree
<1>3. QED
  BY <1>1, <1>2

\* Such a function exists.
LEMMA JoinsExists ==
  ASSUME NEW q, NEW n \in Nat
  PROVE  \E f : Joins(f, q, n)
<1> DEFINE A == {k \in Nat : \E f : Joins(f, q, k)}
<1>1. 0 \in A
  <2>1. Joins([i \in 1..0 |-> q[i]], q, 0)
    BY DEF Joins
  <2>2. QED
    BY <2>1
<1>2. ASSUME NEW k \in Nat, k \in A
      PROVE  k + 1 \in A
  <2>1. PICK f : Joins(f, q, k)
    BY <1>2
  <2>2. PICK v : v = IF k = 0 THEN q[k + 1] ELSE f[k] \o q[k + 1]
    OBVIOUS
  <2>3. PICK g : g = [i \in 1..(k + 1) |-> IF i = k + 1 THEN v ELSE f[i]]
    OBVIOUS
  <2>4. \A i \in 1..k : f[i] = IF i = 1 THEN q[i] ELSE f[i - 1] \o q[i]
    BY <2>1 DEF Joins
  <2>5. ASSUME NEW i \in 1..(k + 1)
        PROVE  g[i] = IF i = 1 THEN q[i] ELSE g[i - 1] \o q[i]
    <3>1. CASE i = k + 1
      <4>1. i - 1 = k /\ (i = 1 <=> k = 0) /\ k # k + 1
        BY <3>1
      <4>2. g[i] = v /\ (k # 0 => g[k] = f[k])
        BY <2>3, <3>1, <4>1
      <4>3. QED
        BY <2>2, <3>1, <4>1, <4>2
    <3>2. CASE i # k + 1
      <4>1. i \in 1..k /\ g[i] = f[i]
        BY <2>3, <3>2
      <4>2. i # 1 => g[i - 1] = f[i - 1]
        BY <2>3, <4>1
      <4>3. QED
        BY <2>4, <4>1, <4>2
    <3>3. QED
      BY <3>1, <3>2
  <2>6. Joins(g, q, k + 1)
    BY <2>3, <2>5 DEF Joins
  <2>7. QED
    BY <2>6
<1>3. Nat \subseteq A
  <2>1. \A k \in Nat : k \in A => k + 1 \in A
    BY <1>2
  <2>2. HIDE DEF A
  <2>3. QED
    BY <1>1, <2>1, SetInduction
<1>4. QED
  BY <1>3

\* FlattenSeq is the last value of the function.
LEMMA FlattenIs ==
  ASSUME NEW q, Len(q) \in Nat \ {0}
  PROVE  \E f : Joins(f, q, Len(q)) /\ FlattenSeq(q) = f[Len(q)]
<1> DEFINE g == CHOOSE f : Joins(f, q, Len(q))
<1>1. Joins(g, q, Len(q))
  BY JoinsExists
<1>2. FlattenSeq(q) = g[Len(q)]
  BY DEF FlattenSeq, Joins
<1>3. QED
  BY <1>1, <1>2

\* What is flattened for the words of a sequence of fragments.
LEMMA ListsOf ==
  ASSUME NEW F \in Seq(Fragment)
  PROVE  LET q == [i \in 1..Len(F) |-> F[i].words]
         IN  /\ q \in Seq(Seq(Word \cup {NoWord})) /\ Len(q) = Len(F)
             /\ WordsOf(F) = FlattenSeq(q)
             /\ \A i \in 1..Len(F) : q[i] = F[i].words
<1> DEFINE q == [i \in 1..Len(F) |-> F[i].words]
<1>1. Len(F) \in Nat /\ F \in [1..Len(F) -> Fragment]
  BY LenProperties
<1>2. \A i \in 1..Len(F) : F[i].words \in Seq(Word \cup {NoWord})
  BY <1>1 DEF Fragment
<1>3. q \in [1..Len(F) -> Seq(Word \cup {NoWord})]
  BY <1>2
<1>4. q \in Seq(Seq(Word \cup {NoWord})) /\ Len(q) = Len(F)
  BY <1>1, <1>3, SeqDef, LenProperties
<1>5. QED
  BY <1>4 DEF WordsOf

\* No fragments, no words.
LEMMA WordsEmpty == WordsOf(<<>>) = <<>>
<1>1. <<>> \in Seq(Fragment) /\ Len(<<>>) = 0
  BY EmptySeq
<1>2. PICK q \in Seq(Seq(Word \cup {NoWord})) : Len(q) = 0 /\ WordsOf(<<>>) = FlattenSeq(q)
  BY <1>1, ListsOf
<1>3. q = <<>>
  BY <1>2, EmptySeq
<1>4. QED
  BY <1>2, <1>3 DEF FlattenSeq

\* A fragment more adds its words.
LEMMA WordsAppend ==
  ASSUME NEW F \in Seq(Fragment), NEW e \in Fragment
  PROVE  WordsOf(Append(F, e)) = WordsOf(F) \o e.words
<1>1. PICK n : n = Len(F)
  OBVIOUS
<1>2. PICK G : G = Append(F, e)
  OBVIOUS
<1>3. /\ n \in Nat /\ G \in Seq(Fragment) /\ Len(G) = n + 1 /\ G[n + 1] = e
      /\ \A i \in 1..n : G[i] = F[i]
  BY <1>1, <1>2, AppendProperties, LenProperties
<1>4. PICK q \in Seq(Seq(Word \cup {NoWord})) :
         /\ Len(q) = n /\ WordsOf(F) = FlattenSeq(q) /\ \A i \in 1..n : q[i] = F[i].words
  BY <1>1, ListsOf
<1>5. PICK r \in Seq(Seq(Word \cup {NoWord})) :
         /\ Len(r) = n + 1 /\ WordsOf(G) = FlattenSeq(r)
         /\ \A i \in 1..(n + 1) : r[i] = G[i].words
  BY <1>3, ListsOf
<1>6. PICK g : Joins(g, r, n + 1) /\ FlattenSeq(r) = g[n + 1]
  <2>1. Len(r) \in Nat \ {0}
    BY <1>3, <1>5
  <2>2. QED
    BY <1>5, <2>1, FlattenIs
<1>7. g[n + 1] = IF n = 0 THEN r[n + 1] ELSE g[n] \o r[n + 1]
  <2>1. n + 1 \in 1..(n + 1) /\ (n + 1) - 1 = n /\ (n + 1 = 1 <=> n = 0)
    BY <1>3
  <2>2. QED
    BY <1>6, <2>1 DEF Joins
<1>8. r[n + 1] = e.words /\ e.words \in Seq(Word \cup {NoWord})
  BY <1>3, <1>5 DEF Fragment
<1>9. CASE n = 0
  <2>1. F = <<>>
    BY <1>1, <1>9, EmptySeq
  <2>2. WordsOf(F) \o e.words = e.words
    BY <1>8, <2>1, WordsEmpty, ConcatEmptySeq
  <2>3. QED
    BY <1>2, <1>5, <1>6, <1>7, <1>8, <1>9, <2>2
<1>10. CASE n # 0
  <2>1. PICK f : Joins(f, q, n) /\ FlattenSeq(q) = f[n]
    <3>1. Len(q) \in Nat \ {0}
      BY <1>3, <1>4, <1>10
    <3>2. QED
      BY <1>4, <3>1, FlattenIs
  <2>2. ASSUME NEW i \in 1..n
        PROVE  q[i] = r[i]
    <3>1. i \in 1..(n + 1) /\ G[i] = F[i]
      BY <1>3
    <3>2. r[i] = G[i].words /\ q[i] = F[i].words
      BY <1>4, <1>5, <3>1
    <3>3. QED
      BY <3>1, <3>2
  <2>3. f[n] = g[n]
    <3>1. n \in Nat \ {0} /\ n + 1 \in Nat
      BY <1>3, <1>10
    <3>2. QED
      BY <1>6, <2>1, <2>2, <3>1, JoinsLast
  <2>4. QED
    BY <1>2, <1>4, <1>5, <1>6, <1>7, <1>8, <1>10, <2>1, <2>3
<1>11. QED
  BY <1>9, <1>10

\* The words of fragments are words.
LEMMA WordsType ==
  ASSUME NEW F \in Seq(Fragment)
  PROVE  WordsOf(F) \in Seq(Word \cup {NoWord})
<1> DEFINE P == {G \in Seq(Fragment) : WordsOf(G) \in Seq(Word \cup {NoWord})}
<1>1. <<>> \in P
  BY WordsEmpty, EmptySeq
<1>2. ASSUME NEW G \in Seq(Fragment), NEW e \in Fragment, G \in P
      PROVE  Append(G, e) \in P
  <2>1. Append(G, e) \in Seq(Fragment) /\ WordsOf(G) \in Seq(Word \cup {NoWord})
    BY <1>2, AppendProperties
  <2>2. WordsOf(Append(G, e)) = WordsOf(G) \o e.words /\ e.words \in Seq(Word \cup {NoWord})
    BY WordsAppend DEF Fragment
  <2>3. WordsOf(G) \o e.words \in Seq(Word \cup {NoWord})
    BY <2>1, <2>2, ConcatProperties
  <2>4. QED
    BY <2>1, <2>2, <2>3
<1>3. Seq(Fragment) \subseteq P
  <2>1. \A G \in Seq(Fragment) : \A e \in Fragment : G \in P => Append(G, e) \in P
    BY <1>2
  <2>2. HIDE DEF P
  <2>3. QED
    BY <1>1, <2>1, SeqInduction
<1>4. QED
  BY <1>3

\* The words of two sequences of fragments, one after the other.
LEMMA WordsConcat ==
  ASSUME NEW F \in Seq(Fragment), NEW G \in Seq(Fragment)
  PROVE  WordsOf(F \o G) = WordsOf(F) \o WordsOf(G)
<1> DEFINE P == {H \in Seq(Fragment) : WordsOf(F \o H) = WordsOf(F) \o WordsOf(H)}
<1>0. WordsOf(F) \in Seq(Word \cup {NoWord})
  BY WordsType
<1>1. <<>> \in P
  <2>1. F \o <<>> = F /\ WordsOf(F) \o <<>> = WordsOf(F) /\ <<>> \in Seq(Fragment)
    BY <1>0, ConcatEmptySeq, EmptySeq
  <2>2. QED
    BY <2>1, WordsEmpty
<1>2. ASSUME NEW H \in Seq(Fragment), NEW e \in Fragment, H \in P
      PROVE  Append(H, e) \in P
  <2>1. Append(H, e) \in Seq(Fragment) /\ F \o H \in Seq(Fragment)
    BY AppendProperties, ConcatProperties
  <2>2. WordsOf(H) \in Seq(Word \cup {NoWord}) /\ e.words \in Seq(Word \cup {NoWord})
    BY WordsType DEF Fragment
  <2>3. F \o Append(H, e) = Append(F \o H, e)
    BY ConcatAppend
  <2>4. WordsOf(Append(F \o H, e)) = WordsOf(F \o H) \o e.words
    BY <2>1, WordsAppend
  <2>5. WordsOf(Append(H, e)) = WordsOf(H) \o e.words
    BY WordsAppend
  <2>6. WordsOf(F \o H) = WordsOf(F) \o WordsOf(H)
    BY <1>2
  <2>7. (WordsOf(F) \o WordsOf(H)) \o e.words = WordsOf(F) \o (WordsOf(H) \o e.words)
    <3>1. PICK V, a, b, c : V = Word \cup {NoWord} /\ a = WordsOf(F) /\ b = WordsOf(H) /\ c = e.words
      OBVIOUS
    <3>2. a \in Seq(V) /\ b \in Seq(V) /\ c \in Seq(V)
      BY <1>0, <2>2, <3>1
    <3>3. (a \o b) \o c = a \o (b \o c)
      BY <3>2, ConcatAssociative, SMTT(30)
    <3>4. QED
      BY <3>1, <3>3
  <2>8. QED
    BY <2>1, <2>3, <2>4, <2>5, <2>6, <2>7
<1>3. Seq(Fragment) \subseteq P
  <2>1. \A H \in Seq(Fragment) : \A e \in Fragment : H \in P => Append(H, e) \in P
    BY <1>2
  <2>2. HIDE DEF P
  <2>3. QED
    BY <1>1, <2>1, SeqInduction
<1>4. QED
  BY <1>3

(***************************************************************************)
(* getNext_() leaves out the fragments without words: nothing is lost.     *)
(***************************************************************************)
\* What is sent are fragments, and none of another kind than those in the buffer.
LEMMA SentType ==
  ASSUME NEW S, NEW F \in Seq(S)
  PROVE  Sent(F) \in Seq(S)
BY AmongType DEF Sent

\* A fragment more is sent if it has words.
LEMMA SentAppend ==
  ASSUME NEW F \in Seq(Fragment), NEW e \in Fragment
  PROVE  Sent(Append(F, e)) = IF e.words # <<>> THEN Append(Sent(F), e) ELSE Sent(F)
<1>1. e \in Filled <=> e.words # <<>>
  BY DEF Filled
<1>2. QED
  BY <1>1, AmongAppend DEF Sent

\* The fragments sent hold all the words.
LEMMA WordsSent ==
  ASSUME NEW F \in Seq(Fragment)
  PROVE  WordsOf(Sent(F)) = WordsOf(F)
<1> DEFINE P == {G \in Seq(Fragment) : WordsOf(Sent(G)) = WordsOf(G)}
<1>1. <<>> \in P
  BY AmongEmpty, EmptySeq DEF Sent
<1>2. ASSUME NEW G \in Seq(Fragment), NEW e \in Fragment, G \in P
      PROVE  Append(G, e) \in P
  <2>1. Append(G, e) \in Seq(Fragment) /\ Sent(G) \in Seq(Fragment) /\ WordsOf(Sent(G)) = WordsOf(G)
    BY <1>2, AppendProperties, SentType
  <2>2. WordsOf(Append(G, e)) = WordsOf(G) \o e.words
    BY WordsAppend
  <2>3. CASE e.words = <<>>
    <3>1. Sent(Append(G, e)) = Sent(G)
      BY <2>3, SentAppend
    <3>2. WordsOf(G) \in Seq(Word \cup {NoWord})
      BY WordsType
    <3>3. WordsOf(G) \o e.words = WordsOf(G)
      BY <2>3, <3>2, ConcatEmptySeq
    <3>4. QED
      BY <2>1, <2>2, <3>1, <3>3
  <2>4. CASE e.words # <<>>
    <3>1. Sent(Append(G, e)) = Append(Sent(G), e)
      BY <2>4, SentAppend
    <3>2. WordsOf(Append(Sent(G), e)) = WordsOf(Sent(G)) \o e.words
      BY <2>1, WordsAppend
    <3>3. QED
      BY <2>1, <2>2, <3>1, <3>2
  <2>5. QED
    BY <2>3, <2>4
<1>3. Seq(Fragment) \subseteq P
  <2>1. \A G \in Seq(Fragment) : \A e \in Fragment : G \in P => Append(G, e) \in P
    BY <1>2
  <2>2. HIDE DEF P
  <2>3. QED
    BY <1>1, <2>1, SeqInduction
<1>4. QED
  BY <1>3

(***************************************************************************)
(* Timestamps of the fragments, one fragment and one word at a time.       *)
(***************************************************************************)
\* The stamp for the words of own, when those of s came before.
StampAfter(s, own) ==
  LET earlier == Among(s, TimedWords)
      first == Among(own, TimedWords)
  IN IF earlier # <<>> THEN TimeOf(Last(earlier))
     ELSE IF first # <<>> THEN TimeOf(Head(first)) ELSE NoTime

\* The time of the last timed word of s.
LastTime(s) ==
  LET timed == Among(s, TimedWords) IN IF timed # <<>> THEN TimeOf(Last(timed)) ELSE NoTime

AllStamped(F) ==
  \A k \in 1..Len(F) : F[k].words # <<>> => F[k].stamp = StampOf(F, k)

\* A timed word has a time.
LEMMA TimedHasTime ==
  ASSUME NEW w \in TimedWords
  PROVE  TimeOf(w) # NoTime
<1>1. w.run \in 1..MaxRuns
  BY DEF TimedWords, Word
<1>2. w.run # 0
  BY <1>1, CTBAssumption
<1>3. QED
  BY <1>2 DEF TimeOf, NoTime

\* The last time after a word more.
LEMMA LastTimeAppend ==
  ASSUME NEW s \in Seq(Word \cup {NoWord}), NEW w \in Word
  PROVE  LastTime(Append(s, w)) = IF CarriesTime(w) THEN TimeOf(w) ELSE LastTime(s)
<1>1. w \in TimedWords <=> CarriesTime(w)
  BY DEF TimedWords
<1>2. PICK a : a = Among(s, TimedWords)
  OBVIOUS
<1>3. a \in Seq(Word \cup {NoWord})
  BY <1>2, AmongType
<1>4. Among(Append(s, w), TimedWords) = IF CarriesTime(w) THEN Append(a, w) ELSE a
  BY <1>1, <1>2, AmongAppend
<1>5. Append(a, w) # <<>> /\ Last(Append(a, w)) = w
  BY <1>3, AppendProperties, LenProperties DEF Last
<1>6. QED
  BY <1>2, <1>4, <1>5 DEF LastTime

\* There is a last time exactly when a timed word has been seen.
LEMMA LastTimeNone ==
  ASSUME NEW s \in Seq(Word \cup {NoWord})
  PROVE  LastTime(s) = NoTime <=> Among(s, TimedWords) = <<>>
<1>1. PICK a : a = Among(s, TimedWords)
  OBVIOUS
<1>2. a \in Seq((Word \cup {NoWord}) \cap TimedWords)
  BY <1>1, AmongType
<1>3. a # <<>> => Last(a) \in TimedWords
  <2>1. a # <<>> => Len(a) \in 1..Len(a)
    BY <1>2, EmptySeq
  <2>2. QED
    BY <1>2, <2>1, ElementOfSeq DEF Last
<1>4. QED
  BY <1>1, <1>3, TimedHasTime DEF LastTime

\* An empty fragment is stamped with the last time.
LEMMA StampStart ==
  ASSUME NEW s
  PROVE  StampAfter(s, <<>>) = LastTime(s)
BY AmongEmpty DEF StampAfter, LastTime

\* The stamp of a fragment that grows is set by its first timed word, unless it is set.
LEMMA StampGrows ==
  ASSUME NEW s \in Seq(Word \cup {NoWord}), NEW own \in Seq(Word \cup {NoWord}), NEW w \in Word
  PROVE  StampAfter(s, Append(own, w)) =
           IF CarriesTime(w) /\ StampAfter(s, own) = NoTime THEN TimeOf(w) ELSE StampAfter(s, own)
<1>1. w \in TimedWords <=> CarriesTime(w)
  BY DEF TimedWords
<1>2. PICK a : a = Among(s, TimedWords)
  OBVIOUS
<1>3. PICK b : b = Among(own, TimedWords)
  OBVIOUS
<1>4. /\ a \in Seq((Word \cup {NoWord}) \cap TimedWords)
      /\ b \in Seq((Word \cup {NoWord}) \cap TimedWords)
  BY <1>2, <1>3, AmongType
<1>5. Among(Append(own, w), TimedWords) = IF CarriesTime(w) THEN Append(b, w) ELSE b
  BY <1>1, <1>3, AmongAppend
<1>6. StampAfter(s, own) = IF a # <<>> THEN TimeOf(Last(a))
                           ELSE IF b # <<>> THEN TimeOf(Head(b)) ELSE NoTime
  BY <1>2, <1>3 DEF StampAfter
<1>7. CASE ~CarriesTime(w)
  BY <1>3, <1>5, <1>7 DEF StampAfter
<1>8. CASE CarriesTime(w)
  <2>1. StampAfter(s, Append(own, w)) = IF a # <<>> THEN TimeOf(Last(a))
                                        ELSE TimeOf(Head(Append(b, w)))
    <3>1. PICK U : U = (Word \cup {NoWord}) \cap TimedWords
      OBVIOUS
    <3>2. Append(b, w) # <<>>
      <4>1. w \in U /\ b \in Seq(U)
        BY <1>1, <1>4, <1>8, <3>1
      <4>2. QED
        BY <4>1, AppendProperties
    <3>3. QED
      BY <1>2, <1>5, <1>8, <3>2 DEF StampAfter
  <2>2. Head(Append(b, w)) = IF b = <<>> THEN w ELSE Head(b)
    BY <1>4, HeadTailAppend
  <2>3. a # <<>> => TimeOf(Last(a)) # NoTime
    <3>1. a # <<>> => Len(a) \in 1..Len(a)
      BY <1>4, EmptySeq
    <3>2. a # <<>> => Last(a) \in TimedWords
      BY <1>4, <3>1, ElementOfSeq DEF Last
    <3>3. QED
      BY <3>2, TimedHasTime
  <2>4. b # <<>> => TimeOf(Head(b)) # NoTime
    <3>1. b # <<>> => Head(b) \in TimedWords
      BY <1>4, HeadTailProperties
    <3>2. QED
      BY <3>1, TimedHasTime
  <2>5. QED
    BY <1>6, <1>8, <2>1, <2>2, <2>3, <2>4
<1>9. QED
  BY <1>7, <1>8

\* No fragments, no stamps.
LEMMA StampedEmpty == AllStamped(<<>>)
BY EmptySeq DEF AllStamped

\* A fragment more has to be stamped as its place demands.
LEMMA StampedAppend ==
  ASSUME NEW F \in Seq(Fragment), NEW e \in Fragment
  PROVE  AllStamped(Append(F, e)) <=>
           AllStamped(F) /\ (e.words # <<>> => e.stamp = StampAfter(WordsOf(F), e.words))
<1>1. PICK n : n = Len(F)
  OBVIOUS
<1>2. PICK G : G = Append(F, e)
  OBVIOUS
<1>3. /\ n \in Nat /\ G \in Seq(Fragment) /\ Len(G) = n + 1 /\ G[n + 1] = e
      /\ \A i \in 1..n : G[i] = F[i]
  BY <1>1, <1>2, AppendProperties, LenProperties
<1>4. ASSUME NEW m \in 0..n
      PROVE  SubSeq(G, 1, m) = SubSeq(F, 1, m)
  <2>1. \A i \in 1..m : F[i] \in Fragment /\ G[i] = F[i]
    BY <1>1, <1>3, ElementOfSeq
  <2>2. /\ SubSeq(F, 1, m) \in Seq(Fragment) /\ Len(SubSeq(F, 1, m)) = m
        /\ \A i \in 1..m : SubSeq(F, 1, m)[i] = F[i]
    <3>1. m \in Int /\ 1 \in Int /\ m - 1 + 1 = m /\ (m = 0 \/ 1 <= m)
      BY <1>3
    <3>2. QED
      BY <2>1, <3>1, SubSeqProperties
  <2>3. /\ SubSeq(G, 1, m) \in Seq(Fragment) /\ Len(SubSeq(G, 1, m)) = m
        /\ \A i \in 1..m : SubSeq(G, 1, m)[i] = G[i]
    <3>1. m \in Int /\ 1 \in Int /\ m - 1 + 1 = m /\ (m = 0 \/ 1 <= m)
      BY <1>3
    <3>2. \A i \in 1..m : G[i] \in Fragment
      BY <2>1
    <3>3. QED
      BY <3>1, <3>2, SubSeqProperties
  <2>4. QED
    BY <2>1, <2>2, <2>3, SeqEqual
<1>5. ASSUME NEW k \in 1..n
      PROVE  StampOf(G, k) = StampOf(F, k) /\ G[k] = F[k]
  <2>1. k - 1 \in 0..n /\ G[k] = F[k]
    BY <1>3
  <2>2. SubSeq(G, 1, k - 1) = SubSeq(F, 1, k - 1)
    BY <1>4, <2>1
  <2>3. QED
    BY <2>1, <2>2 DEF StampOf
<1>6. StampOf(G, n + 1) = StampAfter(WordsOf(F), e.words)
  <2>1. (n + 1) - 1 = n /\ n \in 0..n
    BY <1>3
  <2>2. SubSeq(G, 1, n) = F
    BY <1>1, <1>4, <2>1, SubSeqFull
  <2>3. QED
    BY <1>3, <2>1, <2>2 DEF StampOf, StampAfter
<1>7. 1..(n + 1) = (1..n) \cup {n + 1}
  BY <1>3
<1>8. QED
  BY <1>1, <1>2, <1>3, <1>5, <1>6, <1>7 DEF AllStamped

\* The fragments of a beginning are stamped as before.
LEMMA StampedPrefix ==
  ASSUME NEW F \in Seq(Fragment), NEW G \in Seq(Fragment), AllStamped(F \o G)
  PROVE  AllStamped(F)
<1> DEFINE P == {H \in Seq(Fragment) : AllStamped(F \o H) => AllStamped(F)}
<1>1. <<>> \in P
  BY ConcatEmptySeq, EmptySeq
<1>2. ASSUME NEW H \in Seq(Fragment), NEW e \in Fragment, H \in P
      PROVE  Append(H, e) \in P
  <2>1. Append(H, e) \in Seq(Fragment) /\ F \o H \in Seq(Fragment)
    BY AppendProperties, ConcatProperties
  <2>2. F \o Append(H, e) = Append(F \o H, e)
    BY ConcatAppend
  <2>3. AllStamped(Append(F \o H, e)) => AllStamped(F \o H)
    BY <2>1, StampedAppend
  <2>4. QED
    BY <1>2, <2>1, <2>2, <2>3
<1>3. Seq(Fragment) \subseteq P
  <2>1. \A H \in Seq(Fragment) : \A e \in Fragment : H \in P => Append(H, e) \in P
    BY <1>2
  <2>2. HIDE DEF P
  <2>3. QED
    BY <1>1, <2>1, SeqInduction
<1>4. QED
  BY <1>3

\* Leaving out the empty fragments leaves the others stamped as their place demands.
LEMMA StampedSent ==
  ASSUME NEW F \in Seq(Fragment), NEW G \in Seq(Fragment), AllStamped(F \o G)
  PROVE  AllStamped(F \o Sent(G))
<1> DEFINE P == {H \in Seq(Fragment) : AllStamped(F \o H) => AllStamped(F \o Sent(H))}
<1>1. <<>> \in P
  BY AmongEmpty, EmptySeq DEF Sent
<1>2. ASSUME NEW H \in Seq(Fragment), NEW e \in Fragment, H \in P
      PROVE  Append(H, e) \in P
  <2>1. /\ Append(H, e) \in Seq(Fragment) /\ F \o H \in Seq(Fragment)
        /\ Sent(H) \in Seq(Fragment) /\ F \o Sent(H) \in Seq(Fragment)
    BY AppendProperties, ConcatProperties, SentType
  <2>2. SUFFICES ASSUME AllStamped(F \o Append(H, e))
                 PROVE  AllStamped(F \o Sent(Append(H, e)))
    BY <2>1
  <2>3. F \o Append(H, e) = Append(F \o H, e)
    BY ConcatAppend
  <2>4. /\ AllStamped(F \o H)
        /\ e.words # <<>> => e.stamp = StampAfter(WordsOf(F \o H), e.words)
    <3>1. AllStamped(Append(F \o H, e))
      BY <2>2, <2>3
    <3>2. QED
      BY <2>1, <3>1, StampedAppend
  <2>5. AllStamped(F \o Sent(H))
    BY <1>2, <2>4
  <2>6. CASE e.words = <<>>
    <3>1. Sent(Append(H, e)) = Sent(H)
      BY <2>6, SentAppend
    <3>2. QED
      BY <2>5, <3>1
  <2>7. CASE e.words # <<>>
    <3>1. Sent(Append(H, e)) = Append(Sent(H), e)
      BY <2>7, SentAppend
    <3>2. F \o Append(Sent(H), e) = Append(F \o Sent(H), e)
      BY <2>1, ConcatAppend
    <3>3. WordsOf(F \o Sent(H)) = WordsOf(F \o H)
      <4>1. WordsOf(F \o Sent(H)) = WordsOf(F) \o WordsOf(Sent(H))
        BY <2>1, WordsConcat
      <4>2. WordsOf(F \o H) = WordsOf(F) \o WordsOf(H)
        BY WordsConcat
      <4>3. WordsOf(Sent(H)) = WordsOf(H)
        BY WordsSent
      <4>4. QED
        BY <4>1, <4>2, <4>3
    <3>4. AllStamped(Append(F \o Sent(H), e))
      <4>1. e.stamp = StampAfter(WordsOf(F \o Sent(H)), e.words)
        BY <2>4, <2>7, <3>3
      <4>2. QED
        BY <2>1, <2>5, <4>1, StampedAppend
    <3>5. QED
      BY <3>1, <3>2, <3>4
  <2>8. QED
    BY <2>6, <2>7
<1>3. Seq(Fragment) \subseteq P
  <2>1. \A H \in Seq(Fragment) : \A e \in Fragment : H \in P => Append(H, e) \in P
    BY <1>2
  <2>2. HIDE DEF P
  <2>3. QED
    BY <1>1, <2>1, SeqInduction
<1>4. QED
  BY <1>3

(***************************************************************************)
(* The second invariant follows the words. All that a run has read is on   *)
(* the line from the fragments sent to the word in the receiver's hand; a  *)
(* stop may cut off its end, once the receiver has left its loop. Before   *)
(* the queue is reset it holds words of the run before, afterwards of this *)
(* one. The generator keeps the time of the last timed word on the part of *)
(* the line that it has passed, and nothing has happened before the first  *)
(* run has reset the queue.                                                *)
(***************************************************************************)
RestInv ==
  /\ (cpc = "stopped") <=> (gpc = "idle")
  /\ cpc = "stopped" => fragBuf = <<>>
  /\ gpc \in {"idle", "check", "done"} => cur.words = <<>>
  /\ delivered \in Seq(Fragment)
  /\ cpc = "zeroTS" => ~rStop

MetricInv ==
  /\ metric \in [ts : Nat, hlt : Nat, total : Nat] /\ hltSeen \in Nat /\ reported \in Nat
  /\ HLTAccounting

FilledIn == IF cpc = "resetWords" THEN run - 1 ELSE run
OneRun == {f \in Fragment : \E r \in 0..MaxRuns : f.words \in Seq(OfRun(r))}

RunInv ==
  ~startRace =>
    /\ wordBuf \in Seq(OfRun(FilledIn))
    /\ gpc = "pop" => cur.words \in Seq(OfRun(FilledIn))
    /\ delivered \in Seq(OneRun) /\ fragBuf \in Seq(OneRun) /\ cur \in OneRun
    /\ rpc = "push" => hand.run = run

Line == WordsOf(Fragments) \o wordBuf \o InHand
Cut == rStop /\ rpc \in {"close", "done", "idle"}

LineInv ==
  /\ cpc = "resetWords" => rcvd = <<>>
  /\ ~startRace /\ cpc # "stopped" =>
       IF Cut THEN IsPrefix(Among(Line, OfRun(run)), rcvd) ELSE Among(Line, OfRun(run)) = rcvd

FreshInv ==
  /\ run <= 1 => ~startRace
  /\ run = 0 \/ (run = 1 /\ cpc = "resetWords") =>
       /\ wordBuf = <<>> /\ nTS = 0 /\ rcvd = <<>> /\ delivered = <<>> /\ fragBuf = <<>>
       /\ cur.words = <<>> /\ lastTS = NoTime /\ ~rError /\ rpc = "idle"
       /\ gpc \in {"idle", "check", "done"}

StampInv ==
  run <= 1 =>
    /\ AllStamped(delivered \o fragBuf)
    /\ cpc # "stopped" => lastTS = LastTime(WordsOf(Fragments))
    /\ gpc \in {"pop", "push"} => cur.stamp = StampAfter(WordsOf(delivered \o fragBuf), cur.words)

SInv == RestInv /\ MetricInv /\ RunInv /\ LineInv /\ FreshInv /\ StampInv

\* Every step keeps the threads in step with each other, and the fragments fragments.
LEMMA StepRest ==
  ASSUME IInv, RestInv, Next
  PROVE  RestInv'
<1>1. CASE Start
  <2>1. delivered' \in Seq(Fragment)
    BY <1>1, EmptySeq DEF Start
  <2>2. QED
    BY <1>1, <2>1 DEF Start, RestInv
<1>2. CASE ResetWords
  BY <1>2 DEF ResetWords, Step, RestInv
<1>3. CASE ZeroTS
  BY <1>3 DEF ZeroTS, Step, RestInv
<1>4. CASE SendStart
  BY <1>4 DEF SendStart, Step, RestInv
<1>5. CASE StopGenerator
  BY <1>5 DEF StopGenerator, Step, RestInv
<1>6. CASE SendStop
  BY <1>6 DEF SendStop, Step, RestInv
<1>7. CASE StopReceiver
  BY <1>7 DEF StopReceiver, Step, RestInv
<1>8. CASE JoinReceiver
  BY <1>8 DEF JoinReceiver, Step, RestInv
<1>9. CASE JoinGenerator
  BY <1>9 DEF JoinGenerator, Step, RestInv
<1>10. CASE GetNext
  <2>1. Sent(fragBuf) \in Seq(Fragment)
    BY SentType DEF IInv, TypeOK, BuilderTypes
  <2>2. delivered' \in Seq(Fragment)
    BY <1>10, <2>1, ConcatProperties DEF GetNext, RestInv
  <2>3. QED
    BY <1>10, <2>2 DEF GetNext, RestInv
<1>11. CASE GetNextError
  BY <1>11 DEF GetNextError, Step, RestInv
<1>12. CASE StopCommand
  BY <1>12 DEF StopCommand, Step, RestInv
<1>13. CASE Accept
  BY <1>13 DEF Accept, Step, RestInv
<1>14. CASE Loop
  BY <1>14 DEF Loop, Step, RestInv
<1>15. CASE ReadHeader
  BY <1>15 DEF ReadHeader, Step, RestInv
<1>16. CASE ReadWord
  BY <1>16 DEF ReadWord, Step, RestInv
<1>17. CASE ReadEOF
  BY <1>17 DEF ReadEOF, Step, RestInv
<1>18. CASE PushWord
  BY <1>18 DEF PushWord, Step, AfterPush, RestInv
<1>19. CASE DropWord
  BY <1>19 DEF DropWord, Step, RestInv
<1>20. CASE Close
  BY <1>20 DEF Close, Step, RestInv
<1>21. CASE BoardCloses
  BY <1>21 DEF BoardCloses, Step, RestInv
<1>22. CASE CheckStop
  BY <1>22 DEF CheckStop, Step, RestInv
<1>23. CASE BeginFragment
  BY <1>23 DEF BeginFragment, Step, RestInv
<1>24. CASE PopWord
  BY <1>24 DEF PopWord, Step, RestInv
<1>25. CASE PushFragment
  BY <1>25 DEF PushFragment, Step, RestInv
<1>26. QED
  BY <1>1, <1>2, <1>3, <1>4, <1>5, <1>6, <1>7, <1>8, <1>9, <1>10, <1>11, <1>12, <1>13,
     <1>14, <1>15, <1>16, <1>17, <1>18, <1>19, <1>20, <1>21, <1>22, <1>23, <1>24, <1>25
  DEF Next, Control, Reader, Receiver, Generator

\* Every step keeps the HLT words of the period and those of the run together.
LEMMA StepMetric ==
  ASSUME MetricInv, Next
  PROVE  MetricInv'
<1>1. CASE Start
  <2>1. PICK a \in Nat, b \in Nat, c \in Nat : metric = [ts |-> a, hlt |-> b, total |-> c]
    BY DEF MetricInv
  <2>2. reported \in Nat /\ hltSeen \in Nat /\ reported + c + b = hltSeen
    BY <2>1 DEF MetricInv, HLTAccounting
  <2>3. metric' = [ts |-> a, hlt |-> b, total |-> 0] /\ reported' = reported + c /\ hltSeen' = hltSeen
    BY <1>1, <2>1 DEF Start
  <2>4. QED
    BY <2>2, <2>3 DEF MetricInv, HLTAccounting
<1>2. CASE ResetWords
  BY <1>2 DEF ResetWords, MetricInv, HLTAccounting
<1>3. CASE ZeroTS
  BY <1>3 DEF ZeroTS, MetricInv, HLTAccounting
<1>4. CASE SendStart
  BY <1>4 DEF SendStart, MetricInv, HLTAccounting
<1>5. CASE StopGenerator
  BY <1>5 DEF StopGenerator, MetricInv, HLTAccounting
<1>6. CASE SendStop
  BY <1>6 DEF SendStop, MetricInv, HLTAccounting
<1>7. CASE StopReceiver
  BY <1>7 DEF StopReceiver, MetricInv, HLTAccounting
<1>8. CASE JoinReceiver
  BY <1>8 DEF JoinReceiver, MetricInv, HLTAccounting
<1>9. CASE JoinGenerator
  BY <1>9 DEF JoinGenerator, MetricInv, HLTAccounting
<1>10. CASE GetNext
  BY <1>10 DEF GetNext, MetricInv, HLTAccounting
<1>11. CASE GetNextError
  BY <1>11 DEF GetNextError, MetricInv, HLTAccounting
<1>12. CASE StopCommand
  BY <1>12 DEF StopCommand, MetricInv, HLTAccounting
<1>13. CASE Accept
  BY <1>13 DEF Accept, MetricInv, HLTAccounting
<1>14. CASE Loop
  BY <1>14 DEF Loop, MetricInv, HLTAccounting
<1>15. CASE ReadHeader
  BY <1>15 DEF ReadHeader, MetricInv, HLTAccounting
<1>16. CASE ReadWord
  BY <1>16 DEF ReadWord, MetricInv, HLTAccounting
<1>17. CASE ReadEOF
  BY <1>17 DEF ReadEOF, MetricInv, HLTAccounting
<1>18. CASE PushWord
  BY <1>18 DEF PushWord, MetricInv, HLTAccounting
<1>19. CASE DropWord
  BY <1>19 DEF DropWord, MetricInv, HLTAccounting
<1>20. CASE Close
  BY <1>20 DEF Close, MetricInv, HLTAccounting
<1>21. CASE BoardCloses
  BY <1>21 DEF BoardCloses, MetricInv, HLTAccounting
<1>22. CASE CheckStop
  BY <1>22 DEF CheckStop, MetricInv, HLTAccounting
<1>23. CASE BeginFragment
  BY <1>23 DEF BeginFragment, MetricInv, HLTAccounting
<1>24. CASE PopWord
  <2>1. PICK w : w = IF wordBuf = <<>> THEN temp ELSE Head(wordBuf)
    OBVIOUS
  <2>2. /\ metric' = Count(w) /\ reported' = reported
        /\ hltSeen' = IF w.kind = "gt" THEN hltSeen + 1 ELSE hltSeen
    BY <1>24, <2>1 DEF PopWord
  <2>3. PICK a \in Nat, b \in Nat, c \in Nat : metric = [ts |-> a, hlt |-> b, total |-> c]
    BY DEF MetricInv
  <2>4. hltSeen \in Nat /\ reported \in Nat /\ reported + c + b = hltSeen
    BY <2>3 DEF MetricInv, HLTAccounting
  <2>5. PICK i, j : /\ i = (IF IsTSWord(w) THEN a + 1 ELSE a)
                    /\ j = (IF w.kind = "gt" THEN b + 1 ELSE b)
    OBVIOUS
  <2>6. metric' = IF i = MetricTSMax THEN [ts |-> 0, hlt |-> 0, total |-> c + j]
                  ELSE [ts |-> i, hlt |-> j, total |-> c]
    <3>1. PICK m : m = [metric EXCEPT !.ts = IF IsTSWord(w) THEN @ + 1 ELSE @,
                                       !.hlt = IF w.kind = "gt" THEN @ + 1 ELSE @]
      OBVIOUS
    <3>2. metric' = IF m.ts = MetricTSMax THEN [ts |-> 0, hlt |-> 0, total |-> m.total + m.hlt]
                    ELSE m
      BY <2>2, <3>1 DEF Count
    <3>3. m.ts = i /\ m.hlt = j /\ m.total = c
      BY <2>3, <2>5, <3>1
    <3>4. m = [ts |-> m.ts, hlt |-> m.hlt, total |-> m.total]
      BY <2>3, <3>1
    <3>5. QED
      BY <3>2, <3>3, <3>4
  <2>7. i \in Nat /\ j \in Nat /\ reported' + c + j = hltSeen' /\ hltSeen' \in Nat /\ reported' \in Nat
    BY <2>2, <2>4, <2>5
  <2>8. /\ metric' \in [ts : Nat, hlt : Nat, total : Nat]
        /\ metric'.total + metric'.hlt = c + j
    <3>1. CASE i = MetricTSMax
      <4>1. metric' = [ts |-> 0, hlt |-> 0, total |-> c + j]
        BY <2>6, <3>1
      <4>2. QED
        BY <2>3, <2>5, <4>1
    <3>2. CASE i # MetricTSMax
      <4>1. metric' = [ts |-> i, hlt |-> j, total |-> c]
        BY <2>6, <3>2
      <4>2. QED
        BY <2>3, <2>5, <4>1
    <3>3. QED
      BY <3>1, <3>2
  <2>9. reported' + metric'.total + metric'.hlt = hltSeen'
    <3>1. PICK x \in Nat, y \in Nat : x = metric'.total /\ y = metric'.hlt
      BY <2>8
    <3>2. x + y = c + j
      BY <2>8, <3>1
    <3>3. PICK r \in Nat : r = reported'
      BY <2>7
    <3>4. c \in Nat /\ j \in Nat /\ r + c + j = hltSeen'
      BY <2>3, <2>7, <3>3
    <3>5. r + x + y = r + c + j
      BY <3>2, <3>4
    <3>6. reported' + x + y = hltSeen'
      BY <3>3, <3>4, <3>5
    <3>7. QED
      BY <3>1, <3>6
  <2>10. QED
    BY <2>7, <2>8, <2>9 DEF MetricInv, HLTAccounting
<1>25. CASE PushFragment
  BY <1>25 DEF PushFragment, MetricInv, HLTAccounting
<1>26. QED
  BY <1>1, <1>2, <1>3, <1>4, <1>5, <1>6, <1>7, <1>8, <1>9, <1>10, <1>11, <1>12, <1>13,
     <1>14, <1>15, <1>16, <1>17, <1>18, <1>19, <1>20, <1>21, <1>22, <1>23, <1>24, <1>25
  DEF Next, Control, Reader, Receiver, Generator

\* A fragment without words is of one run.
LEMMA EmptyOneRun ==
  ASSUME NEW c \in Fragment, c.words = <<>>
  PROVE  c \in OneRun
<1>1. 0 \in 0..MaxRuns /\ c.words \in Seq(OfRun(0))
  BY EmptySeq, Constants
<1>2. QED
  BY <1>1 DEF OneRun

\* A pop finds a word, unless the queue was reset under it.
LEMMA PopHasWord ==
  ASSUME IInv, gpc = "pop", ~startRace
  PROVE  wordBuf # <<>>
<1>1. Len(cur.words) < nWords /\ nWords <= Len(cur.words) + Len(wordBuf)
  BY DEF IInv, PopInv
<1>2. Len(cur.words) \in Nat /\ nWords \in Nat
  BY LenProperties, Constants DEF IInv, TypeOK, BuilderTypes, Fragment
<1>3. QED
  BY <1>1, <1>2, EmptySeq

\* A step that moves no word keeps the words where they belong.
LEMMA RunFrame ==
  ASSUME RunInv, UNCHANGED <<startRace, wordBuf, cur, delivered, fragBuf, run>>,
         gpc' = "pop" => gpc = "pop", FilledIn' = FilledIn,
         rpc' = "push" => rpc = "push" /\ hand' = hand
  PROVE  RunInv'
BY DEF RunInv

\* Every step keeps the words of one run together.
LEMMA StepRun ==
  ASSUME IInv, IInv', RestInv, RunInv, Next
  PROVE  RunInv'
<1>1. CASE Start
  <2>1. SUFFICES ASSUME ~startRace PROVE RunInv'
    BY <1>1 DEF Start, RunInv
  <2>2. FilledIn' = FilledIn
    BY <1>1 DEF Start, FilledIn, IInv, TypeOK, ControlTypes
  <2>3. delivered' \in Seq(OneRun) /\ rpc' # "push" /\ gpc' # "pop"
    BY <1>1, EmptySeq DEF Start, IInv, PhaseInv
  <2>4. UNCHANGED <<wordBuf, fragBuf, cur>>
    BY <1>1 DEF Start
  <2>5. QED
    BY <2>1, <2>2, <2>3, <2>4 DEF RunInv
<1>2. CASE ResetWords
  <2>1. SUFFICES ASSUME ~startRace' PROVE RunInv'
    BY DEF RunInv
  <2>2. ~startRace /\ gpc # "pop" /\ wordBuf' = <<>>
    BY <1>2, <2>1, Zenon DEF ResetWords
  <2>3. UNCHANGED <<fragBuf, cur, delivered, rpc, gpc>>
    BY <1>2 DEF ResetWords
  <2>4. rpc' # "push" /\ gpc' # "pop"
    BY <1>2, <2>2, <2>3 DEF ResetWords, IInv, PhaseInv
  <2>5. wordBuf' \in Seq(OfRun(FilledIn'))
    BY <2>2, EmptySeq
  <2>6. QED
    BY <2>2, <2>3, <2>4, <2>5 DEF RunInv
<1>3. CASE ZeroTS
  BY <1>3, RunFrame DEF ZeroTS, Step, FilledIn
<1>4. CASE SendStart
  BY <1>4, RunFrame DEF SendStart, Step, FilledIn
<1>5. CASE StopGenerator
  BY <1>5, RunFrame DEF StopGenerator, Step, FilledIn
<1>6. CASE SendStop
  BY <1>6, RunFrame DEF SendStop, Step, FilledIn
<1>7. CASE StopReceiver
  BY <1>7, RunFrame DEF StopReceiver, Step, FilledIn
<1>8. CASE JoinReceiver
  BY <1>8, RunFrame DEF JoinReceiver, Step, FilledIn
<1>9. CASE JoinGenerator
  <2>1. SUFFICES ASSUME ~startRace PROVE RunInv'
    BY <1>9 DEF JoinGenerator, RunInv
  <2>2. FilledIn' = FilledIn /\ UNCHANGED <<wordBuf, cur, delivered, rpc, hand, run>>
    BY <1>9 DEF JoinGenerator, FilledIn
  <2>3. fragBuf' \in Seq(OneRun) /\ gpc' # "pop"
    BY <1>9, EmptySeq DEF JoinGenerator
  <2>4. QED
    BY <2>1, <2>2, <2>3 DEF RunInv
<1>10. CASE GetNext
  <2>1. SUFFICES ASSUME ~startRace PROVE RunInv'
    BY <1>10 DEF GetNext, RunInv
  <2>2. FilledIn' = FilledIn /\ fragBuf' = <<>> /\ UNCHANGED <<wordBuf, cur, gpc, rpc, hand, run>>
    BY <1>10 DEF GetNext, FilledIn
  <2>3. delivered \in Seq(OneRun) /\ fragBuf \in Seq(OneRun)
    BY <2>1 DEF RunInv
  <2>4. delivered' \in Seq(OneRun) /\ fragBuf' \in Seq(OneRun)
    <3>1. Sent(fragBuf) \in Seq(OneRun)
      BY <2>3, SentType
    <3>2. delivered' = delivered \o Sent(fragBuf)
      BY <1>10 DEF GetNext
    <3>3. QED
      BY <2>2, <2>3, <3>1, <3>2, ConcatProperties, EmptySeq
  <2>5. QED
    BY <2>1, <2>2, <2>4 DEF RunInv
<1>11. CASE GetNextError
  BY <1>11, RunFrame DEF GetNextError, Step, FilledIn
<1>12. CASE StopCommand
  BY <1>12, RunFrame DEF StopCommand, Step, FilledIn
<1>13. CASE Accept
  BY <1>13, RunFrame DEF Accept, Step, FilledIn
<1>14. CASE Loop
  BY <1>14, RunFrame DEF Loop, Step, FilledIn
<1>15. CASE ReadHeader
  BY <1>15, RunFrame DEF ReadHeader, Step, FilledIn
<1>16. CASE ReadWord
  <2>1. hand'.run = run' /\ FilledIn' = FilledIn
    BY <1>16 DEF ReadWord, FilledIn
  <2>2. UNCHANGED <<wordBuf, cur, delivered, fragBuf, gpc, startRace>>
    BY <1>16 DEF ReadWord
  <2>3. QED
    BY <2>1, <2>2 DEF RunInv
<1>17. CASE ReadEOF
  BY <1>17, RunFrame DEF ReadEOF, Step, FilledIn
<1>18. CASE PushWord
  <2>1. SUFFICES ASSUME ~startRace PROVE RunInv'
    BY <1>18 DEF PushWord, RunInv
  <2>2. FilledIn' = FilledIn /\ UNCHANGED <<cur, delivered, fragBuf, gpc>> /\ rpc' # "push"
    BY <1>18 DEF PushWord, Step, AfterPush, FilledIn
  <2>3. FilledIn = run /\ hand \in Word /\ hand.run = run
    BY <1>18, <2>1 DEF PushWord, Step, FilledIn, IInv, PhaseInv, ReceiverInv, RunInv
  <2>4. hand \in OfRun(FilledIn)
    BY <2>3 DEF OfRun
  <2>5. wordBuf' \in Seq(OfRun(FilledIn))
    BY <1>18, <2>1, <2>4, AppendProperties DEF PushWord, RunInv
  <2>6. QED
    BY <2>1, <2>2, <2>5 DEF RunInv
<1>19. CASE DropWord
  BY <1>19, RunFrame DEF DropWord, Step, FilledIn
<1>20. CASE Close
  BY <1>20, RunFrame DEF Close, Step, FilledIn
<1>21. CASE BoardCloses
  BY <1>21, RunFrame DEF BoardCloses, Step, FilledIn
<1>22. CASE CheckStop
  BY <1>22, RunFrame DEF CheckStop, Step, FilledIn
<1>23. CASE BeginFragment
  <2>1. SUFFICES ASSUME ~startRace PROVE RunInv'
    BY <1>23 DEF BeginFragment, RunInv
  <2>2. FilledIn' = FilledIn /\ UNCHANGED <<wordBuf, delivered, fragBuf, rpc, hand, run>>
    BY <1>23 DEF BeginFragment, FilledIn
  <2>3. cur'.words = <<>> /\ cur' \in Fragment
    BY <1>23 DEF BeginFragment, IInv, TypeOK, BuilderTypes
  <2>4. cur' \in OneRun /\ cur'.words \in Seq(OfRun(FilledIn'))
    BY <2>3, EmptyOneRun, EmptySeq
  <2>5. QED
    BY <2>1, <2>2, <2>4 DEF RunInv
<1>24. CASE PopWord
  <2>1. SUFFICES ASSUME ~startRace PROVE RunInv'
    BY <1>24 DEF PopWord, RunInv
  <2>2. FilledIn' = FilledIn /\ UNCHANGED <<delivered, fragBuf, rpc, hand, run>>
    BY <1>24 DEF PopWord, FilledIn
  <2>3. wordBuf # <<>> /\ gpc = "pop"
    BY <1>24, <2>1, PopHasWord DEF PopWord
  <2>4. PICK S : S = OfRun(FilledIn)
    OBVIOUS
  <2>5. wordBuf \in Seq(S) /\ cur.words \in Seq(S)
    BY <2>1, <2>3, <2>4 DEF RunInv
  <2>6. Head(wordBuf) \in S /\ Tail(wordBuf) \in Seq(S)
    BY <2>3, <2>5, HeadTailProperties
  <2>7. wordBuf' = Tail(wordBuf) /\ cur'.words = Append(cur.words, Head(wordBuf))
    BY <1>24, <2>3 DEF PopWord
  <2>8. cur'.words \in Seq(S)
    BY <2>5, <2>6, <2>7, AppendProperties
  <2>9. cur' \in OneRun
    <3>1. FilledIn \in 0..MaxRuns
      BY Constants DEF FilledIn, IInv, PhaseInv, TypeOK, ControlTypes
    <3>2. cur' \in Fragment
      BY DEF IInv, TypeOK, BuilderTypes
    <3>3. QED
      BY <2>4, <2>8, <3>1, <3>2 DEF OneRun
  <2>10. QED
    BY <2>1, <2>2, <2>4, <2>6, <2>7, <2>8, <2>9 DEF RunInv
<1>25. CASE PushFragment
  <2>1. SUFFICES ASSUME ~startRace PROVE RunInv'
    BY <1>25 DEF PushFragment, RunInv
  <2>2. FilledIn' = FilledIn /\ UNCHANGED <<wordBuf, delivered, rpc, hand, run>> /\ gpc' # "pop"
    BY <1>25 DEF PushFragment, FilledIn
  <2>3. cur'.words = <<>> /\ cur' \in Fragment
    BY <1>25 DEF PushFragment, IInv, TypeOK, BuilderTypes
  <2>4. cur' \in OneRun
    BY <2>3, EmptyOneRun
  <2>5. fragBuf' \in Seq(OneRun)
    BY <1>25, <2>1, AppendProperties DEF PushFragment, RunInv
  <2>6. QED
    BY <2>1, <2>2, <2>4, <2>5 DEF RunInv
<1>26. QED
  BY <1>1, <1>2, <1>3, <1>4, <1>5, <1>6, <1>7, <1>8, <1>9, <1>10, <1>11, <1>12, <1>13,
     <1>14, <1>15, <1>16, <1>17, <1>18, <1>19, <1>20, <1>21, <1>22, <1>23, <1>24, <1>25
  DEF Next, Control, Reader, Receiver, Generator

\* A sequence begins with itself ...
LEMMA PrefixSelf ==
  ASSUME NEW S, NEW s \in Seq(S)
  PROVE  IsPrefix(s, s)
BY LenProperties DEF IsPrefix

\* ... and still after an element has been appended.
LEMMA PrefixAppend ==
  ASSUME NEW S, NEW s \in Seq(S), NEW e \in S
  PROVE  IsPrefix(s, Append(s, e))
<1>1. /\ Len(s) \in Nat /\ Append(s, e) \in Seq(S) /\ Len(Append(s, e)) = Len(s) + 1
      /\ \A i \in 1..Len(s) : Append(s, e)[i] = s[i] /\ s[i] \in S
  BY AppendProperties, LenProperties
<1>2. PICK t, n : t = Append(s, e) /\ n = Len(s)
  OBVIOUS
<1>3. /\ n \in Int /\ 1 \in Int /\ \A i \in 1..n : t[i] \in S
      /\ n - 1 + 1 = n /\ (1 <= n \/ n = 0)
  BY <1>1, <1>2
<1>4. SubSeq(t, 1, n) \in Seq(S) /\ Len(SubSeq(t, 1, n)) = n /\ \A i \in 1..n : SubSeq(t, 1, n)[i] = t[i]
  BY <1>3, SubSeqProperties
<1>5. SubSeq(t, 1, n) = s
  BY <1>1, <1>2, <1>4, SeqEqual
<1>6. SubSeq(s, 1, n) = s
  BY <1>2, SubSeqFull
<1>7. QED
  BY <1>1, <1>2, <1>5, <1>6 DEF IsPrefix

\* The beginnings of the empty sequence are empty.
LEMMA PrefixOfEmpty ==
  ASSUME NEW S, NEW s \in Seq(S), IsPrefix(s, <<>>)
  PROVE  s = <<>>
BY EmptySeq, LenProperties DEF IsPrefix

\* The first element moved from one sequence to the end of the one before it.
LEMMA HeadMoves ==
  ASSUME NEW S, NEW s \in Seq(S), NEW t \in Seq(S), t # <<>>
  PROVE  Append(s, Head(t)) \o Tail(t) = s \o t
<1>1. PICK h, u : h = Head(t) /\ u = Tail(t)
  OBVIOUS
<1>2. h \in S /\ u \in Seq(S) /\ <<h>> \in Seq(S)
  BY <1>1, HeadTailProperties
<1>3. t = <<h>> \o u
  <2>1. Len(t) \in Nat \ {0} /\ Len(u) = Len(t) - 1 /\ \A i \in 1..Len(u) : u[i] = t[i + 1]
    BY <1>1, HeadTailProperties, EmptySeq
  <2>2. /\ <<h>> \o u \in Seq(S) /\ Len(<<h>> \o u) = 1 + Len(u)
        /\ \A i \in 1..(1 + Len(u)) : (<<h>> \o u)[i] = IF i <= 1 THEN <<h>>[i] ELSE u[i - 1]
    <3>1. Len(<<h>>) = 1
      OBVIOUS
    <3>2. QED
      BY <1>2, <3>1, ConcatProperties
  <2>3. t[1] = h
    BY <1>1
  <2>4. \A i \in 1..Len(t) : t[i] = (<<h>> \o u)[i]
    <3>1. SUFFICES ASSUME NEW i \in 1..Len(t) PROVE t[i] = (<<h>> \o u)[i]
      OBVIOUS
    <3>2. i \in 1..(1 + Len(u))
      BY <2>1
    <3>3. CASE i = 1
      BY <2>2, <2>3, <3>2, <3>3
    <3>4. CASE i # 1
      <4>1. i - 1 \in 1..Len(u) /\ (i - 1) + 1 = i /\ ~(i <= 1)
        BY <2>1, <3>4
      <4>2. QED
        BY <2>1, <2>2, <3>2, <4>1
    <3>5. QED
      BY <3>3, <3>4
  <2>5. Len(t) = Len(<<h>> \o u)
    BY <2>1, <2>2
  <2>6. QED
    BY <2>2, <2>4, <2>5, SeqEqual
<1>4. Append(s, h) = s \o <<h>>
  BY <1>2, AppendIsConcat
<1>5. (s \o <<h>>) \o u = s \o (<<h>> \o u)
  BY <1>2, ConcatAssociative
<1>6. QED
  BY <1>1, <1>3, <1>4, <1>5

\* The words of the fragments sent, built and under construction.
LEMMA LineParts ==
  ASSUME NEW D \in Seq(Fragment), NEW F \in Seq(Fragment), NEW c \in Fragment
  PROVE  /\ D \o F \in Seq(Fragment) /\ D \o F \o <<c>> = Append(D \o F, c)
         /\ D \o F \o <<c>> \in Seq(Fragment)
         /\ WordsOf(D \o F \o <<c>>) = WordsOf(D \o F) \o c.words
         /\ WordsOf(D \o F) \in Seq(Word \cup {NoWord})
         /\ WordsOf(D \o F \o <<c>>) \in Seq(Word \cup {NoWord})
<1>1. D \o F \in Seq(Fragment)
  BY ConcatProperties
<1>2. (D \o F) \o <<c>> = Append(D \o F, c)
  BY <1>1, AppendIsConcat
<1>3. Append(D \o F, c) \in Seq(Fragment)
  BY <1>1, AppendProperties
<1>4. QED
  BY <1>1, <1>2, <1>3, WordsAppend, WordsType

\* The parts of the line are sequences of words.
LEMMA LineTypes ==
  ASSUME IInv, RestInv
  PROVE  /\ Fragments \in Seq(Fragment) /\ WordsOf(Fragments) \in Seq(Word \cup {NoWord})
         /\ wordBuf \in Seq(Word \cup {NoWord}) /\ InHand \in Seq(Word \cup {NoWord})
         /\ Line \in Seq(Word \cup {NoWord})
<1>1. delivered \in Seq(Fragment) /\ fragBuf \in Seq(Fragment) /\ cur \in Fragment
  BY DEF RestInv, IInv, TypeOK, BuilderTypes
<1>2. Fragments \in Seq(Fragment) /\ WordsOf(Fragments) \in Seq(Word \cup {NoWord})
  BY <1>1, LineParts DEF Fragments
<1>3. wordBuf \in Seq(Word \cup {NoWord})
  BY SeqMonotonic DEF IInv, TypeOK, ReceiverTypes
<1>4. InHand \in Seq(Word \cup {NoWord})
  <2>1. rpc = "push" => <<hand>> \in Seq(Word \cup {NoWord})
    BY DEF IInv, ReceiverInv
  <2>2. QED
    BY <2>1, EmptySeq DEF InHand
<1>5. Line \in Seq(Word \cup {NoWord})
  BY <1>2, <1>3, <1>4, ConcatProperties DEF Line
<1>6. QED
  BY <1>2, <1>3, <1>4, <1>5

\* getNext_() changes none of the words passed on.
LEMMA WordsGetNext ==
  ASSUME NEW D \in Seq(Fragment), NEW F \in Seq(Fragment), NEW c \in Fragment
  PROVE  WordsOf((D \o Sent(F)) \o <<>> \o <<c>>) = WordsOf(D \o F \o <<c>>)
<1>1. PICK G : G = D \o Sent(F)
  OBVIOUS
<1>2. Sent(F) \in Seq(Fragment) /\ G \in Seq(Fragment) /\ <<>> \in Seq(Fragment)
  BY <1>1, SentType, ConcatProperties, EmptySeq
<1>3. WordsOf(G) = WordsOf(D \o F)
  <2>1. WordsOf(G) = WordsOf(D) \o WordsOf(Sent(F))
    BY <1>1, <1>2, WordsConcat
  <2>2. WordsOf(D \o F) = WordsOf(D) \o WordsOf(F)
    BY WordsConcat
  <2>3. QED
    BY <2>1, <2>2, WordsSent
<1>4. G \o <<>> = G
  BY <1>2, ConcatEmptySeq
<1>5. WordsOf(G \o <<>> \o <<c>>) = WordsOf(G) \o c.words
  <2>1. WordsOf(G \o <<>> \o <<c>>) = WordsOf(G \o <<>>) \o c.words
    BY <1>2, LineParts
  <2>2. QED
    BY <1>4, <2>1
<1>6. WordsOf(D \o F \o <<c>>) = WordsOf(D \o F) \o c.words
  BY LineParts
<1>7. QED
  BY <1>1, <1>3, <1>5, <1>6

\* PopWord moves a word from the queue to the words passed.
LEMMA WordsPop ==
  ASSUME IInv, IInv', RestInv, wordBuf # <<>>, UNCHANGED <<delivered, fragBuf>>,
         cur'.words = Append(cur.words, Head(wordBuf))
  PROVE  WordsOf(Fragments') = Append(WordsOf(Fragments), Head(wordBuf))
<1>1. /\ cur \in Fragment /\ cur' \in Fragment
      /\ delivered \in Seq(Fragment) /\ fragBuf \in Seq(Fragment)
  BY DEF RestInv, IInv, TypeOK, BuilderTypes
<1>2. PICK V, q, w : V = Word \cup {NoWord} /\ q = WordsOf(delivered \o fragBuf) /\ w = Head(wordBuf)
  OBVIOUS
<1>3. q \in Seq(V) /\ cur.words \in Seq(V) /\ w \in V
  <2>1. wordBuf \in Seq(V)
    BY <1>2, LineTypes
  <2>2. w \in V
    BY <1>2, <2>1, HeadTailProperties
  <2>3. QED
    BY <1>1, <1>2, <2>2, LineParts DEF Fragment
<1>4. WordsOf(Fragments) = q \o cur.words
  BY <1>1, <1>2, LineParts DEF Fragments
<1>5. WordsOf(Fragments') = q \o cur'.words
  <2>1. WordsOf(delivered \o fragBuf \o <<cur'>>) = q \o cur'.words
    BY <1>1, <1>2, LineParts
  <2>2. QED
    BY <2>1 DEF Fragments
<1>6. q \o Append(cur.words, w) = Append(q \o cur.words, w)
  BY <1>3, ConcatAppend
<1>7. QED
  BY <1>2, <1>4, <1>5, <1>6

\* PushFragment leaves the words passed as they are.
LEMMA WordsPush ==
  ASSUME IInv, IInv', RestInv, PushFragment
  PROVE  WordsOf(Fragments') = WordsOf(Fragments)
<1>1. /\ cur \in Fragment /\ cur' \in Fragment
      /\ delivered \in Seq(Fragment) /\ fragBuf \in Seq(Fragment)
  BY DEF RestInv, IInv, TypeOK, BuilderTypes
<1>2. cur'.words = <<>> /\ fragBuf' = Append(fragBuf, cur) /\ delivered' = delivered
  BY DEF PushFragment
<1>3. PICK G : G = Append(fragBuf, cur)
  OBVIOUS
<1>4. G \in Seq(Fragment)
  BY <1>1, <1>3, AppendProperties
<1>5. delivered \o G = delivered \o fragBuf \o <<cur>>
  <2>1. delivered \o G = Append(delivered \o fragBuf, cur)
    BY <1>1, <1>3, ConcatAppend
  <2>2. QED
    BY <1>1, <2>1, LineParts
<1>6. WordsOf(delivered \o G) = WordsOf(Fragments)
  BY <1>5 DEF Fragments
<1>7. WordsOf(delivered \o G \o <<cur'>>) = WordsOf(delivered \o G) \o <<>>
  <2>1. WordsOf(delivered \o G \o <<cur'>>) = WordsOf(delivered \o G) \o cur'.words
    BY <1>1, <1>4, LineParts
  <2>2. QED
    BY <1>2, <2>1
<1>8. WordsOf(delivered \o G) \o <<>> = WordsOf(delivered \o G)
  BY <1>6, LineTypes, ConcatEmptySeq
<1>9. WordsOf(Fragments') = WordsOf(delivered \o G \o <<cur'>>)
  BY <1>2, <1>3 DEF Fragments
<1>10. QED
  BY <1>6, <1>7, <1>8, <1>9

\* A step that leaves the line and what was read alone.
LEMMA LineFrame ==
  ASSUME IInv, LineInv, Line' = Line, UNCHANGED <<rcvd, run, startRace>>,
         cpc = "stopped" => cpc' = "stopped", cpc' = "resetWords" => cpc = "resetWords",
         Cut => Cut'
  PROVE  LineInv'
<1>1. rcvd \in Seq(Word)
  BY DEF IInv, TypeOK, ReceiverTypes
<1>2. IsPrefix(rcvd, rcvd)
  BY <1>1, PrefixSelf
<1>3. PICK a : a = Among(Line, OfRun(run))
  OBVIOUS
<1>4. a = Among(Line', OfRun(run'))
  BY <1>3
<1>5. ~startRace /\ cpc # "stopped" =>
         IF Cut THEN IsPrefix(a, rcvd) ELSE a = rcvd
  BY <1>3 DEF LineInv
<1>6. ~startRace' /\ cpc' # "stopped" =>
         IF Cut' THEN IsPrefix(a, rcvd) ELSE a = rcvd
  BY <1>2, <1>5
<1>7. QED
  BY <1>4, <1>6 DEF LineInv

\* Every step keeps what has been read on the line.
LEMMA StepLine ==
  ASSUME IInv, IInv', RestInv, RunInv, LineInv, Next
  PROVE  LineInv'
<1>1. CASE Start
  <2>1. SUFFICES ASSUME ~startRace PROVE LineInv'
    BY <1>1 DEF Start, LineInv
  <2>2. /\ delivered' = <<>> /\ fragBuf' = <<>> /\ cur' = cur /\ cur.words = <<>>
        /\ InHand' = <<>> /\ wordBuf' = wordBuf /\ rcvd' = <<>> /\ run' = run + 1
    BY <1>1 DEF Start, RestInv, InHand, IInv, PhaseInv
  <2>3. Line' = wordBuf
    <3>1. WordsOf(Fragments') = <<>>
      <4>1. <<>> \in Seq(Fragment) /\ cur \in Fragment
        BY EmptySeq DEF IInv, TypeOK, BuilderTypes
      <4>2. WordsOf(<<>> \o <<>> \o <<cur>>) = WordsOf(<<>> \o <<>>) \o cur.words
        BY <4>1, LineParts
      <4>3. <<>> \o <<>> = <<>>
        BY <4>1, ConcatEmptySeq
      <4>4. WordsOf(<<>> \o <<>>) \o cur.words = <<>>
        BY <2>2, <4>3, WordsEmpty
      <4>5. QED
        BY <2>2, <4>2, <4>4 DEF Fragments
    <3>2. wordBuf \in Seq(Word)
      BY DEF IInv, TypeOK, ReceiverTypes
    <3>3. <<>> \o wordBuf \o <<>> = wordBuf
      BY <3>2, ConcatEmptySeq
    <3>4. QED
      BY <2>2, <3>1, <3>3 DEF Line
  <2>4. wordBuf \in Seq(OfRun(run))
    BY <1>1, <2>1 DEF Start, RunInv, FilledIn
  <2>5. Among(wordBuf, OfRun(run + 1)) = <<>>
    <3>1. \A i \in 1..Len(wordBuf) : wordBuf[i] \in OfRun(run)
      BY <2>4, ElementOfSeq
    <3>2. run \in Nat
      BY Constants DEF IInv, TypeOK, ControlTypes
    <3>3. \A i \in 1..Len(wordBuf) : wordBuf[i] \notin OfRun(run + 1)
      BY <3>1, <3>2 DEF OfRun
    <3>4. QED
      BY <2>4, <3>3, AmongNone
  <2>6. Among(Line', OfRun(run')) = rcvd'
    BY <2>2, <2>3, <2>5
  <2>7. rcvd' \in Seq(Word)
    BY DEF IInv, TypeOK, ReceiverTypes
  <2>8. QED
    BY <2>2, <2>6, <2>7, PrefixSelf DEF LineInv
<1>2. CASE ResetWords
  <2>1. SUFFICES ASSUME ~startRace' PROVE LineInv'
    BY <1>2 DEF ResetWords, LineInv
  <2>2. /\ ~startRace /\ wordBuf' = <<>> /\ ~rStop'
    BY <1>2, <2>1, Zenon DEF ResetWords
  <2>3. /\ UNCHANGED <<Fragments, rcvd, run, rpc>> /\ cpc = "resetWords" /\ cpc' = "zeroTS"
        /\ InHand = <<>> /\ InHand' = <<>>
    BY <1>2 DEF ResetWords, Fragments, InHand, IInv, PhaseInv
  <2>4. PICK V, T, p : V = Word \cup {NoWord} /\ T = OfRun(run) /\ p = WordsOf(Fragments)
    OBVIOUS
  <2>5. p \in Seq(V) /\ wordBuf \in Seq(V)
    BY <2>4, LineTypes
  <2>6. Line = p \o wordBuf /\ Line' = p
    <3>1. (p \o wordBuf) \o <<>> = p \o wordBuf /\ (p \o <<>>) \o <<>> = p
      BY <2>5, ConcatProperties, ConcatEmptySeq
    <3>2. QED
      BY <2>2, <2>3, <2>4, <3>1 DEF Line
  <2>7. Among(Line, T) = <<>>
    <3>1. rcvd = <<>>
      BY <2>3 DEF LineInv
    <3>2. Among(Line, T) = rcvd \/ IsPrefix(Among(Line, T), rcvd)
      BY <2>2, <2>3, <2>4 DEF LineInv
    <3>3. Among(Line, T) \in Seq(V)
      BY <2>4, LineTypes, AmongType
    <3>4. QED
      BY <3>1, <3>2, <3>3, PrefixOfEmpty
  <2>8. Among(p, T) = <<>>
    <3>1. Among(p, T) \in Seq(V) /\ Among(wordBuf, T) \in Seq(V)
      BY <2>5, AmongType
    <3>2. Among(p, T) \o Among(wordBuf, T) = <<>>
      BY <2>5, <2>6, <2>7, AmongConcat
    <3>3. QED
      BY <3>1, <3>2, ConcatEqualIffEmpty
  <2>9. Among(Line', OfRun(run')) = rcvd'
    BY <2>3, <2>4, <2>6, <2>8 DEF LineInv
  <2>10. QED
    BY <2>2, <2>3, <2>9 DEF LineInv, Cut
<1>3. CASE ZeroTS
  <2>1. Line' = Line /\ UNCHANGED <<rcvd, run, startRace>> /\ cpc = "zeroTS" /\ cpc' = "sendStart"
    BY <1>3 DEF ZeroTS, Line, Fragments, InHand, IInv, PhaseInv
  <2>2. ~Cut
    BY <2>1 DEF RestInv, Cut
  <2>3. QED
    BY <2>1, <2>2, LineFrame
<1>4. CASE SendStart
  BY <1>4, LineFrame DEF SendStart, Step, Line, Fragments, InHand, Cut
<1>5. CASE StopGenerator
  BY <1>5, LineFrame DEF StopGenerator, Step, Line, Fragments, InHand, Cut
<1>6. CASE SendStop
  BY <1>6, LineFrame DEF SendStop, Step, Line, Fragments, InHand, Cut
<1>7. CASE StopReceiver
  BY <1>7, LineFrame DEF StopReceiver, Step, Line, Fragments, InHand, Cut
<1>8. CASE JoinReceiver
  BY <1>8, LineFrame DEF JoinReceiver, Step, Line, Fragments, InHand, Cut
<1>9. CASE JoinGenerator
  BY <1>9 DEF JoinGenerator, LineInv
<1>10. CASE GetNext
  <2>1. /\ delivered' = delivered \o Sent(fragBuf) /\ fragBuf' = <<>>
        /\ UNCHANGED <<cur, wordBuf, InHand, rcvd, run, startRace, rStop, rpc>>
    BY <1>10 DEF GetNext, InHand
  <2>2. /\ delivered \in Seq(Fragment) /\ fragBuf \in Seq(Fragment) /\ cur \in Fragment
    BY DEF RestInv, IInv, TypeOK, BuilderTypes
  <2>3. WordsOf(Fragments') = WordsOf(Fragments)
    <3>1. WordsOf((delivered \o Sent(fragBuf)) \o <<>> \o <<cur>>)
            = WordsOf(delivered \o fragBuf \o <<cur>>)
      BY <2>2, WordsGetNext
    <3>2. QED
      BY <2>1, <3>1 DEF Fragments
  <2>4. Line' = Line
    BY <2>1, <2>3 DEF Line
  <2>5. QED
    BY <1>10, <2>1, <2>4, LineFrame DEF GetNext, Cut
<1>11. CASE GetNextError
  BY <1>11, LineFrame DEF GetNextError, Step, Line, Fragments, InHand, Cut
<1>12. CASE StopCommand
  BY <1>12, LineFrame DEF StopCommand, Step, Line, Fragments, InHand, Cut
<1>13. CASE Accept
  BY <1>13, LineFrame DEF Accept, Step, Line, Fragments, InHand, Cut
<1>14. CASE Loop
  BY <1>14, LineFrame DEF Loop, Step, Line, Fragments, InHand, Cut
<1>15. CASE ReadHeader
  BY <1>15, LineFrame DEF ReadHeader, Step, Line, Fragments, InHand, Cut
<1>16. CASE ReadWord
  <2>1. /\ InHand = <<>> /\ InHand' = <<hand'>> /\ rcvd' = Append(rcvd, hand')
        /\ UNCHANGED <<Fragments, wordBuf, run, startRace, cpc>> /\ rpc' = "push" /\ rpc = "word"
    BY <1>16 DEF ReadWord, Step, InHand, Fragments
  <2>2. hand' \in OfRun(run)
    <3>1. hand' \in Word
      BY <2>1 DEF IInv, ReceiverInv
    <3>2. hand'.run = run
      BY <1>16 DEF ReadWord
    <3>3. QED
      BY <3>1, <3>2 DEF OfRun
  <2>3. SUFFICES ASSUME ~startRace, cpc # "stopped" PROVE LineInv'
    BY <2>1, <1>16 DEF LineInv, IInv, PhaseInv
  <2>4. Among(Line, OfRun(run)) = rcvd
    BY <2>1, <2>3 DEF LineInv, Cut
  <2>5. PICK V, p, w : V = Word \cup {NoWord} /\ p = WordsOf(Fragments) \o wordBuf /\ w = hand'
    OBVIOUS
  <2>6. p \in Seq(V) /\ w \in V
    BY <2>2, <2>5, LineTypes, ConcatProperties DEF OfRun
  <2>7. Line = p /\ Line' = Append(p, w)
    <3>1. p \o <<>> = p /\ p \o <<w>> = Append(p, w)
      BY <2>6, ConcatEmptySeq, AppendIsConcat
    <3>2. QED
      BY <2>1, <2>5, <3>1 DEF Line
  <2>8. Among(Line', OfRun(run)) = Append(Among(Line, OfRun(run)), w)
    <3>1. w \in OfRun(run)
      BY <2>2, <2>5
    <3>2. Among(Append(p, w), OfRun(run)) = Append(Among(p, OfRun(run)), w)
      BY <2>6, <3>1, AmongAppend
    <3>3. QED
      BY <2>7, <3>2
  <2>9. Among(Line', OfRun(run')) = rcvd'
    BY <2>1, <2>4, <2>5, <2>8
  <2>10. QED
    <3>1. ~Cut' /\ cpc' # "resetWords"
      BY <2>1 DEF Cut, IInv, PhaseInv
    <3>2. QED
      BY <2>9, <3>1 DEF LineInv
<1>17. CASE ReadEOF
  BY <1>17, LineFrame DEF ReadEOF, Step, Line, Fragments, InHand, Cut
<1>18. CASE PushWord
  <2>1. /\ InHand = <<hand>> /\ InHand' = <<>> /\ wordBuf' = Append(wordBuf, hand)
        /\ UNCHANGED <<Fragments, rcvd, run, startRace, cpc>> /\ rpc = "push"
    BY <1>18 DEF PushWord, Step, AfterPush, InHand, Fragments
  <2>2. PICK V, p, w : V = Word \cup {NoWord} /\ p = WordsOf(Fragments) /\ w = hand
    OBVIOUS
  <2>3. p \in Seq(V) /\ wordBuf \in Seq(V) /\ w \in V
    BY <2>1, <2>2, LineTypes DEF IInv, ReceiverInv
  <2>4. (p \o Append(wordBuf, w)) \o <<>> = (p \o wordBuf) \o <<w>>
    <3>1. Append(wordBuf, w) \in Seq(V) /\ p \o wordBuf \in Seq(V)
      BY <2>3, AppendProperties, ConcatProperties
    <3>2. p \o Append(wordBuf, w) = Append(p \o wordBuf, w)
      BY <2>3, ConcatAppend
    <3>3. Append(p \o wordBuf, w) = (p \o wordBuf) \o <<w>>
      BY <2>3, <3>1, AppendIsConcat
    <3>4. (p \o Append(wordBuf, w)) \o <<>> = p \o Append(wordBuf, w)
      BY <2>3, <3>1, ConcatProperties, ConcatEmptySeq
    <3>5. QED
      BY <3>2, <3>3, <3>4
  <2>5. Line' = Line
    BY <2>1, <2>2, <2>4 DEF Line
  <2>6. ~Cut
    BY <2>1 DEF Cut
  <2>7. QED
    BY <2>1, <2>5, <2>6, LineFrame
<1>19. CASE DropWord
  <2>1. /\ InHand = <<hand>> /\ InHand' = <<>> /\ rpc = "push" /\ rpc' = "close"
        /\ UNCHANGED <<Fragments, wordBuf, rcvd, run, startRace, cpc, rStop>> /\ rStop
    BY <1>19 DEF DropWord, Step, InHand, Fragments
  <2>2. SUFFICES ASSUME ~startRace, cpc # "stopped" PROVE LineInv'
    BY <2>1 DEF LineInv
  <2>3. PICK V, T, p, w : /\ V = Word \cup {NoWord} /\ T = OfRun(run)
                          /\ p = WordsOf(Fragments) \o wordBuf /\ w = hand
    OBVIOUS
  <2>4. p \in Seq(V) /\ w \in V
    BY <2>1, <2>3, LineTypes, ConcatProperties DEF IInv, ReceiverInv
  <2>5. Line = Append(p, w) /\ Line' = p
    <3>1. p \o <<>> = p /\ p \o <<w>> = Append(p, w)
      BY <2>4, ConcatEmptySeq, AppendIsConcat
    <3>2. QED
      BY <2>1, <2>3, <3>1 DEF Line
  <2>6. Among(Line, T) = rcvd
    BY <2>1, <2>2, <2>3 DEF LineInv, Cut
  <2>7. Among(p, T) \in Seq(V) /\ (rcvd = Among(p, T) \/ rcvd = Append(Among(p, T), w))
    BY <2>4, <2>5, <2>6, AmongType, AmongAppend
  <2>8. IsPrefix(Among(p, T), rcvd)
    BY <2>4, <2>7, PrefixSelf, PrefixAppend
  <2>9. IsPrefix(Among(Line', OfRun(run')), rcvd')
    BY <2>1, <2>3, <2>5, <2>8
  <2>10. Cut' /\ cpc' # "resetWords"
    <3>1. cpc # "resetWords"
      BY <2>1 DEF IInv, PhaseInv
    <3>2. QED
      BY <2>1, <3>1 DEF Cut
  <2>11. QED
    BY <2>9, <2>10 DEF LineInv
<1>20. CASE Close
  BY <1>20, LineFrame DEF Close, Step, Line, Fragments, InHand, Cut
<1>21. CASE BoardCloses
  BY <1>21, LineFrame DEF BoardCloses, Step, Line, Fragments, InHand, Cut
<1>22. CASE CheckStop
  BY <1>22, LineFrame DEF CheckStop, Step, Line, Fragments, InHand, Cut
<1>23. CASE BeginFragment
  <2>1. /\ cur.words = <<>> /\ cur'.words = <<>>
        /\ UNCHANGED <<delivered, fragBuf, wordBuf, InHand, rcvd, run, startRace, cpc, rpc, rStop>>
    BY <1>23 DEF BeginFragment, InHand, RestInv
  <2>2. cur \in Fragment /\ cur' \in Fragment /\ delivered \in Seq(Fragment) /\ fragBuf \in Seq(Fragment)
    BY DEF RestInv, IInv, TypeOK, BuilderTypes
  <2>3. WordsOf(Fragments') = WordsOf(Fragments)
    <3>1. /\ WordsOf(delivered \o fragBuf \o <<cur>>) = WordsOf(delivered \o fragBuf) \o cur.words
          /\ WordsOf(delivered \o fragBuf \o <<cur'>>) = WordsOf(delivered \o fragBuf) \o cur'.words
      BY <2>2, LineParts
    <3>2. QED
      BY <2>1, <3>1 DEF Fragments
  <2>4. Line' = Line
    BY <2>1, <2>3 DEF Line
  <2>5. QED
    BY <2>1, <2>4, LineFrame DEF Cut
<1>24. CASE PopWord
  <2>1. SUFFICES ASSUME ~startRace PROVE LineInv'
    BY <1>24 DEF PopWord, LineInv, IInv, PhaseInv
  <2>2. wordBuf # <<>>
    BY <1>24, <2>1, PopHasWord DEF PopWord
  <2>3. /\ cur'.words = Append(cur.words, Head(wordBuf)) /\ wordBuf' = Tail(wordBuf)
        /\ UNCHANGED <<delivered, fragBuf, InHand, rcvd, run, startRace, cpc, rpc, rStop>>
    BY <1>24, <2>2 DEF PopWord, InHand
  <2>4. cur \in Fragment /\ cur' \in Fragment /\ delivered \in Seq(Fragment) /\ fragBuf \in Seq(Fragment)
    BY DEF RestInv, IInv, TypeOK, BuilderTypes
  <2>5. PICK V, p, w : V = Word \cup {NoWord} /\ p = WordsOf(Fragments) /\ w = Head(wordBuf)
    OBVIOUS
  <2>6. p \in Seq(V) /\ wordBuf \in Seq(V)
    BY <2>5, LineTypes
  <2>7. w \in V /\ Tail(wordBuf) \in Seq(V)
    BY <2>2, <2>5, <2>6, HeadTailProperties
  <2>8. WordsOf(Fragments') = Append(p, w)
    <3>1. WordsOf(Fragments') = Append(WordsOf(Fragments), Head(wordBuf))
      BY <2>2, <2>3, WordsPop
    <3>2. QED
      BY <2>5, <3>1
  <2>9. Append(p, w) \o Tail(wordBuf) = p \o wordBuf
    BY <2>2, <2>5, <2>6, HeadMoves
  <2>10. Line' = Line
    BY <2>3, <2>5, <2>8, <2>9 DEF Line
  <2>11. QED
    BY <2>3, <2>10, LineFrame DEF Cut
<1>25. CASE PushFragment
  <2>1. UNCHANGED <<wordBuf, InHand, rcvd, run, startRace, cpc, rpc, rStop>>
    BY <1>25 DEF PushFragment, InHand
  <2>2. WordsOf(Fragments') = WordsOf(Fragments)
    BY <1>25, WordsPush
  <2>3. Line' = Line
    BY <2>1, <2>2 DEF Line
  <2>4. QED
    BY <2>1, <2>3, LineFrame DEF Cut
<1>26. QED
  BY <1>1, <1>2, <1>3, <1>4, <1>5, <1>6, <1>7, <1>8, <1>9, <1>10, <1>11, <1>12, <1>13,
     <1>14, <1>15, <1>16, <1>17, <1>18, <1>19, <1>20, <1>21, <1>22, <1>23, <1>24, <1>25
  DEF Next, Control, Reader, Receiver, Generator

\* Nothing happens before the first run has reset the queue.
LEMMA StepFresh ==
  ASSUME IInv, RestInv, FreshInv, Next
  PROVE  FreshInv'
<1>1. CASE Start
  <2>1. run \in Nat /\ run' = run + 1 /\ startRace' = startRace
    BY <1>1, Constants DEF Start, IInv, TypeOK, ControlTypes
  <2>2. run' <= 1 => run = 0
    BY <2>1
  <2>3. /\ rcvd' = <<>> /\ delivered' = <<>> /\ gpc' = "check"
        /\ UNCHANGED <<wordBuf, nTS, fragBuf, cur, lastTS, rError, rpc>>
    BY <1>1 DEF Start
  <2>4. run' <= 1 => ~startRace'
    BY <2>1, <2>2 DEF FreshInv
  <2>5. run' = 0 \/ (run' = 1 /\ cpc' = "resetWords") => run = 0
    BY <2>1
  <2>6. QED
    BY <2>3, <2>4, <2>5 DEF FreshInv
<1>2. CASE ResetWords
  <2>1. run' = run /\ cpc = "resetWords" /\ cpc' = "zeroTS" /\ run >= 1 /\ run \in Nat
    BY <1>2, Constants DEF ResetWords, IInv, PhaseInv, TypeOK, ControlTypes
  <2>2. ASSUME run <= 1
        PROVE  ~startRace'
    <3>1. run = 1
      BY <2>1, <2>2
    <3>2. wordBuf = <<>> /\ gpc # "pop"
      BY <2>1, <3>1 DEF FreshInv
    <3>3. ~startRace
      BY <2>2 DEF FreshInv
    <3>4. QED
      BY <1>2, <3>2, <3>3, Zenon DEF ResetWords
  <2>3. QED
    BY <2>1, <2>2 DEF FreshInv
<1>3. CASE ZeroTS
  BY <1>3 DEF ZeroTS, Step, FreshInv, RestInv, IInv, PhaseInv
<1>4. CASE SendStart
  BY <1>4 DEF SendStart, Step, FreshInv, RestInv, IInv, PhaseInv
<1>5. CASE StopGenerator
  BY <1>5 DEF StopGenerator, Step, FreshInv, RestInv, IInv, PhaseInv
<1>6. CASE SendStop
  BY <1>6 DEF SendStop, Step, FreshInv, RestInv, IInv, PhaseInv
<1>7. CASE StopReceiver
  BY <1>7 DEF StopReceiver, Step, FreshInv, RestInv, IInv, PhaseInv
<1>8. CASE JoinReceiver
  BY <1>8 DEF JoinReceiver, Step, FreshInv, RestInv, IInv, PhaseInv
<1>9. CASE JoinGenerator
  BY <1>9 DEF JoinGenerator, Step, FreshInv, RestInv, IInv, PhaseInv
<1>10. CASE GetNext
  BY <1>10 DEF GetNext, Step, FreshInv, RestInv, IInv, PhaseInv
<1>11. CASE GetNextError
  BY <1>11 DEF GetNextError, Step, FreshInv, RestInv, IInv, PhaseInv
<1>12. CASE StopCommand
  BY <1>12 DEF StopCommand, Step, FreshInv, RestInv, IInv, PhaseInv
<1>13. CASE Accept
  BY <1>13 DEF Accept, Step, FreshInv, RestInv, IInv, PhaseInv
<1>14. CASE Loop
  BY <1>14 DEF Loop, Step, FreshInv, RestInv, IInv, PhaseInv
<1>15. CASE ReadHeader
  BY <1>15 DEF ReadHeader, Step, FreshInv, RestInv, IInv, PhaseInv
<1>16. CASE ReadWord
  BY <1>16 DEF ReadWord, Step, FreshInv, RestInv, IInv, PhaseInv
<1>17. CASE ReadEOF
  BY <1>17 DEF ReadEOF, Step, FreshInv, RestInv, IInv, PhaseInv
<1>18. CASE PushWord
  BY <1>18 DEF PushWord, Step, FreshInv, RestInv, IInv, PhaseInv
<1>19. CASE DropWord
  BY <1>19 DEF DropWord, Step, FreshInv, RestInv, IInv, PhaseInv
<1>20. CASE Close
  BY <1>20 DEF Close, Step, FreshInv, RestInv, IInv, PhaseInv
<1>21. CASE BoardCloses
  BY <1>21 DEF BoardCloses, Step, FreshInv, RestInv, IInv, PhaseInv
<1>22. CASE CheckStop
  BY <1>22 DEF CheckStop, Step, FreshInv, RestInv, IInv, PhaseInv
<1>23. CASE BeginFragment
  <2>1. UNCHANGED <<run, cpc, startRace>> /\ gpc = "check" /\ run \in Nat
    BY <1>23, Constants DEF BeginFragment, IInv, TypeOK, ControlTypes
  <2>2. run # 0
    BY <2>1 DEF RestInv, IInv, PhaseInv
  <2>3. ~(run = 1 /\ cpc = "resetWords")
    <3>1. SUFFICES ASSUME run = 1, cpc = "resetWords" PROVE FALSE
      OBVIOUS
    <3>2. wordBuf = <<>> /\ nTS = 0 /\ ~rError
      BY <3>1 DEF FreshInv
    <3>3. GroupSize \in Nat /\ MaxWordsPerFrag \in Nat \ {0} /\ Len(<<>>) = 0
      BY CTBAssumption
    <3>4. ~CanCreateFragments
      BY <3>2, <3>3 DEF CanCreateFragments
    <3>5. ~NeedToEmptyBuffer
      BY <3>2, <3>3 DEF NeedToEmptyBuffer
    <3>6. QED
      BY <1>23, <3>4, <3>5 DEF BeginFragment
  <2>4. QED
    BY <2>1, <2>2, <2>3 DEF FreshInv
<1>24. CASE PopWord
  BY <1>24 DEF PopWord, Step, FreshInv, RestInv, IInv, PhaseInv
<1>25. CASE PushFragment
  BY <1>25 DEF PushFragment, Step, FreshInv, RestInv, IInv, PhaseInv
<1>26. QED
  BY <1>1, <1>2, <1>3, <1>4, <1>5, <1>6, <1>7, <1>8, <1>9, <1>10, <1>11, <1>12, <1>13,
     <1>14, <1>15, <1>16, <1>17, <1>18, <1>19, <1>20, <1>21, <1>22, <1>23, <1>24, <1>25
  DEF Next, Control, Reader, Receiver, Generator

\* A step that leaves the fragments and the last timestamp alone.
LEMMA StampFrame ==
  ASSUME StampInv, UNCHANGED <<run, delivered, fragBuf, cur, lastTS>>,
         cpc = "stopped" => cpc' = "stopped", gpc' \in {"pop", "push"} => gpc' = gpc
  PROVE  StampInv'
<1>1. UNCHANGED Fragments
  BY DEF Fragments
<1>2. QED
  BY <1>1 DEF StampInv

\* Every step keeps the stamps of the fragments and the last timestamp right.
LEMMA StepStamp ==
  ASSUME IInv, IInv', RestInv, FreshInv, StampInv, Next
  PROVE  StampInv'
<1>1. CASE Start
  <2>1. run' <= 1 => run = 0
    BY <1>1, Constants DEF Start, IInv, TypeOK, ControlTypes
  <2>2. SUFFICES ASSUME run = 0 PROVE StampInv'
    BY <2>1 DEF StampInv
  <2>3. /\ delivered' = <<>> /\ fragBuf' = <<>> /\ cur' = cur /\ cur.words = <<>>
        /\ lastTS' = NoTime /\ gpc' = "check"
    BY <1>1, <2>2 DEF Start, FreshInv
  <2>4. <<>> \in Seq(Fragment) /\ <<>> \o <<>> = <<>> /\ cur \in Fragment
    BY EmptySeq, ConcatEmptySeq DEF IInv, TypeOK, BuilderTypes
  <2>5. AllStamped(delivered' \o fragBuf')
    BY <2>3, <2>4, StampedEmpty
  <2>6. WordsOf(Fragments') = <<>>
    <3>1. WordsOf(<<>> \o <<>> \o <<cur>>) = WordsOf(<<>> \o <<>>) \o cur.words
      BY <2>4, LineParts
    <3>2. WordsOf(<<>> \o <<>>) \o cur.words = <<>>
      BY <2>3, <2>4, WordsEmpty
    <3>3. QED
      BY <2>3, <3>1, <3>2 DEF Fragments
  <2>7. LastTime(<<>>) = NoTime
    BY AmongEmpty DEF LastTime
  <2>8. QED
    BY <2>3, <2>5, <2>6, <2>7 DEF StampInv
<1>2. CASE ResetWords
  BY <1>2, StampFrame DEF ResetWords, Step
<1>3. CASE ZeroTS
  BY <1>3, StampFrame DEF ZeroTS, Step
<1>4. CASE SendStart
  BY <1>4, StampFrame DEF SendStart, Step
<1>5. CASE StopGenerator
  BY <1>5, StampFrame DEF StopGenerator, Step
<1>6. CASE SendStop
  BY <1>6, StampFrame DEF SendStop, Step
<1>7. CASE StopReceiver
  BY <1>7, StampFrame DEF StopReceiver, Step
<1>8. CASE JoinReceiver
  BY <1>8, StampFrame DEF JoinReceiver, Step
<1>9. CASE JoinGenerator
  <2>1. SUFFICES ASSUME run <= 1 PROVE StampInv'
    BY <1>9 DEF JoinGenerator, StampInv
  <2>2. cpc' = "stopped" /\ gpc' = "idle" /\ fragBuf' = <<>> /\ delivered' = delivered
    BY <1>9 DEF JoinGenerator
  <2>3. delivered \in Seq(Fragment) /\ fragBuf \in Seq(Fragment)
    BY DEF RestInv, IInv, TypeOK, BuilderTypes
  <2>4. AllStamped(delivered)
    BY <2>1, <2>3, StampedPrefix DEF StampInv
  <2>5. delivered \o <<>> = delivered
    BY <2>3, ConcatEmptySeq
  <2>6. QED
    BY <2>2, <2>4, <2>5 DEF StampInv
<1>10. CASE GetNext
  <2>1. SUFFICES ASSUME run <= 1 PROVE StampInv'
    BY <1>10 DEF GetNext, StampInv
  <2>2. /\ delivered' = delivered \o Sent(fragBuf) /\ fragBuf' = <<>>
        /\ UNCHANGED <<cur, lastTS, gpc>> /\ cpc # "stopped"
    BY <1>10 DEF GetNext
  <2>3. /\ delivered \in Seq(Fragment) /\ fragBuf \in Seq(Fragment) /\ cur \in Fragment
        /\ Sent(fragBuf) \in Seq(Fragment)
    BY SentType DEF RestInv, IInv, TypeOK, BuilderTypes
  <2>4. delivered' \o fragBuf' = delivered \o Sent(fragBuf)
    <3>1. delivered \o Sent(fragBuf) \in Seq(Fragment)
      BY <2>3, ConcatProperties
    <3>2. QED
      BY <2>2, <3>1, ConcatEmptySeq
  <2>5. AllStamped(delivered' \o fragBuf')
    <3>1. AllStamped(delivered \o fragBuf)
      BY <2>1 DEF StampInv
    <3>2. QED
      BY <2>3, <2>4, <3>1, StampedSent
  <2>6. WordsOf(delivered' \o fragBuf') = WordsOf(delivered \o fragBuf)
    <3>1. WordsOf(delivered \o Sent(fragBuf)) = WordsOf(delivered) \o WordsOf(Sent(fragBuf))
      BY <2>3, WordsConcat
    <3>2. WordsOf(delivered \o fragBuf) = WordsOf(delivered) \o WordsOf(fragBuf)
      BY <2>3, WordsConcat
    <3>3. QED
      BY <2>3, <2>4, <3>1, <3>2, WordsSent
  <2>7. WordsOf(Fragments') = WordsOf(Fragments)
    <3>1. WordsOf((delivered \o Sent(fragBuf)) \o <<>> \o <<cur>>)
            = WordsOf(delivered \o fragBuf \o <<cur>>)
      BY <2>3, WordsGetNext
    <3>2. QED
      BY <2>2, <3>1 DEF Fragments
  <2>8. lastTS = LastTime(WordsOf(Fragments))
    BY <2>1, <2>2 DEF StampInv
  <2>9. gpc \in {"pop", "push"} => cur.stamp = StampAfter(WordsOf(delivered \o fragBuf), cur.words)
    BY <2>1 DEF StampInv
  <2>10. lastTS' = LastTime(WordsOf(Fragments'))
    BY <2>2, <2>7, <2>8
  <2>11. gpc' \in {"pop", "push"}
           => cur'.stamp = StampAfter(WordsOf(delivered' \o fragBuf'), cur'.words)
    BY <2>2, <2>6, <2>9
  <2>12. QED
    BY <2>5, <2>10, <2>11 DEF StampInv
<1>11. CASE GetNextError
  BY <1>11, StampFrame DEF GetNextError, Step
<1>12. CASE StopCommand
  BY <1>12, StampFrame DEF StopCommand, Step
<1>13. CASE Accept
  BY <1>13, StampFrame DEF Accept, Step
<1>14. CASE Loop
  BY <1>14, StampFrame DEF Loop, Step
<1>15. CASE ReadHeader
  BY <1>15, StampFrame DEF ReadHeader, Step
<1>16. CASE ReadWord
  BY <1>16, StampFrame DEF ReadWord, Step
<1>17. CASE ReadEOF
  BY <1>17, StampFrame DEF ReadEOF, Step
<1>18. CASE PushWord
  BY <1>18, StampFrame DEF PushWord, Step
<1>19. CASE DropWord
  BY <1>19, StampFrame DEF DropWord, Step
<1>20. CASE Close
  BY <1>20, StampFrame DEF Close, Step
<1>21. CASE BoardCloses
  BY <1>21, StampFrame DEF BoardCloses, Step
<1>22. CASE CheckStop
  BY <1>22, StampFrame DEF CheckStop, Step
<1>23. CASE BeginFragment
  <2>1. SUFFICES ASSUME run <= 1 PROVE StampInv'
    BY <1>23 DEF BeginFragment, StampInv
  <2>2. /\ UNCHANGED <<delivered, fragBuf, lastTS, cpc>> /\ cpc # "stopped"
        /\ cur.words = <<>> /\ cur'.words = <<>> /\ cur'.stamp = lastTS
    BY <1>23 DEF BeginFragment, RestInv
  <2>3. /\ delivered \in Seq(Fragment) /\ fragBuf \in Seq(Fragment)
        /\ cur \in Fragment /\ cur' \in Fragment
    BY DEF RestInv, IInv, TypeOK, BuilderTypes
  <2>4. PICK q : q = WordsOf(delivered \o fragBuf)
    OBVIOUS
  <2>5. /\ WordsOf(delivered \o fragBuf \o <<cur>>) = q \o cur.words
        /\ WordsOf(delivered \o fragBuf \o <<cur'>>) = q \o cur'.words
        /\ q \in Seq(Word \cup {NoWord})
    BY <2>3, <2>4, LineParts
  <2>6. WordsOf(Fragments) = q /\ WordsOf(Fragments') = q
    BY <2>2, <2>5, ConcatEmptySeq DEF Fragments
  <2>7. lastTS = LastTime(q)
    BY <2>1, <2>2, <2>6 DEF StampInv
  <2>8. cur'.stamp = StampAfter(q, cur'.words)
    BY <2>2, <2>7, StampStart
  <2>9. AllStamped(delivered \o fragBuf)
    BY <2>1 DEF StampInv
  <2>10. QED
    BY <2>2, <2>4, <2>6, <2>7, <2>8, <2>9 DEF StampInv
<1>24. CASE PopWord
  <2>1. SUFFICES ASSUME run <= 1 PROVE StampInv'
    BY <1>24 DEF PopWord, StampInv
  <2>2. PICK w : w = Head(wordBuf)
    OBVIOUS
  <2>3. wordBuf # <<>> /\ w \in Word
    <3>1. ~startRace
      BY <2>1 DEF FreshInv
    <3>2. wordBuf # <<>>
      BY <1>24, <3>1, PopHasWord DEF PopWord
    <3>3. QED
      BY <2>2, <3>2, HeadTailProperties DEF IInv, TypeOK, ReceiverTypes
  <2>4. /\ lastTS' = (IF CarriesTime(w) THEN TimeOf(w) ELSE lastTS)
        /\ cur'.words = Append(cur.words, w)
        /\ cur'.stamp = (IF CarriesTime(w) /\ cur.stamp = NoTime THEN TimeOf(w) ELSE cur.stamp)
        /\ UNCHANGED <<delivered, fragBuf, cpc>> /\ gpc = "pop" /\ cpc # "stopped"
    BY <1>24, <2>2, <2>3 DEF PopWord, RestInv
  <2>5. /\ cur \in Fragment /\ cur.words \in Seq(Word \cup {NoWord})
        /\ delivered \in Seq(Fragment) /\ fragBuf \in Seq(Fragment)
    BY DEF RestInv, IInv, TypeOK, BuilderTypes, Fragment
  <2>6. PICK q, p : q = WordsOf(delivered \o fragBuf) /\ p = WordsOf(Fragments)
    OBVIOUS
  <2>7. q \in Seq(Word \cup {NoWord}) /\ p \in Seq(Word \cup {NoWord})
    BY <2>5, <2>6, LineParts, LineTypes
  <2>8. WordsOf(Fragments') = Append(p, w)
    <3>1. WordsOf(Fragments') = Append(WordsOf(Fragments), Head(wordBuf))
      BY <2>2, <2>3, <2>4, WordsPop
    <3>2. QED
      BY <2>2, <2>6, <3>1
  <2>9. lastTS' = LastTime(WordsOf(Fragments'))
    <3>1. lastTS = LastTime(p)
      BY <2>1, <2>4, <2>6 DEF StampInv
    <3>2. LastTime(Append(p, w)) = IF CarriesTime(w) THEN TimeOf(w) ELSE LastTime(p)
      BY <2>3, <2>7, LastTimeAppend
    <3>3. QED
      BY <2>4, <2>8, <3>1, <3>2
  <2>10. cur'.stamp = StampAfter(q, cur'.words)
    <3>1. cur.stamp = StampAfter(q, cur.words)
      BY <2>1, <2>4, <2>6 DEF StampInv
    <3>2. StampAfter(q, Append(cur.words, w)) =
            IF CarriesTime(w) /\ StampAfter(q, cur.words) = NoTime
            THEN TimeOf(w) ELSE StampAfter(q, cur.words)
      BY <2>3, <2>5, <2>7, StampGrows
    <3>3. QED
      BY <2>4, <3>1, <3>2
  <2>11. AllStamped(delivered \o fragBuf)
    BY <2>1 DEF StampInv
  <2>12. QED
    BY <2>4, <2>6, <2>9, <2>10, <2>11 DEF StampInv
<1>25. CASE PushFragment
  <2>1. SUFFICES ASSUME run <= 1 PROVE StampInv'
    BY <1>25 DEF PushFragment, StampInv
  <2>2. /\ fragBuf' = Append(fragBuf, cur) /\ UNCHANGED <<delivered, lastTS, cpc>>
        /\ gpc = "push" /\ gpc' \in {"done", "check"} /\ cpc # "stopped"
    BY <1>25 DEF PushFragment, RestInv
  <2>3. /\ delivered \in Seq(Fragment) /\ fragBuf \in Seq(Fragment) /\ cur \in Fragment
        /\ delivered \o fragBuf \in Seq(Fragment)
    BY ConcatProperties DEF RestInv, IInv, TypeOK, BuilderTypes
  <2>4. delivered \o Append(fragBuf, cur) = Append(delivered \o fragBuf, cur)
    BY <2>3, ConcatAppend
  <2>5. AllStamped(Append(delivered \o fragBuf, cur))
    <3>1. /\ AllStamped(delivered \o fragBuf)
          /\ cur.stamp = StampAfter(WordsOf(delivered \o fragBuf), cur.words)
      BY <2>1, <2>2 DEF StampInv
    <3>2. QED
      BY <2>3, <3>1, StampedAppend
  <2>6. WordsOf(Fragments') = WordsOf(Fragments)
    BY <1>25, WordsPush
  <2>7. lastTS = LastTime(WordsOf(Fragments))
    BY <2>1, <2>2 DEF StampInv
  <2>8. lastTS' = LastTime(WordsOf(Fragments'))
    BY <2>2, <2>6, <2>7
  <2>9. AllStamped(delivered' \o fragBuf')
    BY <2>2, <2>4, <2>5
  <2>10. QED
    BY <2>2, <2>8, <2>9 DEF StampInv
<1>26. QED
  BY <1>1, <1>2, <1>3, <1>4, <1>5, <1>6, <1>7, <1>8, <1>9, <1>10, <1>11, <1>12, <1>13,
     <1>14, <1>15, <1>16, <1>17, <1>18, <1>19, <1>20, <1>21, <1>22, <1>23, <1>24, <1>25
  DEF Next, Control, Reader, Receiver, Generator

\* The initial state satisfies the second invariant.
LEMMA InitSInv ==
  ASSUME Init, IInv
  PROVE  SInv
<1>1. /\ delivered = <<>> /\ fragBuf = <<>> /\ wordBuf = <<>> /\ cur.words = <<>>
      /\ cpc = "stopped" /\ gpc = "idle" /\ rpc = "idle" /\ run = 0 /\ rcvd = <<>>
      /\ ~startRace /\ ~rError /\ nTS = 0 /\ lastTS = NoTime
  BY DEF Init
<1>2. RestInv
  BY <1>1, EmptySeq DEF RestInv
<1>3. MetricInv
  BY DEF Init, MetricInv, HLTAccounting
<1>4. RunInv
  <2>1. cur \in OneRun
    BY <1>1, EmptyOneRun DEF IInv, TypeOK, BuilderTypes
  <2>2. QED
    BY <1>1, <2>1, EmptySeq DEF RunInv
<1>5. LineInv /\ FreshInv
  BY <1>1 DEF LineInv, FreshInv
<1>6. StampInv
  <2>1. <<>> \o <<>> = <<>>
    OBVIOUS
  <2>2. QED
    BY <1>1, <2>1, StampedEmpty DEF StampInv
<1>7. QED
  BY <1>2, <1>3, <1>4, <1>5, <1>6 DEF SInv

\* A stuttering step changes nothing the second invariant speaks of.
LEMMA StutterSInv == SInv /\ UNCHANGED vars => SInv'
<1> SUFFICES ASSUME SInv, UNCHANGED vars PROVE SInv'
  OBVIOUS
<1>1. UNCHANGED <<cpc, run, rpc, rStop, hand, wordBuf, nTS, gpc, cur, lastTS, fragBuf, metric,
                  rcvd, delivered, hltSeen, reported, startRace, rError>>
  BY DEF vars
<1>2. UNCHANGED <<Fragments, InHand, FilledIn>> /\ (Cut <=> Cut')
  BY <1>1 DEF Fragments, InHand, FilledIn, Cut
<1>3. UNCHANGED Line
  BY <1>1, <1>2 DEF Line
<1>4. RestInv' /\ MetricInv'
  BY <1>1 DEF SInv, RestInv, MetricInv, HLTAccounting
<1>5. RunInv'
  BY <1>1, <1>2, RunFrame DEF SInv
<1>6. LineInv'
  BY <1>1, <1>2, <1>3 DEF SInv, LineInv
<1>7. FreshInv'
  BY <1>1 DEF SInv, FreshInv
<1>8. StampInv'
  BY <1>1, StampFrame DEF SInv
<1>9. QED
  BY <1>4, <1>5, <1>6, <1>7, <1>8 DEF SInv

\* The second invariant holds in every reachable state.
THEOREM StreamInvariance == Spec => []SInv
<1>1. Init => SInv
  BY InitIInv, InitSInv
<1>2. IInv /\ IInv' /\ SInv /\ [Next]_vars => SInv'
  <2> SUFFICES ASSUME IInv, IInv', SInv, [Next]_vars PROVE SInv'
    OBVIOUS
  <2>1. CASE Next
    <3>1. RestInv /\ MetricInv /\ RunInv /\ LineInv /\ FreshInv /\ StampInv
      BY DEF SInv
    <3>2. RestInv'
      BY <2>1, <3>1, StepRest
    <3>3. MetricInv'
      BY <2>1, <3>1, StepMetric
    <3>4. RunInv'
      BY <2>1, <3>1, StepRun
    <3>5. LineInv'
      BY <2>1, <3>1, StepLine
    <3>6. FreshInv'
      BY <2>1, <3>1, StepFresh
    <3>7. StampInv'
      BY <2>1, <3>1, StepStamp
    <3>8. QED
      BY <3>2, <3>3, <3>4, <3>5, <3>6, <3>7 DEF SInv
  <2>2. CASE UNCHANGED vars
    BY <2>2, StutterSInv
  <2>3. QED
    BY <2>1, <2>2
<1>3. QED
  BY <1>1, <1>2, Invariance, PTL DEF Spec

(***************************************************************************)
(* What a run leaves behind is kept apart: the words left in the word      *)
(* buffer are in no fragment with a word of the next run, and over all     *)
(* runs no HLT word is counted twice or forgotten.                         *)
(***************************************************************************)
THEOREM LeftoversAreKeptApart == Spec => []LeftoversKeptApart
<1>1. IInv /\ SInv => LeftoversKeptApart
  <2> SUFFICES ASSUME IInv, SInv PROVE LeftoversKeptApart
    OBVIOUS
  <2>1. RestInv /\ RunInv /\ HLTAccounting
    BY DEF SInv, MetricInv
  <2>2. ASSUME ~startRace, cpc # "resetWords", NEW i \in 1..Len(wordBuf)
        PROVE  wordBuf[i].run = run
    <3>1. wordBuf \in Seq(OfRun(run))
      BY <2>1, <2>2 DEF RunInv, FilledIn
    <3>2. wordBuf[i] \in OfRun(run)
      BY <2>2, <3>1, ElementOfSeq
    <3>3. QED
      BY <3>2 DEF OfRun
  <2>3. ASSUME ~startRace, NEW i \in 1..Len(Fragments),
               NEW v \in ToSet(Fragments[i].words), NEW w \in ToSet(Fragments[i].words)
        PROVE  v.run = w.run
    <3>1. delivered \in Seq(OneRun) /\ fragBuf \in Seq(OneRun) /\ cur \in OneRun
      BY <2>1, <2>3 DEF RunInv
    <3>2. Fragments \in Seq(OneRun)
      <4>1. <<cur>> \in Seq(OneRun) /\ delivered \o fragBuf \in Seq(OneRun)
        BY <3>1, ConcatProperties
      <4>2. QED
        BY <4>1, ConcatProperties DEF Fragments
    <3>3. Fragments[i] \in OneRun
      BY <2>3, <3>2, ElementOfSeq
    <3>4. PICK r \in 0..MaxRuns : Fragments[i].words \in Seq(OfRun(r))
      BY <3>3 DEF OneRun
    <3>5. ToSet(Fragments[i].words) \subseteq OfRun(r)
      BY <3>4, ElementOfSeq DEF ToSet
    <3>6. QED
      BY <2>3, <3>5 DEF OfRun
  <2>4. RunsNotMixed
    BY <2>2, <2>3 DEF RunsNotMixed
  <2>5. QED
    BY <2>1, <2>4 DEF LeftoversKeptApart
<1>2. QED
  BY <1>1, Invariance, StreamInvariance, PTL

\* A beginning, element by element.
LEMMA PrefixIs ==
  ASSUME NEW S, NEW s \in Seq(S), NEW t \in Seq(S)
  PROVE  IsPrefix(s, t) <=> Len(s) <= Len(t) /\ \A i \in 1..Len(s) : s[i] = t[i]
<1>1. Len(s) \in Nat /\ Len(t) \in Nat
  BY LenProperties
<1>2. SubSeq(s, 1, Len(s)) = s
  BY SubSeqFull
<1>3. SUFFICES ASSUME Len(s) <= Len(t)
               PROVE  s = SubSeq(t, 1, Len(s)) <=> \A i \in 1..Len(s) : s[i] = t[i]
  BY <1>2 DEF IsPrefix
<1>4. PICK n : n = Len(s)
  OBVIOUS
<1>5. PICK u : u = SubSeq(t, 1, n)
  OBVIOUS
<1>6. u \in Seq(S) /\ Len(u) = n /\ \A i \in 1..n : u[i] = t[i]
  <2>1. n \in Int /\ 1 \in Int /\ \A i \in 1..n : t[i] \in S
    BY <1>1, <1>3, <1>4, ElementOfSeq
  <2>2. n - 1 + 1 = n /\ (1 <= n \/ n = 0)
    BY <1>1, <1>4
  <2>3. QED
    BY <1>5, <2>1, <2>2, SubSeqProperties
<1>7. (\A i \in 1..n : s[i] = t[i]) => s = u
  BY <1>4, <1>6, SeqEqual
<1>8. QED
  BY <1>4, <1>5, <1>6, <1>7

\* A sequence begins what is made by adding to it ...
LEMMA PrefixConcat ==
  ASSUME NEW S, NEW s \in Seq(S), NEW t \in Seq(S)
  PROVE  IsPrefix(s, s \o t)
<1>1. PICK u : u = s \o t
  OBVIOUS
<1>2. /\ u \in Seq(S) /\ Len(s) \in Nat /\ Len(t) \in Nat /\ Len(u) = Len(s) + Len(t)
      /\ \A i \in 1..(Len(s) + Len(t)) : u[i] = IF i <= Len(s) THEN s[i] ELSE t[i - Len(s)]
  BY <1>1, ConcatProperties, LenProperties
<1>3. Len(s) <= Len(u) /\ \A i \in 1..Len(s) : s[i] = u[i]
  BY <1>2
<1>4. QED
  BY <1>1, <1>2, <1>3, PrefixIs

\* ... and whatever that begins.
LEMMA PrefixOfPrefix ==
  ASSUME NEW S, NEW s \in Seq(S), NEW t \in Seq(S), NEW u \in Seq(S), IsPrefix(s \o t, u)
  PROVE  IsPrefix(s, u)
<1>1. PICK v : v = s \o t
  OBVIOUS
<1>2. /\ v \in Seq(S) /\ Len(s) \in Nat /\ Len(t) \in Nat /\ Len(v) = Len(s) + Len(t)
      /\ \A i \in 1..(Len(s) + Len(t)) : v[i] = IF i <= Len(s) THEN s[i] ELSE t[i - Len(s)]
  BY <1>1, ConcatProperties, LenProperties
<1>3. Len(v) <= Len(u) /\ \A i \in 1..Len(v) : v[i] = u[i]
  <2>1. IsPrefix(v, u) /\ v \in Seq(S)
    BY <1>1, <1>2
  <2>2. QED
    BY <2>1, PrefixIs
<1>4. Len(u) \in Nat
  BY LenProperties
<1>5. ASSUME NEW i \in 1..Len(s) PROVE s[i] = u[i]
  <2>1. i \in 1..Len(v) /\ i \in 1..(Len(s) + Len(t)) /\ i <= Len(s)
    BY <1>2, <1>5
  <2>2. QED
    BY <1>2, <1>3, <2>1
<1>6. Len(s) <= Len(u)
  BY <1>2, <1>3, <1>4
<1>7. QED
  BY <1>5, <1>6, PrefixIs

(***************************************************************************)
(* The stream is delivered: no word of the run is lost, doubled or moved   *)
(* between the socket and artdaq, whatever the sizes of the queues and the *)
(* groups, and in a first run every fragment carries the timestamp its     *)
(* place in the stream calls for.                                          *)
(***************************************************************************)
THEOREM StreamIsDelivered == Spec => []StreamDelivered
<1>1. IInv /\ SInv => StreamDelivered
  <2> SUFFICES ASSUME IInv, SInv PROVE StreamDelivered
    OBVIOUS
  <2>1. RestInv /\ LineInv /\ StampInv
    BY DEF SInv
  <2>2. NoWordLost
    <3>1. rcvd \in Seq(Word)
      BY DEF IInv, TypeOK, ReceiverTypes
    <3>2. PICK a : a = Among(Line, OfRun(run))
      OBVIOUS
    <3>3. ~startRace /\ cpc # "stopped" => IF Cut THEN IsPrefix(a, rcvd) ELSE a = rcvd
      BY <2>1, <3>2 DEF LineInv
    <3>4. ~startRace /\ cpc # "stopped" => IF rStop THEN IsPrefix(a, rcvd) ELSE a = rcvd
      BY <3>1, <3>3, PrefixSelf DEF Cut
    <3>5. QED
      BY <3>2, <3>4 DEF NoWordLost, Line
  <2>3. StampsFollowStream
    <3>1. SUFFICES ASSUME run = 1 PROVE AllStamped(Fragments)
      BY DEF StampsFollowStream, AllStamped
    <3>2. /\ delivered \in Seq(Fragment) /\ fragBuf \in Seq(Fragment) /\ cur \in Fragment
          /\ delivered \o fragBuf \in Seq(Fragment)
      BY <2>1, ConcatProperties DEF RestInv, IInv, TypeOK, BuilderTypes
    <3>3. AllStamped(delivered \o fragBuf)
      BY <2>1, <3>1 DEF StampInv
    <3>4. cur.words # <<>> => cur.stamp = StampAfter(WordsOf(delivered \o fragBuf), cur.words)
      BY <2>1, <3>1 DEF StampInv, RestInv, IInv, TypeOK, BuilderTypes
    <3>5. AllStamped(Append(delivered \o fragBuf, cur))
      BY <3>2, <3>3, <3>4, StampedAppend
    <3>6. QED
      BY <3>2, <3>5, LineParts DEF Fragments
  <2>4. QED
    BY <2>2, <2>3 DEF StreamDelivered
<1>2. QED
  BY <1>1, Invariance, StreamInvariance, PTL

\* Picking the members from a sequence of members.
LEMMA AmongAll ==
  ASSUME NEW T, NEW s \in Seq(T)
  PROVE  Among(s, T) = s
<1> DEFINE P == {t \in Seq(T) : Among(t, T) = t}
<1>1. <<>> \in P
  BY AmongEmpty, EmptySeq
<1>2. ASSUME NEW t \in Seq(T), NEW e \in T, t \in P
      PROVE  Append(t, e) \in P
  <2>1. Append(t, e) \in Seq(T) /\ Among(t, T) = t
    BY <1>2, AppendProperties
  <2>2. Among(Append(t, e), T) = Append(Among(t, T), e)
    BY AmongAppend
  <2>3. QED
    BY <2>1, <2>2
<1>3. Seq(T) \subseteq P
  <2>1. \A t \in Seq(T) : \A e \in T : t \in P => Append(t, e) \in P
    BY <1>2
  <2>2. HIDE DEF P
  <2>3. QED
    BY <1>1, <2>1, SeqInduction
<1>4. QED
  BY <1>3

\* What is picked from a beginning is a beginning of what is picked.
LEMMA PickedPrefix ==
  ASSUME NEW S, NEW s \in Seq(S), NEW t \in Seq(S), NEW T
  PROVE  \A r \in Seq(S) : IsPrefix(Among(s \o t, T), r) => IsPrefix(Among(s, T), r)
<1>1. Among(s \o t, T) = Among(s, T) \o Among(t, T)
  BY AmongConcat
<1>2. Among(s, T) \in Seq(S) /\ Among(t, T) \in Seq(S)
  BY AmongType
<1>3. \A r \in Seq(S) : IsPrefix(Among(s, T) \o Among(t, T), r) => IsPrefix(Among(s, T), r)
  BY <1>2, PrefixOfPrefix
<1>4. QED
  BY <1>1, <1>3

\* So is what is picked from the first of four sequences.
LEMMA PickedFirst ==
  ASSUME NEW S, NEW s \in Seq(S), NEW t \in Seq(S), NEW u \in Seq(S), NEW v \in Seq(S), NEW T
  PROVE  \A r \in Seq(S) : IsPrefix(Among(((s \o t) \o u) \o v, T), r) => IsPrefix(Among(s, T), r)
<1>1. PICK d : d = s \o t
  OBVIOUS
<1>2. PICK e : e = d \o u
  OBVIOUS
<1>3. d \in Seq(S)
  BY <1>1, ConcatProperties
<1>4. e \in Seq(S)
  BY <1>2, <1>3, ConcatProperties
<1>5. \A r \in Seq(S) : IsPrefix(Among(e \o v, T), r) => IsPrefix(Among(e, T), r)
  BY <1>4, PickedPrefix
<1>6. \A r \in Seq(S) : IsPrefix(Among(d \o u, T), r) => IsPrefix(Among(d, T), r)
  BY <1>3, PickedPrefix
<1>7. \A r \in Seq(S) : IsPrefix(Among(s \o t, T), r) => IsPrefix(Among(s, T), r)
  BY PickedPrefix
<1>8. QED
  BY <1>1, <1>2, <1>5, <1>6, <1>7

\* The words of fragments of one run each are words.
LEMMA WordsOneRun ==
  ASSUME NEW F \in Seq(OneRun)
  PROVE  WordsOf(F) \in Seq(Word)
<1> DEFINE P == {G \in Seq(OneRun) : WordsOf(G) \in Seq(Word)}
<1>1. <<>> \in P
  BY WordsEmpty, EmptySeq
<1>2. ASSUME NEW G \in Seq(OneRun), NEW e \in OneRun, G \in P
      PROVE  Append(G, e) \in P
  <2>1. Append(G, e) \in Seq(OneRun) /\ WordsOf(G) \in Seq(Word)
    BY <1>2, AppendProperties
  <2>2. G \in Seq(Fragment) /\ e \in Fragment
    BY SeqMonotonic DEF OneRun
  <2>3. WordsOf(Append(G, e)) = WordsOf(G) \o e.words
    BY <2>2, WordsAppend
  <2>4. e.words \in Seq(Word)
    <3>1. PICK r \in 0..MaxRuns : e.words \in Seq(OfRun(r))
      BY DEF OneRun
    <3>2. OfRun(r) \subseteq Word
      BY DEF OfRun
    <3>3. QED
      BY <3>1, <3>2, SeqMonotonic
  <2>5. WordsOf(G) \o e.words \in Seq(Word)
    BY <2>1, <2>4, ConcatProperties
  <2>6. QED
    BY <2>1, <2>3, <2>5
<1>3. Seq(OneRun) \subseteq P
  <2>1. \A G \in Seq(OneRun) : \A e \in OneRun : G \in P => Append(G, e) \in P
    BY <1>2
  <2>2. HIDE DEF P
  <2>3. QED
    BY <1>1, <2>1, SeqInduction
<1>4. QED
  BY <1>3

\* In an only run, the words sent and built are a beginning of those read.
LEMMA SentIsPrefix ==
  ASSUME MaxRuns = 1, IInv, SInv, cpc # "stopped"
  PROVE  /\ WordsOf(delivered \o fragBuf) \in Seq(Word)
         /\ IsPrefix(WordsOf(delivered \o fragBuf), rcvd)
<1>1. RestInv /\ RunInv /\ LineInv /\ FreshInv
  BY DEF SInv
<1>2. run = 1 /\ ~startRace
  <2>1. run = 1
    BY DEF IInv, PhaseInv, TypeOK, ControlTypes
  <2>2. QED
    BY <1>1, <2>1 DEF FreshInv
<1>3. PICK V, T, q, c, h : /\ V = Word \cup {NoWord} /\ T = OfRun(run) /\ c = cur.words /\ h = InHand
                           /\ q = WordsOf(delivered \o fragBuf)
  OBVIOUS
<1>4. T = Word
  <2>1. \A w \in Word : w.run = 1
    BY DEF Word
  <2>2. QED
    BY <1>2, <1>3, <2>1 DEF OfRun
<1>5. q \in Seq(Word)
  <2>1. delivered \o fragBuf \in Seq(OneRun)
    BY <1>1, <1>2, ConcatProperties DEF RunInv
  <2>2. QED
    BY <1>3, <2>1, WordsOneRun
<1>6. q \in Seq(V) /\ c \in Seq(V) /\ wordBuf \in Seq(V) /\ h \in Seq(V) /\ Line = ((q \o c) \o wordBuf) \o h
  <2>1. /\ delivered \in Seq(Fragment) /\ fragBuf \in Seq(Fragment) /\ cur \in Fragment
    BY <1>1 DEF RestInv, IInv, TypeOK, BuilderTypes
  <2>2. q \in Seq(V) /\ c \in Seq(V) /\ WordsOf(Fragments) = q \o c
    BY <1>3, <2>1, LineParts DEF Fragments, Fragment
  <2>3. wordBuf \in Seq(V) /\ h \in Seq(V)
    BY <1>1, <1>3, LineTypes
  <2>4. QED
    BY <1>3, <2>2, <2>3 DEF Line
<1>7. rcvd \in Seq(Word) /\ rcvd \in Seq(V)
  BY <1>3, SeqMonotonic DEF IInv, TypeOK, ReceiverTypes
<1>8. IsPrefix(Among(Line, T), rcvd)
  <2>1. IF Cut THEN IsPrefix(Among(Line, T), rcvd) ELSE Among(Line, T) = rcvd
    BY <1>1, <1>2, <1>3 DEF LineInv
  <2>2. QED
    BY <1>7, <2>1, PrefixSelf
<1>9. IsPrefix(Among(q, T), rcvd)
  <2>1. \A r \in Seq(V) : IsPrefix(Among(((q \o c) \o wordBuf) \o h, T), r) => IsPrefix(Among(q, T), r)
    <3>1. q \in Seq(V) /\ c \in Seq(V) /\ wordBuf \in Seq(V) /\ h \in Seq(V)
      BY <1>6
    <3>2. QED
      BY <3>1, PickedFirst, SMTT(30)
  <2>2. QED
    BY <1>6, <1>7, <1>8, <2>1
<1>10. Among(q, T) = q
  BY <1>4, <1>5, AmongAll
<1>11. QED
  BY <1>3, <1>5, <1>9, <1>10

\* Every step of the reader is a step of OrderedDelivery or changes nothing it sees.
LEMMA StepOrdered ==
  ASSUME MaxRuns = 1, IInv, IInv', SInv, [Next]_vars
  PROVE  [Ordered!Next]_Ordered!vars
<1>1. CASE UNCHANGED <<rcvd, delivered>>
  BY <1>1 DEF Ordered!vars
<1>2. CASE Start
  <2>1. rcvd' = <<>> /\ WordsOf(delivered') = <<>>
    BY <1>2, WordsEmpty DEF Start
  <2>2. QED
    BY <2>1 DEF Ordered!Next, Ordered!Restart
<1>3. CASE ReadWord
  <2>1. rcvd' = Append(rcvd, hand') /\ delivered' = delivered /\ rpc' = "push"
    BY <1>3 DEF ReadWord, Step
  <2>2. hand' \in Word
    BY <2>1 DEF IInv, ReceiverInv
  <2>3. QED
    BY <2>1, <2>2 DEF Ordered!Next, Ordered!Accept
<1>4. CASE GetNext
  <2>1. /\ delivered' = delivered \o Sent(fragBuf) /\ rcvd' = rcvd /\ cpc # "stopped"
        /\ delivered \in Seq(Fragment) /\ fragBuf \in Seq(Fragment)
        /\ delivered \in Seq(OneRun) /\ fragBuf \in Seq(OneRun)
    <3>1. ~startRace
      BY DEF SInv, FreshInv, IInv, TypeOK, ControlTypes
    <3>2. QED
      BY <1>4, <3>1 DEF GetNext, SInv, RestInv, RunInv, IInv, TypeOK, BuilderTypes
  <2>2. PICK x, y : x = WordsOf(delivered) /\ y = WordsOf(fragBuf)
    OBVIOUS
  <2>3. x \in Seq(Word) /\ y \in Seq(Word) /\ x \o y \in Seq(Word)
    BY <2>1, <2>2, WordsOneRun, ConcatProperties
  <2>4. WordsOf(delivered') = x \o y
    <3>1. Sent(fragBuf) \in Seq(Fragment)
      BY <2>1, SentType
    <3>2. WordsOf(delivered \o Sent(fragBuf)) = WordsOf(delivered) \o WordsOf(Sent(fragBuf))
      BY <2>1, <3>1, WordsConcat
    <3>3. QED
      BY <2>1, <2>2, <3>2, WordsSent
  <2>5. IsPrefix(x \o y, rcvd)
    <3>1. WordsOf(delivered \o fragBuf) = x \o y
      BY <2>1, <2>2, WordsConcat
    <3>2. QED
      BY <2>1, <3>1, SentIsPrefix
  <2>6. CASE y = <<>>
    <3>1. x \o y = x
      BY <2>3, <2>6, ConcatEmptySeq
    <3>2. QED
      BY <2>1, <2>2, <2>4, <3>1 DEF Ordered!vars
  <2>7. CASE y # <<>>
    <3>1. x \o y \in Prefixes(rcvd)
      <4>1. PICK d, n : d = x \o y /\ n = Len(d)
        OBVIOUS
      <4>2. SubSeq(d, 1, n) = d /\ n \in Nat
        BY <2>3, <4>1, SubSeqFull, LenProperties
      <4>3. Len(rcvd) \in Nat
        BY LenProperties DEF IInv, TypeOK, ReceiverTypes
      <4>4. n <= Len(rcvd) /\ SubSeq(rcvd, 1, n) = d
        BY <2>5, <4>1, <4>2 DEF IsPrefix
      <4>5. n \in 0..Len(rcvd)
        BY <4>2, <4>3, <4>4
      <4>6. QED
        BY <4>1, <4>4, <4>5 DEF Prefixes
    <3>2. IsPrefix(x, x \o y) /\ x # x \o y
      BY <2>3, <2>7, PrefixConcat, ConcatEqualIffEmpty
    <3>3. Ordered!Deliver
      BY <2>1, <2>2, <2>4, <3>1, <3>2 
         DEF Ordered!Deliver, Ordered!IsStrictPrefix, Ordered!IsPrefix, Ordered!Prefixes, IsPrefix, Prefixes
    <3>4. QED
      BY <3>3 DEF Ordered!Next
  <2>8. QED
    BY <2>6, <2>7
<1>5. QED
  <2>1. CASE UNCHANGED vars
    BY <1>1, <2>1 DEF vars
  <2>2. CASE Next
    <3>1. UNCHANGED <<rcvd, delivered>> \/ Start \/ ReadWord \/ GetNext
      BY <2>2 DEF Next, Control, Reader, Receiver, Generator, ResetWords, ZeroTS, SendStart,
         StopGenerator, SendStop, StopReceiver, JoinReceiver, JoinGenerator, GetNextError,
         StopCommand, Accept, Loop, ReadHeader, ReadEOF, PushWord, DropWord, Close, BoardCloses,
         CheckStop, BeginFragment, PopWord, PushFragment
    <3>2. QED
      BY <1>1, <1>2, <1>3, <1>4, <3>1
  <2>3. QED
    BY <2>1, <2>2

(***************************************************************************)
(* The reader, started once, delivers the board's words in order: every    *)
(* step of its threads is a step of OrderedDelivery, or one that neither   *)
(* reads a word nor hands one to artdaq.                                   *)
(***************************************************************************)
THEOREM DeliversInOrder ==
  ASSUME MaxRuns = 1
  PROVE  Spec => ImplementsOrderedDelivery
<1>1. Init => Ordered!Init
  BY WordsEmpty DEF Init, Ordered!Init
<1>2. IInv /\ IInv' /\ SInv /\ [Next]_vars => [Ordered!Next]_Ordered!vars
  BY StepOrdered
<1>3. QED
  BY <1>1, <1>2, Invariance, StreamInvariance, PTL DEF Spec, ImplementsOrderedDelivery, Ordered!Spec
=============================================================================
