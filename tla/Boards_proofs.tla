---------------------------- MODULE Boards_proofs ----------------------------
(***************************************************************************)
(* Proofs about the parts of run "boards" that stand before the boards or  *)
(* choose among the events: what holds for every value of their constants. *)
(* The parts share no state; each has a section of its own, with its types *)
(* and the invariant that its theorem rests on.                            *)
(***************************************************************************)
EXTENDS WIBReader, PennClient, TriggerFilters, MuonFinder, RceReceiver, RceControl, SSPDevice,
        FiniteSetTheorems, SequenceTheorems, TLAPS

LEMMA Division ==
  ASSUME NEW a \in Int, NEW b \in Nat \ {0}
  PROVE  /\ a \div b \in Int /\ (a \div b) * b <= a /\ a < (a \div b) * b + b
         /\ a % b \in 0..b - 1 /\ a = (a \div b) * b + (a % b)
<1>1. a \div b \in Int /\ a % b \in Int
  OBVIOUS
<1>2. a % b \in 0..b - 1
  BY <1>1
<1>3. a = (a \div b) * b + (a % b)
  BY <1>1
<1>. QED BY <1>1, <1>2, <1>3

LEMMA DivisionOfNat ==
  ASSUME NEW a \in Nat, NEW b \in Nat \ {0}
  PROVE  /\ a \div b \in Nat /\ (a \div b) * b \in Nat
         /\ (a \div b) * b <= a /\ a < (a \div b) * b + b
<1>1. a \div b \in Int /\ (a \div b) * b <= a /\ a < (a \div b) * b + b
  BY Division
<1>2. a \div b \in Nat
  OBVIOUS
<1>. QED BY <1>1, <1>2
LEMMA OneMultiple ==
  ASSUME NEW d \in Int, NEW r \in Nat \ {0}, d * r < r, -r < d * r
  PROVE  d = 0
OBVIOUS
-----------------------------------------------------------------------------
(* The WIB reader: WIBReader.tla. *)

WibTypeOK ==
  /\ configTries \in 0..MaxTries /\ enabled \in SUBSET FEMBs /\ continues \in BOOLEAN
  /\ faults \in Faults
  /\ wpc \in {"try", "check", "reset", "copy", "fake", "femb", "power", "read", "configure",
              "stream", "lift", "bestEffort", "done", "failed"}
  /\ iTry \in Int /\ iFEMB \in Nat \ {0}
  /\ created \in BOOLEAN /\ dnd \in BOOLEAN /\ streaming \in BOOLEAN /\ liftFailed \in BOOLEAN
  /\ femb \in [FEMBs -> {"off", "powered", "configured"}]
  /\ outcome \in {"none", "exhausted", "unhandled", "refused", "configured"}

\* a FEMB the loop has left behind
Settled(i) == \/ femb[i] = "configured"
              \/ femb[i] = "off" /\ continues /\ i \in faults.unreadable

InLoop == wpc \in {"femb", "power", "read", "configure"}

\* the loop settles one FEMB after the other, and the stream comes when all are
WibLoop ==
  /\ InLoop => \A i \in enabled : i < iFEMB => Settled(i)
  /\ wpc \in {"power", "read", "configure"} => iFEMB \in enabled
  /\ wpc \in {"stream", "lift"} \/ outcome = "configured" => \A i \in enabled : Settled(i)
  /\ wpc = "lift" \/ outcome = "configured" => streaming

\* who asked the slow control to keep away, and how the constructor can have ended
WibEnd ==
  /\ dnd => created
  /\ wpc \notin {"bestEffort", "done", "failed"} => outcome = "none"
  /\ wpc = "bestEffort" => outcome \in {"exhausted", "unhandled", "configured"}
  /\ outcome = "configured" => ~dnd
  /\ wpc = "done" => outcome = "configured"
  /\ wpc = "failed" /\ dnd => liftFailed \/ outcome = "refused"

WibInv == WibTypeOK /\ WibLoop /\ WibEnd

LEMMA WibInitially == ASSUME WibInit PROVE WibInv
<1>1. femb \in [FEMBs -> {"off", "powered", "configured"}]
  BY DEF WibInit
<1>2. WibTypeOK
  <2>1. faults \in Faults
    BY DEF WibInit
  <2>2. /\ configTries \in 0..MaxTries /\ enabled \in SUBSET FEMBs /\ continues \in BOOLEAN
        /\ streaming \in BOOLEAN
    BY DEF WibInit
  <2>3. /\ wpc = "try" /\ iTry \in Int /\ iFEMB \in Nat \ {0} /\ outcome = "none"
    BY DEF WibInit
  <2>4. created \in BOOLEAN /\ dnd \in BOOLEAN /\ liftFailed \in BOOLEAN
    BY DEF WibInit
  <2>. QED BY <1>1, <2>1, <2>2, <2>3, <2>4 DEF WibTypeOK
<1>3. WibLoop /\ WibEnd
  BY DEF WibInit, WibLoop, WibEnd, InLoop
<1>. QED BY <1>2, <1>3 DEF WibInv

LEMMA WibTyped == ASSUME WibInv, [WibNext]_wibVars PROVE WibTypeOK'
<1>. USE WIBAssumption DEF WibInv, WibTypeOK
<1>1. CASE BoardThrows
  <2>1. created' \in BOOLEAN /\ dnd' \in BOOLEAN
    BY <1>1, Zenon DEF BoardThrows, Talks
  <2>. QED BY <1>1, <2>1 DEF BoardThrows, setting
<1>2. CASE Begin
  BY <1>2 DEF Begin, Refuse, On, setting
<1>3. CASE NoTries
  BY <1>3 DEF NoTries, setting
<1>4. CASE CheckFirmware
  BY <1>4 DEF CheckFirmware, Refuse, On, setting
<1>5. CASE Reset
  BY <1>5 DEF Reset, On, setting
<1>6. CASE CheckCopyMode
  BY <1>6 DEF CheckCopyMode, Refuse, On, setting
<1>7. CASE ConfigFakeData
  BY <1>7 DEF ConfigFakeData, On, setting
<1>8. CASE NextFEMB
  BY <1>8 DEF NextFEMB, Refuse, On, setting
<1>9. CASE PowerFEMB
  BY <1>9 DEF PowerFEMB, On, setting
<1>10. CASE ReadFEMB
  BY <1>10 DEF ReadFEMB, PowersDown, Refuse, On, setting
<1>11. CASE ConfigFEMB
  <2>1. femb' \in [FEMBs -> {"off", "powered", "configured"}]
    BY <1>11 DEF ConfigFEMB
  <2>. QED BY <1>11, <2>1 DEF ConfigFEMB, On, setting
<1>12. CASE StartStream
  BY <1>12 DEF StartStream, On, setting
<1>13. CASE LiftDND
  BY <1>13 DEF LiftDND, setting
<1>14. CASE BestEffort
  BY <1>14 DEF BestEffort, setting
<1>15. CASE UNCHANGED wibVars
  BY <1>15 DEF wibVars
<1>. QED BY <1>1, <1>2, <1>3, <1>4, <1>5, <1>6, <1>7, <1>8, <1>9, <1>10, <1>11, <1>12, <1>13,
            <1>14, <1>15 DEF WibNext

LEMMA WibLoops == ASSUME WibInv, [WibNext]_wibVars PROVE WibLoop'
<1>. USE WIBAssumption DEF WibInv, WibTypeOK, WibLoop, WibEnd, InLoop, Settled, FEMBs
<1>1. CASE BoardThrows
  BY <1>1 DEF BoardThrows, Talks, setting
<1>2. CASE Begin
  BY <1>2 DEF Begin, Refuse, On, setting
<1>3. CASE NoTries
  BY <1>3 DEF NoTries, setting
<1>4. CASE CheckFirmware
  BY <1>4 DEF CheckFirmware, Refuse, On, setting
<1>5. CASE Reset
  BY <1>5 DEF Reset, On, setting
<1>6. CASE CheckCopyMode
  BY <1>6 DEF CheckCopyMode, Refuse, On, setting
<1>7. CASE ConfigFakeData
  BY <1>7 DEF ConfigFakeData, On, setting
<1>8. CASE NextFEMB
  BY <1>8 DEF NextFEMB, Refuse, On, setting
<1>9. CASE PowerFEMB
  BY <1>9 DEF PowerFEMB, On, setting
<1>10. CASE ReadFEMB
  BY <1>10 DEF ReadFEMB, PowersDown, Refuse, On, setting
<1>11. CASE ConfigFEMB
  BY <1>11 DEF ConfigFEMB, On, setting
<1>12. CASE StartStream
  BY <1>12 DEF StartStream, On, setting
<1>13. CASE LiftDND
  BY <1>13 DEF LiftDND, setting
<1>14. CASE BestEffort
  BY <1>14 DEF BestEffort, setting
<1>15. CASE UNCHANGED wibVars
  BY <1>15 DEF wibVars
<1>. QED BY <1>1, <1>2, <1>3, <1>4, <1>5, <1>6, <1>7, <1>8, <1>9, <1>10, <1>11, <1>12, <1>13,
            <1>14, <1>15 DEF WibNext

LEMMA WibEnds == ASSUME WibInv, [WibNext]_wibVars PROVE WibEnd'
<1>. USE DEF WibInv, WibEnd
<1>1. CASE BoardThrows
  <2>1. /\ wpc \notin {"bestEffort", "done", "failed"}
        /\ dnd' => created'
    <3>1. dnd => created
      BY Zenon
    <3>2. CASE UNCHANGED <<created, dnd>>
      <4>1. dnd' => created'
        BY <3>1, <3>2, Zenon
      <4>. QED BY <1>1, <4>1, Zenon DEF BoardThrows, Talks
    <3>3. CASE created' = TRUE
      <4>1. wpc \in {"check", "reset", "copy", "fake", "power", "read", "configure", "stream",
                     "lift", "try"}
        BY <1>1, Zenon DEF BoardThrows, Talks
      <4>. QED BY <3>3, <4>1
    <3>. QED BY <1>1, <3>2, <3>3, Zenon DEF BoardThrows, Talks
  <2>2. wpc' \in {"try", "bestEffort"} /\ outcome' \in {outcome, "exhausted", "unhandled"}
    BY <1>1 DEF BoardThrows
  <2>3. wpc' = "bestEffort" => outcome' \in {"exhausted", "unhandled"}
    BY <1>1 DEF BoardThrows
  <2>4. wpc' = "try" => outcome' = outcome
    BY <1>1 DEF BoardThrows
  <2>5. outcome = "none"
    BY <2>1
  <2>. QED BY <2>1, <2>2, <2>3, <2>4, <2>5
<1>2. CASE Begin \/ NoTries
  BY <1>2 DEF Begin, NoTries, Refuse, On, setting
<1>3. CASE CheckFirmware \/ Reset \/ CheckCopyMode \/ ConfigFakeData
  BY <1>3 DEF CheckFirmware, Reset, CheckCopyMode, ConfigFakeData, Refuse, On, setting
<1>4. CASE NextFEMB \/ PowerFEMB \/ ReadFEMB \/ ConfigFEMB
  BY <1>4 DEF NextFEMB, PowerFEMB, ReadFEMB, ConfigFEMB, PowersDown, Refuse, On, setting
<1>5. CASE StartStream \/ LiftDND
  BY <1>5 DEF StartStream, LiftDND, On, setting
<1>6. CASE BestEffort
  BY <1>6 DEF BestEffort, WibTypeOK, setting
<1>7. CASE UNCHANGED wibVars
  BY <1>7 DEF wibVars
<1>. QED BY <1>1, <1>2, <1>3, <1>4, <1>5, <1>6, <1>7 DEF WibNext

LEMMA WibInvHolds == ASSUME WibInv PROVE ConfiguredOrGone
BY DEF WibInv, WibLoop, WibEnd, Settled, ConfiguredOrGone

(* A reader that exists has a board that streams, each enabled FEMB         *)
(* configured or off with leave, and the slow control asked for nothing any *)
(* more (WIBReader::WIBReader and setupWIB of WIBReader_generator.cc): for  *)
(* any FEMBs, any number of tries and any faults.                           *)
THEOREM WibConfigured == WibSpec => []ConfiguredOrGone
<1>1. WibInit => WibInv
  BY WibInitially
<1>2. WibInv /\ [WibNext]_wibVars => WibInv'
  BY WibTyped, WibLoops, WibEnds DEF WibInv
<1>3. WibInv => ConfiguredOrGone
  BY WibInvHolds
<1>. QED BY <1>1, <1>2, <1>3, PTL DEF WibSpec
-----------------------------------------------------------------------------
(* The control connection to the Penn board: PennClient.tla. *)

Pieces == [of : Nat, part : {1, 2}, says : Verdicts]

ClientTypeOK ==
  /\ endpoints \in Nat
  /\ stage \in {"connect", "flush", "ready", "running", "failed"} \cup Commands
  /\ waiting \in BOOLEAN /\ retries \in Nat /\ refusal \in BOOLEAN /\ nsent \in Nat
  /\ response \in Seq(Pieces) /\ coming \in Seq(Pieces) /\ inSocket \in Seq(Pieces)
  /\ unanswered \in Seq(Nat)
  /\ answers \in SUBSET Verdicts /\ own \in BOOLEAN /\ unread \in BOOLEAN

\* what a refusal or an error has left
RefusalKept ==
  /\ "false" \in answers => refusal
  /\ "error" \in answers => stage = "failed"
  /\ stage = "running" => ~refusal

\* what is on its way and not yet taken for an answer
Stream == response \o (inSocket \o coming)

\* as long as no answer was given up, the board and the reader are at the same command
InStep ==
  /\ stage \in {"connect", "flush"} => ~waiting /\ unanswered = <<>> /\ response = <<>> /\ own
  /\ waiting => stage \in Commands
  /\ ~unread =>
       /\ own
       /\ stage \notin {"connect", "flush", "failed"} /\ ~waiting =>
            unanswered = <<>> /\ response = <<>> /\ inSocket = <<>> /\ coming = <<>>
       /\ waiting => \/ /\ unanswered = <<nsent>>
                        /\ response = <<>> /\ inSocket = <<>> /\ coming = <<>>
                     \/ /\ unanswered = <<>>
                        /\ \E v \in Verdicts : Stream = Document(nsent, v)

ClientInv == ClientTypeOK /\ RefusalKept /\ InStep

\* an element that goes from the front of a sequence to the end of the one before it
LEMMA PassesOn ==
  ASSUME NEW S, NEW s \in Seq(S), NEW t \in Seq(S), t # <<>>
  PROVE  Append(s, Head(t)) \o Tail(t) = s \o t
<1>1. Head(t) \in S /\ Tail(t) \in Seq(S) /\ <<Head(t)>> \in Seq(S)
  BY HeadTailProperties
<1>2. Append(s, Head(t)) = s \o <<Head(t)>>
  BY <1>1, AppendIsConcat
<1>3. <<Head(t)>> \o Tail(t) = t
  BY <1>1
<1>. QED BY <1>1, <1>2, <1>3, ConcatAssociative

LEMMA DocumentIs ==
  ASSUME NEW n \in Nat, NEW v \in Verdicts
  PROVE  /\ Document(n, v) \in Seq(Pieces) /\ Len(Document(n, v)) = 2
         /\ Document(n, v)[1].of = n /\ Document(n, v)[1].says = v
BY DEF Document, Pieces

LEMMA ClientInitially == ASSUME ClientInit PROVE ClientInv
<1>1. coming \in Seq(Pieces)
  <2>1. Document(0, "true") \in Seq(Pieces) /\ <<>> \in Seq(Pieces)
    BY DocumentIs, EmptySeq DEF Verdicts
  <2>. QED BY <2>1 DEF ClientInit
<1>2. ClientTypeOK
  <2>1. endpoints \in Nat /\ retries \in Nat /\ nsent \in Nat
    BY PennClientAssumption DEF ClientInit
  <2>2. response \in Seq(Pieces) /\ inSocket \in Seq(Pieces) /\ unanswered \in Seq(Nat)
    BY EmptySeq DEF ClientInit
  <2>3. waiting \in BOOLEAN /\ refusal \in BOOLEAN /\ own \in BOOLEAN /\ unread \in BOOLEAN
    BY DEF ClientInit
  <2>4. answers \in SUBSET Verdicts /\ stage = "connect"
    BY DEF ClientInit
  <2>. QED BY <1>1, <2>1, <2>2, <2>3, <2>4 DEF ClientTypeOK
<1>3. RefusalKept /\ InStep
  BY DEF ClientInit, RefusalKept, InStep, Commands
<1>. QED BY <1>2, <1>3 DEF ClientInv

\* what ReceiveAnswer has read
Got == response \o inSocket

LEMMA GotIs ==
  ASSUME ClientTypeOK
  PROVE  /\ Got \in Seq(Pieces)
         /\ Parses(Got) => Got[1].says \in Verdicts /\ Got[1].of \in Nat
<1>1. Got \in Seq(Pieces)
  BY ConcatProperties DEF ClientTypeOK, Got
<1>2. ASSUME Parses(Got) PROVE Got[1] \in Pieces
  <2>1. Len(Got) = 2
    BY <1>2, Zenon DEF Parses
  <2>. QED BY <1>1, <2>1, ElementOfSeq
<1>. QED BY <1>1, <1>2 DEF Pieces

LEMMA StreamIs == ASSUME ClientTypeOK PROVE Stream = Got \o coming
<1>1. response \in Seq(Pieces) /\ inSocket \in Seq(Pieces) /\ coming \in Seq(Pieces)
  BY DEF ClientTypeOK
<1>2. (response \o inSocket) \o coming = response \o (inSocket \o coming)
  BY <1>1, ConcatAssociative
<1>. QED BY <1>2 DEF Stream, Got

Answered ==
  /\ Parses(Got) /\ refusal' = (refusal \/ Got[1].says = "false")
  /\ stage' = IF Got[1].says = "error" THEN "failed" ELSE Checked(refusal')
  /\ answers' = answers \cup {Got[1].says} /\ own' = (own /\ Got[1].of = nsent)
  /\ waiting' = FALSE /\ response' = <<>> /\ retries' = 0 /\ UNCHANGED unread
ReadsOn ==
  /\ ~Parses(Got) /\ retries' = retries + 1 /\ response' = Got
  /\ UNCHANGED <<waiting, refusal, stage, answers, own, unread>>
GivesUp ==
  /\ ~Parses(Got) /\ stage' = Checked(refusal) /\ unread' = TRUE
  /\ waiting' = FALSE /\ response' = <<>> /\ retries' = 0 /\ UNCHANGED <<refusal, answers, own>>

LEMMA ReadEnds ==
  ASSUME ReceiveAnswer
  PROVE  /\ waiting /\ inSocket' = <<>> /\ UNCHANGED <<endpoints, nsent, unanswered, coming>>
         /\ Answered \/ ReadsOn \/ GivesUp
BY DEF ReceiveAnswer, Answered, ReadsOn, GivesUp, Got, seen

LEMMA ClientTyped == ASSUME ClientInv, [ClientNext]_clientVars PROVE ClientTypeOK'
<1>. USE PennClientAssumption DEF ClientInv, ClientTypeOK
<1>1. CASE Connect
  BY <1>1 DEF Connect, reading, boardSide, seen
<1>2. CASE Flush
  <2>1. inSocket' \in Seq(Pieces) /\ unread' \in BOOLEAN
    BY <1>2, EmptySeq DEF Flush
  <2>. QED BY <1>2, <2>1 DEF Flush, reading, Commands
<1>3. CASE SendCommand
  <2>1. nsent + 1 \in Nat /\ Append(unanswered, nsent + 1) \in Seq(Nat)
    BY AppendProperties
  <2>. QED BY <1>3, <2>1 DEF SendCommand, reading, seen
<1>4. CASE ReceiveAnswer
  <2>1. Got \in Seq(Pieces) /\ (Parses(Got) => Got[1].says \in Verdicts)
    BY GotIs
  <2>2. /\ endpoints' \in Nat /\ nsent' \in Nat /\ unanswered' \in Seq(Nat)
        /\ coming' \in Seq(Pieces) /\ inSocket' \in Seq(Pieces) /\ waiting
    BY <1>4, ReadEnds, EmptySeq
  <2>3. stage \in Commands => Checked(refusal) \in {"config", "ready", "running", "failed"}
                           /\ Checked(refusal') \in {"config", "ready", "running", "failed"}
    BY DEF Checked, Commands
  <2>4. stage \in Commands
    BY <2>2 DEF InStep
  <2>5. CASE Answered
    BY <2>1, <2>2, <2>3, <2>4, <2>5, EmptySeq DEF Answered, Commands
  <2>6. CASE ReadsOn
    BY <2>1, <2>2, <2>6 DEF ReadsOn
  <2>7. CASE GivesUp
    BY <2>2, <2>3, <2>4, <2>7, EmptySeq DEF GivesUp, Commands
  <2>. QED BY <1>4, <2>5, <2>6, <2>7, ReadEnds
<1>5. CASE Transition
  BY <1>5 DEF Transition, reading, boardSide, seen, Commands
<1>6. CASE BoardReplies
  <2>1. PICK v \in Verdicts : coming' = coming \o Document(Head(unanswered), v)
    BY <1>6 DEF BoardReplies
  <2>2. Head(unanswered) \in Nat /\ unanswered' \in Seq(Nat)
    BY <1>6, HeadTailProperties DEF BoardReplies
  <2>3. coming' \in Seq(Pieces)
    BY <2>1, <2>2, DocumentIs, ConcatProperties
  <2>. QED BY <1>6, <2>2, <2>3 DEF BoardReplies, reading, seen
<1>7. CASE PieceComes
  <2>1. Head(coming) \in Pieces /\ coming' \in Seq(Pieces)
    BY <1>7, HeadTailProperties DEF PieceComes
  <2>2. inSocket' \in Seq(Pieces)
    BY <1>7, <2>1, AppendProperties DEF PieceComes
  <2>. QED BY <1>7, <2>1, <2>2 DEF PieceComes, reading, seen
<1>8. CASE UNCHANGED clientVars
  BY <1>8 DEF clientVars
<1>. QED BY <1>1, <1>2, <1>3, <1>4, <1>5, <1>6, <1>7, <1>8 DEF ClientNext

LEMMA RefusalStays == ASSUME ClientInv, [ClientNext]_clientVars PROVE RefusalKept'
<1>. USE DEF ClientInv, RefusalKept
<1>1. CASE Connect \/ Flush \/ SendCommand \/ Transition
  BY <1>1 DEF Connect, Flush, SendCommand, Transition, reading, boardSide, seen, Commands
<1>2. CASE ReceiveAnswer
  <2>1. waiting /\ stage \in Commands
    BY <1>2, ReadEnds DEF InStep
  <2>2. CASE Answered
    BY <2>1, <2>2 DEF Answered, Checked, Commands
  <2>3. CASE ReadsOn
    BY <2>3 DEF ReadsOn, ClientTypeOK
  <2>4. CASE GivesUp
    <3>1. Checked(refusal) = "running" => ~refusal
      BY <2>1 DEF Checked, Commands
    <3>. QED BY <2>1, <2>4, <3>1 DEF GivesUp, ClientTypeOK, Commands
  <2>. QED BY <1>2, <2>2, <2>3, <2>4, ReadEnds
<1>3. CASE BoardReplies \/ PieceComes
  BY <1>3 DEF BoardReplies, PieceComes, reading, seen
<1>4. CASE UNCHANGED clientVars
  BY <1>4 DEF clientVars
<1>. QED BY <1>1, <1>2, <1>3, <1>4 DEF ClientNext

LEMMA StaysInStep == ASSUME ClientInv, [ClientNext]_clientVars PROVE InStep'
<1>. USE DEF ClientInv, InStep
<1>1. CASE Connect
  BY <1>1 DEF Connect, reading, boardSide, seen, Stream
<1>2. CASE Flush
  BY <1>2 DEF Flush, reading, Commands
<1>3. CASE SendCommand
  <2>1. ~waiting /\ stage \in Commands
    BY <1>3 DEF SendCommand
  <2>2. unanswered = <<>> => Append(unanswered, nsent + 1) = <<nsent + 1>>
    OBVIOUS
  <2>3. CASE stage' = "failed" /\ UNCHANGED <<waiting, unanswered, own>>
    BY <2>1, <2>3, <1>3 DEF SendCommand, reading, seen, Commands
  <2>4. CASE /\ nsent' = nsent + 1 /\ unanswered' = Append(unanswered, nsent + 1)
             /\ waiting' = TRUE /\ UNCHANGED <<response, stage, coming, inSocket, own, unread>>
    BY <2>1, <2>2, <2>4 DEF Commands
  <2>. QED BY <1>3, <2>3, <2>4 DEF SendCommand, reading, seen
<1>4. CASE ReceiveAnswer
  <2>1. /\ waiting /\ inSocket' = <<>> /\ UNCHANGED <<nsent, unanswered, coming>>
        /\ stage \in Commands
    BY <1>4, ReadEnds
  <2>2. Got \in Seq(Pieces) /\ coming \in Seq(Pieces) /\ nsent \in Nat
    BY GotIs DEF ClientTypeOK
  <2>3. Stream = Got \o coming
    BY StreamIs
  <2>4. response = <<>> /\ inSocket = <<>> => Got = <<>>
    BY EmptySeq, ConcatEmptySeq DEF Got
  <2>5. stage' \notin {"connect", "flush"}
    <3>1. /\ Checked(refusal) \notin {"connect", "flush"}
          /\ Checked(refusal') \notin {"connect", "flush"}
      BY <2>1 DEF Checked, Commands
    <3>. QED BY <1>4, <2>1, <3>1, ReadEnds DEF Answered, ReadsOn, GivesUp, Commands
  <2>6. CASE Answered
    <3>1. /\ own' = (own /\ Got[1].of = nsent) /\ waiting' = FALSE /\ response' = <<>>
          /\ UNCHANGED unread
      BY <2>6 DEF Answered
    <3>2. ASSUME ~unread PROVE own' /\ unanswered = <<>> /\ coming = <<>>
      <4>1. Len(Got) = 2 /\ Got # <<>>
        <5>1. Len(Got) = 2
          BY <2>6, Zenon DEF Answered, Parses
        <5>2. Len(<<>>) = 0
          OBVIOUS
        <5>. HIDE DEF Got
        <5>. QED BY <5>1, <5>2
      <4>2. PICK v \in Verdicts : unanswered = <<>> /\ Stream = Document(nsent, v)
        BY <2>1, <2>4, <3>2, <4>1
      <4>3. Len(Stream) = 2 /\ Stream[1].of = nsent
        BY <2>2, <4>2, DocumentIs
      <4>4. Len(coming) = 0 /\ Stream[1] = Got[1]
        BY <2>2, <2>3, <4>1, <4>3, ConcatProperties, LenProperties
      <4>5. coming = <<>>
        BY <2>2, <4>4, EmptySeq
      <4>. QED BY <3>1, <3>2, <4>2, <4>3, <4>4, <4>5
    <3>. QED BY <2>1, <2>5, <3>1, <3>2
  <2>7. CASE ReadsOn
    <3>1. response' = Got /\ UNCHANGED <<waiting, stage, own, unread>>
      BY <2>7 DEF ReadsOn
    <3>2. <<>> \o coming = coming
      BY <2>2, ConcatEmptySeq
    <3>3. Stream' = Stream
      BY <2>1, <2>3, <3>1, <3>2 DEF Stream
    <3>. QED BY <2>1, <2>4, <2>5, <3>1, <3>3
  <2>8. CASE GivesUp
    BY <2>5, <2>8 DEF GivesUp
  <2>. QED BY <1>4, <2>6, <2>7, <2>8, ReadEnds
<1>5. CASE Transition
  BY <1>5 DEF Transition, reading, boardSide, seen, Commands
<1>6. CASE BoardReplies
  <2>1. PICK v \in Verdicts : coming' = coming \o Document(Head(unanswered), v)
    BY <1>6 DEF BoardReplies
  <2>2. /\ stage # "failed" /\ unanswered # <<>> /\ unanswered' = Tail(unanswered)
        /\ UNCHANGED <<endpoints, stage, reading, refusal, nsent, inSocket, seen>>
    BY <1>6 DEF BoardReplies
  <2>3. stage \notin {"connect", "flush"}
    BY <2>2
  <2>4. ASSUME ~unread PROVE waiting /\ unanswered' = <<>> /\ Stream' = Document(nsent, v)
    <3>1. /\ unanswered = <<nsent>> /\ response = <<>> /\ inSocket = <<>> /\ coming = <<>>
          /\ waiting
      BY <2>2, <2>3, <2>4
    <3>2. Document(nsent, v) \in Seq(Pieces)
      BY DocumentIs DEF ClientTypeOK
    <3>3. coming' = Document(nsent, v) /\ response' = <<>> /\ inSocket' = <<>>
      BY <2>1, <2>2, <3>1, <3>2, ConcatEmptySeq DEF reading
    <3>4. Stream' = Document(nsent, v)
      BY <3>2, <3>3, ConcatEmptySeq DEF Stream
    <3>. QED BY <2>2, <3>1, <3>4
  <2>. QED BY <2>2, <2>3, <2>4 DEF reading, seen, Commands
<1>7. CASE PieceComes
  <2>1. /\ stage # "failed" /\ coming # <<>> /\ stage # "connect"
        /\ coming' = Tail(coming) /\ inSocket' = Append(inSocket, Head(coming))
        /\ UNCHANGED <<stage, reading, refusal, nsent, unanswered, seen>>
    BY <1>7 DEF PieceComes
  <2>2. Stream' = Stream
    BY <2>1, PassesOn DEF Stream, ClientTypeOK, reading
  <2>. QED BY <2>1, <2>2 DEF reading, seen
<1>8. CASE UNCHANGED clientVars
  BY <1>8 DEF clientVars, Stream
<1>. QED BY <1>1, <1>2, <1>3, <1>4, <1>5, <1>6, <1>7, <1>8 DEF ClientNext

(* No run is taken once the board has refused a command, and an answer that *)
(* is taken is the answer to the command sent as long as none was given up  *)
(* (PennClient::send_xml and the checks of PennReceiver): for any number of *)
(* tries and however the answers come in pieces.                            *)
THEOREM ClientRefusalHolds == ClientSpec => []RefusalHolds
<1>1. ClientInit => ClientInv
  BY ClientInitially
<1>2. ClientInv /\ [ClientNext]_clientVars => ClientInv'
  BY ClientTyped, RefusalStays, StaysInStep DEF ClientInv
<1>3. ClientInv => RefusalHolds
  <2>. SUFFICES ASSUME ClientInv PROVE RefusalHolds
    OBVIOUS
  <2>1. stage = "running" => answers \subseteq {"true"}
    BY DEF ClientInv, ClientTypeOK, RefusalKept, Verdicts
  <2>. QED BY <2>1 DEF RefusalHolds, ClientInv, InStep
<1>. QED BY <1>1, <1>2, <1>3, PTL DEF ClientSpec
-----------------------------------------------------------------------------
(* The filters of triggers: TriggerFilters.tla. *)

FilterTypeOK ==
  /\ options \in Options /\ nEvents \in Nat /\ nPassed \in Int
  /\ fLastEventDecision \in BOOLEAN /\ seenAccepted \in BOOLEAN
  /\ kept \in {"none", "accepted", "next", "dropped"}

FilterInv == FilterTypeOK /\ (fLastEventDecision <=> kept = "accepted") /\ OneMoreKept

\* one event more is one multiple more when it is one
LEMMA CountsMultiples ==
  ASSUME NEW n \in Nat, NEW e \in Nat \ {0}
  PROVE  (n + 1) \div e = (n \div e) + IF (n + 1) % e = 0 THEN 1 ELSE 0
<1> DEFINE q == n \div e
           p == (n + 1) \div e
           r == (n + 1) % e
<1>1. q \in Int /\ q * e <= n /\ n < q * e + e
  BY Division
<1>2. p \in Int /\ r \in 0..e - 1 /\ n + 1 = p * e + r
  BY Division
<1>. HIDE DEF p, q, r
<1>3. (p - q) * e = p * e - q * e /\ (p - q) * e \in Int
  BY <1>1, <1>2
<1>4. CASE r = 0
  <2>1. 0 < (p - q) * e /\ (p - q) * e <= e
    BY <1>1, <1>2, <1>3, <1>4
  <2>2. p - q = 1
    BY <1>1, <1>2, <2>1
  <2>. QED BY <1>1, <1>2, <1>4, <2>2 DEF p, q, r
<1>5. CASE r # 0
  <2>1. -e < (p - q) * e /\ (p - q) * e < e
    BY <1>1, <1>2, <1>3, <1>5
  <2>2. p - q = 0
    BY <1>1, <1>2, <2>1
  <2>. QED BY <1>1, <1>2, <1>5, <2>2 DEF p, q, r
<1>. QED BY <1>4, <1>5

LEMMA FilterInitially == ASSUME FilterInit PROVE FilterInv
<1>1. Every \in Nat \ {0}
  BY FilterAssumption DEF Every
<1>2. 0 \div Every = 0
  BY <1>1
<1>3. options \in Options
  BY FilterAssumption DEF FilterInit
<1>4. /\ nEvents = 0 /\ nPassed = 0 /\ ~fLastEventDecision /\ kept = "none"
      /\ fLastEventDecision \in BOOLEAN /\ seenAccepted \in BOOLEAN
  BY DEF FilterInit
<1>5. nPassed = nEvents \div Every
  BY <1>2, <1>4
<1>. QED BY <1>3, <1>4, <1>5 DEF FilterInv, FilterTypeOK, OneMoreKept

LEMMA FilterSteps == ASSUME FilterInv, [FilterNext]_filterVars PROVE FilterInv'
<1>. USE DEF FilterInv, FilterTypeOK, OneMoreKept
<1>1. CASE NextEvent
  BY <1>1 DEF NextEvent
<1>2. CASE PreScaleTrigger
  <2>1. Every \in Nat \ {0}
    BY FilterAssumption DEF Every
  <2>2. PICK yes \in IF options.random /\ Every > 1 THEN BOOLEAN ELSE {nEvents' % Every = 0} :
          nPassed' = nPassed + IF yes THEN 1 ELSE 0
    BY <1>2 DEF PreScaleTrigger
  <2>3. /\ nEvents' = nEvents + 1
        /\ UNCHANGED <<options, fLastEventDecision, seenAccepted, kept>>
    BY <1>2 DEF PreScaleTrigger
  <2>4. ASSUME ~options.random PROVE nPassed' = nEvents' \div Every
    <3>1. yes <=> (nEvents + 1) % Every = 0
      BY <2>2, <2>3, <2>4
    <3>2. nPassed' = nPassed + IF (nEvents + 1) % Every = 0 THEN 1 ELSE 0
      BY <2>2, <3>1
    <3>3. (nEvents + 1) \div Every = (nEvents \div Every) + IF (nEvents + 1) % Every = 0 THEN 1 ELSE 0
      BY <2>1, CountsMultiples
    <3>. QED BY <2>3, <2>4, <3>2, <3>3
  <2>. QED BY <2>2, <2>3, <2>4 DEF Every
<1>3. CASE SSPTrigger
  BY <1>3 DEF SSPTrigger
<1>4. CASE PennBoardTrigger
  BY <1>4 DEF PennBoardTrigger
<1>5. CASE TriggerSelector
  <2>1. /\ kept' = IF AllPassed THEN "accepted" ELSE IF fLastEventDecision THEN "next" ELSE "dropped"
        /\ fLastEventDecision' = AllPassed /\ seenAccepted' = (kept = "accepted")
        /\ UNCHANGED <<options, nEvents, nPassed>>
    BY <1>5 DEF TriggerSelector, Remember
  <2>2. AllPassed \in BOOLEAN
    BY DEF AllPassed
  <2>3. CASE AllPassed
    BY <2>1, <2>3 DEF Every
  <2>4. CASE ~AllPassed
    <3>1. fLastEventDecision' = FALSE
      BY <2>1, <2>2, <2>4
    <3>2. CASE fLastEventDecision
      BY <2>1, <2>4, <3>1, <3>2 DEF Every
    <3>3. CASE ~fLastEventDecision
      BY <2>1, <2>4, <3>1, <3>3 DEF Every
    <3>. QED BY <3>2, <3>3
  <2>. QED BY <2>2, <2>3, <2>4
<1>6. CASE UNCHANGED filterVars
  BY <1>6 DEF filterVars
<1>. QED BY <1>1, <1>2, <1>3, <1>4, <1>5, <1>6 DEF FilterNext

(* An event that a trigger refused is written only right after one that all *)
(* passed, and the prescale passes one event in PreScale                    *)
(* (TriggerSelector::filter, PreScaleTrigger::filter): for any options and  *)
(* any number of events.                                                    *)
THEOREM FilterKeepsOneMore == FilterSpec => []OneMoreKept
<1>1. FilterInit => FilterInv
  BY FilterInitially
<1>2. FilterInv /\ [FilterNext]_filterVars => FilterInv'
  BY FilterSteps
<1>3. FilterInv => OneMoreKept
  BY DEF FilterInv
<1>. QED BY <1>1, <1>2, <1>3, PTL DEF FilterSpec
-----------------------------------------------------------------------------
(* The isolated muon finder: MuonFinder.tla. *)

Arrivals == [run : Nat, tstart : Nat, tps : SUBSET Channels]

Handlers == [run : Nat, alive : BOOLEAN, lastTstart : Nat, hasHit : SUBSET Channels,
             nSources : Nat, maxNSources : Nat]

MuonTypeOK ==
  /\ stoppingFlag \in BOOLEAN
  /\ handler \in Handlers
  /\ timestampQueue \in Seq(Nat) /\ prevTimestamp \in Nat /\ published \in Seq(Nat)
  /\ arrived \in Seq(Arrivals)

\* the window the thread counts in was opened by the set at i, and holds all since
Opened(i) ==
  /\ arrived[i].tstart = handler.lastTstart
  /\ \A k \in i .. Len(arrived) : arrived[k].run = handler.run
  /\ \A k \in i + 1 .. Len(arrived) : arrived[k].tstart < handler.lastTstart + TSpan
  /\ handler.hasHit = HitsOf(i, Len(arrived) + 1)
  /\ handler.nSources = Len(arrived) + 1 - i

Counting == handler.lastTstart = 0 \/ \E i \in 1..Len(arrived) : Opened(i)

FullWindow(i, j) ==
  Window(i, j) /\ Cardinality(HitsOf(i, j)) >= HitThreshold * (j - i)
IsTrigger(t) ==
  \E i \in 1..Len(arrived) : \E j \in i + 1 .. Len(arrived) :
    arrived[i].tstart = t /\ FullWindow(i, j)

\* a time in the queue is a window's, or zero
Queued == \A n \in 1..Len(timestampQueue) : timestampQueue[n] = 0 \/ IsTrigger(timestampQueue[n])

Sent == \A n \in 1..Len(published) : IsTrigger(published[n])

\* the last time sent outlives the run
Spaced ==
  /\ Len(published) > 0 => prevTimestamp = published[Len(published)]
  /\ \A n \in 1 .. Len(published) - 1 : published[n + 1] >= published[n] + HoldOff

MuonInv == MuonTypeOK /\ Counting /\ Queued /\ (HoldOff > 0 => Sent /\ Spaced)

LEMMA MuonConstants ==
  /\ TSpan \in Nat /\ HitThreshold \in Nat /\ HoldOff \in Nat /\ MaxTime \in Nat
  /\ IsFiniteSet(Channels)
BY MuonAssumption

LEMMA HitsAreChannels ==
  ASSUME MuonTypeOK, NEW i \in Nat \ {0}, NEW j \in Nat, j <= Len(arrived) + 1
  PROVE  HitsOf(i, j) \in SUBSET Channels /\ Cardinality(HitsOf(i, j)) \in Nat
<1>1. Len(arrived) \in Nat /\ \A k \in 1..Len(arrived) : arrived[k] \in Arrivals
  BY ElementOfSeq, LenProperties DEF MuonTypeOK
<1>2. \A k \in i .. j - 1 : arrived[k].tps \in SUBSET Channels
  <2>1. \A k \in i .. j - 1 : k \in 1..Len(arrived)
    BY <1>1
  <2>. QED BY <1>1, <2>1 DEF Arrivals
<1>3. HitsOf(i, j) \in SUBSET Channels
  BY <1>2 DEF HitsOf
<1>. QED BY <1>3, MuonConstants, FS_Subset, FS_CardinalityType

\* what arrives later takes no window away
LEMMA TriggersStay ==
  ASSUME MuonTypeOK, NEW a, arrived' = Append(arrived, a), a \in Arrivals, NEW t, IsTrigger(t)
  PROVE  IsTrigger(t)'
<1>1. PICK i \in 1..Len(arrived) : \E j \in i + 1 .. Len(arrived) :
         arrived[i].tstart = t /\ FullWindow(i, j)
  BY DEF IsTrigger
<1>7. PICK j \in i + 1 .. Len(arrived) : arrived[i].tstart = t /\ FullWindow(i, j)
  BY <1>1
<1>2. /\ Len(arrived) \in Nat /\ Len(arrived') = Len(arrived) + 1
      /\ \A k \in 1..Len(arrived) : arrived'[k] = arrived[k]
  BY AppendProperties, LenProperties DEF MuonTypeOK
<1>3. HitsOf(i, j)' = HitsOf(i, j)
  <2>1. \A k \in i .. j - 1 : arrived'[k] = arrived[k]
    BY <1>2
  <2>. QED BY <2>1 DEF HitsOf
<1>4. Window(i, j)'
  BY <1>7, <1>2 DEF FullWindow, Window
<1>5. i \in 1..Len(arrived') /\ j \in i + 1 .. Len(arrived') /\ arrived'[i].tstart = t
  BY <1>7, <1>2
<1>6. FullWindow(i, j)'
  BY <1>7, <1>3, <1>4 DEF FullWindow
<1>. QED BY <1>5, <1>6 DEF IsTrigger

LEMMA SameTriggers ==
  ASSUME UNCHANGED arrived
  PROVE  \A t : IsTrigger(t)' <=> IsTrigger(t)
<1>1. \A i, j : HitsOf(i, j)' = HitsOf(i, j)
  BY DEF HitsOf
<1>2. \A i, j : Window(i, j)' <=> Window(i, j)
  BY DEF Window
<1>3. \A i, j : FullWindow(i, j)' <=> FullWindow(i, j)
  BY <1>1, <1>2 DEF FullWindow
<1>. QED BY <1>3 DEF IsTrigger

LEMMA SameWindow ==
  ASSUME UNCHANGED arrived, Counting,
         handler'.lastTstart = handler.lastTstart, handler'.run = handler.run,
         handler'.hasHit = handler.hasHit, handler'.nSources = handler.nSources
  PROVE  Counting'
<1>1. \A i : HitsOf(i, Len(arrived) + 1)' = HitsOf(i, Len(arrived) + 1)
  BY DEF HitsOf
<1>2. \A i : Opened(i)' <=> Opened(i)
  BY <1>1 DEF Opened
<1>. QED BY <1>2 DEF Counting

LEMMA MuonInitially == ASSUME MuonInit PROVE MuonInv
<1>1. MuonTypeOK
  <2>1. /\ timestampQueue \in Seq(Nat) /\ published \in Seq(Nat) /\ arrived \in Seq(Arrivals)
    BY EmptySeq DEF MuonInit
  <2>2. /\ handler = [run |-> 0, alive |-> FALSE, lastTstart |-> 0, hasHit |-> {}, nSources |-> 0,
                      maxNSources |-> 0]
        /\ stoppingFlag \in BOOLEAN /\ prevTimestamp \in Nat
    BY DEF MuonInit, NewHandler
  <2>. QED BY <2>1, <2>2 DEF MuonTypeOK, Handlers
<1>2. handler.lastTstart = 0 /\ Len(timestampQueue) = 0 /\ Len(published) = 0
  BY DEF MuonInit, NewHandler
<1>. QED BY <1>1, <1>2 DEF MuonInv, Counting, Queued, Sent, Spaced

LEMMA RunsKeep ==
  ASSUME MuonInv, StartRun \/ SetStopping \/ JoinHandler
  PROVE  MuonInv'
<1>. USE DEF MuonInv, MuonTypeOK, Handlers
<1>1. UNCHANGED <<timestampQueue, prevTimestamp, published, arrived>>
  BY DEF StartRun, SetStopping, JoinHandler
<1>2. /\ stoppingFlag' \in BOOLEAN
      /\ \/ handler' = NewHandler(handler.run + 1)
         \/ \E b \in BOOLEAN : handler' = [handler EXCEPT !.alive = b]
  BY DEF StartRun, SetStopping, JoinHandler
<1>3. MuonTypeOK' /\ Counting'
  <2>1. CASE handler' = NewHandler(handler.run + 1)
    BY <1>1, <1>2, <2>1 DEF NewHandler, Counting
  <2>2. ASSUME NEW b \in BOOLEAN, handler' = [handler EXCEPT !.alive = b]
        PROVE  MuonTypeOK' /\ Counting'
    <3>1. /\ handler'.lastTstart = handler.lastTstart /\ handler'.run = handler.run
          /\ handler'.hasHit = handler.hasHit /\ handler'.nSources = handler.nSources
      BY <2>2
    <3>2. Counting'
      BY <1>1, <3>1, SameWindow
    <3>3. MuonTypeOK'
      BY <1>1, <1>2, <2>2
    <3>. QED BY <3>2, <3>3
  <2>. QED BY <1>2, <2>1, <2>2
<1>4. Queued' /\ (HoldOff > 0 => Sent' /\ Spaced')
  BY <1>1, SameTriggers DEF Queued, Sent, Spaced
<1>. QED BY <1>3, <1>4

LEMMA GetNextKeeps == ASSUME MuonInv, MuonGetNext PROVE MuonInv'
<1>. USE DEF MuonInv, MuonTypeOK
<1> DEFINE t == Head(timestampQueue)
<1>1. /\ timestampQueue # <<>> /\ timestampQueue' = Tail(timestampQueue)
      /\ UNCHANGED <<stoppingFlag, handler, arrived>>
      /\ \/ t < prevTimestamp + HoldOff /\ UNCHANGED <<prevTimestamp, published>>
         \/ ~(t < prevTimestamp + HoldOff) /\ prevTimestamp' = t /\ published' = Append(published, t)
  BY DEF MuonGetNext
<1>2. /\ t \in Nat /\ timestampQueue' \in Seq(Nat) /\ Len(timestampQueue') = Len(timestampQueue) - 1
      /\ Len(timestampQueue) \in Nat \ {0} /\ t = timestampQueue[1]
      /\ \A n \in 1..Len(timestampQueue') : timestampQueue'[n] = timestampQueue[n + 1]
  BY <1>1, HeadTailProperties, LenProperties, EmptySeq
<1>3. t = 0 \/ IsTrigger(t)
  BY <1>2 DEF Queued
<1>4. Queued' /\ Counting'
  <2>1. \A n \in 1..Len(timestampQueue') : n + 1 \in 1..Len(timestampQueue)
    BY <1>2
  <2>2. Counting'
    BY <1>1, SameWindow
  <2>. QED BY <1>1, <1>2, <2>1, <2>2, SameTriggers DEF Queued
<1>. HIDE DEF t
<1>5. CASE t < prevTimestamp + HoldOff /\ UNCHANGED <<prevTimestamp, published>>
  BY <1>1, <1>2, <1>4, <1>5, SameTriggers DEF Sent, Spaced
<1>6. CASE ~(t < prevTimestamp + HoldOff) /\ prevTimestamp' = t /\ published' = Append(published, t)
  <2>1. /\ published' \in Seq(Nat) /\ Len(published) \in Nat /\ Len(published') = Len(published) + 1
        /\ \A n \in 1..Len(published) : published'[n] = published[n] /\ published[n] \in Nat
        /\ published'[Len(published) + 1] = t
    BY <1>2, <1>6, AppendProperties, LenProperties, ElementOfSeq
  <2>2. ASSUME HoldOff > 0 PROVE Sent'
    <3>1. IsTrigger(t)
      BY <1>2, <1>3, <1>6, <2>2, MuonConstants
    <3>2. \A n \in 1..Len(published') : IsTrigger(published'[n])
      <4>1. SUFFICES ASSUME NEW n \in 1..Len(published') PROVE IsTrigger(published'[n])
        OBVIOUS
      <4>2. CASE n = Len(published) + 1
        BY <2>1, <3>1, <4>2
      <4>3. CASE n # Len(published) + 1
        <5>1. n \in 1..Len(published) /\ published'[n] = published[n]
          BY <2>1, <4>1, <4>3
        <5>. QED BY <2>2, <5>1 DEF Sent
      <4>. QED BY <4>2, <4>3
    <3>. QED BY <1>1, <3>2, SameTriggers DEF Sent
  <2>3. ASSUME HoldOff > 0 PROVE Spaced'
    <3>1. prevTimestamp' = published'[Len(published')]
      BY <1>6, <2>1
    <3>2. ASSUME NEW n \in 1 .. Len(published') - 1
          PROVE  published'[n + 1] >= published'[n] + HoldOff
      <4>1. CASE n = Len(published)
        <5>1. published'[n] = prevTimestamp /\ published'[n + 1] = t
          BY <2>1, <2>3, <3>2, <4>1 DEF Spaced
        <5>. QED BY <1>2, <1>6, <5>1, MuonConstants
      <4>2. CASE n # Len(published)
        <5>1. n \in 1 .. Len(published) - 1 /\ n \in 1..Len(published) /\ n + 1 \in 1..Len(published)
          BY <2>1, <3>2, <4>2
        <5>. QED BY <2>1, <2>3, <5>1 DEF Spaced
      <4>. QED BY <4>1, <4>2
    <3>. QED BY <3>1, <3>2 DEF Spaced
  <2>. QED BY <1>1, <1>2, <1>4, <1>6, <2>1, <2>2, <2>3
<1>. QED BY <1>1, <1>5, <1>6

\* a set that is counted, as it arrives
LEMMA Arrival ==
  ASSUME MuonTypeOK, NEW a \in Arrivals, arrived' = Append(arrived, a), NEW n, n = Len(arrived)
  PROVE  /\ n \in Nat /\ Len(arrived') = n + 1 /\ arrived' \in Seq(Arrivals)
         /\ \A k \in 1..n : arrived'[k] = arrived[k]
         /\ arrived'[n + 1] = a
         /\ \A i \in 1..n : /\ HitsOf(i, n + 1)' = HitsOf(i, n + 1)
                            /\ HitsOf(i, n + 2)' = HitsOf(i, n + 1) \cup a.tps
         /\ HitsOf(n + 1, n + 2)' = a.tps
<1>1. /\ n \in Nat /\ Len(arrived') = n + 1
      /\ \A k \in 1..n : arrived'[k] = arrived[k]
      /\ arrived'[n + 1] = a /\ arrived' \in Seq(Arrivals)
  BY AppendProperties, LenProperties DEF MuonTypeOK
<1>2. ASSUME NEW i \in 1..n
      PROVE  /\ HitsOf(i, n + 1)' = HitsOf(i, n + 1)
             /\ HitsOf(i, n + 2)' = HitsOf(i, n + 1) \cup a.tps
  <2>1. /\ i .. n + 1 - 1 = i .. n /\ i .. n + 2 - 1 = (i .. n) \cup {n + 1}
        /\ \A k \in i .. n : arrived'[k] = arrived[k]
    BY <1>1
  <2>2. HitsOf(i, n + 1) = UNION {arrived[k].tps : k \in i .. n}
    BY <2>1 DEF HitsOf
  <2>3. HitsOf(i, n + 1)' = UNION {arrived'[k].tps : k \in i .. n}
    BY <2>1 DEF HitsOf
  <2>4. HitsOf(i, n + 2)' = UNION {arrived'[k].tps : k \in (i .. n) \cup {n + 1}}
    BY <2>1 DEF HitsOf
  <2>5. UNION {arrived'[k].tps : k \in i .. n} = UNION {arrived[k].tps : k \in i .. n}
    BY <2>1
  <2>6. UNION {arrived'[k].tps : k \in (i .. n) \cup {n + 1}}
          = (UNION {arrived'[k].tps : k \in i .. n}) \cup a.tps
    BY <1>1
  <2>. QED BY <2>2, <2>3, <2>4, <2>5, <2>6
<1>3. HitsOf(n + 1, n + 2)' = a.tps
  <2>1. n + 1 .. n + 2 - 1 = {n + 1}
    BY <1>1
  <2>2. HitsOf(n + 1, n + 2)' = UNION {arrived'[k].tps : k \in {n + 1}}
    BY <2>1 DEF HitsOf
  <2>3. UNION {arrived'[k].tps : k \in {n + 1}} = arrived'[n + 1].tps
    OBVIOUS
  <2>. QED BY <1>1, <2>2, <2>3
<1>. QED BY <1>1, <1>2, <1>3

Counted(h, x) == [h EXCEPT !.nSources = @ + 1, !.hasHit = @ \cup x]

LEMMA CountedIs ==
  ASSUME NEW h \in Handlers, NEW x \in SUBSET Channels
  PROVE  /\ Counted(h, x) \in Handlers /\ Counted(h, x).lastTstart = h.lastTstart
         /\ Counted(h, x).run = h.run /\ Counted(h, x).hasHit = h.hasHit \cup x
         /\ Counted(h, x).nSources = h.nSources + 1
<1> DEFINE m == [h EXCEPT !.nSources = @ + 1]
<1>1. /\ m \in Handlers /\ m.lastTstart = h.lastTstart /\ m.run = h.run
      /\ m.hasHit = h.hasHit /\ m.nSources = h.nSources + 1
  BY DEF Handlers
<1>2. Counted(h, x) = [m EXCEPT !.hasHit = @ \cup x]
  BY DEF Counted
<1>. HIDE DEF m
<1>. QED BY <1>1, <1>2 DEF Handlers

LEMMA Opens ==
  ASSUME NEW h \in Handlers, NEW s \in TPSets
  PROVE  /\ NewWindow(h, s) \in Handlers /\ NewWindow(h, s).lastTstart = s.tstart
         /\ NewWindow(h, s).run = h.run /\ NewWindow(h, s).hasHit = {}
         /\ NewWindow(h, s).nSources = 0
<1>1. s.tstart \in Nat /\ h.nSources \in Nat /\ h.maxNSources \in Nat
  BY MuonConstants DEF TPSets, Handlers
<1>2. Decided(h).maxNSources \in Nat
  BY <1>1 DEF Decided, Larger
<1>. QED BY <1>1, <1>2 DEF NewWindow, KeepHits, Handlers

LEMMA HandledKeeps == ASSUME MuonInv, TPSetHandled, ~strayed' PROVE MuonInv'
<1>. USE DEF MuonInv
<1>0. PICK s \in TPSets :
       IF s.wall THEN UNCHANGED <<handler, timestampQueue, arrived, strayed>>
       ELSE LET over == s.tstart >= handler.lastTstart + TSpan
                h == IF over THEN NewWindow(handler, s) ELSE handler
                counted == [h EXCEPT !.nSources = @ + 1, !.hasHit = @ \cup s.tps]
            IN  /\ timestampQueue' =
                     IF over /\ Decided(handler).trigger /\ Len(timestampQueue) < QueueSize
                     THEN Append(timestampQueue, handler.lastTstart) ELSE timestampQueue
                /\ handler' \in IF Strays(s) THEN Overwritten(counted) ELSE {counted}
                /\ strayed' = (strayed \/ Strays(s))
                /\ arrived' = Append(arrived, [run |-> handler.run, tstart |-> s.tstart,
                                               tps |-> s.tps])
  BY DEF TPSetHandled
<1>1. IF s.wall THEN UNCHANGED <<handler, timestampQueue, arrived>>
       ELSE LET over == s.tstart >= handler.lastTstart + TSpan
                h == IF over THEN NewWindow(handler, s) ELSE handler
            IN  /\ timestampQueue' =
                     IF over /\ Decided(handler).trigger /\ Len(timestampQueue) < QueueSize
                     THEN Append(timestampQueue, handler.lastTstart) ELSE timestampQueue
                /\ handler' = [h EXCEPT !.nSources = @ + 1, !.hasHit = @ \cup s.tps]
                /\ arrived' = Append(arrived, [run |-> handler.run, tstart |-> s.tstart,
                                               tps |-> s.tps])
  BY <1>0
<1>2. UNCHANGED <<stoppingFlag, prevTimestamp, published>>
  BY DEF TPSetHandled
<1>3. CASE s.wall
  <2>1. UNCHANGED <<handler, timestampQueue, arrived>>
    BY <1>1, <1>3
  <2>2. Counting'
    BY <2>1, SameWindow
  <2>3. Queued' /\ (HoldOff > 0 => Sent' /\ Spaced')
    BY <1>2, <2>1, SameTriggers DEF Queued, Sent, Spaced
  <2>. QED BY <1>2, <2>1, <2>2, <2>3 DEF MuonTypeOK
<1>4. CASE ~s.wall
  <2>10. PICK n : n = Len(arrived)
    OBVIOUS
  <2>11. PICK t : t = handler.lastTstart
    OBVIOUS
  <2> DEFINE a == [run |-> handler.run, tstart |-> s.tstart, tps |-> s.tps]
             over == s.tstart >= t + TSpan
  <2>1. /\ s.tstart \in Nat /\ s.tps \in SUBSET Channels
        /\ handler.run \in Nat /\ handler.lastTstart \in Nat /\ t \in Nat /\ handler.hasHit \in SUBSET Channels
        /\ handler.nSources \in Nat /\ handler.maxNSources \in Nat
    BY <2>11, MuonConstants DEF TPSets, MuonTypeOK, Handlers
  <2>2. a \in Arrivals /\ a.run = handler.run /\ a.tstart = s.tstart /\ a.tps = s.tps
    BY <2>1 DEF Arrivals
  <2>3. arrived' = Append(arrived, a)
    BY <1>1, <1>4
  <2>. HIDE DEF a
  <2>4. /\ n \in Nat /\ Len(arrived') = n + 1 /\ \A k \in 1..n : arrived'[k] = arrived[k]
        /\ arrived'[n + 1] = a /\ arrived' \in Seq(Arrivals)
        /\ \A i \in 1..n : /\ HitsOf(i, n + 1)' = HitsOf(i, n + 1)
                           /\ HitsOf(i, n + 2)' = HitsOf(i, n + 1) \cup a.tps
        /\ HitsOf(n + 1, n + 2)' = a.tps
    BY <2>2, <2>3, <2>10, Arrival
  <2>5. \A x : IsTrigger(x) => IsTrigger(x)'
    BY <2>2, <2>3, TriggersStay
  <2>6. HoldOff > 0 => Sent' /\ Spaced'
    BY <1>2, <2>5 DEF Sent, Spaced
  <2>7. CASE over
    <3>1. /\ handler'.lastTstart = s.tstart /\ handler'.run = handler.run
          /\ handler'.hasHit = s.tps /\ handler'.nSources = 1
          /\ handler' \in Handlers
      <4>1. handler' = Counted(NewWindow(handler, s), s.tps)
        BY <1>1, <1>4, <2>7, <2>11 DEF Counted
      <4>2. handler \in Handlers
        BY DEF MuonTypeOK
      <4>3. PICK h \in Handlers : h = NewWindow(handler, s)
        BY <4>2, Opens
      <4>4. h.lastTstart = s.tstart /\ h.run = handler.run /\ h.hasHit = {} /\ h.nSources = 0
        BY <4>2, <4>3, Opens
      <4>5. h.hasHit \cup s.tps = s.tps /\ h.nSources + 1 = 1
        BY <4>4
      <4>. QED BY <2>1, <4>1, <4>3, <4>4, <4>5, CountedIs
    <3>2. Opened(n + 1)'
      <4>1. /\ \A k \in n + 1 .. Len(arrived') : arrived'[k].run = handler'.run
            /\ \A k \in n + 1 + 1 .. Len(arrived') : arrived'[k].tstart < handler'.lastTstart + TSpan
        BY <2>2, <2>4, <3>1
      <4>2. HitsOf(n + 1, Len(arrived) + 1)' = handler'.hasHit
        <5>1. Len(arrived') + 1 = n + 2
          BY <2>4
        <5>2. HitsOf(n + 1, Len(arrived) + 1)' = HitsOf(n + 1, n + 2)'
          BY <5>1 DEF HitsOf
        <5>. QED BY <2>2, <2>4, <3>1, <5>2
      <4>. QED BY <2>2, <2>4, <3>1, <4>1, <4>2 DEF Opened
    <3>3. Counting'
      BY <2>4, <3>2 DEF Counting
    <3>4. ASSUME Decided(handler).trigger, NEW i \in 1..n, Opened(i)
          PROVE  IsTrigger(t)'
      <4>1. /\ i \in 1..Len(arrived') /\ n + 1 \in i + 1 .. Len(arrived')
            /\ arrived'[i].tstart = t
        BY <2>4, <2>11, <3>4 DEF Opened
      <4>2. Window(i, n + 1)'
        <5>1. \A k \in i + 1 .. n : arrived'[k].tstart < arrived'[i].tstart + TSpan
          BY <2>4, <2>10, <3>4 DEF Opened
        <5>2. arrived'[n + 1].tstart >= arrived'[i].tstart + TSpan /\ arrived'[i].run = arrived'[n + 1].run
          BY <2>2, <2>4, <2>7, <2>10, <3>4, <4>1 DEF Opened
        <5>3. n + 1 - 1 = n
          BY <2>4
        <5>. QED BY <2>4, <5>1, <5>2, <5>3 DEF Window
      <4>3. Cardinality(handler.hasHit) >= HitThreshold * handler.nSources
        <5>1. Cardinality(handler.hasHit) \in Nat
          BY <2>1, MuonConstants, FS_Subset, FS_CardinalityType
        <5>2. Cardinality(handler.hasHit) >= HitThreshold * Larger(handler.nSources, handler.maxNSources)
          BY <3>4 DEF Decided
        <5>3. /\ Larger(handler.nSources, handler.maxNSources) \in Nat
              /\ handler.nSources <= Larger(handler.nSources, handler.maxNSources)
          BY <2>1 DEF Larger
        <5>4. HitThreshold * handler.nSources
                <= HitThreshold * Larger(handler.nSources, handler.maxNSources)
          BY <2>1, <5>3, MuonConstants
        <5>. QED BY <2>1, <5>1, <5>2, <5>3, <5>4, MuonConstants
      <4>4. HitsOf(i, n + 1)' = handler.hasHit /\ handler.nSources = n + 1 - i
        BY <2>4, <2>10, <3>4 DEF Opened
      <4>5. PICK j : j = n + 1
        OBVIOUS
      <4>6. j \in i + 1 .. Len(arrived') /\ Window(i, j)' /\ HitsOf(i, j)' = handler.hasHit
        BY <4>1, <4>2, <4>4, <4>5
      <4>7. HitThreshold * (j - i) = HitThreshold * handler.nSources
        <5>1. j - i = handler.nSources
          BY <2>4, <4>4, <4>5
        <5>. QED BY <5>1
      <4>8. Cardinality(HitsOf(i, j)') >= HitThreshold * (j - i)
        BY <4>3, <4>6, <4>7
      <4>9. FullWindow(i, j)'
        BY <4>6, <4>8 DEF FullWindow
      <4>. QED BY <4>1, <4>6, <4>9 DEF IsTrigger
    <3>5. timestampQueue' \in Seq(Nat) /\ Queued'
      <4>1. CASE timestampQueue' = timestampQueue
        BY <2>5, <4>1 DEF Queued, MuonTypeOK
      <4>2. CASE timestampQueue' = Append(timestampQueue, handler.lastTstart) /\ Decided(handler).trigger
        <5>1. /\ timestampQueue' \in Seq(Nat) /\ Len(timestampQueue) \in Nat
              /\ Len(timestampQueue') = Len(timestampQueue) + 1
              /\ \A m \in 1..Len(timestampQueue) : timestampQueue'[m] = timestampQueue[m]
              /\ timestampQueue'[Len(timestampQueue) + 1] = t
          BY <2>1, <2>11, <4>2, AppendProperties, LenProperties DEF MuonTypeOK
        <5>2. t = 0 \/ IsTrigger(t)'
          BY <2>10, <2>11, <3>4, <4>2 DEF Counting
        <5>3. ASSUME NEW m \in 1..Len(timestampQueue')
              PROVE  timestampQueue'[m] = 0 \/ IsTrigger(timestampQueue[m])'
          <6>1. CASE m = Len(timestampQueue) + 1
            BY <5>1, <5>2, <6>1
          <6>2. CASE m # Len(timestampQueue) + 1
            <7>1. m \in 1..Len(timestampQueue) /\ timestampQueue'[m] = timestampQueue[m]
              BY <5>1, <5>3, <6>2
            <7>. QED BY <2>5, <7>1 DEF Queued
          <6>. QED BY <6>1, <6>2
        <5>. QED BY <5>1, <5>3 DEF Queued
      <4>. QED BY <1>1, <1>4, <2>7, <2>11, <4>1, <4>2
    <3>. QED BY <1>2, <2>4, <2>6, <3>1, <3>3, <3>5 DEF MuonTypeOK
  <2>8. CASE ~over
    <3>1. /\ handler'.lastTstart = handler.lastTstart /\ handler'.run = handler.run
          /\ handler'.hasHit = handler.hasHit \cup s.tps /\ handler'.nSources = handler.nSources + 1
          /\ handler' \in Handlers
      <4>1. handler' = Counted(handler, s.tps)
        BY <1>1, <1>4, <2>8, <2>11 DEF Counted
      <4>2. handler \in Handlers
        BY DEF MuonTypeOK
      <4>. QED BY <2>1, <4>1, <4>2, CountedIs
    <3>2. ASSUME NEW i \in 1..n, Opened(i) PROVE Opened(i)'
      <4>1. /\ \A k \in i .. n + 1 : arrived'[k].run = handler'.run
            /\ arrived'[i].tstart = handler'.lastTstart
        <5>1. /\ \A k \in i..n : arrived[k].run = handler.run
              /\ arrived[i].tstart = handler.lastTstart
          BY <2>10, <3>2 DEF Opened
        <5>. QED BY <2>2, <2>4, <2>10, <3>1, <5>1
      <4>2. \A k \in i + 1 .. n + 1 : arrived'[k].tstart < handler'.lastTstart + TSpan
        <5>1. a.tstart < handler'.lastTstart + TSpan
          BY <2>1, <2>2, <2>8, <2>11, <3>1, MuonConstants
        <5>2. SUFFICES ASSUME NEW k \in i + 1 .. n + 1
                       PROVE  arrived'[k].tstart < handler'.lastTstart + TSpan
          OBVIOUS
        <5>3. k = n + 1 \/ (k \in i + 1 .. n /\ k \in 1..n)
          BY <2>4
        <5>. QED BY <2>4, <2>10, <3>1, <3>2, <5>1, <5>3 DEF Opened
      <4>3. HitsOf(i, Len(arrived) + 1)' = handler'.hasHit
        <5>1. HitsOf(i, n + 2)' = handler.hasHit \cup a.tps
          BY <2>4, <2>10, <3>2 DEF Opened
        <5>2. HitsOf(i, Len(arrived) + 1)' = HitsOf(i, n + 2)'
          <6>1. Len(arrived') + 1 = n + 2
            BY <2>4
          <6>. QED BY <6>1 DEF HitsOf
        <5>. QED BY <2>2, <3>1, <5>1, <5>2
      <4>4. handler'.nSources = Len(arrived') + 1 - i
        BY <2>4, <2>10, <3>1, <3>2 DEF Opened
      <4>. QED BY <2>4, <4>1, <4>2, <4>3, <4>4 DEF Opened
    <3>3. Counting'
      BY <2>4, <2>10, <3>1, <3>2 DEF Counting
    <3>4. timestampQueue' = timestampQueue
      BY <1>1, <1>4, <2>8, <2>11
    <3>. QED BY <1>2, <2>4, <2>5, <2>6, <3>1, <3>3, <3>4 DEF MuonTypeOK, Queued
  <2>. QED BY <2>7, <2>8
<1>. QED BY <1>3, <1>4

(* With a hold-off each trigger of the muon finder is a complete window of  *)
(* one run with the hits that the threshold asks for, and triggers keep the *)
(* hold-off (IsoMuonFinder::tpsetHandler and getNext_): for any channels,   *)
(* span, threshold and hold-off, and any number of sets and runs, until the *)
(* thread counts a hit whose channel has no place in has_hit.               *)
THEOREM MuonTriggersAreWindows == MuonSpec => []TriggersAreWindows
<1>1. MuonInit => (~strayed => MuonInv)
  BY MuonInitially
<1>2. (~strayed => MuonInv) /\ [MuonNext]_muonVars => (~strayed => MuonInv)'
  <2>. SUFFICES ASSUME ~strayed => MuonInv, [MuonNext]_muonVars, ~strayed' PROVE MuonInv'
    OBVIOUS
  <2>0. MuonInv
    <3>1. ~strayed
      BY DEF MuonNext, StartRun, SetStopping, JoinHandler, TPSetHandled, StrayKills, MuonGetNext,
             muonVars
    <3>. QED BY <3>1
  <2>1. CASE UNCHANGED muonVars
    <3>1. UNCHANGED <<stoppingFlag, handler, timestampQueue, prevTimestamp, published, arrived>>
      BY <2>1 DEF muonVars
    <3>2. Counting'
      BY <2>0, <3>1, SameWindow DEF MuonInv
    <3>. QED BY <2>0, <3>1, <3>2, SameTriggers DEF MuonInv, MuonTypeOK, Queued, Sent, Spaced
  <2>2. ~StrayKills
    BY DEF StrayKills
  <2>. QED BY <2>0, <2>1, <2>2, RunsKeep, GetNextKeeps, HandledKeeps DEF MuonNext
<1>3. (~strayed => MuonInv) => TriggersAreWindows
  BY DEF MuonInv, Sent, Spaced, IsTrigger, FullWindow, TriggersAreWindows
<1>. QED BY <1>1, <1>2, <1>3, PTL DEF MuonSpec
-----------------------------------------------------------------------------
(* The older receiver of RCE data: RceReceiver.tla. *)

Raws == [held : BOOLEAN, units : Seq(Nat), slices : Nat, empty : BOOLEAN]
Slices == [reading : {"header", "payload"}, got : Nat, size : Nat]

RawTypeOK ==
  /\ caller \in {"idle", "committed", "clearing", "started", "running", "stopping"}
  /\ starts \in Nat /\ suspendReadout \in BOOLEAN /\ readoutSuspended \in BOOLEAN
  /\ service \in {"accept", "acceptNoted", "accepting", "read", "readNoted", "parked", "receiving",
                  "buffer", "retryNoted", "retryParked", "over"}
  /\ connected \in BOOLEAN /\ socket \in Seq(Nat) /\ nextUnit \in Nat /\ buffers \in Nat
  /\ current \in Raws
  /\ slice \in Slices
  /\ filled \in Seq(Seq(Nat))
  /\ gaveUp \in BOOLEAN /\ stale \in BOOLEAN /\ broken \in BOOLEAN

\* the two flags: who has asked, and what the answer stands for
FlagsAgree ==
  /\ caller \in {"started", "running"} => ~suspendReadout
  /\ caller = "stopping" \/ (caller = "idle" /\ starts > 0) => suspendReadout
  /\ caller = "idle" /\ starts > 0 /\ ~gaveUp => readoutSuspended
  /\ ~stale /\ caller = "running" => ~readoutSuspended
  /\ ~stale /\ readoutSuspended /\ suspendReadout => ~UsesBuffer

Linked ==
  /\ service \in {"accept", "acceptNoted", "accepting"} => ~connected
  /\ ~connected => socket = <<>>

\* the next unit to be read, and the first of the buffer begun
NextRead == nextUnit - Len(socket)
FirstHeld == NextRead - Len(current.units)

WholeMillislice(u) ==
  /\ Len(u) = NumSlices * SliceUnits /\ AtBoundary(u[1])
  /\ \A k \in 1 .. Len(u) - 1 : u[k + 1] = u[k] + 1
FilledWhole == \A i \in 1..Len(filled) : WholeMillislice(filled[i])

\* what is in the buffer begun is whole microslices and the part of one, as they were sent
Held ==
  /\ current.empty => current.units = <<>> /\ current.slices = 0 /\ slice = HeaderNext
  /\ current.slices < NumSlices
  /\ slice.reading = "header" => slice.got < HeaderUnits
  /\ slice.reading = "payload" => slice.size = SliceUnits /\ slice.got \in HeaderUnits .. SliceUnits - 1
  /\ Len(current.units) = current.slices * SliceUnits + slice.got
  /\ \E q \in Nat : FirstHeld = q * SliceUnits
  /\ \A k \in 1..Len(current.units) : current.units[k] = FirstHeld + k - 1
  /\ \A k \in 1..Len(socket) : socket[k] = NextRead + k - 1

\* where the io thread is with a buffer begun, or without
Placed ==
  /\ service \in {"buffer", "retryNoted", "retryParked"} => current.empty
  /\ service = "receiving" => ~current.empty
  /\ ~connected => slice.got = 0

RawInv == RawTypeOK /\ FlagsAgree /\ Linked /\ (~broken => Held /\ Placed /\ FilledWhole)

LEMMA RceConstants ==
  /\ HeaderUnits \in Nat \ {0} /\ SliceUnits \in Nat \ {0} /\ NumSlices \in Nat \ {0}
  /\ Precommit \in Nat /\ HeaderUnits < SliceUnits
BY RceAssumption

LEMMA OnBoundary ==
  ASSUME NEW n \in Nat
  PROVE  AtBoundary(n) <=> \E q \in Nat : n = q * SliceUnits
<1>1. SliceUnits \in Nat \ {0}
  BY RceConstants
<1>2. /\ n \div SliceUnits \in Int /\ n % SliceUnits \in 0 .. SliceUnits - 1
      /\ n = (n \div SliceUnits) * SliceUnits + (n % SliceUnits)
  BY <1>1, Division
<1>3. ASSUME AtBoundary(n) PROVE \E q \in Nat : n = q * SliceUnits
  <2>1. n \div SliceUnits \in Nat
    BY <1>1, DivisionOfNat
  <2>2. n = (n \div SliceUnits) * SliceUnits
    BY <1>1, <1>2, <1>3, <2>1 DEF AtBoundary
  <2>. QED BY <2>1, <2>2
<1>4. ASSUME NEW q \in Nat, n = q * SliceUnits PROVE AtBoundary(n)
  <2> DEFINE d == n \div SliceUnits
             r == n % SliceUnits
  <2>1. d \in Int /\ r \in 0 .. SliceUnits - 1 /\ n = d * SliceUnits + r
    BY <1>2
  <2>. HIDE DEF d, r
  <2>2. (q - d) * SliceUnits = r
    BY <1>1, <1>4, <2>1
  <2>3. q - d = 0
    <3>1. (q - d) * SliceUnits < SliceUnits /\ -SliceUnits < (q - d) * SliceUnits
      BY <1>1, <2>1, <2>2
    <3>. QED BY <1>1, <2>1, <3>1, OneMultiple
  <2>4. r = 0
    BY <1>1, <2>1, <2>2, <2>3
  <2>. QED BY <2>4 DEF r, AtBoundary
<1>. QED BY <1>3, <1>4

\* the next connection begins where a connection that ended with a microslice left off
LEMMA RoundsUp ==
  ASSUME NEW q \in Nat
  PROVE  SliceUnits * ((q * SliceUnits + SliceUnits - 1) \div SliceUnits) = q * SliceUnits
<1>1. SliceUnits \in Nat \ {0}
  BY RceConstants
<1> DEFINE m == q * SliceUnits + SliceUnits - 1
           d == m \div SliceUnits
<1>2. m \in Nat
  BY <1>1
<1>3. d \in Int /\ d * SliceUnits <= m /\ m < d * SliceUnits + SliceUnits
  BY <1>1, <1>2, Division
<1>. HIDE DEF d
<1>4. (d - q) * SliceUnits = d * SliceUnits - q * SliceUnits
  BY <1>1, <1>3
<1>5. (d - q) * SliceUnits < SliceUnits /\ -SliceUnits < (d - q) * SliceUnits
  BY <1>1, <1>2, <1>3, <1>4
<1>6. d = q
  BY <1>1, <1>3, <1>5, OneMultiple
<1>. QED BY <1>1, <1>6 DEF d

LEMMA RceInitially == ASSUME RceInit PROVE RawInv
<1>1. RawTypeOK
  <2>1. socket \in Seq(Nat) /\ filled \in Seq(Seq(Nat))
    BY EmptySeq DEF RceInit
  <2>2. current \in Raws
    BY EmptySeq DEF RceInit, NoRaw, Raws
  <2>3. slice \in Slices
    BY RceConstants DEF RceInit, HeaderNext, Slices
  <2>. QED BY <2>1, <2>2, <2>3 DEF RceInit, RawTypeOK
<1>2. FlagsAgree /\ Linked
  BY DEF RceInit, FlagsAgree, Linked
<1>3. Held /\ Placed /\ FilledWhole
  <2>1. /\ socket = <<>> /\ nextUnit = 0 /\ current = NoRaw /\ slice = HeaderNext /\ filled = <<>>
        /\ service = "accept" /\ current.units = <<>> /\ current.slices = 0
        /\ slice.got = 0 /\ slice.reading = "header" /\ ~connected
    BY DEF RceInit, NoRaw, HeaderNext
  <2>2. Len(socket) = 0 /\ Len(current.units) = 0 /\ Len(filled) = 0
    BY <2>1
  <2>3. NextRead = 0 /\ FirstHeld = 0
    <3>1. nextUnit = 0
      BY <2>1
    <3>. QED BY <2>2, <3>1 DEF NextRead, FirstHeld
  <2>4. 0 = 0 * SliceUnits /\ Len(current.units) = current.slices * SliceUnits + slice.got
    BY <2>1, <2>2, RceConstants
  <2>5. \E q \in Nat : FirstHeld = q * SliceUnits
    BY <2>3, <2>4
  <2>6. Held /\ Placed
    BY <2>1, <2>2, <2>4, <2>5, RceConstants DEF Held, Placed
  <2>. QED BY <2>2, <2>6 DEF FilledWhole
<1>. QED BY <1>1, <1>2, <1>3 DEF RawInv

\* the buffer begun with the units it now holds, and a microslice more or not
Grown(r, u, x) == [r EXCEPT !.units = u, !.slices = @ + x]

LEMMA GrownIs ==
  ASSUME NEW r \in Raws, NEW u \in Seq(Nat), NEW x \in {0, 1}
  PROVE  /\ Grown(r, u, x) \in Raws /\ Grown(r, u, x).units = u
         /\ Grown(r, u, x).slices = r.slices + x /\ Grown(r, u, x).empty = r.empty
<1> DEFINE m == [r EXCEPT !.units = u]
<1>1. m \in Raws /\ m.units = u /\ m.slices = r.slices /\ m.empty = r.empty
  BY DEF Raws
<1>2. Grown(r, u, x) = [m EXCEPT !.slices = @ + x]
  BY DEF Grown
<1>3. m.slices + x \in Nat
  BY <1>1 DEF Raws
<1>. HIDE DEF m
<1>. QED BY <1>1, <1>2, <1>3 DEF Raws

\* what HandleData does with n units
Units(n) == current.units \o SubSeq(socket, 1, n)
Done(n) == slice.reading = "payload" /\ n = Wanted
ReadsUnits(n) ==
  /\ socket' = SubSeq(socket, n + 1, Len(socket))
  /\ \/ n < Wanted /\ slice' = [slice EXCEPT !.got = slice.got + n]
     \/ /\ n = Wanted /\ slice.reading = "header"
        /\ \E size \in SizeIn(SubSeq(Units(n), Len(Units(n)) - (slice.got + n) + 1, Len(Units(n)))) :
             slice' = [reading |-> "payload", got |-> slice.got + n, size |-> size]
     \/ Done(n) /\ slice' = HeaderNext
  /\ current' = IF Done(n) /\ current.slices + 1 = NumSlices THEN NoRaw
                ELSE [current EXCEPT !.units = Units(n), !.slices = @ + IF Done(n) THEN 1 ELSE 0]
  /\ filled' = IF Done(n) /\ current.slices + 1 = NumSlices THEN Append(filled, Units(n)) ELSE filled

LEMMA Handled ==
  ASSUME HandleData
  PROVE  \E n \in 1..Wanted : n <= Len(socket) /\ ReadsUnits(n)
BY DEF HandleData, ReadsUnits, Units, Done

LEMMA RawTyped == ASSUME RawInv, [RceNext]_rceVars PROVE RawTypeOK'
<1>. USE RceConstants DEF RawInv, RawTypeOK, Raws, Slices
<1>1. CASE CommitBuffers
  <2>1. filled' \in Seq(Seq(Nat))
    BY <1>1, EmptySeq DEF CommitBuffers
  <2>. QED BY <1>1, <2>1 DEF CommitBuffers, flags, link, past
<1>2. CASE ClearForStart
  <2>1. /\ current' \in Raws
        /\ slice' \in Slices
    BY <1>2, EmptySeq DEF ClearForStart, NoRaw, HeaderNext
  <2>2. socket' \in Seq(Nat) /\ broken' \in BOOLEAN
    BY <1>2, EmptySeq DEF ClearForStart
  <2>. QED BY <1>2, <2>1, <2>2 DEF ClearForStart, flags
<1>3. CASE ClearSuspend
  <2>1. UNCHANGED <<starts, readoutSuspended, service, connected, socket, nextUnit, buffers,
                    current, slice, filled, gaveUp, stale, broken>>
    BY <1>3 DEF ClearSuspend, link, readout, past
  <2>2. caller' = "started" /\ suspendReadout' = FALSE
    BY <1>3 DEF ClearSuspend
  <2>. HIDE DEF Raws, Slices
  <2>. QED BY <2>1, <2>2
<1>4. CASE ClearSuspended
  <2>1. UNCHANGED <<starts, suspendReadout, service, connected, socket, nextUnit, buffers,
                    current, slice, filled, stale, broken>>
    BY <1>4 DEF ClearSuspended, link, readout
  <2>2. caller' = "running" /\ readoutSuspended' = FALSE /\ gaveUp' = FALSE
    BY <1>4 DEF ClearSuspended
  <2>. HIDE DEF Raws, Slices
  <2>. QED BY <2>1, <2>2
<1>5. CASE StopSuspends
  <2>1. UNCHANGED <<starts, readoutSuspended, service, connected, socket, nextUnit, buffers,
                    current, slice, filled, gaveUp, stale, broken>>
    BY <1>5 DEF StopSuspends, link, readout, past
  <2>2. caller' = "stopping" /\ suspendReadout' = TRUE
    BY <1>5 DEF StopSuspends
  <2>. HIDE DEF Raws, Slices
  <2>. QED BY <2>1, <2>2
<1>6. CASE RceStopReturns
  <2>1. UNCHANGED <<starts, suspendReadout, readoutSuspended, service, connected, socket, nextUnit,
                    buffers, current, slice, filled, stale, broken>>
    BY <1>6 DEF RceStopReturns, flags, link, readout
  <2>2. caller' = "idle" /\ gaveUp' = ~readoutSuspended
    BY <1>6 DEF RceStopReturns
  <2>. HIDE DEF Raws, Slices
  <2>. QED BY <2>1, <2>2
<1>7. CASE RetrieveFilled
  <2>1. filled' \in Seq(Seq(Nat)) /\ buffers' \in Nat
    BY <1>7, HeadTailProperties DEF RetrieveFilled
  <2>. QED BY <1>7, <2>1 DEF RetrieveFilled, flags, link, past
<1>8. CASE RceSends
  <2>1. socket' \in Seq(Nat)
    BY <1>8, AppendProperties DEF RceSends
  <2>. QED BY <1>8, <2>1 DEF RceSends, flags, readout, past
<1>9. CASE DoAccept
  BY <1>9 DEF DoAccept, Moves, flags, link, readout, past
<1>10. CASE SuspendAccept
  BY <1>10 DEF SuspendAccept, Moves, Suspended, flags, link, readout, past
<1>11. CASE AcceptEnds
  <2>1. socket' \in Seq(Nat)
    <3>1. socket' = socket \/ socket' = <<>>
      BY <1>11 DEF AcceptEnds, link
    <3>. QED BY <3>1, EmptySeq
  <2>2. nextUnit' \in Nat
    <3>1. (nextUnit + SliceUnits - 1) \in Nat
      OBVIOUS
    <3>2. (nextUnit + SliceUnits - 1) \div SliceUnits \in Nat
      BY <3>1, DivisionOfNat
    <3>3. SliceUnits * ((nextUnit + SliceUnits - 1) \div SliceUnits) \in Nat
      BY <3>2
    <3>4. nextUnit' \in {nextUnit, SliceUnits * ((nextUnit + SliceUnits - 1) \div SliceUnits)}
      BY <1>11 DEF AcceptEnds, link
    <3>. QED BY <3>3, <3>4
  <2>3. /\ connected' \in BOOLEAN /\ service' \in {"read", "accept"}
        /\ UNCHANGED <<caller, starts, flags, deadlineObject, readout, exceptionSet, past>>
    BY <1>11 DEF AcceptEnds, Moves, link
  <2>. QED BY <2>1, <2>2, <2>3 DEF flags, readout, past
<1>12. CASE DoRead
  BY <1>12 DEF DoRead, ReadOn, Moves, flags, link, readout, past
<1>13. CASE SuspendRead
  BY <1>13 DEF SuspendRead, Moves, Suspended, flags, link, readout, past
<1>14. CASE Restart
  BY <1>14 DEF Restart, ReadOn, Moves, flags, link, readout, past
<1>15. CASE GetBuffer
  <2>1. /\ current' \in Raws
        /\ slice' \in Slices
    <3>1. NewRaw \in Raws
      BY EmptySeq DEF NewRaw
    <3>2. [slice EXCEPT !.got = 0] \in Slices
      OBVIOUS
    <3>. QED BY <1>15, <3>1, <3>2 DEF GetBuffer
  <2>. QED BY <1>15, <2>1, SMTT(15) DEF GetBuffer, flags, link, past
<1>16. CASE HandleData
  <2>1. PICK n \in 1..Wanted : n <= Len(socket) /\ ReadsUnits(n)
    BY <1>16, Handled
  <2>2. n \in Nat /\ SubSeq(socket, 1, n) \in Seq(Nat)
    BY <2>1, LenProperties, ElementOfSeq, SubSeqProperties
  <2>3. socket' \in Seq(Nat)
    <3>1. Len(socket) \in Nat /\ \A i \in n + 1 .. Len(socket) : socket[i] \in Nat
      BY <2>2, LenProperties, ElementOfSeq
    <3>2. n + 1 \in Int /\ Len(socket) \in Int
      BY <2>2, <3>1
    <3>3. SubSeq(socket, n + 1, Len(socket)) \in Seq(Nat)
      BY <3>1, <3>2, SubSeqProperties
    <3>. QED BY <2>1, <3>3 DEF ReadsUnits
  <2>4. Units(n) \in Seq(Nat)
    BY <2>2, ConcatProperties DEF Units
  <2>5. current' \in Raws
    <3>1. NoRaw \in Raws
      BY EmptySeq DEF NoRaw
    <3>2. \A x \in {0, 1} : Grown(current, Units(n), x) \in Raws
      BY <2>4, GrownIs
    <3>3. current' = NoRaw \/ \E x \in {0, 1} : current' = Grown(current, Units(n), x)
      BY <2>1 DEF ReadsUnits, Grown
    <3>. QED BY <3>1, <3>2, <3>3
  <2>6. slice' \in Slices
    <3>1. SizeIn(SubSeq(Units(n), Len(Units(n)) - (slice.got + n) + 1, Len(Units(n)))) \subseteq Nat
      BY DEF SizeIn
    <3>2. slice.got + n \in Nat
      BY <2>2
    <3>3. [slice EXCEPT !.got = slice.got + n] \in Slices
      BY <3>2
    <3>4. \A size \in Nat : [reading |-> "payload", got |-> slice.got + n, size |-> size]
                            \in Slices
      BY <3>2
    <3>5. HeaderNext \in Slices
      BY DEF HeaderNext
    <3>. QED BY <2>1, <3>1, <3>3, <3>4, <3>5 DEF ReadsUnits
  <2>7. filled' \in Seq(Seq(Nat))
    BY <2>1, <2>4, AppendProperties DEF ReadsUnits
  <2>. QED BY <1>16, <2>3, <2>5, <2>6, <2>7 DEF HandleData, Moves, flags, past
<1>17. CASE ReceiveEnds
  <2>1. /\ connected' \in BOOLEAN /\ broken' \in BOOLEAN /\ service' \in {"read", "accept", "over"}
        /\ UNCHANGED <<caller, starts, flags, deadlineObject, socket, nextUnit, readout, gaveUp, stale>>
    BY <1>17 DEF ReceiveEnds, Moves
  <2>. QED BY <2>1 DEF flags, readout
<1>18. CASE UNCHANGED rceVars
  BY <1>18 DEF rceVars
<1>. QED BY <1>1, <1>2, <1>3, <1>4, <1>5, <1>6, <1>7, <1>8, <1>9, <1>10, <1>11, <1>12, <1>13,
            <1>14, <1>15, <1>16, <1>17, <1>18 DEF RceNext

LEMMA FlagsStay == ASSUME RawInv, [RceNext]_rceVars PROVE FlagsAgree'
<1>. USE DEF RawInv, RawTypeOK, FlagsAgree, UsesBuffer
<1>1. CASE CommitBuffers
  BY <1>1 DEF CommitBuffers, flags, link, readout, past
<1>2. CASE ClearForStart
  BY <1>2 DEF ClearForStart, flags, link, readout, past
<1>3. CASE ClearSuspend
  BY <1>3 DEF ClearSuspend, flags, link, readout, past
<1>4. CASE ClearSuspended
  BY <1>4 DEF ClearSuspended, flags, link, readout, past
<1>5. CASE StopSuspends
  BY <1>5 DEF StopSuspends, flags, link, readout, past
<1>6. CASE RceStopReturns
  BY <1>6 DEF RceStopReturns, flags, link, readout, past
<1>7. CASE RetrieveFilled
  BY <1>7 DEF RetrieveFilled, flags, link, readout, past
<1>8. CASE RceSends
  BY <1>8 DEF RceSends, flags, link, readout, past
<1>9. CASE DoAccept
  BY <1>9 DEF DoAccept, Moves, flags, link, readout, past
<1>10. CASE SuspendAccept
  BY <1>10 DEF SuspendAccept, Moves, Suspended, flags, link, readout, past
<1>11. CASE AcceptEnds
  BY <1>11 DEF AcceptEnds, Moves, flags, link, readout, past
<1>12. CASE DoRead
  BY <1>12 DEF DoRead, ReadOn, Moves, flags, link, readout, past
<1>13. CASE SuspendRead
  BY <1>13 DEF SuspendRead, Moves, Suspended, flags, link, readout, past
<1>14. CASE Restart
  BY <1>14 DEF Restart, ReadOn, Moves, flags, link, readout, past
<1>15. CASE GetBuffer
  BY <1>15 DEF GetBuffer, flags, link, readout, past
<1>16. CASE HandleData
  BY <1>16 DEF HandleData, Moves, flags, link, readout, past
<1>17. CASE ReceiveEnds
  BY <1>17 DEF ReceiveEnds, Moves, flags, link, readout, past
<1>18. CASE UNCHANGED rceVars
  BY <1>18 DEF rceVars
<1>. QED BY <1>1, <1>2, <1>3, <1>4, <1>5, <1>6, <1>7, <1>8, <1>9, <1>10, <1>11, <1>12, <1>13,
            <1>14, <1>15, <1>16, <1>17, <1>18 DEF RceNext

LEMMA LinkedStays == ASSUME RawInv, [RceNext]_rceVars PROVE Linked'
<1>. USE DEF RawInv, RawTypeOK, Linked
<1>1. CASE CommitBuffers
  BY <1>1 DEF CommitBuffers, flags, link, readout, past
<1>2. CASE ClearForStart
  BY <1>2 DEF ClearForStart, flags, link, readout, past
<1>3. CASE ClearSuspend
  BY <1>3 DEF ClearSuspend, flags, link, readout, past
<1>4. CASE ClearSuspended
  BY <1>4 DEF ClearSuspended, flags, link, readout, past
<1>5. CASE StopSuspends
  BY <1>5 DEF StopSuspends, flags, link, readout, past
<1>6. CASE RceStopReturns
  BY <1>6 DEF RceStopReturns, flags, link, readout, past
<1>7. CASE RetrieveFilled
  BY <1>7 DEF RetrieveFilled, flags, link, readout, past
<1>8. CASE RceSends
  BY <1>8 DEF RceSends, flags, link, readout, past
<1>9. CASE DoAccept
  BY <1>9 DEF DoAccept, Moves, flags, link, readout, past
<1>10. CASE SuspendAccept
  BY <1>10 DEF SuspendAccept, Moves, Suspended, flags, link, readout, past
<1>11. CASE AcceptEnds
  BY <1>11 DEF AcceptEnds, Moves, flags, link, readout, past
<1>12. CASE DoRead
  BY <1>12 DEF DoRead, ReadOn, Moves, flags, link, readout, past
<1>13. CASE SuspendRead
  BY <1>13 DEF SuspendRead, Moves, Suspended, flags, link, readout, past
<1>14. CASE Restart
  BY <1>14 DEF Restart, ReadOn, Moves, flags, link, readout, past
<1>15. CASE GetBuffer
  BY <1>15 DEF GetBuffer, flags, link, readout, past
<1>16. CASE HandleData
  BY <1>16 DEF HandleData, Moves
<1>17. CASE ReceiveEnds
  BY <1>17 DEF ReceiveEnds, Moves, flags, link, readout, past
<1>18. CASE UNCHANGED rceVars
  BY <1>18 DEF rceVars
<1>. QED BY <1>1, <1>2, <1>3, <1>4, <1>5, <1>6, <1>7, <1>8, <1>9, <1>10, <1>11, <1>12, <1>13,
            <1>14, <1>15, <1>16, <1>17, <1>18 DEF RceNext

LEMMA BrokenStays == ASSUME RawTypeOK, [RceNext]_rceVars, broken PROVE broken'
BY DEF RawTypeOK, rceVars, RceNext, CommitBuffers, ClearForStart, ClearSuspend, ClearSuspended,
   StopSuspends, RceStopReturns, RetrieveFilled, RceSends, DoAccept, SuspendAccept, AcceptEnds,
   DoRead, SuspendRead, Restart, GetBuffer, HandleData, ReceiveEnds, Suspended, past

LEMMA SameUnits ==
  ASSUME Held, UNCHANGED <<socket, nextUnit, current, slice>>
  PROVE  Held'
BY DEF Held, FirstHeld, NextRead

\* the socket is drained, or not, and nothing is held any more
LEMMA ClearsHeld ==
  ASSUME RawTypeOK, Linked, Held, Placed, ClearForStart, ~broken'
  PROVE  Held' /\ Placed'
<1>. USE RceConstants
<1>1. /\ current' = NoRaw /\ slice' = HeaderNext /\ socket' \in {<<>>, socket}
      /\ UNCHANGED <<nextUnit, connected, service>> /\ ~UsesBuffer
      /\ connected => AtBoundary(IF socket' = <<>> THEN nextUnit ELSE socket'[1])
  BY DEF ClearForStart, RawTypeOK
<1>2. socket' \in Seq(Nat) /\ Len(socket') \in Nat /\ nextUnit \in Nat /\ Len(socket) \in Nat
  BY <1>1, EmptySeq, LenProperties DEF RawTypeOK
<1>3. \A k \in 1..Len(socket') : socket'[k] = NextRead' + k - 1
  <2>1. CASE socket' = <<>>
    <3>1. Len(socket') = 0
      BY <2>1
    <3>. QED BY <3>1
  <2>2. CASE socket' = socket
    BY <1>1, <2>2 DEF Held, NextRead
  <2>. QED BY <1>1, <2>1, <2>2
<1>4. \E q \in Nat : NextRead' = q * SliceUnits
  <2>1. CASE connected /\ socket' = <<>>
    <3>1. NextRead' = nextUnit
      <4>1. Len(socket') = 0
        BY <2>1
      <4>. QED BY <1>1, <1>2, <4>1 DEF NextRead
    <3>. QED BY <1>1, <1>2, <2>1, <3>1, OnBoundary
  <2>2. CASE connected /\ socket' # <<>>
    <3>1. Len(socket') \in Nat \ {0}
      BY <1>2, <2>2, EmptySeq
    <3>2. socket'[1] = NextRead' /\ socket'[1] \in Nat
      <4>1. 1 \in 1..Len(socket')
        BY <3>1
      <4>2. NextRead' \in Int
        BY <1>1, <1>2 DEF NextRead
      <4>. QED BY <1>2, <1>3, <4>1, <4>2, ElementOfSeq
    <3>. QED BY <1>1, <2>2, <3>2, OnBoundary
  <2>3. CASE ~connected
    <3>1. socket = <<>> /\ slice.got = 0
      BY <2>3 DEF Linked, Placed
    <3>2. Len(socket) = 0 /\ Len(socket') = 0
      BY <1>1, <3>1
    <3>3. PICK q \in Nat : FirstHeld = q * SliceUnits
      BY DEF Held
    <3>4. /\ current.slices \in Nat /\ Len(current.units) = current.slices * SliceUnits
          /\ current.slices * SliceUnits \in Nat
      <4>1. current.slices \in Nat
        BY DEF RawTypeOK, Raws
      <4>. QED BY <3>1, <4>1 DEF Held
    <3>5. NextRead' = nextUnit /\ NextRead = nextUnit
      BY <1>1, <1>2, <3>2 DEF NextRead
    <3>6. nextUnit = q * SliceUnits + current.slices * SliceUnits
      BY <1>2, <3>3, <3>4, <3>5 DEF FirstHeld
    <3>7. nextUnit = (q + current.slices) * SliceUnits /\ q + current.slices \in Nat
      BY <3>4, <3>6
    <3>. QED BY <3>5, <3>7
  <2>. QED BY <2>1, <2>2, <2>3 DEF RawTypeOK
<1>5. /\ current'.units = <<>> /\ current'.slices = 0 /\ current'.empty
      /\ slice'.got = 0 /\ slice'.reading = "header"
  BY <1>1 DEF NoRaw, HeaderNext
<1>6. Len(current'.units) = 0
  BY <1>5
<1>7. FirstHeld' = NextRead'
  BY <1>1, <1>2, <1>6 DEF FirstHeld, NextRead
<1>8. Len(current'.units) = current'.slices * SliceUnits + slice'.got
  BY <1>5, <1>6
<1>9. Held'
  <2>1. \E q \in Nat : FirstHeld' = q * SliceUnits
    BY <1>4, <1>7
  <2>2. \A k \in 1..Len(current'.units) : current'.units[k] = FirstHeld' + k - 1
    BY <1>6
  <2>. QED BY <1>1, <1>3, <1>5, <1>8, <2>1, <2>2 DEF Held
<1>10. Placed'
  BY <1>1, <1>5 DEF Placed, UsesBuffer
<1>. QED BY <1>9, <1>10

LEMMA SendsHeld ==
  ASSUME RawTypeOK, Held, RceSends
  PROVE  Held'
<1>1. socket' = Append(socket, nextUnit) /\ nextUnit' = nextUnit + 1 /\ UNCHANGED <<current, slice>>
  BY DEF RceSends, readout
<1>2. /\ Len(socket) \in Nat /\ Len(socket') = Len(socket) + 1 /\ nextUnit \in Nat
      /\ \A k \in 1..Len(socket) : socket'[k] = socket[k]
      /\ socket'[Len(socket) + 1] = nextUnit
  BY <1>1, AppendProperties, LenProperties DEF RawTypeOK
<1>3. NextRead' = NextRead /\ NextRead \in Int /\ nextUnit = NextRead + Len(socket)
  BY <1>1, <1>2 DEF NextRead
<1>4. FirstHeld' = FirstHeld
  BY <1>1, <1>3 DEF FirstHeld
<1>5. ASSUME NEW k \in 1..Len(socket') PROVE socket'[k] = NextRead' + k - 1
  <2>1. CASE k = Len(socket) + 1
    BY <1>2, <1>3, <2>1
  <2>2. CASE k # Len(socket) + 1
    <3>1. k \in 1..Len(socket)
      BY <1>2, <1>5, <2>2
    <3>. QED BY <1>2, <1>3, <3>1 DEF Held
  <2>. QED BY <2>1, <2>2
<1>. QED BY <1>1, <1>4, <1>5 DEF Held

LEMMA AcceptsHeld ==
  ASSUME RawTypeOK, Linked, Held, Placed, AcceptEnds
  PROVE  Held' /\ Placed'
<1>. USE RceConstants
<1>1. service = "accepting" /\ ~connected /\ UNCHANGED <<current, slice>>
  BY DEF AcceptEnds, Moves, Linked, readout
<1>2. CASE UNCHANGED link
  BY <1>1, <1>2, SameUnits DEF AcceptEnds, Moves, link, Placed
<1>3. CASE /\ service' = "read" /\ connected' = TRUE /\ socket' = <<>>
           /\ nextUnit' = SliceUnits * ((nextUnit + SliceUnits - 1) \div SliceUnits)
  <2>1. socket = <<>> /\ slice.got = 0
    BY <1>1 DEF Linked, Placed
  <2>2. PICK q \in Nat : FirstHeld = q * SliceUnits
    BY DEF Held
  <2>3. /\ current.slices \in Nat /\ Len(current.units) = current.slices * SliceUnits
        /\ current.slices * SliceUnits \in Nat /\ nextUnit \in Nat
    <3>1. current.slices \in Nat /\ nextUnit \in Nat
      BY DEF RawTypeOK, Raws
    <3>. QED BY <2>1, <3>1 DEF Held
  <2>4. Len(socket) = 0
    BY <2>1
  <2>5. NextRead = nextUnit
    BY <2>3, <2>4 DEF NextRead
  <2>6. nextUnit = q * SliceUnits + current.slices * SliceUnits
    BY <2>2, <2>3, <2>5 DEF FirstHeld
  <2>7. nextUnit = (q + current.slices) * SliceUnits /\ q + current.slices \in Nat
    BY <2>3, <2>6
  <2>8. nextUnit' = nextUnit
    BY <1>3, <2>7, RoundsUp
  <2>. QED BY <1>1, <1>3, <2>1, <2>8, SameUnits DEF Placed
<1>. QED BY <1>2, <1>3 DEF AcceptEnds, Moves

LEMMA BeginsHeld ==
  ASSUME RawTypeOK, Held, Placed, GetBuffer
  PROVE  Held' /\ Placed'
<1>1. service = "buffer" /\ UNCHANGED <<connected, socket, nextUnit>>
  BY DEF GetBuffer, link
<1>2. current.empty /\ current.units = <<>> /\ current.slices = 0 /\ slice = HeaderNext
  BY <1>1 DEF Held, Placed
<1>3. CASE UNCHANGED <<current, slice>> /\ service' \in {"buffer", "retryNoted"}
  BY <1>1, <1>2, <1>3, SameUnits DEF Placed, HeaderNext
<1>4. CASE current' = NewRaw /\ slice' = [slice EXCEPT !.got = 0] /\ service' = "receiving"
  <2>1. slice' = slice /\ slice.got = 0 /\ slice.reading = "header"
    BY <1>2, <1>4 DEF HeaderNext
  <2>2. current'.units = current.units /\ current'.slices = current.slices /\ ~current'.empty
    BY <1>2, <1>4 DEF NewRaw
  <2>3. NextRead' = NextRead /\ FirstHeld' = FirstHeld
    BY <1>1, <2>2 DEF NextRead, FirstHeld
  <2>. QED BY <1>1, <1>4, <2>1, <2>2, <2>3 DEF Held, Placed
<1>. QED BY <1>3, <1>4 DEF GetBuffer

\* the units n more make of the buffer begun
LEMMA UnitsAre ==
  ASSUME RawTypeOK, Held, NEW n \in Nat, n <= Len(socket)
  PROVE  /\ Units(n) \in Seq(Nat) /\ Len(Units(n)) = Len(current.units) + n
         /\ \A k \in 1..Len(Units(n)) : Units(n)[k] = FirstHeld + k - 1
<1>1. /\ socket \in Seq(Nat) /\ Len(socket) \in Nat /\ current.units \in Seq(Nat)
      /\ Len(current.units) \in Nat /\ NextRead \in Int
      /\ FirstHeld = NextRead - Len(current.units)
  BY LenProperties DEF RawTypeOK, Raws, NextRead, FirstHeld
<1> DEFINE t == SubSeq(socket, 1, n)
<1>2. \A i \in 1..n : socket[i] \in Nat
  BY <1>1, ElementOfSeq
<1>3. /\ t \in Seq(Nat) /\ Len(t) = IF 1 <= n THEN n - 1 + 1 ELSE 0
      /\ \A i \in 1 .. n - 1 + 1 : t[i] = socket[1 + i - 1]
  BY <1>2, SubSeqProperties
<1>4. Len(t) = n /\ \A i \in 1..n : t[i] = socket[i]
  BY <1>3
<1>. HIDE DEF t
<1>5. /\ current.units \o t \in Seq(Nat) /\ Len(current.units \o t) = Len(current.units) + n
      /\ \A k \in 1 .. Len(current.units) + n : (current.units \o t)[k] =
           IF k <= Len(current.units) THEN current.units[k] ELSE t[k - Len(current.units)]
  <2>1. current.units \in Seq(Nat) /\ t \in Seq(Nat)
    BY <1>1, <1>3
  <2>2. /\ current.units \o t \in Seq(Nat) /\ Len(current.units \o t) = Len(current.units) + Len(t)
        /\ \A k \in 1 .. Len(current.units) + Len(t) : (current.units \o t)[k] =
             IF k <= Len(current.units) THEN current.units[k] ELSE t[k - Len(current.units)]
    BY <2>1, ConcatProperties
  <2>3. Len(t) = n
    BY <1>4
  <2>. QED BY <2>2, <2>3
<1>6. Units(n) = current.units \o t
  BY DEF Units, t
<1>7. ASSUME NEW k \in 1..Len(Units(n)) PROVE Units(n)[k] = FirstHeld + k - 1
  <2>1. k \in 1 .. Len(current.units) + n
    BY <1>5, <1>6, <1>7
  <2>2. CASE k <= Len(current.units)
    <3>1. k \in 1..Len(current.units)
      BY <1>1, <2>1, <2>2
    <3>. QED BY <1>5, <1>6, <2>1, <2>2, <3>1 DEF Held
  <2>3. CASE ~(k <= Len(current.units))
    <3>1. k - Len(current.units) \in 1..n /\ k - Len(current.units) \in 1..Len(socket)
      BY <1>1, <2>1, <2>3
    <3>2. Units(n)[k] = socket[k - Len(current.units)]
      BY <1>4, <1>5, <1>6, <2>1, <2>3, <3>1
    <3>3. socket[k - Len(current.units)] = NextRead + (k - Len(current.units)) - 1
      BY <3>1 DEF Held
    <3>. QED BY <1>1, <2>1, <3>2, <3>3
  <2>. QED BY <2>2, <2>3
<1>. QED BY <1>5, <1>6, <1>7

\* units that follow one another, from the one given on
RunOn(u, first) == \A k \in 1..Len(u) : u[k] = first + k - 1

\* a header that is where a microslice begins tells the size of one
LEMMA HeaderTells ==
  ASSUME NEW u \in Seq(Nat), NEW first \in Nat, NEW q \in Nat, first = q * SliceUnits,
         NEW s \in Nat, NEW g \in Nat \ {0}, Len(u) = s * SliceUnits + g,
         RunOn(u, first)
  PROVE  SizeIn(SubSeq(u, Len(u) - g + 1, Len(u))) = {SliceUnits}
<1>. USE RceConstants
<1> DEFINE b == Len(u) - g
           h == SubSeq(u, b + 1, Len(u))
<1>1. b = s * SliceUnits /\ b \in Nat /\ Len(u) = b + g /\ Len(u) \in Nat
  BY LenProperties
<1>2. \A i \in b + 1 .. Len(u) : u[i] \in Nat
  BY <1>1, ElementOfSeq
<1>3. b + 1 \in Int /\ Len(u) \in Int
  BY <1>1
<1>4. /\ Len(h) = IF b + 1 <= Len(u) THEN Len(u) - (b + 1) + 1 ELSE 0
      /\ \A i \in 1 .. Len(u) - (b + 1) + 1 : h[i] = u[b + 1 + i - 1]
  <2>. HIDE DEF b
  <2>. QED BY ONLY <1>2, <1>3, SubSeqProperties
<1>. HIDE DEF h, b
<1>5. Len(h) = g /\ h[1] = u[b + 1] /\ h[g] = u[b + g]
  <2>1. PICK l \in Nat : l = Len(u)
    BY <1>1
  <2>2. l = b + g /\ b \in Nat /\ g \in Nat \ {0}
    BY <1>1, <2>1
  <2>3. Len(h) = g
    BY ONLY <1>4, <2>1, <2>2
  <2>4. /\ 1 \in 1 .. l - (b + 1) + 1 /\ g \in 1 .. l - (b + 1) + 1
        /\ b + 1 + 1 - 1 = b + 1 /\ b + 1 + g - 1 = b + g
    BY ONLY <2>2
  <2>. QED BY ONLY <1>4, <2>1, <2>3, <2>4
<1>6. h[1] = first + b /\ h[g] = first + b + g - 1
  BY <1>1, <1>5 DEF RunOn
<1>7. AtBoundary(h[1])
  <2>1. first + b = (q + s) * SliceUnits /\ q + s \in Nat /\ first + b \in Nat
    BY <1>1
  <2>. QED BY <1>6, <2>1, OnBoundary
<1>8. h[Len(h)] = h[1] + Len(h) - 1
  BY <1>1, <1>5, <1>6
<1>9. SizeIn(h) = {SliceUnits}
  BY <1>7, <1>8 DEF SizeIn
<1>. QED BY <1>9 DEF h, b

\* n units are read: they go on where those held end
LEMMA ReadsHeld ==
  ASSUME RawTypeOK, Linked, Held, Placed, HandleData, FilledWhole
  PROVE  Held' /\ Placed' /\ FilledWhole'
<1>. USE RceConstants
<1>1. PICK n \in 1..Wanted : n <= Len(socket) /\ ReadsUnits(n)
  BY Handled
<1>2. /\ n \in Nat \ {0} /\ service = "receiving" /\ service' = "read" /\ socket # <<>>
      /\ UNCHANGED <<connected, nextUnit>> /\ ~current.empty
  <2>1. n \in Nat \ {0}
    OBVIOUS
  <2>2. /\ service = "receiving" /\ service' = "read" /\ socket # <<>>
        /\ UNCHANGED <<connected, nextUnit>>
    BY DEF HandleData, Moves
  <2>. QED BY <2>1, <2>2 DEF Placed
<1>3. /\ current \in Raws /\ slice \in Slices /\ socket \in Seq(Nat) /\ Len(socket) \in Nat
      /\ nextUnit \in Nat /\ current.slices \in Nat /\ slice.got \in Nat
      /\ current.units \in Seq(Nat) /\ Len(current.units) \in Nat
      /\ slice.reading \in {"header", "payload"}
  BY LenProperties DEF RawTypeOK, Raws, Slices
<1>4. /\ Units(n) \in Seq(Nat) /\ Len(Units(n)) = Len(current.units) + n
      /\ \A k \in 1..Len(Units(n)) : Units(n)[k] = FirstHeld + k - 1
  BY <1>1, <1>2, UnitsAre
<1>5. PICK q \in Nat : FirstHeld = q * SliceUnits
  BY DEF Held
<1>6. FirstHeld \in Nat /\ NextRead \in Int /\ FirstHeld = NextRead - Len(current.units)
  BY <1>3, <1>5 DEF NextRead, FirstHeld
<1>7. /\ Len(socket') = Len(socket) - n /\ NextRead' = NextRead + n
      /\ \A k \in 1..Len(socket') : socket'[k] = NextRead' + k - 1
  <2>1. \A i \in n + 1 .. Len(socket) : socket[i] \in Nat
    BY <1>2, <1>3, ElementOfSeq
  <2>2. n + 1 \in Int /\ Len(socket) \in Int /\ socket' = SubSeq(socket, n + 1, Len(socket))
    BY <1>1, <1>2, <1>3 DEF ReadsUnits
  <2>3. /\ Len(socket') = IF n + 1 <= Len(socket) THEN Len(socket) - (n + 1) + 1 ELSE 0
        /\ \A i \in 1 .. Len(socket) - (n + 1) + 1 : socket'[i] = socket[n + 1 + i - 1]
    BY <2>1, <2>2, SubSeqProperties
  <2>4. Len(socket') = Len(socket) - n
    BY <1>1, <1>2, <1>3, <2>3
  <2>5. NextRead' = NextRead + n
    BY <1>2, <1>3, <2>4 DEF NextRead
  <2>6. ASSUME NEW k \in 1..Len(socket') PROVE socket'[k] = NextRead' + k - 1
    <3>1. k \in 1 .. Len(socket) - (n + 1) + 1 /\ n + k \in 1..Len(socket)
      BY <1>2, <1>3, <2>4, <2>6
    <3>2. socket'[k] = socket[n + k]
      <4>1. n + 1 + k - 1 = n + k
        BY <1>2, <3>1
      <4>. QED BY <2>3, <3>1, <4>1
    <3>3. socket[n + k] = NextRead + (n + k) - 1
      BY <3>1 DEF Held
    <3>. QED BY <1>2, <1>6, <2>5, <3>1, <3>2, <3>3
  <2>. QED BY <2>4, <2>5, <2>6
<1>8. Wanted = (IF slice.reading = "header" THEN HeaderUnits ELSE SliceUnits) - slice.got
  BY <1>3 DEF Wanted, Held
<1>9. CASE Done(n) /\ current.slices + 1 = NumSlices
  <2>1. /\ current' = NoRaw /\ slice' = HeaderNext /\ filled' = Append(filled, Units(n))
    BY <1>1, <1>9 DEF ReadsUnits, Done
  <2>2. slice.got + n = SliceUnits
    BY <1>2, <1>3, <1>8, <1>9 DEF Done
  <2>3. Len(Units(n)) = NumSlices * SliceUnits
    <3>1. Len(Units(n)) = current.slices * SliceUnits + slice.got + n
      BY <1>4 DEF Held
    <3>2. Len(Units(n)) = current.slices * SliceUnits + SliceUnits
      BY <1>2, <1>3, <2>2, <3>1
    <3>3. (current.slices + 1) * SliceUnits = current.slices * SliceUnits + SliceUnits
      BY <1>3
    <3>. QED BY <1>9, <3>2, <3>3
  <2>4. WholeMillislice(Units(n))
    <3>1. NumSlices * SliceUnits \in Nat \ {0}
      OBVIOUS
    <3>2. Units(n)[1] = FirstHeld
      <4>1. Len(Units(n)) \in Nat \ {0}
        BY <2>3, <3>1
      <4>2. 1 \in 1..Len(Units(n))
        BY <4>1
      <4>3. Units(n)[1] = FirstHeld + 1 - 1
        BY <1>4, <4>2
      <4>. QED BY <1>6, <4>3
    <3>3. AtBoundary(FirstHeld)
      BY <1>5, <1>6, OnBoundary
    <3>4. ASSUME NEW k \in 1 .. Len(Units(n)) - 1 PROVE Units(n)[k + 1] = Units(n)[k] + 1
      <4>1. Len(Units(n)) \in Nat
        BY <2>3, <3>1
      <4>2. k \in 1..Len(Units(n)) /\ k + 1 \in 1..Len(Units(n)) /\ k \in Nat
        BY <3>4, <4>1
      <4>3. Units(n)[k] = FirstHeld + k - 1 /\ Units(n)[k + 1] = FirstHeld + (k + 1) - 1
        BY <1>4, <4>2
      <4>. QED BY <1>6, <4>2, <4>3
    <3>. QED BY <2>3, <3>2, <3>3, <3>4 DEF WholeMillislice
  <2>5. FilledWhole'
    <3>1. /\ Len(filled) \in Nat /\ Len(filled') = Len(filled) + 1
          /\ \A i \in 1..Len(filled) : filled'[i] = filled[i]
          /\ filled'[Len(filled) + 1] = Units(n)
      BY <1>4, <2>1, AppendProperties, LenProperties DEF RawTypeOK
    <3>2. ASSUME NEW i \in 1..Len(filled') PROVE WholeMillislice(filled'[i])
      <4>1. CASE i = Len(filled) + 1
        BY <2>4, <3>1, <4>1
      <4>2. CASE i # Len(filled) + 1
        <5>1. i \in 1..Len(filled)
          BY <3>1, <3>2, <4>2
        <5>. QED BY <3>1, <5>1 DEF FilledWhole
      <4>. QED BY <4>1, <4>2
    <3>. QED BY <3>2 DEF FilledWhole, WholeMillislice
  <2>6. /\ current'.units = <<>> /\ current'.slices = 0 /\ current'.empty
        /\ slice'.got = 0 /\ slice'.reading = "header"
    BY <2>1 DEF NoRaw, HeaderNext
  <2>7. Len(current'.units) = 0
    BY <2>6
  <2>8. FirstHeld' = NextRead'
    <3>1. Len(socket') \in Int /\ nextUnit' \in Nat
      BY <1>2, <1>3, <1>7
    <3>. QED BY <2>7, <3>1 DEF FirstHeld, NextRead
  <2>9. \E p \in Nat : FirstHeld' = p * SliceUnits
    <3>1. FirstHeld' = FirstHeld + Len(Units(n))
      <4>1. NextRead + n = FirstHeld + (Len(current.units) + n)
        <5>1. n \in Int /\ Len(current.units) \in Int /\ NextRead \in Int /\ FirstHeld \in Int
          BY <1>2, <1>3, <1>6
        <5>2. FirstHeld = NextRead - Len(current.units)
          BY <1>6
        <5>3. PICK h \in Int, r \in Int, l \in Int :
                   h = FirstHeld /\ r = NextRead /\ l = Len(current.units)
          BY <5>1
        <5>4. h = r - l
          BY <5>2, <5>3
        <5>5. r + n = h + (l + n)
          BY <5>1, <5>4
        <5>. QED BY <5>3, <5>5
      <4>2. Len(Units(n)) = Len(current.units) + n /\ NextRead' = NextRead + n
        BY <1>4, <1>7
      <4>. QED BY <2>8, <4>1, <4>2
    <3>2. q * SliceUnits + NumSlices * SliceUnits = (q + NumSlices) * SliceUnits
      OBVIOUS
    <3>3. FirstHeld' = (q + NumSlices) * SliceUnits /\ q + NumSlices \in Nat
      BY <1>5, <2>3, <3>1, <3>2
    <3>. QED BY <3>3
  <2>10. Len(current'.units) = current'.slices * SliceUnits + slice'.got
    BY <2>6, <2>7
  <2>11. Held'
    <3>1. \A k \in 1..Len(current'.units) : current'.units[k] = FirstHeld' + k - 1
      BY <2>7
    <3>2. \A k \in 1..Len(socket') : socket'[k] = NextRead' + k - 1
      BY <1>7
    <3>3. 0 < NumSlices /\ 0 < HeaderUnits
      OBVIOUS
    <3>. QED BY <2>1, <2>6, <2>9, <2>10, <3>1, <3>2, <3>3 DEF Held
  <2>12. Placed'
    BY <1>2, <2>6 DEF Placed
  <2>. QED BY <2>5, <2>11, <2>12
<1>10. CASE ~(Done(n) /\ current.slices + 1 = NumSlices)
  <2>1. PICK x \in {0, 1} : current' = Grown(current, Units(n), x) /\ (x = 1 <=> Done(n))
    <3>1. current' = [current EXCEPT !.units = Units(n), !.slices = @ + IF Done(n) THEN 1 ELSE 0]
      BY <1>1, <1>10 DEF ReadsUnits
    <3>2. CASE Done(n)
      BY <3>1, <3>2 DEF Grown
    <3>3. CASE ~Done(n)
      BY <3>1, <3>3 DEF Grown
    <3>. QED BY <3>2, <3>3
  <2>2. /\ current'.units = Units(n) /\ current'.slices = current.slices + x /\ ~current'.empty
    <3>1. current \in Raws /\ Units(n) \in Seq(Nat)
      BY <1>2, <1>3, <1>4 DEF RawTypeOK
    <3> DEFINE g == Grown(current, Units(n), x)
    <3>2. g.units = Units(n) /\ g.slices = current.slices + x /\ g.empty = current.empty
      BY ONLY <3>1, GrownIs, x \in {0, 1}
    <3>3. current' = g
      BY <2>1
    <3>. HIDE DEF g
    <3>. QED BY ONLY <3>2, <3>3, <1>2
  <2>3. filled' = filled
    BY <1>1, <1>10 DEF ReadsUnits
  <2>4. FirstHeld' = FirstHeld
    <3>1. Len(current'.units) = Len(current.units) + n
      BY <1>4, <2>2
    <3>2. Len(socket') = Len(socket) - n
      BY <1>7
    <3>. QED BY <1>2, <1>3, <3>1, <3>2 DEF FirstHeld, NextRead
  <2>5. current'.slices < NumSlices
    BY <1>3, <1>10, <2>1, <2>2, SMTT(15) DEF Held
  <2>6. /\ slice'.reading = "header" => slice'.got < HeaderUnits
        /\ slice'.reading = "payload" => slice'.size = SliceUnits /\ slice'.got \in HeaderUnits .. SliceUnits - 1
        /\ Len(current'.units) = current'.slices * SliceUnits + slice'.got
    <3>1. Len(current'.units) = current.slices * SliceUnits + slice.got + n
      BY <1>4, <2>2 DEF Held
    <3>2. CASE n < Wanted /\ slice' = [slice EXCEPT !.got = slice.got + n]
      <4>1. slice'.got = slice.got + n /\ slice'.reading = slice.reading /\ slice'.size = slice.size
        BY <1>3, <3>2 DEF Slices
      <4>2. x = 0
        BY <1>2, <1>3, <1>8, <2>1, <3>2 DEF Done
      <4>3. current.slices * SliceUnits \in Nat
        BY <1>3
      <4>4. current'.slices = current.slices
        BY <1>3, <2>2, <4>2
      <4>5. Len(current'.units) = current'.slices * SliceUnits + slice'.got
        BY <1>2, <1>3, <3>1, <4>1, <4>3, <4>4
      <4>6. ASSUME slice'.reading = "header" PROVE slice'.got < HeaderUnits
        <5>1. n < HeaderUnits - slice.got
          BY <1>8, <3>2, <4>1, <4>6
        <5>. QED BY <1>2, <1>3, <4>1, <5>1
      <4>7. ASSUME slice'.reading = "payload"
            PROVE  slice'.size = SliceUnits /\ slice'.got \in HeaderUnits .. SliceUnits - 1
        <5>1. n < SliceUnits - slice.got
          BY <1>8, <3>2, <4>1, <4>7
        <5>2. slice.size = SliceUnits /\ slice.got \in HeaderUnits .. SliceUnits - 1
          BY <4>1, <4>7 DEF Held
        <5>. QED BY <1>2, <1>3, <4>1, <5>1, <5>2
      <4>. QED BY <4>5, <4>6, <4>7
    <3>3. CASE /\ n = Wanted /\ slice.reading = "header"
               /\ \E size \in SizeIn(SubSeq(Units(n), Len(Units(n)) - (slice.got + n) + 1, Len(Units(n)))) :
                    slice' = [reading |-> "payload", got |-> slice.got + n, size |-> size]
      <4>1. x = 0
        BY <2>1, <3>3 DEF Done
      <4>2. slice.got + n = HeaderUnits
        BY <1>2, <1>3, <1>8, <3>3
      <4>3. Len(Units(n)) = current.slices * SliceUnits + (slice.got + n) /\ slice.got + n \in Nat \ {0}
        <5>1. current.slices * SliceUnits \in Nat
          BY <1>3
        <5>2. Len(Units(n)) = current.slices * SliceUnits + slice.got + n
          BY <2>2, <3>1
        <5>3. slice.got + n \in Nat \ {0}
          BY <1>2, <1>3
        <5>. QED BY <1>2, <1>3, <5>1, <5>2, <5>3
      <4>4. SizeIn(SubSeq(Units(n), Len(Units(n)) - (slice.got + n) + 1, Len(Units(n)))) = {SliceUnits}
        <5>1. PICK g \in Nat \ {0}, s \in Nat, f \in Nat, u \in Seq(Nat) :
                   g = slice.got + n /\ s = current.slices /\ f = FirstHeld /\ u = Units(n)
          BY <1>3, <1>4, <1>6, <4>3
        <5>2. Len(u) = s * SliceUnits + g
          BY <4>3, <5>1
        <5>3. \A k \in 1..Len(u) : u[k] = f + k - 1
          BY <1>4, <5>1
        <5>4. f = q * SliceUnits
          BY <1>5, <5>1
        <5>5. SizeIn(SubSeq(u, Len(u) - g + 1, Len(u))) = {SliceUnits}
          <6>1. q \in Nat
            OBVIOUS
          <6>2. g \in Nat \ {0} /\ s \in Nat /\ f \in Nat /\ u \in Seq(Nat)
            OBVIOUS
          <6>3. Len(u) = s * SliceUnits + g
            BY ONLY <5>2
          <6>4. RunOn(u, f)
            BY ONLY <5>3 DEF RunOn
          <6>. QED BY ONLY <6>1, <6>2, <6>3, <6>4, <5>4, HeaderTells, Zenon
        <5>. QED BY <5>1, <5>5
      <4>5. slice' = [reading |-> "payload", got |-> HeaderUnits, size |-> SliceUnits]
        BY <3>3, <4>2, <4>4
      <4>. QED BY <1>3, <2>2, <4>1, <4>2, <4>3, <4>5
    <3>4. CASE Done(n) /\ slice' = HeaderNext
      <4>1. x = 1 /\ slice.got + n = SliceUnits /\ slice'.got = 0 /\ slice'.reading = "header"
        BY <1>2, <1>3, <1>8, <2>1, <3>4 DEF Done, HeaderNext
      <4>2. Len(current'.units) = current.slices * SliceUnits + SliceUnits
        BY <1>2, <1>3, <3>1, <4>1
      <4>3. (current.slices + 1) * SliceUnits = current.slices * SliceUnits + SliceUnits
        BY <1>3
      <4>4. (current.slices + 1) * SliceUnits \in Nat
        BY <1>3
      <4>. QED BY <2>2, <4>1, <4>2, <4>3, <4>4
    <3>. QED BY <1>1, <3>2, <3>3, <3>4 DEF ReadsUnits
  <2>7. connected
    BY <1>2 DEF Linked, RawTypeOK
  <2>8. Held'
    <3>1. \E p \in Nat : FirstHeld' = p * SliceUnits
      BY <1>5, <2>4
    <3>2. \A k \in 1..Len(current'.units) : current'.units[k] = FirstHeld' + k - 1
      BY <1>4, <2>2, <2>4
    <3>. QED BY <1>7, <2>2, <2>5, <2>6, <3>1, <3>2 DEF Held
  <2>9. Placed'
    BY <1>2, <2>2, <2>7 DEF Placed
  <2>. QED BY <2>3, <2>8, <2>9 DEF FilledWhole, WholeMillislice
<1>. QED BY <1>9, <1>10

\* what the other steps leave as it was
LEMMA HeldStays == ASSUME RawInv, [RceNext]_rceVars, ~broken' PROVE Held' /\ Placed' /\ FilledWhole'
<1>1. /\ RawTypeOK /\ Linked /\ RawTypeOK' /\ ~broken
  BY RawTyped, BrokenStays DEF RawInv
<1>2. Held /\ Placed /\ FilledWhole
  BY <1>1 DEF RawInv
<1>3. CASE CommitBuffers
  <2>1. /\ UNCHANGED <<connected, socket, nextUnit, current, slice, service>> /\ filled' = <<>>
    BY <1>3 DEF CommitBuffers, link
  <2>2. FilledWhole'
    <3>1. Len(filled') = 0
      BY <2>1
    <3>. QED BY <3>1 DEF FilledWhole
  <2>. QED BY <1>2, <2>1, <2>2, SameUnits DEF Placed
<1>4. CASE ClearForStart
  <2>1. filled' = filled
    BY <1>4 DEF ClearForStart
  <2>. QED BY <1>1, <1>2, <1>4, <2>1, ClearsHeld DEF FilledWhole, WholeMillislice
<1>5. CASE ClearSuspend \/ ClearSuspended \/ StopSuspends \/ RceStopReturns \/ UNCHANGED rceVars
  <2>1. UNCHANGED <<connected, socket, nextUnit, current, slice, service, filled>>
    BY <1>5 DEF ClearSuspend, ClearSuspended, StopSuspends, RceStopReturns, rceVars, link, readout
  <2>. QED BY <1>2, <2>1, SameUnits DEF Placed, FilledWhole, WholeMillislice
<1>6. CASE RetrieveFilled
  <2>1. /\ UNCHANGED <<connected, socket, nextUnit, current, slice, service>>
        /\ filled # <<>> /\ filled' = Tail(filled)
    BY <1>6 DEF RetrieveFilled, link
  <2>2. /\ Len(filled) \in Nat /\ Len(filled') = Len(filled) - 1
        /\ \A i \in 1..Len(filled') : filled'[i] = filled[i + 1]
    BY <1>1, <2>1, HeadTailProperties, LenProperties DEF RawTypeOK
  <2>3. ASSUME NEW i \in 1..Len(filled') PROVE WholeMillislice(filled'[i])
    <3>1. i + 1 \in 1..Len(filled)
      BY <2>2
    <3>. QED BY <1>2, <2>2, <3>1 DEF FilledWhole
  <2>. QED BY <1>2, <2>1, <2>3, SameUnits DEF Placed, FilledWhole, WholeMillislice
<1>7. CASE RceSends
  <2>1. UNCHANGED <<connected, current, slice, service, filled>>
    BY <1>7 DEF RceSends, readout
  <2>. QED BY <1>1, <1>2, <1>7, <2>1, SendsHeld DEF Placed, FilledWhole, WholeMillislice
<1>8. CASE DoAccept \/ SuspendAccept
  <2>1. /\ UNCHANGED <<connected, socket, nextUnit, current, slice, filled>>
        /\ service' \in {"acceptNoted", "accepting"}
    BY <1>8 DEF DoAccept, SuspendAccept, Moves, link, readout
  <2>. QED BY <1>2, <2>1, SameUnits DEF Placed, FilledWhole, WholeMillislice
<1>9. CASE AcceptEnds
  <2>1. filled' = filled
    BY <1>9 DEF AcceptEnds, readout
  <2>. QED BY <1>1, <1>2, <1>9, <2>1, AcceptsHeld DEF FilledWhole, WholeMillislice
<1>10. CASE DoRead \/ SuspendRead \/ Restart
  <2>1. UNCHANGED <<connected, socket, nextUnit, current, slice, filled>>
    BY <1>10 DEF DoRead, SuspendRead, Restart, link, readout
  <2>2. Placed'
    <3>1. CASE DoRead
      BY <1>2, <2>1, <3>1 DEF DoRead, ReadOn, Moves, Placed
    <3>2. CASE SuspendRead
      BY <1>2, <2>1, <3>2 DEF SuspendRead, Moves, Placed
    <3>3. CASE Restart
      BY <1>2, <2>1, <3>3 DEF Restart, ReadOn, Moves, Placed
    <3>. QED BY <1>10, <3>1, <3>2, <3>3
  <2>. QED BY <1>2, <2>1, <2>2, SameUnits DEF FilledWhole, WholeMillislice
<1>11. CASE GetBuffer
  <2>1. filled' = filled
    BY <1>11 DEF GetBuffer
  <2>. QED BY <1>1, <1>2, <1>11, <2>1, BeginsHeld DEF FilledWhole, WholeMillislice
<1>12. CASE HandleData
  BY <1>1, <1>2, <1>12, ReadsHeld
<1>13. CASE ReceiveEnds
  <2>1. /\ UNCHANGED <<socket, nextUnit, current, slice, filled>>
        /\ service' \in {"read", "accept", "over"}
        /\ connected' = connected \/ slice.got = 0
    BY <1>1, <1>13 DEF ReceiveEnds, Moves, readout, RawTypeOK, Raws, Slices
  <2>. QED BY <1>2, <2>1, SameUnits DEF Placed, FilledWhole, WholeMillislice
<1>. QED BY <1>3, <1>4, <1>5, <1>6, <1>7, <1>8, <1>9, <1>10, <1>11, <1>12, <1>13 DEF RceNext

(* After a stop that was answered in time the io thread lets the buffers be  *)
(* until the next start, and every millislice handed out is NumSlices        *)
(* microslices one after the other as the RCE sent them, unless a buffer or  *)
(* a microslice was cut (RceDataReceiver.cpp: start(), stop(), do_read(),    *)
(* handle_received_data()): for any sizes, and any number of starts.         *)
THEOREM RceSuspendedAndWhole == RceSpec => []SuspendedAndWhole
<1>1. RceInit => RawInv
  BY RceInitially
<1>2. RawInv /\ [RceNext]_rceVars => RawInv'
  BY RawTyped, FlagsStay, LinkedStays, HeldStays DEF RawInv
<1>3. RawInv => SuspendedAndWhole
  BY DEF RawInv, RawTypeOK, FlagsAgree, FilledWhole, WholeMillislice, SuspendedAndWhole
<1>. QED BY <1>1, <1>2, <1>3, PTL DEF RceSpec
-----------------------------------------------------------------------------
(* How the SSP reader brings up its board: SSPDevice.tla. *)

Statuses == {"lost", "ready", "running"}
ScriptCommands == {Script[i] : i \in DOMAIN Script}
Places == DOMAIN Script \cup {"open", "listed", "data", "decide", "synced", "waited",
                            "configureDAQ", "configure", "done", "failed"}
Values == {"lost", "ready", "running", "other", "wanted", "reset", "timing", "internal", "-"}
Attempts == Places \X Nat \X Nat \X Nat
Asks == [id : Attempts, cmd : ScriptCommands]
AnswerUnits == [id : Attempts, val : Values]

DevTypeOK ==
  /\ comm \in {"usb", "ethernet", "emulated"}
  /\ ipc \in Places /\ phase \in {"idle", "send", "receive", "taken", "purge"}
  /\ tries \in Nat /\ syncs \in Nat /\ settings \in Nat
  /\ asked \in Seq(Asks) /\ onTheWay \in Seq(AnswerUnits)
  /\ here \in Seq(AnswerUnits) /\ rx \in Seq(AnswerUnits)
  /\ board \in [status : Statuses, control : {"other", "wanted", "reset"},
                clock : {"other", "timing", "internal"}]
  /\ known \in [status : Values, control : Values, clock : Values]
  /\ late \in BOOLEAN /\ joined \in BOOLEAN

\* what Initialize() has over when it goes on to the configuration
Initialized == {"configureDAQ", "configure", "set", "setMask", "setArray", "channels", "done"}

\* an endpoint that runs has run since it was reset, and a reset one does not run
EndpointKept ==
  /\ board.status = "running" => joined
  /\ board.control = "reset" => board.status = "lost"

\* nobody answers commands to the emulated device, so that it is never seen to be ready
EmulatedIdle ==
  comm = "emulated" => /\ phase = "idle" /\ known.status = "lost"
                       /\ ipc \notin Initialized \cup {"wait", "waited"}

\* an answer is that of the attempt under way, and tells what the board has
Tells(reg, v) == IF reg = "status" THEN v = "running" => joined ELSE v = board[reg]
Right(u) == u.id = Attempt /\ (Current.op = "read" => Tells(Current.reg, u.val))
Carried == Current.op = "write" /\ Current.reg # "none" => board[Current.reg] = Current.val

Unasked == asked = <<>> /\ onTheWay = <<>> /\ here = <<>>
Answering ==
  /\ asked = <<>> /\ Carried /\ Len(here) + Len(onTheWay) = Expected
  /\ \A k \in 1..Len(here) : Right(here[k])
  /\ \A k \in 1..Len(onTheWay) : Right(onTheWay[k])

ChannelOwn ==
  /\ phase # "idle" => ipc \in DOMAIN Script
  /\ phase \in {"idle", "send"} /\ ipc # "failed" => Unasked
  /\ ipc # "failed" => \A k \in 1..Len(asked) : asked[k].cmd = Current
  /\ phase = "receive" => \/ asked = <<[id |-> Attempt, cmd |-> Current]>>
                             /\ onTheWay = <<>> /\ here = <<>>
                          \/ Answering
  /\ phase = "taken" => /\ Unasked /\ Carried /\ Len(rx) = Expected
                        /\ \A k \in 1..Len(rx) : Right(rx[k])

\* what has been read and written by each step
KnownTrue ==
  /\ ipc \notin {"sync2", "sync3", "failed"} => board.control # "reset"
  /\ ipc \in {"read2", "read3", "decide", "synced", "waited"} =>
       (known.status = "running" => joined)
  /\ ipc \in {"read3", "decide"} => known.control = board.control
  /\ ipc = "decide" => known.clock = board.clock
  /\ ipc \in {"sync4", "sync5", "synced", "wait", "waited"} \cup Initialized =>
       board.control = "wanted"
  /\ ipc \in {"sync5", "synced", "wait", "waited"} \cup Initialized => board.clock = "timing"
  /\ ipc \in Initialized => joined

DevInv ==
  /\ DevTypeOK /\ EndpointKept /\ EmulatedIdle
  /\ ~late => ChannelOwn /\ (comm = "emulated" \/ KnownTrue)

\* the steps that are a command, and what is told apart of them
LEMMA ScriptSteps ==
  DOMAIN Script = {"stop1", "stop2", "stop3", "stop4", "stop5", "read1", "read2", "read3", "sync1",
                   "sync2", "sync3", "sync4", "sync5", "wait", "set", "setMask", "setArray",
                   "channels"}
BY DEF Script

LEMMA ScriptWrites ==
  ASSUME NEW i \in DOMAIN Script, Script[i].op = "write", Script[i].reg # "none"
  PROVE  \/ i = "sync1" /\ Script[i].reg = "clock" /\ Script[i].val = "internal"
         \/ i = "sync2" /\ Script[i].reg = "control" /\ Script[i].val = "reset"
         \/ i = "sync3" /\ Script[i].reg = "control" /\ Script[i].val = "wanted"
         \/ i = "sync4" /\ Script[i].reg = "clock" /\ Script[i].val = "timing"
BY ScriptSteps DEF Script, Command

LEMMA ScriptWritten ==
  /\ Script["sync1"].op = "write" /\ Script["sync1"].reg = "clock"
  /\ Script["sync2"].op = "write" /\ Script["sync2"].reg = "control"
  /\ Script["sync3"].op = "write" /\ Script["sync3"].reg = "control"
  /\ Script["sync4"].op = "write" /\ Script["sync4"].reg = "clock"
  /\ Script["sync3"].val = "wanted" /\ Script["sync4"].val = "timing"
BY DEF Script, Command

LEMMA ScriptReads ==
  ASSUME NEW i \in DOMAIN Script, Script[i].op = "read"
  PROVE  \/ i \in {"read1", "sync5", "wait"} /\ Script[i].reg = "status"
         \/ i = "read2" /\ Script[i].reg = "control"
         \/ i = "read3" /\ Script[i].reg = "clock"
BY ScriptSteps DEF Script, Command

LEMMA ScriptRead ==
  /\ Script["read1"].op = "read" /\ Script["read1"].reg = "status"
  /\ Script["sync5"].op = "read" /\ Script["sync5"].reg = "status"
  /\ Script["wait"].op = "read" /\ Script["wait"].reg = "status"
  /\ Script["read2"].op = "read" /\ Script["read2"].reg = "control"
  /\ Script["read3"].op = "read" /\ Script["read3"].reg = "clock"
BY DEF Script, Command

LEMMA ScriptNext ==
  ASSUME NEW i \in DOMAIN Script
  PROVE  \/ Script[i].next \in {"stop2", "stop3", "stop4", "stop5", "data"}
            /\ i \in {"stop1", "stop2", "stop3", "stop4", "stop5"}
         \/ i = "read1" /\ Script[i].next = "read2"
         \/ i = "read2" /\ Script[i].next = "read3"
         \/ i = "read3" /\ Script[i].next = "decide"
         \/ i = "sync1" /\ Script[i].next = "sync2"
         \/ i = "sync2" /\ Script[i].next = "sync3"
         \/ i = "sync3" /\ Script[i].next = "sync4"
         \/ i = "sync4" /\ Script[i].next = "sync5"
         \/ i = "sync5" /\ Script[i].next = "synced"
         \/ i = "wait" /\ Script[i].next = "waited"
         \/ i \in Initialized /\ Script[i].next \in {"configure", "done"}
BY ScriptSteps DEF Script, Command, Initialized

LEMMA ScriptTypes ==
  ASSUME NEW i \in DOMAIN Script
  PROVE  /\ i \in Places /\ Script[i].next \in Places /\ Script[i].next # "failed"
         /\ Script[i].op \in {"read", "write", "writeMask", "arrayWrite"}
<1>1. Script[i].next \in Places /\ Script[i].next # "failed"
  BY ScriptNext, ScriptSteps DEF Places, Initialized
<1>2. Script[i].op \in {"read", "write", "writeMask", "arrayWrite"}
  BY ScriptSteps DEF Script, Command
<1>3. i \in Places
  BY DEF Places
<1>. QED BY <1>1, <1>2, <1>3

LEMMA UnitsExpected ==
  /\ Expected = EthernetUnits[Current.op]
  /\ EthernetUnits["read"] = 2 /\ EthernetUnits["write"] = 1
  /\ EthernetUnits["writeMask"] = 2 /\ EthernetUnits["arrayWrite"] = 1
BY DEF Expected, USBUnits, EthernetUnits

\* the registers after a write
Boards == [status : Statuses, control : {"other", "wanted", "reset"},
           clock : {"other", "timing", "internal"}]
Written(b, reg, val) == [b EXCEPT ![reg] = val, !.status = IF val = "reset" THEN "lost" ELSE @]

LEMMA WrittenIs ==
  ASSUME NEW b \in Boards, NEW i \in DOMAIN Script,
         Script[i].op = "write", Script[i].reg # "none"
  PROVE  LET w == Written(b, Script[i].reg, Script[i].val) IN
         /\ w \in Boards
         /\ w[Script[i].reg] = Script[i].val
         /\ w.status = IF i = "sync2" THEN "lost" ELSE b.status
         /\ i \in {"sync1", "sync4"} => w.control = b.control
         /\ i \in {"sync2", "sync3"} => w.clock = b.clock
<1>. DEFINE reg == Script[i].reg
            val == Script[i].val
            m == [b EXCEPT ![reg] = val]
<1>1. \/ i = "sync1" /\ reg = "clock" /\ val = "internal"
      \/ i = "sync2" /\ reg = "control" /\ val = "reset"
      \/ i = "sync3" /\ reg = "control" /\ val = "wanted"
      \/ i = "sync4" /\ reg = "clock" /\ val = "timing"
  BY ScriptWrites
<1>. HIDE DEF reg, val
<1>2. /\ m \in Boards /\ m[reg] = val /\ m.status = b.status
      /\ reg = "clock" => m.control = b.control
      /\ reg = "control" => m.clock = b.clock
  BY <1>1 DEF Boards
<1>3. Written(b, reg, val) = [m EXCEPT !.status = IF val = "reset" THEN "lost" ELSE @]
  BY <1>2 DEF Written
<1>. HIDE DEF m
<1>4. /\ Written(b, reg, val) \in Boards /\ Written(b, reg, val)[reg] = val
      /\ Written(b, reg, val).status = (IF i = "sync2" THEN "lost" ELSE b.status)
      /\ i \in {"sync1", "sync4"} => Written(b, reg, val).control = b.control
      /\ i \in {"sync2", "sync3"} => Written(b, reg, val).clock = b.clock
  BY <1>1, <1>2, <1>3 DEF Boards, Statuses
<1>. QED BY <1>4 DEF reg, val

LEMMA DeviceInitially == ASSUME DeviceInit PROVE DevInv
<1>1. DevTypeOK
  <2>1. /\ <<>> \in Seq(Asks) /\ <<>> \in Seq(AnswerUnits)
    BY EmptySeq
  <2>2. known \in [status : Values, control : Values, clock : Values]
    <3>1. "lost" \in Values /\ "other" \in Values
      BY DEF Values
    <3>. QED BY <3>1 DEF DeviceInit
  <2>3. board \in Boards
    BY DEF DeviceInit, Boards, Statuses
  <2>4. ipc \in Places
    BY DEF DeviceInit, Places
  <2>5. joined \in BOOLEAN /\ late \in BOOLEAN
    BY DEF DeviceInit
  <2>6. /\ comm \in {"usb", "ethernet", "emulated"} /\ phase = "idle" /\ tries = 0
        /\ syncs = 0 /\ settings = 0
        /\ asked = <<>> /\ onTheWay = <<>> /\ here = <<>> /\ rx = <<>>
    BY DEF DeviceInit
  <2>. QED BY <2>1, <2>2, <2>3, <2>4, <2>5, <2>6 DEF DevTypeOK, Boards
<1>2. EndpointKept /\ EmulatedIdle
  BY DEF DeviceInit, EndpointKept, EmulatedIdle, Initialized
<1>3. ChannelOwn /\ KnownTrue
  <2>1. asked = <<>> /\ Len(asked) = 0 /\ phase = "idle" /\ ipc = "open" /\ Unasked
    BY DEF DeviceInit, Unasked
  <2>2. ChannelOwn
    BY <2>1 DEF ChannelOwn
  <2>3. board.control # "reset"
    BY DEF DeviceInit
  <2>. QED BY <2>1, <2>2, <2>3 DEF KnownTrue, Initialized
<1>. QED BY <1>1, <1>2, <1>3 DEF DevInv

\* the steps that only go on in Initialize() or in the configuration
GoesOn ==
  \/ RefreshDevices \/ OpenUSB \/ OpenEthernet \/ PurgeData \/ EmulatedReturns \/ Decide
  \/ Synced \/ Waited
  \/ ConfigureDAQ \/ ConfigureDevice \/ BuildChannelControl

LEMMA GoesOnIs ==
  ASSUME DevTypeOK, GoesOn
  PROVE  /\ UNCHANGED <<comm, channel, board, known, late, joined>>
         /\ ipc' \in Places /\ syncs' \in Nat /\ settings' \in Nat
<1>. USE ScriptSteps DEF DevTypeOK, Passes, AtStep, Goes, KeepChannel, Throws, Places, channel
<1>1. CASE RefreshDevices
  BY <1>1 DEF RefreshDevices
<1>2. CASE OpenUSB \/ OpenEthernet \/ PurgeData
  BY <1>2 DEF OpenUSB, OpenEthernet, PurgeData
<1>3. CASE EmulatedReturns
  BY <1>3, ScriptTypes DEF EmulatedReturns, Current
<1>4. CASE Decide \/ Waited
  BY <1>4 DEF Decide, Waited, OnceReady
<1>5. CASE Synced
  BY <1>5 DEF Synced, OnceReady
<1>6. CASE ConfigureDAQ \/ BuildChannelControl
  BY <1>6 DEF ConfigureDAQ, BuildChannelControl
<1>7. CASE ConfigureDevice
  BY <1>7 DEF ConfigureDevice
<1>. QED BY <1>1, <1>2, <1>3, <1>4, <1>5, <1>6, <1>7 DEF GoesOn

LEMMA GoesOnFrom ==
  ASSUME DevTypeOK, EmulatedIdle, ChannelOwn, GoesOn
  PROVE  phase = "idle" /\ ipc # "failed"
<1>1. CASE EmulatedReturns
  BY <1>1, ScriptSteps DEF EmulatedReturns, EmulatedIdle
<1>2. CASE ~EmulatedReturns
  <2>1. ipc \in {"open", "listed", "data", "decide", "synced", "waited", "configureDAQ", "configure"}
    BY <1>2 DEF GoesOn, RefreshDevices, OpenUSB, OpenEthernet, PurgeData, Decide, Synced, Waited,
       ConfigureDAQ, ConfigureDevice, BuildChannelControl, Passes, AtStep, Throws
  <2>. QED BY <2>1, ScriptSteps DEF ChannelOwn
<1>. QED BY <1>1, <1>2

\* the units of an answer
LEMMA AnswerIs ==
  ASSUME NEW a \in Asks, NEW v \in Values
  PROVE  /\ AnswerTo(a, v) \in Seq(AnswerUnits) /\ Len(AnswerTo(a, v)) = EthernetUnits[a.cmd.op]
         /\ \A k \in 1..EthernetUnits[a.cmd.op] : AnswerTo(a, v)[k] = [id |-> a.id, val |-> v]
<1>1. PICK i \in DOMAIN Script : a.cmd = Script[i]
  BY DEF Asks, ScriptCommands
<1>2. PICK n \in Nat : n = EthernetUnits[a.cmd.op]
  BY <1>1, ScriptTypes, UnitsExpected
<1>3. [id |-> a.id, val |-> v] \in AnswerUnits
  BY DEF Asks, AnswerUnits
<1>4. AnswerTo(a, v) = [k \in 1..n |-> [id |-> a.id, val |-> v]]
  BY <1>2 DEF AnswerTo, Unit
<1>5. AnswerTo(a, v) \in [1..n -> AnswerUnits]
  BY <1>3, <1>4
<1>6. AnswerTo(a, v) \in Seq(AnswerUnits)
  BY <1>2, <1>5, SeqDef
<1>7. Len(AnswerTo(a, v)) = n
  BY <1>2, <1>5, <1>6, LenProperties
<1>. QED BY <1>2, <1>4, <1>6, <1>7

\* what the board does with a command
IsWrite(cmd) == cmd.op = "write" /\ cmd.reg # "none"
Answers(a, v) ==
  /\ a = Head(asked) /\ asked' = Tail(asked)
  /\ v = IF a.cmd.op = "read" THEN board[a.cmd.reg] ELSE "-"
  /\ board' = IF IsWrite(a.cmd) THEN Written(board, a.cmd.reg, a.cmd.val) ELSE board
  /\ joined' = (joined /\ board'.control # "reset")
  /\ onTheWay' = onTheWay \o AnswerTo(a, v)

LEMMA AnswerTaken ==
  ASSUME DevTypeOK, BoardAnswers
  PROVE  \E a \in Asks, v \in Values : Answers(a, v)
<1>1. asked # <<>> /\ asked \in Seq(Asks)
  BY DEF BoardAnswers, DevTypeOK
<1>2. PICK a \in Asks : a = Head(asked)
  BY <1>1, HeadTailProperties
<1>3. PICK i \in DOMAIN Script : a.cmd = Script[i]
  BY DEF Asks, ScriptCommands
<1>4. (IF a.cmd.op = "read" THEN board[a.cmd.reg] ELSE "-") \in Values
  BY <1>3, ScriptReads DEF DevTypeOK, Values, Statuses
<1>. DEFINE v == IF a.cmd.op = "read" THEN board[a.cmd.reg] ELSE "-"
<1>5. onTheWay' = onTheWay \o AnswerTo(a, v)
  BY <1>2 DEF BoardAnswers
<1>6. board' = IF IsWrite(a.cmd) THEN Written(board, a.cmd.reg, a.cmd.val) ELSE board
  BY <1>2 DEF BoardAnswers, IsWrite, Written
<1>7. joined' = (joined /\ board'.control # "reset") /\ asked' = Tail(asked)
  BY DEF BoardAnswers
<1>8. Answers(a, v)
  BY <1>2, <1>5, <1>6, <1>7 DEF Answers
<1>. QED BY <1>4, <1>8

\* what a read takes of the units that are here
LEMMA TakenIs ==
  ASSUME DevTypeOK, ipc \in DOMAIN Script
  PROVE  /\ Expected \in Nat /\ Taken \in Nat /\ Taken <= Expected /\ Taken <= Len(here)
         /\ Taken = Expected \/ Taken = Len(here)
<1>1. Expected \in Nat
  BY UnitsExpected, ScriptTypes DEF Current
<1>2. Len(here) \in Nat
  BY LenProperties DEF DevTypeOK
<1>3. PICK m \in {Expected, Len(here)} : \A y \in {Expected, Len(here)} : m <= y
  BY <1>1, <1>2
<1>4. Taken \in {Expected, Len(here)} /\ \A y \in {Expected, Len(here)} : Taken <= y
  BY <1>3 DEF Taken, Min
<1>. QED BY <1>1, <1>2, <1>4

LEMMA Received ==
  ASSUME DevTypeOK, ipc \in DOMAIN Script,
         rx' = SubSeq(here, 1, Taken), here' = SubSeq(here, Taken + 1, Len(here))
  PROVE  /\ rx' \in Seq(AnswerUnits) /\ here' \in Seq(AnswerUnits)
         /\ Len(rx') = Taken /\ Len(here') = Len(here) - Taken
         /\ \A k \in 1..Taken : rx'[k] = here[k]
<1>1. Taken \in Nat /\ Taken <= Len(here) /\ here \in Seq(AnswerUnits) /\ Len(here) \in Nat
  BY TakenIs, LenProperties DEF DevTypeOK
<1>2. PICK t \in Nat : t = Taken /\ t <= Len(here)
  BY <1>1
<1>3. (\A i \in 1..t : here[i] \in AnswerUnits) /\ \A i \in t + 1 .. Len(here) : here[i] \in AnswerUnits
  BY <1>1, <1>2, ElementOfSeq
<1>4. /\ SubSeq(here, 1, t) \in Seq(AnswerUnits)
      /\ Len(SubSeq(here, 1, t)) = IF 1 <= t THEN t - 1 + 1 ELSE 0
      /\ \A i \in 1 .. t - 1 + 1 : SubSeq(here, 1, t)[i] = here[1 + i - 1]
  BY <1>2, <1>3, SubSeqProperties
<1>5. t + 1 \in Int /\ Len(here) \in Int
  BY <1>1, <1>2
<1>6. /\ SubSeq(here, t + 1, Len(here)) \in Seq(AnswerUnits)
      /\ Len(SubSeq(here, t + 1, Len(here))) =
           IF t + 1 <= Len(here) THEN Len(here) - (t + 1) + 1 ELSE 0
  BY <1>3, <1>5, SubSeqProperties
<1>7. Len(SubSeq(here, 1, t)) = t /\ \A i \in 1..t : SubSeq(here, 1, t)[i] = here[i]
  BY <1>2, <1>4
<1>8. Len(SubSeq(here, t + 1, Len(here))) = Len(here) - t
  BY <1>1, <1>2, <1>6
<1>. QED BY <1>2, <1>4, <1>6, <1>7, <1>8

\* some of the units on the way arrive
LEMMA Arrived ==
  ASSUME DevTypeOK, Arrive
  PROVE  /\ here' \in Seq(AnswerUnits) /\ onTheWay' \in Seq(AnswerUnits)
         /\ Len(here') + Len(onTheWay') = Len(here) + Len(onTheWay)
         /\ \A k \in 1..Len(here') :
              \/ \E j \in 1..Len(here) : here'[k] = here[j]
              \/ \E j \in 1..Len(onTheWay) : here'[k] = onTheWay[j]
         /\ \A k \in 1..Len(onTheWay') : \E j \in 1..Len(onTheWay) : onTheWay'[k] = onTheWay[j]
         /\ onTheWay # <<>>
<1>1. /\ here \in Seq(AnswerUnits) /\ onTheWay \in Seq(AnswerUnits)
      /\ Len(here) \in Nat /\ Len(onTheWay) \in Nat
  BY LenProperties DEF DevTypeOK
<1>2. PICK n \in 1..Len(onTheWay) :
        /\ here' = here \o SubSeq(onTheWay, 1, n)
        /\ onTheWay' = SubSeq(onTheWay, n + 1, Len(onTheWay))
  BY DEF Arrive
<1>3. n \in Nat \ {0} /\ n <= Len(onTheWay)
  BY <1>1, <1>2
<1>. DEFINE t == SubSeq(onTheWay, 1, n)
            u == SubSeq(onTheWay, n + 1, Len(onTheWay))
<1>4. /\ \A i \in 1..n : onTheWay[i] \in AnswerUnits
      /\ \A i \in n + 1 .. Len(onTheWay) : onTheWay[i] \in AnswerUnits
  BY <1>1, <1>3, ElementOfSeq
<1>5. /\ t \in Seq(AnswerUnits) /\ Len(t) = IF 1 <= n THEN n - 1 + 1 ELSE 0
      /\ \A i \in 1 .. n - 1 + 1 : t[i] = onTheWay[1 + i - 1]
  BY <1>3, <1>4, SubSeqProperties
<1>6. n + 1 \in Int /\ Len(onTheWay) \in Int
  BY <1>1, <1>3
<1>7. /\ u \in Seq(AnswerUnits)
      /\ Len(u) = IF n + 1 <= Len(onTheWay) THEN Len(onTheWay) - (n + 1) + 1 ELSE 0
      /\ \A i \in 1 .. Len(onTheWay) - (n + 1) + 1 : u[i] = onTheWay[n + 1 + i - 1]
  BY <1>4, <1>6, SubSeqProperties
<1>. HIDE DEF t, u
<1>8. Len(t) = n /\ (\A i \in 1..n : t[i] = onTheWay[i]) /\ Len(u) = Len(onTheWay) - n
  BY <1>1, <1>3, <1>5, <1>7
<1>9. \A k \in 1..Len(u) : \E j \in 1..Len(onTheWay) : u[k] = onTheWay[j]
  <2>1. ASSUME NEW k \in 1..Len(u) PROVE \E j \in 1..Len(onTheWay) : u[k] = onTheWay[j]
    <3>1. /\ k \in 1 .. Len(onTheWay) - (n + 1) + 1 /\ n + 1 + k - 1 \in 1..Len(onTheWay)
      BY <1>1, <1>3, <1>8
    <3>. QED BY <1>7, <3>1
  <2>. QED BY <2>1
<1>10. /\ here \o t \in Seq(AnswerUnits) /\ Len(here \o t) = Len(here) + Len(t)
       /\ \A k \in 1 .. Len(here) + Len(t) : (here \o t)[k] =
            IF k <= Len(here) THEN here[k] ELSE t[k - Len(here)]
  BY <1>1, <1>5, ConcatProperties
<1>11. \A k \in 1..Len(here \o t) : \/ \E j \in 1..Len(here) : (here \o t)[k] = here[j]
                                    \/ \E j \in 1..Len(onTheWay) : (here \o t)[k] = onTheWay[j]
  <2>1. ASSUME NEW k \in 1..Len(here \o t), k <= Len(here)
        PROVE  \E j \in 1..Len(here) : (here \o t)[k] = here[j]
    BY <1>1, <1>8, <1>10, <2>1
  <2>2. ASSUME NEW k \in 1..Len(here \o t), ~(k <= Len(here))
        PROVE  \E j \in 1..Len(onTheWay) : (here \o t)[k] = onTheWay[j]
    <3>1. k \in 1 .. Len(here) + Len(t)
      BY <1>10
    <3>2. k - Len(here) \in 1..n /\ k - Len(here) \in 1..Len(onTheWay)
      BY <1>1, <1>3, <1>8, <2>2, <3>1
    <3>3. (here \o t)[k] = onTheWay[k - Len(here)]
      BY <1>8, <1>10, <2>2, <3>1, <3>2
    <3>. QED BY <3>2, <3>3
  <2>. QED BY <2>1, <2>2
<1>12. here' = here \o t /\ onTheWay' = u
  BY <1>2 DEF t, u
<1>13. Len(here \o t) + Len(u) = Len(here) + Len(onTheWay) /\ onTheWay # <<>>
  <2>1. Len(onTheWay) # 0
    BY <1>3
  <2>2. onTheWay # <<>>
    BY <2>1
  <2>. QED BY <1>1, <1>3, <1>8, <1>10, <2>2
<1>. QED BY <1>7, <1>9, <1>10, <1>11, <1>12, <1>13

LEMMA DevTyped ==
  ASSUME DevTypeOK, phase # "idle" => ipc \in DOMAIN Script,
         phase = "taken" => Len(rx) = Expected, [DeviceNext]_deviceVars
  PROVE  DevTypeOK'
<1>. USE DEF OutsideChannel
<1>1. CASE GoesOn
  BY <1>1, GoesOnIs DEF DevTypeOK, channel
<1>2. CASE Send
  <2>1. [id |-> Attempt, cmd |-> Current] \in Asks
    <3>1. Attempt \in Attempts
      BY DEF Attempt, Attempts, DevTypeOK
    <3>2. Current \in ScriptCommands
      BY <1>2 DEF Send, Current, ScriptCommands
    <3>. QED BY <3>1, <3>2 DEF Asks
  <2>2. asked' \in Seq(Asks)
    BY <1>2, <2>1, AppendProperties DEF Send, DevTypeOK
  <2>. QED BY <1>2, <2>2 DEF Send, DevTypeOK
<1>3. ASSUME Failed, UNCHANGED <<asked, onTheWay, board, late>>, OutsideChannel,
             here' \in Seq(AnswerUnits), rx' \in Seq(AnswerUnits)
      PROVE  DevTypeOK'
  BY <1>3 DEF Failed, DevTypeOK, Places
<1>4. CASE SendShort
  <2>1. here' \in Seq(AnswerUnits) /\ rx' \in Seq(AnswerUnits)
    BY <1>4 DEF SendShort, DevTypeOK
  <2>. QED BY <1>3, <1>4, <2>1 DEF SendShort
<1>5. CASE EthernetReceives \/ USBReceives
  <2>1. /\ rx' = SubSeq(here, 1, Taken) /\ here' = SubSeq(here, Taken + 1, Len(here))
        /\ phase = "receive" /\ UNCHANGED <<asked, onTheWay, board, late>> /\ OutsideChannel
        /\ (phase' = "taken" /\ UNCHANGED <<ipc, tries>>) \/ Failed
    BY <1>5 DEF EthernetReceives, USBReceives, Receives
  <2>2. rx' \in Seq(AnswerUnits) /\ here' \in Seq(AnswerUnits)
    BY <2>1, Received
  <2>3. CASE Failed
    BY <1>3, <2>1, <2>2, <2>3
  <2>4. CASE phase' = "taken" /\ UNCHANGED <<ipc, tries>>
    BY <2>1, <2>2, <2>4 DEF DevTypeOK
  <2>. QED BY <2>1, <2>3, <2>4
<1>6. CASE ConnectionLost \/ USBPurgeFails
  BY <1>6 DEF ConnectionLost, USBPurgeFails, DevTypeOK, Places
<1>7. CASE PurgeReads \/ PurgeEnds
  BY <1>7, EmptySeq DEF PurgeReads, PurgeEnds, DevTypeOK, StillComing
<1>8. CASE CommandReturns
  <2>1. known' \in [status : Values, control : Values, clock : Values]
    <3>1. CASE Current.op = "read"
      <4>1. Current.reg \in {"status", "control", "clock"}
        BY <1>8, <3>1, ScriptReads DEF CommandReturns, Current
      <4>2. Expected = 2
        BY <3>1, UnitsExpected
      <4>3. Len(rx) = 2 /\ rx \in Seq(AnswerUnits)
        BY <1>8, <4>2 DEF CommandReturns, DevTypeOK
      <4>4. 2 \in 1..Len(rx)
        BY <4>3
      <4>5. rx[2] \in AnswerUnits
        BY <4>3, <4>4, ElementOfSeq
      <4>6. known' = [known EXCEPT ![Current.reg] = rx[2].val]
        BY <1>8, <3>1 DEF CommandReturns, Returned
      <4>. QED BY <4>1, <4>5, <4>6 DEF AnswerUnits, DevTypeOK
    <3>2. CASE Current.op # "read"
      BY <1>8, <3>2 DEF CommandReturns, Returned, DevTypeOK
    <3>. QED BY <3>1, <3>2
  <2>2. ipc' \in Places
    BY <1>8, ScriptTypes DEF CommandReturns, Current
  <2>3. rx' = <<>> /\ rx' \in Seq(AnswerUnits)
    BY <1>8, EmptySeq DEF CommandReturns
  <2>. QED BY <1>8, <2>1, <2>2, <2>3 DEF CommandReturns, KeepChannel, DevTypeOK
<1>9. CASE BoardAnswers
  <2>1. PICK a \in Asks, v \in Values : Answers(a, v)
    BY <1>9, AnswerTaken
  <2>2. asked' \in Seq(Asks)
    <3>1. asked \in Seq(Asks) /\ asked # <<>> /\ asked' = Tail(asked)
      BY <1>9, <2>1 DEF Answers, BoardAnswers, DevTypeOK
    <3>. QED BY <3>1, HeadTailProperties
  <2>3. onTheWay' \in Seq(AnswerUnits)
    BY <2>1, AnswerIs, ConcatProperties DEF Answers, DevTypeOK
  <2>4. board' \in Boards
    <3>1. PICK i \in DOMAIN Script : a.cmd = Script[i]
      BY DEF Asks, ScriptCommands
    <3>2. board \in Boards
      BY DEF DevTypeOK, Boards
    <3>3. board' = board \/ (IsWrite(a.cmd) /\ board' = Written(board, a.cmd.reg, a.cmd.val))
      BY <2>1 DEF Answers
    <3>. QED BY <3>1, <3>2, <3>3, WrittenIs DEF IsWrite
  <2>5. joined' \in BOOLEAN
    BY <2>1 DEF Answers
  <2>. QED BY <1>9, <2>2, <2>3, <2>4, <2>5 DEF BoardAnswers, DevTypeOK, Boards
<1>10. CASE Arrive
  BY <1>10, Arrived DEF Arrive, DevTypeOK
<1>11. CASE EndpointMoves
  <2>1. PICK s \in Statuses : board' = [board EXCEPT !.status = s] /\ joined' = (joined \/ s = "running")
    BY <1>11 DEF EndpointMoves, Statuses
  <2>. QED BY <1>11, <2>1 DEF EndpointMoves, DevTypeOK, channel
<1>12. CASE UNCHANGED deviceVars
  BY <1>12 DEF deviceVars, DevTypeOK
<1>. QED BY <1>1, <1>2, <1>4, <1>5, <1>6, <1>7, <1>8, <1>9, <1>10, <1>11, <1>12
         DEF DeviceNext, DeviceStep, GoesOn

LEMMA EndpointStays ==
  ASSUME DevInv, [DeviceNext]_deviceVars
  PROVE  EndpointKept'
<1>. USE DEF OutsideChannel, EndpointKept
<1>1. EndpointKept /\ DevTypeOK
  BY DEF DevInv
<1>2. CASE BoardAnswers
  <2>1. PICK a \in Asks, v \in Values : Answers(a, v)
    BY <1>1, <1>2, AnswerTaken
  <2>2. PICK i \in DOMAIN Script : a.cmd = Script[i]
    BY DEF Asks, ScriptCommands
  <2>3. board \in Boards
    BY <1>1 DEF DevTypeOK, Boards
  <2>4. joined' = (joined /\ board'.control # "reset")
    BY <2>1 DEF Answers
  <2>5. CASE ~IsWrite(a.cmd)
    <3>1. board' = board
      BY <2>1, <2>5 DEF Answers
    <3>. QED BY <1>1, <2>4, <3>1
  <2>6. CASE IsWrite(a.cmd)
    <3>1. Script[i].op = "write" /\ Script[i].reg # "none"
      BY <2>2, <2>6 DEF IsWrite
    <3>2. board' = Written(board, Script[i].reg, Script[i].val)
      BY <2>1, <2>2, <2>6 DEF Answers
    <3>3. \/ i = "sync1" /\ Script[i].reg = "clock" /\ Script[i].val = "internal"
          \/ i = "sync2" /\ Script[i].reg = "control" /\ Script[i].val = "reset"
          \/ i = "sync3" /\ Script[i].reg = "control" /\ Script[i].val = "wanted"
          \/ i = "sync4" /\ Script[i].reg = "clock" /\ Script[i].val = "timing"
      BY <3>1, ScriptWrites
    <3>4. /\ board'[Script[i].reg] = Script[i].val
          /\ board'.status = IF i = "sync2" THEN "lost" ELSE board.status
          /\ i \in {"sync1", "sync4"} => board'.control = board.control
      BY <2>3, <3>1, <3>2, WrittenIs
    <3>. QED BY <1>1, <2>4, <3>3, <3>4
  <2>. QED BY <2>5, <2>6
<1>3. CASE EndpointMoves
  <2>1. PICK s \in Statuses : board' = [board EXCEPT !.status = s] /\ joined' = (joined \/ s = "running")
    BY <1>3 DEF EndpointMoves, Statuses
  <2>2. board.control # "reset"
    BY <1>3 DEF EndpointMoves
  <2>3. board'.control = board.control /\ board'.status = s
    BY <1>1, <2>1 DEF DevTypeOK
  <2>. QED BY <1>1, <2>1, <2>2, <2>3 DEF DevTypeOK
<1>4. CASE ~BoardAnswers /\ ~EndpointMoves
  <2>1. UNCHANGED <<board, joined>>
    <3>1. CASE GoesOn
      BY <1>1, <3>1, GoesOnIs
    <3>2. CASE ~GoesOn
      BY <1>4, <3>2 DEF DeviceNext, DeviceStep, GoesOn, Send, SendShort, EthernetReceives, USBReceives, Receives,
        ConnectionLost, USBPurgeFails, PurgeReads, PurgeEnds, CommandReturns, KeepChannel, Arrive,
        deviceVars
    <3>. QED BY <3>1, <3>2
  <2>. QED BY <1>1, <2>1
<1>. QED BY <1>2, <1>3, <1>4

LEMMA DeviceKept == ASSUME DevTypeOK, [DeviceNext]_deviceVars PROVE comm' = comm
<1>1. CASE GoesOn
  BY <1>1, GoesOnIs
<1>2. CASE ~GoesOn
  BY <1>2 DEF DeviceNext, DeviceStep, GoesOn, Send, SendShort, EthernetReceives, USBReceives, Receives,
      ConnectionLost, USBPurgeFails, PurgeReads, PurgeEnds, CommandReturns, KeepChannel, Arrive,
      BoardAnswers, EndpointMoves, OutsideChannel, deviceVars
<1>. QED BY <1>1, <1>2

LEMMA EmulatedStays ==
  ASSUME DevInv, [DeviceNext]_deviceVars
  PROVE  EmulatedIdle'
<1>1. EmulatedIdle /\ DevTypeOK
  BY DEF DevInv
<1>2. comm' = comm
  BY <1>1, DeviceKept
<1>3. SUFFICES ASSUME comm = "emulated"
               PROVE  /\ phase' = "idle" /\ known'.status = "lost"
                      /\ ipc' \notin Initialized \cup {"wait", "waited"}
  BY <1>2 DEF EmulatedIdle
<1>4. phase = "idle" /\ known.status = "lost" /\ ipc \notin Initialized \cup {"wait", "waited"}
  BY <1>1, <1>3 DEF EmulatedIdle
<1>5. CASE GoesOn
  <2>1. phase' = phase /\ known' = known
    BY <1>1, <1>5, GoesOnIs DEF channel
  <2>2. ipc' \notin Initialized \cup {"wait", "waited"}
    <3>. USE DEF Initialized, Passes, AtStep, Goes, Throws
    <3>1. CASE RefreshDevices \/ OpenUSB \/ OpenEthernet \/ PurgeData
      BY <3>1 DEF RefreshDevices, OpenUSB, OpenEthernet, PurgeData
    <3>2. CASE EmulatedReturns
      <4>1. ipc \in DOMAIN Script /\ ipc' = Script[ipc].next
        BY <3>2 DEF EmulatedReturns, Current
      <4>2. PICK i \in DOMAIN Script : i = ipc
        BY <4>1
      <4>. QED BY <1>4, <4>1, <4>2, ScriptNext
    <3>3. CASE Decide \/ Waited \/ ConfigureDAQ \/ ConfigureDevice \/ BuildChannelControl
      BY <1>4, <3>3 DEF Decide, LooksOk, Ready, OnceReady, Waited, ConfigureDAQ, ConfigureDevice,
                        BuildChannelControl
    <3>4. CASE Synced
      BY <1>4, <3>4 DEF Synced, Ready
    <3>. QED BY <1>5, <3>1, <3>2, <3>3, <3>4 DEF GoesOn
  <2>. QED BY <1>4, <2>1, <2>2
<1>6. CASE ~GoesOn
  <2>1. UNCHANGED <<phase, known, ipc>>
    BY <1>3, <1>4, <1>6 DEF DeviceNext, DeviceStep, GoesOn, Send, SendShort, EthernetReceives, USBReceives, Receives,
        ConnectionLost, USBPurgeFails, PurgeReads, PurgeEnds, CommandReturns, KeepChannel, Arrive,
        BoardAnswers, EndpointMoves, channel, OutsideChannel, deviceVars
  <2>. QED BY <1>4, <2>1
<1>. QED BY <1>5, <1>6

\* what an answer tells stays true while no register is written
LEMMA RightStays ==
  ASSUME ipc \in DOMAIN Script, UNCHANGED <<ipc, syncs, settings, tries>>, joined => joined',
         board'.control = board.control, board'.clock = board.clock
  PROVE  /\ Attempt' = Attempt /\ Current' = Current /\ (Expected' = Expected \/ comm' # comm)
         /\ \A u : Right(u) => Right(u)'
         /\ Carried => Carried'
<1>1. Attempt' = Attempt /\ Current' = Current
  BY DEF Attempt, Current
<1>2. Expected' = Expected \/ comm' # comm
  BY <1>1 DEF Expected
<1>3. Current.op = "read" => Current.reg \in {"status", "control", "clock"}
  BY ScriptReads DEF Current
<1>4. Current.op = "write" /\ Current.reg # "none" => Current.reg \in {"control", "clock"}
  BY ScriptWrites DEF Current
<1>5. ASSUME NEW u, Right(u) PROVE Right(u)'
  <2>1. u.id = Attempt'
    BY <1>1, <1>5 DEF Right
  <2>2. ASSUME Current.op = "read" PROVE Tells(Current.reg, u.val)'
    <3>1. Tells(Current.reg, u.val)
      BY <1>5, <2>2 DEF Right
    <3>2. CASE Current.reg = "status"
      BY <1>1, <3>1, <3>2 DEF Tells
    <3>3. CASE Current.reg = "control" \/ Current.reg = "clock"
      BY <1>1, <3>1, <3>3 DEF Tells
    <3>. QED BY <1>3, <2>2, <3>2, <3>3
  <2>. QED BY <1>1, <2>1, <2>2 DEF Right
<1>6. Carried => Carried'
  BY <1>1, <1>4 DEF Carried
<1>. QED BY <1>1, <1>2, <1>5, <1>6

LEMMA ChannelStays ==
  ASSUME DevInv, DevTypeOK', [DeviceNext]_deviceVars, ~late'
  PROVE  ChannelOwn'
<1>. USE DEF OutsideChannel
<1>1. DevTypeOK /\ EndpointKept /\ EmulatedIdle
  BY DEF DevInv
<1>2. ~late
  <2>1. CASE DeviceNext
    BY <2>1 DEF DeviceNext
  <2>2. CASE UNCHANGED deviceVars
    BY <2>2 DEF deviceVars
  <2>. QED BY <2>1, <2>2
<1>3. ChannelOwn
  BY <1>2 DEF DevInv
<1>4. ipc \in DOMAIN Script => ipc # "failed"
  BY ScriptSteps
<1>5. /\ Len(asked) \in Nat /\ Len(onTheWay) \in Nat /\ Len(here) \in Nat
      /\ asked = <<>> <=> Len(asked) = 0
      /\ onTheWay = <<>> <=> Len(onTheWay) = 0
      /\ here = <<>> <=> Len(here) = 0
  BY <1>1, LenProperties, EmptySeq DEF DevTypeOK
<1>6. CASE GoesOn
  <2>1. phase = "idle" /\ ipc # "failed"
    BY <1>1, <1>3, <1>6, GoesOnFrom
  <2>2. Unasked
    BY <1>3, <2>1 DEF ChannelOwn
  <2>3. phase' = "idle" /\ asked' = <<>> /\ onTheWay' = <<>> /\ here' = <<>>
    BY <1>1, <1>6, <2>1, <2>2, GoesOnIs DEF channel, Unasked
  <2>4. Len(asked') = 0
    BY <2>3
  <2>. QED BY <2>3, <2>4 DEF ChannelOwn, Unasked
<1>7. CASE Send
  <2>1. /\ ipc \in DOMAIN Script /\ phase \in {"idle", "send"} /\ phase' = "receive"
        /\ UNCHANGED <<ipc, tries, syncs, settings, onTheWay, here>>
    BY <1>7 DEF Send
  <2>2. Unasked
    BY <1>3, <1>4, <2>1 DEF ChannelOwn
  <2>3. Attempt' = Attempt /\ Current' = Current
    BY <2>1 DEF Attempt, Current
  <2>4. asked' = <<[id |-> Attempt, cmd |-> Current]>>
    BY <1>7, <2>2 DEF Send, Unasked
  <2>5. Len(asked') = 1 /\ asked'[1].cmd = Current
    BY <2>4
  <2>6. \A k \in 1..Len(asked') : asked'[k].cmd = Current'
    BY <2>3, <2>5
  <2>. QED BY <2>1, <2>2, <2>3, <2>4, <2>6 DEF ChannelOwn, Unasked
<1>8. ASSUME Failed, ipc \in DOMAIN Script, UNCHANGED <<asked, syncs, settings>>
      PROVE  ChannelOwn'
  <2>1. CASE phase' = "idle" /\ ipc' = "failed"
    BY <2>1 DEF ChannelOwn
  <2>2. CASE phase' = "purge" /\ ipc' = ipc
    <3>1. Current' = Current
      BY <2>2 DEF Current
    <3>2. \A k \in 1..Len(asked') : asked'[k].cmd = Current'
      BY <1>3, <1>4, <1>8, <3>1 DEF ChannelOwn
    <3>. QED BY <1>8, <2>2, <3>2 DEF ChannelOwn
  <2>. QED BY <1>8, <2>1, <2>2 DEF Failed
<1>9. CASE SendShort
  BY <1>8, <1>9 DEF SendShort
<1>10. CASE EthernetReceives \/ USBReceives
  <2>1. /\ rx' = SubSeq(here, 1, Taken) /\ here' = SubSeq(here, Taken + 1, Len(here))
        /\ phase = "receive" /\ UNCHANGED <<asked, onTheWay, board, late>> /\ OutsideChannel
        /\ (phase' = "taken" /\ UNCHANGED <<ipc, tries>> /\ WholeAnswer) \/ Failed
    BY <1>10 DEF EthernetReceives, USBReceives, Receives
  <2>2. ipc \in DOMAIN Script
    BY <1>3, <2>1 DEF ChannelOwn
  <2>3. CASE Failed
    BY <1>8, <2>1, <2>2, <2>3
  <2>4. CASE phase' = "taken" /\ UNCHANGED <<ipc, tries>> /\ WholeAnswer
    <3>1. /\ rx' \in Seq(AnswerUnits) /\ here' \in Seq(AnswerUnits)
          /\ Len(rx') = Taken /\ Len(here') = Len(here) - Taken
          /\ \A k \in 1..Taken : rx'[k] = here[k]
      BY <1>1, <2>1, <2>2, Received
    <3>2. Taken = Expected /\ Taken <= Len(here) /\ Expected \in Nat /\ Expected > 0
      BY <1>1, <2>2, <2>4, TakenIs, UnitsExpected, ScriptTypes DEF WholeAnswer, Current
    <3>3. Answering
      <4>1. here # <<>>
        BY <1>5, <3>2
      <4>. QED BY <1>3, <2>1, <4>1 DEF ChannelOwn
    <3>4. Len(onTheWay) = 0 /\ Len(here') = 0 /\ Len(here) = Expected
      BY <1>5, <3>1, <3>2, <3>3 DEF Answering
    <3>5. here' = <<>> /\ onTheWay' = <<>> /\ asked' = <<>>
      <4>1. here' = <<>>
        BY <3>1, <3>4, EmptySeq
      <4>. QED BY <1>5, <2>1, <3>3, <3>4, <4>1 DEF Answering
    <3>6. /\ Attempt' = Attempt /\ Current' = Current /\ Expected' = Expected
          /\ (\A u : Right(u) => Right(u)') /\ Carried'
      BY <2>1, <2>2, <2>4, <3>3, RightStays DEF Answering
    <3>7. \A k \in 1..Len(rx') : Right(rx[k])'
      <4>1. ASSUME NEW k \in 1..Len(rx') PROVE Right(rx[k])'
        <5>1. PICK u : u = here[k]
          OBVIOUS
        <5>2. rx'[k] = u /\ Right(u)
          BY <3>1, <3>2, <3>3, <3>4, <4>1, <5>1 DEF Answering
        <5>3. Right(u)'
          BY <3>6, <5>2
        <5>. QED BY <5>2, <5>3 DEF Right
      <4>. QED BY <4>1
    <3>. QED BY <2>2, <2>4, <3>1, <3>2, <3>5, <3>6, <3>7 DEF ChannelOwn, Unasked
  <2>. QED BY <2>1, <2>3, <2>4
<1>11. CASE ConnectionLost \/ USBPurgeFails
  <2>1. phase' = "idle" /\ ipc' = "failed"
    BY <1>11 DEF ConnectionLost, USBPurgeFails
  <2>. QED BY <2>1 DEF ChannelOwn
<1>12. CASE PurgeReads
  <2>1. phase = "purge" /\ UNCHANGED <<ipc, asked, phase>>
    BY <1>12 DEF PurgeReads
  <2>2. Current' = Current
    BY <2>1 DEF Current
  <2>. QED BY <1>3, <2>1, <2>2 DEF ChannelOwn
<1>13. CASE PurgeEnds
  <2>1. phase = "purge" /\ phase' = "send" /\ UNCHANGED <<ipc, asked, onTheWay, here>>
        /\ here = <<>> /\ ~StillComing
    BY <1>13 DEF PurgeEnds
  <2>2. Unasked' /\ Len(asked') = 0
    BY <2>1 DEF Unasked, StillComing
  <2>. QED BY <1>3, <2>1, <2>2 DEF ChannelOwn
<1>14. CASE CommandReturns
  <2>1. phase = "taken" /\ phase' = "idle" /\ UNCHANGED <<asked, onTheWay, here>>
    BY <1>14 DEF CommandReturns, KeepChannel
  <2>2. Unasked' /\ Len(asked') = 0
    BY <1>3, <2>1 DEF ChannelOwn, Unasked
  <2>. QED BY <2>1, <2>2 DEF ChannelOwn
<1>15. CASE BoardAnswers
  <2>1. PICK a \in Asks, v \in Values : Answers(a, v)
    BY <1>1, <1>15, AnswerTaken
  <2>2. /\ asked # <<>> /\ asked' = Tail(asked) /\ a = Head(asked)
        /\ UNCHANGED <<comm, ipc, phase, tries, here, rx, known, syncs, settings>>
    BY <1>15, <2>1 DEF BoardAnswers, Answers
  <2>3. phase \in {"receive", "purge"} \/ ipc = "failed"
    BY <1>1, <1>3, <2>2 DEF ChannelOwn, Unasked, DevTypeOK
  <2>4. Attempt' = Attempt /\ Current' = Current /\ Expected' = Expected
    BY <2>2 DEF Attempt, Current, Expected
  <2>5. ipc' # "failed" => \A k \in 1..Len(asked') : asked'[k].cmd = Current'
    <3>1. asked \in Seq(Asks)
      BY <1>1 DEF DevTypeOK
    <3>2. Len(asked') = Len(asked) - 1 /\ \A k \in 1..Len(asked') : asked'[k] = asked[k + 1]
      BY <2>2, <3>1, HeadTailProperties
    <3>3. ASSUME ipc # "failed", NEW k \in 1..Len(asked') PROVE asked'[k].cmd = Current
      <4>1. k + 1 \in 1..Len(asked)
        BY <1>5, <3>2
      <4>. QED BY <1>3, <3>2, <3>3, <4>1 DEF ChannelOwn
    <3>. QED BY <2>2, <2>4, <3>3
  <2>6. CASE phase = "receive"
    <3>1. asked = <<[id |-> Attempt, cmd |-> Current]>> /\ onTheWay = <<>> /\ here = <<>>
      BY <1>3, <2>2, <2>6 DEF ChannelOwn, Answering
    <3>2. a = [id |-> Attempt, cmd |-> Current] /\ asked' = <<>>
      BY <2>2, <3>1
    <3>3. a.id = Attempt /\ a.cmd = Current
      BY <3>2
    <3>4. ipc \in DOMAIN Script
      BY <1>3, <2>6 DEF ChannelOwn
    <3>5. PICK i \in DOMAIN Script : i = ipc /\ Current = Script[i]
      BY <3>4 DEF Current
    <3>6. /\ AnswerTo(a, v) \in Seq(AnswerUnits) /\ Len(AnswerTo(a, v)) = Expected
          /\ \A k \in 1..Expected : AnswerTo(a, v)[k] = [id |-> Attempt, val |-> v]
      BY <3>3, AnswerIs, UnitsExpected
    <3>7. onTheWay' = AnswerTo(a, v)
      BY <2>1, <3>1, <3>6, ConcatEmptySeq DEF Answers
    <3>8. Carried'
      <4>1. ASSUME IsWrite(Current) PROVE board'[Current.reg] = Current.val
        <5>1. board' = Written(board, Script[i].reg, Script[i].val)
          BY <2>1, <3>3, <3>5, <4>1 DEF Answers
        <5>2. board \in Boards
          BY <1>1 DEF DevTypeOK, Boards
        <5>. QED BY <3>5, <4>1, <5>1, <5>2, WrittenIs DEF IsWrite
      <4>. QED BY <2>4, <4>1 DEF Carried, IsWrite
    <3>9. Current.op = "read" => Tells(Current.reg, v)'
      <4>1. SUFFICES ASSUME Current.op = "read" PROVE Tells(Current.reg, v)'
        OBVIOUS
      <4>2. board' = board /\ v = board[Current.reg]
        BY <2>1, <3>3, <4>1 DEF Answers, IsWrite
      <4>3. joined' = (joined /\ board'.control # "reset")
        BY <2>1 DEF Answers
      <4>4. CASE Current.reg = "status"
        <5>1. v = "running" => joined'
          BY <1>1, <4>2, <4>3, <4>4 DEF EndpointKept
        <5>. QED BY <2>4, <4>4, <5>1 DEF Tells
      <4>5. CASE Current.reg # "status"
        BY <2>4, <4>2, <4>5 DEF Tells
      <4>. QED BY <4>4, <4>5
    <3>10. \A k \in 1..Len(onTheWay') : Right(onTheWay[k])'
      <4>1. ASSUME NEW k \in 1..Len(onTheWay') PROVE Right(onTheWay[k])'
        <5>1. onTheWay'[k] = [id |-> Attempt, val |-> v]
          BY <3>6, <3>7, <4>1
        <5>2. onTheWay'[k].id = Attempt /\ onTheWay'[k].val = v
          BY <5>1
        <5>3. Tells(Current.reg, onTheWay[k].val)' <=> Tells(Current.reg, v)'
          BY <5>2 DEF Tells
        <5>. QED BY <2>4, <3>9, <5>2, <5>3 DEF Right
      <4>. QED BY <4>1
    <3>11. Answering'
      <4>1. here' = <<>> /\ Len(here') = 0
        BY <2>2, <3>1
      <4>2. Len(here') + Len(onTheWay') = Expected'
        <5>1. Expected \in Nat
          BY <1>1, <3>4, TakenIs
        <5>. QED BY <2>4, <3>6, <3>7, <4>1, <5>1
      <4>3. \A k \in 1..Len(here') : Right(here[k])'
        BY <4>1
      <4>. QED BY <3>2, <3>8, <3>10, <4>2, <4>3 DEF Answering
    <3>. QED BY <2>2, <2>5, <2>6, <3>4, <3>11 DEF ChannelOwn
  <2>7. CASE phase # "receive"
    BY <1>3, <1>4, <2>2, <2>3, <2>5, <2>7 DEF ChannelOwn
  <2>. QED BY <2>6, <2>7
<1>16. CASE Arrive
  <2>1. UNCHANGED <<comm, ipc, phase, tries, asked, rx, board, known, syncs, settings, joined>>
    BY <1>16 DEF Arrive
  <2>2. /\ Len(here') + Len(onTheWay') = Len(here) + Len(onTheWay) /\ onTheWay # <<>>
        /\ \A k \in 1..Len(here') :
              \/ \E j \in 1..Len(here) : here'[k] = here[j]
              \/ \E j \in 1..Len(onTheWay) : here'[k] = onTheWay[j]
        /\ \A k \in 1..Len(onTheWay') : \E j \in 1..Len(onTheWay) : onTheWay'[k] = onTheWay[j]
    BY <1>1, <1>16, Arrived
  <2>3. phase \in {"receive", "purge"} \/ ipc = "failed"
    BY <1>1, <1>3, <2>2 DEF ChannelOwn, Unasked, DevTypeOK
  <2>4. Attempt' = Attempt /\ Current' = Current /\ Expected' = Expected
    BY <2>1 DEF Attempt, Current, Expected
  <2>5. CASE phase = "receive"
    <3>1. Answering /\ ipc \in DOMAIN Script
      BY <1>3, <2>2, <2>5 DEF ChannelOwn
    <3>2. (\A u : Right(u) => Right(u)') /\ Carried'
      BY <2>1, <3>1, RightStays DEF Answering
    <3>3. \A k \in 1..Len(here') : Right(here[k])'
      <4>1. ASSUME NEW k \in 1..Len(here') PROVE Right(here[k])'
        <5>1. PICK u : u = here'[k] /\ Right(u)
          BY <2>2, <3>1, <4>1 DEF Answering
        <5>2. Right(u)'
          BY <3>2, <5>1
        <5>. QED BY <5>1, <5>2 DEF Right
      <4>. QED BY <4>1
    <3>4. \A k \in 1..Len(onTheWay') : Right(onTheWay[k])'
      <4>1. ASSUME NEW k \in 1..Len(onTheWay') PROVE Right(onTheWay[k])'
        <5>1. PICK u : u = onTheWay'[k] /\ Right(u)
          BY <2>2, <3>1, <4>1 DEF Answering
        <5>2. Right(u)'
          BY <3>2, <5>1
        <5>. QED BY <5>1, <5>2 DEF Right
      <4>. QED BY <4>1
    <3>5. Answering'
      BY <2>1, <2>2, <2>4, <3>1, <3>2, <3>3, <3>4 DEF Answering
    <3>6. \A k \in 1..Len(asked') : asked'[k].cmd = Current'
      BY <1>3, <1>4, <2>1, <2>4, <3>1 DEF ChannelOwn
    <3>. QED BY <2>1, <2>5, <3>1, <3>5, <3>6 DEF ChannelOwn
  <2>6. CASE phase # "receive"
    BY <1>3, <1>4, <2>1, <2>3, <2>4, <2>6 DEF ChannelOwn
  <2>. QED BY <2>5, <2>6
<1>17. CASE EndpointMoves
  <2>1. UNCHANGED <<comm, ipc, phase, tries, asked, onTheWay, here, rx, syncs, settings>>
    BY <1>17 DEF EndpointMoves, channel
  <2>2. board'.control = board.control /\ board'.clock = board.clock /\ (joined => joined')
    BY <1>1, <1>17 DEF EndpointMoves, DevTypeOK
  <2>3. Attempt' = Attempt /\ Current' = Current /\ Expected' = Expected
    BY <2>1 DEF Attempt, Current, Expected
  <2>4. ipc \in DOMAIN Script => (\A u : Right(u) => Right(u)') /\ (Carried => Carried')
    BY <2>1, <2>2, RightStays
  <2>5. ASSUME ipc \in DOMAIN Script PROVE Answering => Answering'
    <3>1. \A k : Right(here[k]) => Right(here[k])'
      <4>1. ASSUME NEW k, Right(here[k]) PROVE Right(here[k])'
        <5>1. PICK u : u = here[k] /\ Right(u)
          BY <4>1
        <5>2. Right(u)'
          BY <2>4, <2>5, <5>1
        <5>. QED BY <2>1, <5>1, <5>2 DEF Right
      <4>. QED BY <4>1
    <3>2. \A k : Right(onTheWay[k]) => Right(onTheWay[k])'
      <4>1. ASSUME NEW k, Right(onTheWay[k]) PROVE Right(onTheWay[k])'
        <5>1. PICK u : u = onTheWay[k] /\ Right(u)
          BY <4>1
        <5>2. Right(u)'
          BY <2>4, <2>5, <5>1
        <5>. QED BY <2>1, <5>1, <5>2 DEF Right
      <4>. QED BY <4>1
    <3>. QED BY <2>1, <2>3, <2>4, <2>5, <3>1, <3>2 DEF Answering
  <2>6. ASSUME ipc \in DOMAIN Script PROVE \A k : Right(rx[k]) => Right(rx[k])'
    <3>1. ASSUME NEW k, Right(rx[k]) PROVE Right(rx[k])'
      <4>1. PICK u : u = rx[k] /\ Right(u)
        BY <3>1
      <4>2. Right(u)'
        BY <2>4, <2>6, <4>1
      <4>. QED BY <2>1, <4>1, <4>2 DEF Right
    <3>. QED BY <3>1
  <2>. QED BY <1>3, <2>1, <2>3, <2>4, <2>5, <2>6 DEF ChannelOwn, Unasked
<1>18. CASE UNCHANGED deviceVars
  <2>1. UNCHANGED <<Attempt, Current, Expected>>
    BY <1>18 DEF deviceVars, Attempt, Current, Expected
  <2>. QED BY <1>3, <1>18, <2>1 DEF deviceVars, ChannelOwn, Unasked, Answering, Right, Tells, Carried
<1>. QED BY <1>6, <1>7, <1>9, <1>10, <1>11, <1>12, <1>13, <1>14, <1>15, <1>16, <1>17, <1>18
         DEF DeviceNext, DeviceStep, GoesOn

LEMMA KnownStays ==
  ASSUME DevInv, EmulatedIdle', [DeviceNext]_deviceVars, ~late', comm' # "emulated"
  PROVE  KnownTrue'
<1>. USE DEF OutsideChannel
<1>1. DevTypeOK /\ EndpointKept /\ EmulatedIdle
  BY DEF DevInv
<1>2. ~late /\ comm = comm'
  <2>1. comm = comm'
    BY <1>1, DeviceKept
  <2>2. CASE DeviceNext
    BY <2>1, <2>2 DEF DeviceNext
  <2>3. CASE UNCHANGED deviceVars
    BY <2>3 DEF deviceVars
  <2>. QED BY <2>2, <2>3
<1>3. ChannelOwn /\ KnownTrue
  BY <1>2 DEF DevInv
<1>4. CASE GoesOn
  <2>1. UNCHANGED <<board, known, joined>>
    BY <1>1, <1>4, GoesOnIs
  <2>. USE DEF KnownTrue, Initialized, Passes, AtStep, Goes, Throws
  <2>2. CASE RefreshDevices
    BY <1>3, <2>1, <2>2 DEF RefreshDevices
  <2>3. CASE OpenUSB \/ OpenEthernet \/ PurgeData
    BY <1>3, <2>1, <2>3 DEF OpenUSB, OpenEthernet, PurgeData
  <2>4. CASE EmulatedReturns
    BY <1>2, <2>4 DEF EmulatedReturns
  <2>5. CASE Decide
    BY <1>3, <2>1, <2>5 DEF Decide, LooksOk, Ready, OnceReady
  <2>6. CASE Synced
    BY <1>3, <2>1, <2>6 DEF Synced, Ready, OnceReady
  <2>7. CASE Waited
    BY <1>3, <2>1, <2>7 DEF Waited, OnceReady
  <2>8. CASE ConfigureDAQ \/ ConfigureDevice \/ BuildChannelControl
    BY <1>3, <2>1, <2>8 DEF ConfigureDAQ, ConfigureDevice, BuildChannelControl
  <2>. QED BY <1>4, <2>2, <2>3, <2>4, <2>5, <2>6, <2>7, <2>8 DEF GoesOn
<1>5. CASE Send \/ SendShort \/ EthernetReceives \/ USBReceives \/ ConnectionLost \/ USBPurgeFails
           \/ PurgeReads \/ PurgeEnds \/ Arrive \/ UNCHANGED deviceVars
  <2>1. UNCHANGED <<board, known, joined>> /\ ipc' \in {ipc, "failed"}
    BY <1>5 DEF Send, SendShort, EthernetReceives, USBReceives, Receives, Failed, ConnectionLost,
                USBPurgeFails, PurgeReads, PurgeEnds, Arrive, deviceVars
  <2>. QED BY <1>3, <2>1 DEF KnownTrue, Initialized
<1>6. CASE CommandReturns
  <2>1. phase = "taken" /\ UNCHANGED <<board, joined>> /\ ipc' = Current.next /\ known' = Returned
    BY <1>6 DEF CommandReturns, KeepChannel
  <2>2. /\ ipc \in DOMAIN Script /\ Carried /\ Len(rx) = Expected
        /\ \A k \in 1..Len(rx) : Right(rx[k])
    BY <1>3, <2>1 DEF ChannelOwn
  <2>3. PICK i \in DOMAIN Script : i = ipc /\ Current = Script[i]
    BY <2>2 DEF Current
  <2>4. ASSUME Current.op = "read"
        PROVE  /\ known' = [known EXCEPT ![Current.reg] = rx[2].val]
               /\ Tells(Current.reg, rx[2].val)
    <3>1. Expected = 2
      BY <2>4, UnitsExpected
    <3>2. 2 \in 1..Len(rx)
      BY <2>2, <3>1
    <3>3. Right(rx[2])
      BY <2>2, <3>2
    <3>. QED BY <2>1, <2>4, <3>3 DEF Right, Returned
  <2>5. known \in [status : Values, control : Values, clock : Values]
    BY <1>1 DEF DevTypeOK
  <2>6. CASE i = "read1" \/ i = "sync5" \/ i = "wait"
    <3>1. Current.op = "read" /\ Current.reg = "status"
      BY <2>3, <2>6, ScriptRead
    <3>2. known'.status = "running" => joined
      BY <2>4, <2>5, <3>1 DEF Tells
    <3>3. (i = "read1" /\ ipc' = "read2") \/ (i = "sync5" /\ ipc' = "synced")
            \/ (i = "wait" /\ ipc' = "waited")
      BY <2>1, <2>3, <2>6, ScriptNext DEF Initialized
    <3>. QED BY <1>3, <2>1, <2>3, <3>2, <3>3 DEF KnownTrue, Initialized
  <2>7. CASE i = "read2"
    <3>1. Current.op = "read" /\ Current.reg = "control"
      BY <2>3, <2>7, ScriptRead
    <3>2. known'.control = board.control /\ known'.status = known.status
      BY <2>4, <2>5, <3>1 DEF Tells
    <3>3. ipc' = "read3"
      BY <2>1, <2>3, <2>7, ScriptNext DEF Initialized
    <3>. QED BY <1>3, <2>1, <2>3, <2>7, <3>2, <3>3 DEF KnownTrue, Initialized
  <2>8. CASE i = "read3"
    <3>1. Current.op = "read" /\ Current.reg = "clock"
      BY <2>3, <2>8, ScriptRead
    <3>2. known'.clock = board.clock /\ known'.control = known.control /\ known'.status = known.status
      BY <2>4, <2>5, <3>1 DEF Tells
    <3>3. ipc' = "decide"
      BY <2>1, <2>3, <2>8, ScriptNext DEF Initialized
    <3>. QED BY <1>3, <2>1, <2>3, <2>8, <3>2, <3>3 DEF KnownTrue, Initialized
  <2>9. CASE i = "sync3" \/ i = "sync4"
    <3>1. /\ i = "sync3" => board.control = "wanted" /\ ipc' = "sync4"
          /\ i = "sync4" => board.clock = "timing" /\ ipc' = "sync5"
      <4>1. ASSUME i = "sync3" PROVE board.control = "wanted" /\ ipc' = "sync4"
        BY <2>1, <2>2, <2>3, <4>1, ScriptWritten, ScriptNext DEF Carried, Initialized
      <4>2. ASSUME i = "sync4" PROVE board.clock = "timing" /\ ipc' = "sync5"
        BY <2>1, <2>2, <2>3, <4>2, ScriptWritten, ScriptNext DEF Carried, Initialized
      <4>. QED BY <4>1, <4>2
    <3>. QED BY <1>3, <2>1, <2>3, <2>9, <3>1 DEF KnownTrue, Initialized
  <2>10. CASE i \in Initialized
    <3>1. ipc' \in {"configure", "done"}
      BY <2>1, <2>3, <2>10, ScriptNext DEF Initialized
    <3>. QED BY <1>3, <2>1, <2>3, <2>10, <3>1 DEF KnownTrue, Initialized
  <2>11. CASE i \in {"stop1", "stop2", "stop3", "stop4", "stop5", "sync1", "sync2"}
    <3>1. ipc' \in {"stop2", "stop3", "stop4", "stop5", "data", "sync2", "sync3"}
      BY <2>1, <2>3, <2>11, ScriptNext DEF Initialized
    <3>2. i # "sync2" => board.control # "reset"
      BY <1>3, <2>3, <2>11 DEF KnownTrue
    <3>3. i = "sync2" => ipc' = "sync3"
      BY <2>1, <2>3, ScriptNext DEF Initialized
    <3>. QED BY <2>1, <2>11, <3>1, <3>2, <3>3 DEF KnownTrue, Initialized
  <2>. QED BY <2>6, <2>7, <2>8, <2>9, <2>10, <2>11, ScriptSteps DEF Initialized
<1>7. CASE BoardAnswers
  <2>1. PICK a \in Asks, v \in Values : Answers(a, v)
    BY <1>1, <1>7, AnswerTaken
  <2>2. UNCHANGED <<ipc, known>> /\ asked # <<>> /\ asked \in Seq(Asks)
    BY <1>1, <1>7 DEF BoardAnswers, DevTypeOK
  <2>3. joined' = (joined /\ board'.control # "reset")
    BY <2>1 DEF Answers
  <2>4. CASE ipc = "failed"
    BY <2>2, <2>4 DEF KnownTrue, Initialized
  <2>5. CASE ipc # "failed"
    <3>1. a.cmd = Current /\ ipc \in DOMAIN Script
      <4>1. 1 \in 1..Len(asked) /\ Head(asked) = asked[1]
        BY <2>2, LenProperties, EmptySeq, HeadTailProperties
      <4>2. phase # "idle"
        BY <1>3, <2>2, <2>5 DEF ChannelOwn, Unasked
      <4>. QED BY <1>3, <2>1, <2>5, <4>1, <4>2 DEF ChannelOwn, Answers
    <3>2. PICK i \in DOMAIN Script : i = ipc /\ a.cmd = Script[i]
      BY <3>1 DEF Current
    <3>3. CASE ~IsWrite(a.cmd)
      <4>1. board' = board
        BY <2>1, <3>3 DEF Answers
      <4>. QED BY <1>3, <2>2, <2>3, <2>5, <3>2, <4>1 DEF KnownTrue, Initialized
    <3>4. CASE IsWrite(a.cmd)
      <4>1. Script[i].op = "write" /\ Script[i].reg # "none"
        BY <3>2, <3>4 DEF IsWrite
      <4>2. board' = Written(board, Script[i].reg, Script[i].val)
        BY <2>1, <3>2, <3>4 DEF Answers
      <4>3. board \in Boards
        BY <1>1 DEF DevTypeOK, Boards
      <4>4. i \in {"sync1", "sync2", "sync3", "sync4"}
        BY <4>1, ScriptWrites
      <4>5. i \in {"sync1", "sync4"} => board'.control = board.control
        BY <4>1, <4>2, <4>3, WrittenIs
      <4>. QED BY <1>3, <2>2, <3>2, <4>4, <4>5 DEF KnownTrue, Initialized
    <3>. QED BY <3>3, <3>4
  <2>. QED BY <2>4, <2>5
<1>8. CASE EndpointMoves
  <2>1. UNCHANGED <<ipc, known>>
    BY <1>8 DEF EndpointMoves
  <2>2. board'.control = board.control /\ board'.clock = board.clock /\ (joined => joined')
    BY <1>1, <1>8 DEF EndpointMoves, DevTypeOK
  <2>. QED BY <1>3, <2>1, <2>2 DEF KnownTrue
<1>. QED BY <1>4, <1>5, <1>6, <1>7, <1>8 DEF DeviceNext, DeviceStep, GoesOn

(* Each command returns with the answer to itself, and once the board is     *)
(* initialized it is in step with the timing system, unless an answer was    *)
(* later than the purge waited (DeviceManager, SendReceive() and             *)
(* DeviceInterface::Initialize() of anlBoard): for any number of tries.      *)
THEOREM DeviceBringUpRight == DeviceSpec => []BringUpRight
<1>1. DeviceInit => DevInv
  BY DeviceInitially
<1>2. DevInv /\ [DeviceNext]_deviceVars => DevInv'
  <2>1. SUFFICES ASSUME DevInv, [DeviceNext]_deviceVars PROVE DevInv'
    OBVIOUS
  <2>2. CASE late
    <3>1. UNCHANGED deviceVars
      BY <2>1, <2>2 DEF DeviceNext
    <3>2. UNCHANGED <<Attempt, Current, Expected>>
      BY <3>1 DEF deviceVars, Attempt, Current, Expected
    <3>. QED BY <2>1, <2>2, <3>1 DEF deviceVars, DevInv, DevTypeOK, EndpointKept, EmulatedIdle
  <2>3. CASE ~late
    <3>1. DevTypeOK /\ ChannelOwn
      BY <2>1, <2>3 DEF DevInv
    <3>2. DevTypeOK'
      BY <2>1, <3>1, DevTyped DEF ChannelOwn
    <3>3. EndpointKept' /\ EmulatedIdle'
      BY <2>1, EndpointStays, EmulatedStays
    <3>4. ~late' => ChannelOwn'
      BY <2>1, <3>2, ChannelStays
    <3>5. ~late' => comm' = "emulated" \/ KnownTrue'
      BY <2>1, <3>3, KnownStays
    <3>. QED BY <3>2, <3>3, <3>4, <3>5 DEF DevInv
  <2>. QED BY <2>2, <2>3 DEF DevInv, DevTypeOK
<1>3. DevInv => BringUpRight
  <2>1. SUFFICES ASSUME DevInv PROVE AnswersOwn /\ EndpointReady
    BY DEF BringUpRight
  <2>2. DevTypeOK /\ EmulatedIdle
    BY <2>1 DEF DevInv
  <2>3. AnswersOwn
    <3>1. SUFFICES ASSUME phase = "taken", ~late
                   PROVE  here = <<>> /\ ~StillComing /\ \A u \in ToSet(rx) : u.id = Attempt
      BY DEF AnswersOwn
    <3>2. Unasked /\ \A k \in 1..Len(rx) : Right(rx[k])
      BY <2>1, <3>1 DEF DevInv, ChannelOwn
    <3>3. ToSet(rx) = {rx[k] : k \in 1..Len(rx)}
      BY <2>2, LenProperties DEF ToSet, DevTypeOK
    <3>. QED BY <3>2, <3>3 DEF Unasked, StillComing, Right
  <2>4. EndpointReady
    BY <2>1, <2>2 DEF DevInv, EndpointReady, EmulatedIdle, KnownTrue, Initialized
  <2>. QED BY <2>3, <2>4
<1>. QED BY <1>1, <1>2, <1>3, PTL DEF DeviceSpec
-----------------------------------------------------------------------------
(* The command connection of an RCE board: RceControl.tla. *)

RceNames == DOMAIN CommandAfter
CommandUnits == [name : RceNames \cup {"none"}, id : Nat]
Chunks == [of : CommandUnits, ends : BOOLEAN, flowing : SUBSET Streams, open : BOOLEAN]
DpmSet == [obeyed : SUBSET Settings, wib : {"other", "on", "off"}, hls : {"other", "on", "off"},
           run : {"other", "Enable", "Stopped"}]
Readings == [id : Nat, asked : Nat, pass : BOOLEAN, open : BOOLEAN]

ControlTypeOK ==
  /\ commStep \in RceNames \cup {"connect", "idle", "running", "failed"}
  /\ awaiting \in BOOLEAN /\ (awaiting => commOpen /\ commStep \in RceNames) /\ commOpen \in BOOLEAN
  /\ inbox \in Seq(CommandUnits) /\ \A i \in 1..Len(inbox) : inbox[i].name # "none"
  /\ replies \in Seq(Chunks) /\ pieces \in Seq(Chunks) /\ commands \in Nat
  /\ trials \in Nat /\ dpm \in DpmSet /\ refusals \subseteq RceNames /\ unasked \in Nat
  /\ rceStarts \in Nat /\ verdict \in Seq(Readings) /\ enabling \in BOOLEAN

\* a command to let data in, to blow it off or to run stands until its opposite: the part of
\* the board that it is about, what it makes of it, the commands that change that part, and the
\* places at which it stands
About == [wibOn |-> "wib", wibBlow |-> "wib", hlsOn |-> "hls", hlsBlow |-> "hls",
          Enable |-> "run", Stopped |-> "run"]
Makes == [wibOn |-> "on", wibBlow |-> "off", hlsOn |-> "on", hlsBlow |-> "off",
          Enable |-> "Enable", Stopped |-> "Stopped"]
Changes == [wib |-> {"reset", "wibOff", "wibOn", "wibBlow"},
            hls |-> {"reset", "hlsOff", "hlsOn", "hlsBlow"},
            run |-> {"reset", "Enable", "Stopped"}]
After == [wibOn |-> {"hlsOn", "status", "Enable", "running"},
          hlsOn |-> {"status", "Enable", "running"}, Enable |-> {"running"},
          hlsBlow |-> {"wibBlow", "Stopped", "idle"}, wibBlow |-> {"Stopped", "idle"},
          Stopped |-> {"idle"}]
Demands == DOMAIN About

Coming(n) ==
  \E i \in 1..Len(inbox) : inbox[i].name = n /\ \A j \in 1..Len(inbox) :
    j > i => inbox[j].name \notin Changes[About[n]]
Reached(n) ==
  /\ \A i \in 1..Len(inbox) : inbox[i].name \notin Changes[About[n]]
  /\ dpm[About[n]] = Makes[n] \/ n \in refusals
Stands(n) == rceStarts > 0 /\ ((commStep = n /\ awaiting) \/ commStep \in After[n])

\* what stands is still to come or has been carried out, or refused
Demanded == commOpen => \A n \in Demands : Stands(n) => Coming(n) \/ Reached(n)

\* what is on its way to the reader
OnWire == pieces \o replies
LetsIn == dpm.wib = "on" /\ dpm.hls = "on"
AtStatus == commStep = "status" /\ awaiting

\* a status under way is the one that was asked for, the last of all, and tells how the board is
StatusUnderWay ==
  commOpen /\ commStep # "failed" =>
    /\ \A i \in 1..Len(inbox) : inbox[i].name = "status" =>
         AtStatus /\ inbox[i].id = commands /\ i = Len(inbox)
         /\ \A k \in 1..Len(OnWire) : OnWire[k].of.name # "status"
    /\ \A i \in 1..Len(OnWire) : OnWire[i].of.name = "status" =>
         /\ AtStatus /\ OnWire[i].of.id = commands /\ inbox = <<>>
         /\ OnWire[i].open <=> LetsIn
         /\ \A j \in 1..Len(OnWire) :
              OnWire[j].of.name = "status" => i = j \/ i = j + 1 \/ j = i + 1

Enables == commStep = "Enable" \/ enabling
\* with the decision to enable goes the status it is made on, and nothing to let in is left
DecidedRight ==
  /\ enabling => commStep \in {"Enable", "running", "idle"} \cup BlowOff
  /\ Enables =>
       /\ verdict # <<>> /\ verdict[1].id = verdict[1].asked
       /\ verdict[1].pass \/ trials = MaxTrials
       /\ verdict[1].open \/ refusals \cap LetIn # {}
       /\ \A i \in 1..Len(inbox) : inbox[i].name \notin LetIn

\* the settings sent before each command of the constructor
Before ==
  [connect |-> {}, flush |-> {}, reset |-> {}, hlsOff |-> {"reset"}, wibOff |-> {"reset", "hlsOff"},
   run_mode |-> {"reset", "hlsOff", "wibOff"}, emul |-> {"reset", "hlsOff", "wibOff", "run_mode"},
   partition |-> {"reset", "hlsOff", "wibOff", "run_mode", "emul"},
   enable_rssi |-> {"reset", "hlsOff", "wibOff", "run_mode", "emul", "partition"},
   daq_host |-> {"reset", "hlsOff", "wibOff", "run_mode", "emul", "partition", "enable_rssi"},
   readout |-> Settings \ {"readout"}]
Told ==
  IF commStep \in DOMAIN Before
    THEN Before[commStep] \cup (IF awaiting THEN {commStep} \cap Settings ELSE {})
    ELSE Settings

InInbox(n) == \E i \in 1..Len(inbox) : inbox[i].name = n
\* every setting sent is obeyed, refused or to come; after a reset to come all others come
SettingsKept ==
  commOpen /\ commStep # "failed" =>
    /\ \A s \in Told : s \in dpm.obeyed \/ s \in refusals \/ InInbox(s)
    /\ \A i \in 1..Len(inbox) : inbox[i].name = "reset" =>
         \A s \in Told \ {"reset"} : \E j \in 1..Len(inbox) : j > i /\ inbox[j].name = s

IsBuilt == commStep \notin DOMAIN Before \cup {"failed"}
\* as long as the board says nothing unasked, the answer read is that of the command
OwnAnswers ==
  unasked = 0 =>
    /\ commOpen /\ commStep # "failed" /\ ~awaiting => inbox = <<>> /\ OnWire = <<>>
    /\ commOpen /\ awaiting =>
         \/ OnWire = <<>> /\ Len(inbox) = 1
         \/ inbox = <<>> /\ Len(OnWire) = 2 /\ ~OnWire[1].ends /\ OnWire[2].ends
    /\ IsBuilt => /\ Settings \subseteq dpm.obeyed \cup refusals
                  /\ \A i \in 1..Len(inbox) : inbox[i].name # "reset"

\* before the reader is there
AtFirst ==
  /\ commStep = "connect" => inbox = <<>> /\ OnWire = <<>> /\ ~commOpen
  /\ commStep \in DOMAIN Before => rceStarts = 0 /\ ~enabling
  /\ commStep \in LetIn \cup BlowOff \cup {"status", "Enable", "running"} => rceStarts > 0

ControlInv ==
  ControlTypeOK /\ AtFirst /\ Demanded /\ StatusUnderWay /\ DecidedRight /\ SettingsKept /\ OwnAnswers

\* the commands, one by one
LEMMA CommandsAre ==
  /\ RceNames = {"flush", "reset", "hlsOff", "wibOff", "run_mode", "emul", "partition",
                 "enable_rssi", "daq_host", "readout", "wibOn", "hlsOn", "status", "Enable",
                 "hlsBlow", "wibBlow", "Stopped"}
  /\ CommandAfter["flush"] = "reset" /\ CommandAfter["reset"] = "hlsOff"
  /\ CommandAfter["hlsOff"] = "wibOff" /\ CommandAfter["wibOff"] = "run_mode"
  /\ CommandAfter["run_mode"] = "emul" /\ CommandAfter["emul"] = "partition"
  /\ CommandAfter["partition"] = "enable_rssi" /\ CommandAfter["enable_rssi"] = "daq_host"
  /\ CommandAfter["daq_host"] = "readout" /\ CommandAfter["readout"] = "idle"
  /\ CommandAfter["wibOn"] = "hlsOn" /\ CommandAfter["hlsOn"] = "status"
  /\ CommandAfter["status"] = "Enable" /\ CommandAfter["Enable"] = "running"
  /\ CommandAfter["hlsBlow"] = "wibBlow" /\ CommandAfter["wibBlow"] = "Stopped"
  /\ CommandAfter["Stopped"] = "idle"
BY DEF RceNames, CommandAfter

LEMMA NamesAre ==
  ASSUME NEW u \in CommandUnits
  PROVE  u.name \in RceNames \cup {"none"} /\ u.id \in Nat
BY DEF CommandUnits

\* the board takes the first command and answers it
LEMMA DpmTakes ==
  ASSUME ControlTypeOK, DpmAnswers
  PROVE  /\ inbox # <<>> /\ Len(inbox) \in Nat \ {0} /\ inbox[1] \in CommandUnits
         /\ inbox[1].name \in RceNames
         /\ Len(inbox') = Len(inbox) - 1 /\ inbox' \in Seq(CommandUnits)
         /\ \A i \in 1..Len(inbox') : inbox'[i] = inbox[i + 1]
         /\ \/ dpm' = Obeys(inbox[1].name) /\ refusals' = refusals \ {inbox[1].name}
            \/ /\ inbox[1].name \notin {"flush", "status"}
               /\ refusals' = refusals \cup {inbox[1].name} /\ dpm' = dpm
         /\ \E flowing \in SUBSET Streams : replies' = replies \o Message(inbox[1], flowing)
         /\ UNCHANGED <<commStep, awaiting, commOpen, pieces, commands, unasked, trials, rceStarts,
                        verdict, enabling>>
<1>1. inbox # <<>> /\ inbox \in Seq(CommandUnits) /\ inbox' = Tail(inbox)
  BY DEF ControlTypeOK, DpmAnswers
<1>2. /\ Len(inbox) \in Nat \ {0} /\ inbox[1] \in CommandUnits /\ Head(inbox) = inbox[1]
      /\ Len(inbox') = Len(inbox) - 1 /\ inbox' \in Seq(CommandUnits)
      /\ \A i \in 1..Len(inbox') : inbox'[i] = inbox[i + 1]
  BY <1>1
<1>3. inbox[1].name \in RceNames
  BY <1>2, NamesAre DEF ControlTypeOK
<1>4. \/ dpm' = Obeys(inbox[1].name) /\ refusals' = refusals \ {inbox[1].name}
      \/ /\ inbox[1].name \notin {"flush", "status"}
         /\ refusals' = refusals \cup {inbox[1].name} /\ dpm' = dpm
  BY <1>2 DEF DpmAnswers
<1>5. \E flowing \in SUBSET Streams : replies' = replies \o Message(inbox[1], flowing)
  <2>1. \E flowing \in IF inbox[1].name = "status" THEN SUBSET Streams ELSE {{}} :
          replies' = replies \o Message(inbox[1], flowing)
    BY <1>2 DEF DpmAnswers
  <2>. QED BY <2>1
<1>6. UNCHANGED <<commStep, awaiting, commOpen, pieces, commands, unasked, trials, rceStarts,
                  verdict, enabling>>
  BY DEF DpmAnswers, startVars
<1>. QED BY <1>1, <1>2, <1>3, <1>4, <1>5, <1>6

LEMMA Joined ==
  ASSUME NEW S, NEW s \in Seq(S), NEW t \in Seq(S)
  PROVE  /\ s \o t \in Seq(S) /\ Len(s \o t) = Len(s) + Len(t)
         /\ Len(s) \in Nat /\ Len(t) \in Nat
         /\ \A i \in 1..Len(s) : (s \o t)[i] = s[i] /\ s[i] \in S
         /\ \A i \in 1..Len(t) : (s \o t)[Len(s) + i] = t[i] /\ t[i] \in S
OBVIOUS

LEMMA MessageIs ==
  ASSUME NEW c \in CommandUnits, NEW flowing \in SUBSET Streams
  PROVE  LET m == Message(c, flowing)
         IN /\ m \in Seq(Chunks) /\ Len(m) = 2 /\ m[1].of = c /\ m[2].of = c
            /\ ~m[1].ends /\ m[2].ends /\ (m[1].open <=> LetsIn) /\ (m[2].open <=> LetsIn)
<1> DEFINE p(i) == [of |-> c, ends |-> i = 2, flowing |-> flowing, open |-> LetsIn]
<1>1. p(1) \in Chunks /\ p(2) \in Chunks
  BY DEF Chunks, LetsIn
<1>2. Message(c, flowing) = [i \in 1..2 |-> p(i)]
  BY DEF Message, LetsIn
<1>3. [i \in 1..2 |-> p(i)] = <<p(1), p(2)>>
  OBVIOUS
<1>4. <<p(1), p(2)>> \in Seq(Chunks) /\ Len(<<p(1), p(2)>>) = 2
  BY <1>1
<1>5. p(1).of = c /\ p(2).of = c
  OBVIOUS
<1>6. ~p(1).ends /\ p(2).ends
  <2>1. p(1).ends = (1 = 2) /\ p(2).ends = (2 = 2)
    BY Zenon
  <2>2. (1 = 2) = FALSE /\ (2 = 2) = TRUE
    BY SMT
  <2>. QED BY <2>1, <2>2, Zenon
<1>7. (p(1).open <=> LetsIn) /\ (p(2).open <=> LetsIn)
  OBVIOUS
<1> HIDE DEF p
<1>. QED BY <1>2, <1>3, <1>4, <1>5, <1>6, <1>7

LEMMA Spoken ==
  ASSUME ControlTypeOK, NEW c \in CommandUnits, NEW flowing \in SUBSET Streams,
         replies' = replies \o Message(c, flowing), pieces' = pieces
  PROVE  /\ replies' \in Seq(Chunks) /\ Len(OnWire) \in Nat /\ Len(OnWire') = Len(OnWire) + 2
         /\ \A i \in 1..Len(OnWire) : OnWire'[i] = OnWire[i]
         /\ \A k \in {1, 2} : /\ OnWire'[Len(OnWire) + k].of = c
                              /\ OnWire'[Len(OnWire) + k].open <=> LetsIn
                              /\ OnWire'[Len(OnWire) + k].ends <=> k = 2
<1> DEFINE m == Message(c, flowing)
<1>1. m \in Seq(Chunks)
  BY MessageIs
<1>2. /\ Len(m) = 2 /\ m[1].of = c /\ m[2].of = c /\ ~m[1].ends /\ m[2].ends
      /\ (m[1].open <=> LetsIn) /\ (m[2].open <=> LetsIn)
  BY MessageIs
<1>3. pieces \in Seq(Chunks) /\ replies \in Seq(Chunks) /\ replies' = replies \o m
  BY DEF ControlTypeOK
<1> HIDE DEF m
<1>4. OnWire' = pieces \o (replies \o m)
  BY <1>3 DEF OnWire
<1>5. replies \o m \in Seq(Chunks) /\ Len(replies \o m) = Len(replies) + Len(m)
  BY <1>1, <1>3, Joined
<1>6. /\ Len(OnWire) = Len(pieces) + Len(replies)
      /\ Len(OnWire') = Len(pieces) + (Len(replies) + Len(m))
      /\ Len(pieces) \in Nat /\ Len(replies) \in Nat /\ Len(m) \in Nat
  BY <1>1, <1>3, <1>4, <1>5, Joined DEF OnWire
<1>7. \A i \in 1..Len(OnWire) : OnWire'[i] = OnWire[i]
  <2> TAKE i \in 1..Len(OnWire)
  <2>1. CASE i <= Len(pieces)
    BY <2>1, <1>3, <1>4, <1>5, <1>6, Joined DEF OnWire
  <2>2. CASE i > Len(pieces)
    <3>1. PICK k \in 1..Len(replies) : i = Len(pieces) + k
      <4>1. i - Len(pieces) \in 1..Len(replies) /\ i = Len(pieces) + (i - Len(pieces))
        BY <2>2, <1>6
      <4>. QED BY <4>1
    <3>2. k \in 1..Len(replies \o m)
      BY <1>5, <1>6
    <3>3. OnWire[i] = replies[k]
      BY <3>1, <1>3, Joined DEF OnWire
    <3>4. OnWire'[i] = (replies \o m)[k]
      BY <3>1, <3>2, <1>3, <1>4, <1>5, Joined
    <3>5. (replies \o m)[k] = replies[k]
      BY <1>1, <1>3, Joined
    <3>. QED BY <3>3, <3>4, <3>5
  <2>. QED BY <2>1, <2>2, <1>6
<1>8. \A k \in 1..Len(m) : OnWire'[Len(OnWire) + k] = m[k]
  <2> TAKE k \in 1..Len(m)
  <2>1. Len(replies) + k \in 1..Len(replies \o m)
    BY <1>5, <1>6
  <2>2. OnWire'[Len(pieces) + (Len(replies) + k)] = (replies \o m)[Len(replies) + k]
    BY <2>1, <1>3, <1>4, <1>5, Joined
  <2>3. (replies \o m)[Len(replies) + k] = m[k]
    BY <1>1, <1>3, Joined
  <2>4. Len(pieces) + (Len(replies) + k) = Len(OnWire) + k
    BY <1>6
  <2>. QED BY <2>2, <2>3, <2>4
<1>9. replies' \in Seq(Chunks)
  BY <1>3, <1>5
<1>10. Len(OnWire) \in Nat /\ Len(OnWire') = Len(OnWire) + 2
  BY <1>6, <1>2
<1>. QED BY <1>2, <1>7, <1>8, <1>9, <1>10

\* pieces that arrive stay in the stream, those that are read leave it
LEMMA Shifted ==
  ASSUME ControlTypeOK, PieceArrives
  PROVE  OnWire' = OnWire /\ pieces' \in Seq(Chunks) /\ replies' \in Seq(Chunks)
<1>1. /\ pieces \in Seq(Chunks) /\ replies \in Seq(Chunks) /\ replies # <<>>
      /\ replies' = Tail(replies) /\ pieces' = Append(pieces, Head(replies))
  BY DEF ControlTypeOK, PieceArrives
<1>2. pieces' \in Seq(Chunks) /\ replies' \in Seq(Chunks)
  BY <1>1
<1>3. Append(pieces, Head(replies)) \o Tail(replies) = pieces \o replies
  BY <1>1
<1>. QED BY <1>1, <1>2, <1>3 DEF OnWire

LEMMA ReadTo ==
  ASSUME ControlTypeOK, NEW n \in DOMAIN pieces, ReadsTo(n)
  PROVE  /\ n \in 1..Len(pieces) /\ pieces' \in Seq(Chunks) /\ Len(OnWire) \in Nat
         /\ n <= Len(OnWire) /\ Len(OnWire') = Len(OnWire) - n
         /\ \A i \in 1..Len(OnWire') : OnWire'[i] = OnWire[i + n]
         /\ \A i \in 1..n : OnWire[i] = pieces[i] /\ OnWire[i] \in Chunks
         /\ \E k \in 1..n : OnWire[k].ends
<1>1. /\ pieces \in Seq(Chunks) /\ replies \in Seq(Chunks) /\ replies' = replies
      /\ pieces' = SubSeq(pieces, n + 1, Len(pieces)) /\ n \in 1..Len(pieces)
      /\ \E k \in 1..n : pieces[k].ends
  BY DEF ControlTypeOK, ReadsTo
<1>2. /\ pieces' \in Seq(Chunks) /\ Len(pieces') = Len(pieces) - n
      /\ \A i \in 1..Len(pieces') : pieces'[i] = pieces[i + n]
  BY <1>1
<1>3. OnWire = pieces \o replies /\ OnWire' = pieces' \o replies
  BY <1>1 DEF OnWire
<1>4. /\ Len(OnWire) = Len(pieces) + Len(replies) /\ Len(OnWire') = Len(pieces') + Len(replies)
      /\ Len(pieces) \in Nat /\ Len(replies) \in Nat
  BY <1>1, <1>2, <1>3
<1>5. \A i \in 1..Len(OnWire') : OnWire'[i] = OnWire[i + n]
  <2> TAKE i \in 1..Len(OnWire')
  <2>1. CASE i <= Len(pieces')
    <3>0. n \in 1..Len(pieces) /\ Len(pieces') = Len(pieces) - n
      BY <1>1, <1>2
    <3>1. i \in 1..Len(pieces') /\ i + n \in 1..Len(pieces)
      BY <2>1, <3>0, <1>4
    <3>. QED BY <3>1, <1>1, <1>2, <1>3, Joined
  <2>2. CASE i > Len(pieces')
    <3>1. PICK k \in 1..Len(replies) : i = Len(pieces') + k /\ i + n = Len(pieces) + k
      <4>1. n \in 1..Len(pieces) /\ Len(pieces') = Len(pieces) - n
        BY <1>1, <1>2
      <4>2. i - Len(pieces') \in 1..Len(replies)
        BY <2>2, <4>1, <1>4
      <4>3. i = Len(pieces') + (i - Len(pieces')) /\ i + n = Len(pieces) + (i - Len(pieces'))
        BY <4>1, <1>4
      <4>. QED BY <4>2, <4>3
    <3>2. pieces \in Seq(Chunks) /\ pieces' \in Seq(Chunks) /\ replies \in Seq(Chunks)
      BY <1>1, <1>2
    <3>3. OnWire'[i] = replies[k]
      BY <3>1, <3>2, <1>3, Joined
    <3>4. OnWire[i + n] = replies[k]
      BY <3>1, <3>2, <1>3, Joined
    <3>. QED BY <3>3, <3>4
  <2>. QED BY <2>1, <2>2, <1>2, <1>4
<1>6. \A i \in 1..n : OnWire[i] = pieces[i] /\ OnWire[i] \in Chunks
  <2> TAKE i \in 1..n
  <2>1. i \in 1..Len(pieces)
    BY <1>1, <1>4
  <2>. QED BY <2>1, <1>1, <1>3, Joined
<1>7. Len(OnWire') = Len(OnWire) - n /\ Len(OnWire) \in Nat /\ n <= Len(OnWire)
  BY <1>1, <1>2, <1>4
<1>8. \E k \in 1..n : OnWire[k].ends
  BY <1>1, <1>6
<1>. QED BY <1>1, <1>2, <1>5, <1>6, <1>7, <1>8

LEMMA SettingsAre ==
  Settings = {"reset", "hlsOff", "wibOff", "run_mode", "emul", "partition", "enable_rssi",
              "daq_host", "readout"}
BY DEF Settings

LEMMA ObeysTyped ==
  ASSUME dpm \in DpmSet, NEW name \in RceNames
  PROVE  Obeys(name) \in DpmSet
<1>1. CASE name = "reset"
  BY <1>1 DEF Obeys, DpmSet, Settings
<1>2. CASE name \in Settings \ {"reset", "hlsOff", "wibOff"}
  BY <1>2 DEF Obeys, DpmSet, Settings
<1>3. CASE name \in {"hlsOff", "hlsBlow", "wibOff", "wibBlow"}
  BY <1>3 DEF Obeys, DpmSet, Settings
<1>4. CASE name \in {"hlsOn", "wibOn", "Enable", "Stopped"}
  BY <1>4 DEF Obeys, DpmSet, Settings
<1>5. CASE name \in {"flush", "status"}
  BY <1>5 DEF Obeys, DpmSet, Settings
<1>. QED BY <1>1, <1>2, <1>3, <1>4, <1>5, CommandsAre, SettingsAre

LEMMA CommandSent ==
  ASSUME ControlTypeOK, SendToRce
  PROVE  /\ commStep \in RceNames /\ commOpen /\ ~awaiting /\ awaiting'
         /\ commands' = commands + 1 /\ inbox' \in Seq(CommandUnits) /\ Len(inbox) \in Nat
         /\ Len(inbox') = Len(inbox) + 1
         /\ \A i \in 1..Len(inbox) : inbox'[i] = inbox[i]
         /\ inbox'[Len(inbox')].name = commStep /\ inbox'[Len(inbox')].id = commands'
         /\ enabling' = (enabling \/ commStep = "Enable")
         /\ UNCHANGED <<commStep, commOpen, replies, pieces, dpm, refusals, unasked, trials,
                        rceStarts, verdict>>
<1> DEFINE c == [name |-> commStep, id |-> commands + 1]
<1>1. c \in CommandUnits /\ c.name = commStep /\ c.id = commands + 1
  BY DEF ControlTypeOK, SendToRce, CommandUnits, RceNames
<1>2. inbox' = Append(inbox, c) /\ inbox \in Seq(CommandUnits)
  BY DEF ControlTypeOK, SendToRce
<1> HIDE DEF c
<1>3. /\ inbox' \in Seq(CommandUnits) /\ Len(inbox) \in Nat /\ Len(inbox') = Len(inbox) + 1
      /\ \A i \in 1..Len(inbox) : inbox'[i] = inbox[i]
      /\ inbox'[Len(inbox) + 1] = c
  BY <1>1, <1>2
<1>. QED BY <1>1, <1>3 DEF SendToRce, dpmSide, RceNames

LEMMA Cut ==
  ASSUME ControlTypeOK, DeadlinePasses
  PROVE  /\ commStep \in RceNames /\ commOpen /\ ~commOpen' /\ ~awaiting' /\ commStep' = Excused
         /\ inbox' \in Seq(CommandUnits) /\ Len(inbox') <= Len(inbox)
         /\ Len(inbox) \in Nat /\ Len(inbox') \in Nat
         /\ \A i \in 1..Len(inbox') : inbox'[i] = inbox[i]
         /\ UNCHANGED <<replies, pieces, commands, dpm, refusals, unasked, trials, rceStarts,
                        verdict, enabling>>
<1>1. inbox \in Seq(CommandUnits) /\ \E n \in 0..Len(inbox) : inbox' = SubSeq(inbox, 1, n)
  BY DEF ControlTypeOK, DeadlinePasses
<1>2. /\ inbox' \in Seq(CommandUnits) /\ Len(inbox') <= Len(inbox)
      /\ Len(inbox) \in Nat /\ Len(inbox') \in Nat
      /\ \A i \in 1..Len(inbox') : inbox'[i] = inbox[i]
  BY <1>1
<1>. QED BY <1>2 DEF DeadlinePasses, ClosesComm, dpmSide, startVars, RceNames

LEMMA ExcusedIs ==
  ASSUME commStep \in RceNames
  PROVE  /\ Excused \in {"status", "running", "idle", "failed"}
         /\ Excused = "status" => commStep \in LetIn
         /\ Excused = "running" => commStep = "Enable"
         /\ Excused = "idle" => commStep \in BlowOff
         /\ commStep \in {"Enable"} \cup BlowOff => Excused \in {"running", "idle"}
BY DEF Excused, LetIn, BlowOff

LEMMA Refused ==
  ASSUME SendFails
  PROVE  /\ commStep \in RceNames /\ ~commOpen /\ commStep' = Excused
         /\ UNCHANGED <<awaiting, commOpen, inbox, replies, pieces, commands, dpm, refusals,
                        unasked, trials, rceStarts, verdict, enabling>>
BY DEF SendFails, wires, dpmSide, startVars, RceNames

LEMMA StatusTaken ==
  ASSUME ControlTypeOK, CheckStatus
  PROVE  /\ commStep = "status" /\ awaiting /\ ~awaiting' /\ commOpen
         /\ UNCHANGED <<commOpen, inbox, replies, commands, dpm, refusals, unasked, rceStarts,
                        enabling>>
         /\ \E n \in DOMAIN pieces : ReadsTo(n)
         /\ \/ commStep' = "failed" /\ UNCHANGED <<trials, verdict>>
            \/ /\ commStep' \in {"Enable", "status"} /\ trials' = trials + 1
               /\ Len(pieces) >= 2 /\ ReadsTo(2) /\ 2 \in DOMAIN pieces
               /\ pieces[1].of.name = "status" /\ pieces[2].of = pieces[1].of
               /\ verdict' \in Seq(Readings) /\ verdict' # <<>>
               /\ verdict'[1].id = pieces[1].of.id /\ verdict'[1].asked = commands
               /\ verdict'[1].open <=> pieces[1].open
               /\ commStep' = "Enable" => verdict'[1].pass \/ trials' = MaxTrials
<1>1. pieces \in Seq(Chunks) /\ commands \in Nat
  BY DEF ControlTypeOK
<1>2. PICK n \in DOMAIN pieces :
        /\ ReadsTo(n)
        /\ LET message == SubSeq(pieces, 1, n)
               pass == CheckHls(message[1].flowing)
           IN IF IsStatus(message)
                THEN /\ trials' = trials + 1
                     /\ verdict' = <<[id |-> message[1].of.id, asked |-> commands, pass |-> pass,
                                      open |-> message[1].open]>>
                     /\ commStep' = IF pass \/ trials' = MaxTrials THEN "Enable" ELSE "status"
                ELSE commStep' = "failed" /\ UNCHANGED <<trials, verdict>>
  BY DEF CheckStatus
<1> DEFINE message == SubSeq(pieces, 1, n)
           pass == CheckHls(message[1].flowing)
           v == [id |-> message[1].of.id, asked |-> commands, pass |-> pass,
                 open |-> message[1].open]
<1>3. n \in 1..Len(pieces) /\ Len(message) = n /\ \A i \in 1..n : message[i] = pieces[i]
  BY <1>1
<1>4. /\ commStep = "status" /\ awaiting /\ ~awaiting' /\ commOpen
      /\ UNCHANGED <<commOpen, inbox, replies, commands, dpm, refusals, unasked, rceStarts,
                     enabling>>
  BY <1>2 DEF ReadsTo, CheckStatus, dpmSide
<1>5. CASE ~IsStatus(message)
  BY <1>2, <1>4, <1>5
<1>6. CASE IsStatus(message)
  <2>1. /\ trials' = trials + 1 /\ verdict' = <<v>>
        /\ commStep' = IF pass \/ trials' = MaxTrials THEN "Enable" ELSE "status"
    BY <1>2, <1>6
  <2>2. /\ n = 2 /\ message[1].of.name = "status" /\ message[2].of = message[1].of
    BY <1>3, <1>6 DEF IsStatus
  <2>3. pieces[1] \in Chunks /\ message[1] = pieces[1] /\ message[2] = pieces[2]
    BY <1>1, <1>3, <2>2
  <2>4. pass \in BOOLEAN
    BY DEF CheckHls
  <2>5. v \in Readings
    BY <2>3, <2>4, <1>1 DEF Readings, Chunks, CommandUnits
  <2>6. v.id = pieces[1].of.id /\ v.asked = commands /\ v.pass = pass /\ v.open = pieces[1].open
    BY <2>3
  <2> HIDE DEF v, pass
  <2>7. verdict' \in Seq(Readings) /\ verdict' # <<>> /\ verdict'[1] = v
    BY <2>1, <2>5
  <2>8. commStep' \in {"Enable", "status"}
    BY <2>1
  <2>9. commStep' = "Enable" => v.pass \/ trials' = MaxTrials
    BY <2>1, <2>4, <2>6
  <2> HIDE DEF message
  <2>. QED BY <1>2, <1>3, <1>4, <2>1, <2>2, <2>3, <2>6, <2>7, <2>8, <2>9
<1>. QED BY <1>5, <1>6

LEMMA ControlInitially == ControlInit => ControlInv
<1> SUFFICES ASSUME ControlInit
             PROVE  ControlInv
  OBVIOUS
<1>1. ControlTypeOK
  <2>1. commStep = "connect" /\ awaiting = FALSE /\ commOpen = FALSE /\ commands \in Nat
        /\ trials \in Nat /\ unasked \in Nat /\ rceStarts \in Nat /\ enabling \in BOOLEAN
    BY DEF ControlInit
  <2>2. inbox \in Seq(CommandUnits) /\ Len(inbox) = 0 /\ replies \in Seq(Chunks)
        /\ pieces \in Seq(Chunks) /\ verdict \in Seq(Readings)
    BY DEF ControlInit
  <2>3. dpm \in DpmSet /\ refusals \subseteq RceNames
    BY DEF ControlInit, DpmSet
  <2>4. \A i \in 1..Len(inbox) : inbox[i].name # "none"
    BY <2>2
  <2> HIDE DEF ControlInit
  <2>. QED BY <2>1, <2>2, <2>3, <2>4 DEF ControlTypeOK
<1>2. OnWire = <<>> /\ inbox = <<>> /\ ~commOpen /\ rceStarts = 0 /\ ~enabling
      /\ commStep = "connect"
  BY DEF ControlInit, OnWire
<1>3. AtFirst
  BY <1>2 DEF AtFirst, LetIn, BlowOff
<1>4. Demanded /\ StatusUnderWay /\ SettingsKept
  BY <1>2 DEF Demanded, StatusUnderWay, SettingsKept
<1>5. DecidedRight
  BY <1>2 DEF DecidedRight, Enables
<1>6. OwnAnswers
  BY <1>2 DEF OwnAnswers, IsBuilt, Before, ControlInit
<1>. QED BY <1>1, <1>3, <1>4, <1>5, <1>6 DEF ControlInv

\* the connection made, an answer read that is not looked at, a start, a stop
LEMMA PlacesMoved ==
  ASSUME ControlTypeOK, ConnectRce \/ ConnectRceFails \/ StartBoard \/ StopBoard
  PROVE  /\ ~awaiting /\ ~awaiting'
         /\ UNCHANGED <<inbox, replies, pieces, commands, dpm, refusals, unasked>>
         /\ commOpen' = commOpen \/ ConnectRce
         /\ \/ /\ commStep = "connect" /\ commStep' \in {"flush", "failed"}
               /\ (commOpen' <=> commOpen \/ commStep' = "flush")
               /\ UNCHANGED <<trials, rceStarts, verdict, enabling>>
            \/ /\ commStep = "idle" /\ commStep' = "wibOn" /\ rceStarts' = rceStarts + 1
               /\ trials' = 0 /\ verdict' = <<>> /\ enabling' = FALSE /\ commOpen' = commOpen
            \/ /\ commStep = "running" /\ commStep' = "hlsBlow" /\ commOpen' = commOpen
               /\ UNCHANGED <<trials, rceStarts, verdict, enabling>>
<1>1. commStep \in {"connect", "idle", "running"} => ~awaiting
  BY CommandsAre DEF ControlTypeOK
<1>2. CASE ConnectRce
  BY <1>1, <1>2 DEF ConnectRce, wires, dpmSide, startVars, ControlTypeOK
<1>3. CASE ConnectRceFails
  BY <1>1, <1>3 DEF ConnectRceFails, wires, dpmSide, startVars, ControlTypeOK
<1>4. CASE StartBoard
  BY <1>1, <1>4 DEF StartBoard, wires, dpmSide, ControlTypeOK
<1>5. CASE StopBoard
  BY <1>1, <1>5 DEF StopBoard, wires, dpmSide, startVars, ControlTypeOK
<1>. QED BY <1>2, <1>3, <1>4, <1>5

LEMMA AnswerRead ==
  ASSUME ControlTypeOK, ReadAnswer
  PROVE  /\ commStep \in RceNames \ {"status"} /\ commStep' = CommandAfter[commStep]
         /\ awaiting /\ ~awaiting' /\ commOpen
         /\ \E n \in DOMAIN pieces : ReadsTo(n)
         /\ UNCHANGED <<commOpen, inbox, replies, commands, dpm, refusals, unasked, rceStarts,
                        enabling, trials, verdict>>
BY DEF ReadAnswer, ReadsTo, dpmSide, RceNames

LEMMA NextCommand ==
  ASSUME commStep \in RceNames
  PROVE  CommandAfter[commStep] \in RceNames \cup {"running", "idle"}
BY CommandsAre

LEMMA ControlTyped ==
  ASSUME ControlTypeOK, [ControlNext]_controlVars
  PROVE  ControlTypeOK'
<1>1. CASE UNCHANGED controlVars
  <2>1. UNCHANGED <<commStep, awaiting, commOpen, inbox, replies, pieces, commands, trials, dpm,
                    refusals, unasked, rceStarts, verdict, enabling>>
    BY <1>1 DEF controlVars, wires, dpmSide, startVars
  <2>. QED BY <2>1 DEF ControlTypeOK
<1>2. CASE ConnectRce \/ ConnectRceFails \/ StartBoard \/ StopBoard
  <2>1. commStep' \in RceNames \cup {"failed"} /\ commOpen' \in BOOLEAN
    <3>1. commStep' \in {"flush", "failed", "wibOn", "hlsBlow"}
      BY <1>2, PlacesMoved
    <3>2. commOpen' \in BOOLEAN
      BY <1>2 DEF ControlTypeOK, ConnectRce, ConnectRceFails, StartBoard, StopBoard
    <3>. QED BY <3>1, <3>2, CommandsAre
  <2>2. trials' \in Nat /\ rceStarts' \in Nat /\ enabling' \in BOOLEAN
    <3>1. trials \in Nat /\ rceStarts \in Nat /\ enabling \in BOOLEAN
      BY DEF ControlTypeOK
    <3>2. /\ trials' = trials \/ trials' = 0
          /\ rceStarts' = rceStarts \/ rceStarts' = rceStarts + 1
          /\ enabling' = enabling \/ enabling' = FALSE
      BY <1>2, PlacesMoved
    <3>3. trials' \in Nat /\ rceStarts' \in Nat
      BY <3>1, <3>2
    <3>4. enabling' \in BOOLEAN
      BY <3>1, <3>2, Zenon
    <3>. QED BY <3>3, <3>4
  <2>5. verdict' \in Seq(Readings)
    <3>1. verdict' = verdict \/ verdict' = <<>>
      BY <1>2, PlacesMoved
    <3>2. verdict \in Seq(Readings) /\ <<>> \in Seq(Readings)
      BY DEF ControlTypeOK
    <3>. QED BY <3>1, <3>2
  <2>3. ~awaiting /\ ~awaiting'
        /\ UNCHANGED <<inbox, replies, pieces, commands, dpm, refusals, unasked>>
    BY <1>2, PlacesMoved
  <2>4. awaiting' = FALSE
    BY <2>3, <1>2 DEF ControlTypeOK, ConnectRce, ConnectRceFails, StartBoard, StopBoard
  <2>. QED BY <2>1, <2>2, <2>3, <2>4, <2>5 DEF ControlTypeOK
<1>3. CASE SendToRce
  <2>1. \A i \in 1..Len(inbox') : inbox'[i].name # "none"
    <3>1. /\ Len(inbox) \in Nat /\ Len(inbox') = Len(inbox) + 1 /\ commStep \in RceNames
          /\ \A i \in 1..Len(inbox) : inbox'[i] = inbox[i]
          /\ inbox'[Len(inbox')].name = commStep
      BY <1>3, CommandSent
    <3>2. \A i \in 1..Len(inbox') : i \in 1..Len(inbox) \/ i = Len(inbox')
      BY <3>1
    <3>3. commStep # "none"
      BY <3>1, CommandsAre
    <3>. QED BY <3>1, <3>2, <3>3 DEF ControlTypeOK
  <2>2. awaiting' = TRUE /\ enabling' \in BOOLEAN
    BY <1>3 DEF SendToRce, ControlTypeOK
  <2>3. commands' \in Nat /\ inbox' \in Seq(CommandUnits) /\ commStep' \in RceNames /\ commOpen
    BY <1>3, CommandSent DEF ControlTypeOK
  <2>4. UNCHANGED <<commOpen, replies, pieces, dpm, refusals, unasked, trials, rceStarts, verdict>>
    BY <1>3, CommandSent
  <2>. QED BY <2>1, <2>2, <2>3, <2>4 DEF ControlTypeOK
<1>4. CASE DeadlinePasses
  <2>1. \A i \in 1..Len(inbox') : inbox'[i].name # "none"
    BY <1>4, Cut DEF ControlTypeOK
  <2>2. awaiting' = FALSE /\ commOpen' = FALSE
    BY <1>4 DEF DeadlinePasses, ClosesComm
  <2>3. inbox' \in Seq(CommandUnits) /\ commStep' \in RceNames \cup {"idle", "running", "failed"}
    BY <1>4, Cut, ExcusedIs, CommandsAre
  <2>4. UNCHANGED <<replies, pieces, commands, dpm, refusals, unasked, trials, rceStarts, verdict,
                    enabling>>
    BY <1>4, Cut
  <2>. QED BY <2>1, <2>2, <2>3, <2>4 DEF ControlTypeOK
<1>5. CASE SendFails
  <2>1. commStep' \in RceNames \cup {"idle", "running", "failed"} /\ ~awaiting
    BY <1>5, Refused, ExcusedIs, CommandsAre DEF ControlTypeOK
  <2>2. UNCHANGED <<awaiting, commOpen, inbox, replies, pieces, commands, dpm, refusals, unasked,
                    trials, rceStarts, verdict, enabling>>
    BY <1>5, Refused
  <2>. QED BY <2>1, <2>2 DEF ControlTypeOK
<1>6. CASE ReadAnswer
  <2>1. awaiting' = FALSE /\ commStep' \in RceNames \cup {"running", "idle"}
    BY <1>6, AnswerRead, NextCommand DEF ReadAnswer, ReadsTo
  <2>2. pieces' \in Seq(Chunks)
    BY <1>6, AnswerRead, ReadTo
  <2>3. UNCHANGED <<commOpen, inbox, replies, commands, dpm, refusals, unasked, rceStarts,
                    enabling, trials, verdict>>
    BY <1>6, AnswerRead
  <2>. QED BY <2>1, <2>2, <2>3 DEF ControlTypeOK
<1>7. CASE CheckStatus
  <2>1. commStep' \in RceNames \cup {"failed"} /\ trials' \in Nat /\ verdict' \in Seq(Readings)
    BY <1>7, StatusTaken, CommandsAre DEF ControlTypeOK
  <2>2. pieces' \in Seq(Chunks)
    BY <1>7, StatusTaken, ReadTo
  <2>3. UNCHANGED <<commOpen, inbox, replies, commands, dpm, refusals, unasked, rceStarts, enabling>>
    BY <1>7, StatusTaken
  <2>4. awaiting' = FALSE
    BY <1>7 DEF CheckStatus, ReadsTo
  <2>. QED BY <2>1, <2>2, <2>3, <2>4 DEF ControlTypeOK
<1>8. CASE DpmAnswers
  <2>1. inbox' \in Seq(CommandUnits) /\ \A i \in 1..Len(inbox') : inbox'[i].name # "none"
    <3>1. inbox' \in Seq(CommandUnits) /\ Len(inbox') = Len(inbox) - 1 /\ Len(inbox) \in Nat
          /\ \A i \in 1..Len(inbox') : inbox'[i] = inbox[i + 1]
      BY <1>8, DpmTakes
    <3>2. \A i \in 1..Len(inbox') : i + 1 \in 1..Len(inbox)
      BY <3>1
    <3>. QED BY <3>1, <3>2 DEF ControlTypeOK
  <2>2. dpm' \in DpmSet /\ refusals' \subseteq RceNames
    BY <1>8, DpmTakes, ObeysTyped DEF ControlTypeOK
  <2>3. replies' \in Seq(Chunks)
    BY <1>8, DpmTakes, Spoken
  <2>4. UNCHANGED <<commStep, awaiting, commOpen, pieces, commands, unasked, trials, rceStarts,
                    verdict, enabling>>
    BY <1>8, DpmTakes
  <2>. QED BY <2>1, <2>2, <2>3, <2>4 DEF ControlTypeOK
<1>9. CASE DpmSpeaks
  <2>1. replies' \in Seq(Chunks) /\ unasked' \in Nat
    <3>1. [name |-> "none", id |-> 0] \in CommandUnits
      BY DEF CommandUnits
    <3>2. replies' = replies \o Message([name |-> "none", id |-> 0], {}) /\ pieces' = pieces
      BY <1>9 DEF DpmSpeaks
    <3>3. {} \in SUBSET Streams
      OBVIOUS
    <3>4. replies' \in Seq(Chunks)
      BY <3>1, <3>2, <3>3, Spoken
    <3>5. unasked' \in Nat
      BY <1>9 DEF DpmSpeaks, ControlTypeOK
    <3>. QED BY <3>4, <3>5
  <2>2. UNCHANGED <<commStep, awaiting, commOpen, inbox, pieces, commands, dpm, refusals, trials,
                    rceStarts, verdict, enabling>>
    BY <1>9 DEF DpmSpeaks, startVars
  <2>. QED BY <2>1, <2>2 DEF ControlTypeOK
<1>10. CASE PieceArrives
  <2>1. UNCHANGED <<commStep, awaiting, commOpen, inbox, commands, dpm, refusals, unasked, trials,
                    rceStarts, verdict, enabling>>
    BY <1>10 DEF PieceArrives, startVars, dpmSide
  <2>2. pieces' \in Seq(Chunks) /\ replies' \in Seq(Chunks)
    BY <1>10, Shifted
  <2>. QED BY <2>1, <2>2 DEF ControlTypeOK
<1>. QED BY <1>1, <1>2, <1>3, <1>4, <1>5, <1>6, <1>7, <1>8, <1>9, <1>10 DEF ControlNext

LEMMA PlacesAre ==
  /\ LetIn = {"wibOn", "hlsOn"} /\ BlowOff = {"hlsBlow", "wibBlow", "Stopped"}
  /\ DOMAIN Before = {"connect", "flush", "reset", "hlsOff", "wibOff", "run_mode", "emul",
                      "partition", "enable_rssi", "daq_host", "readout"}
BY DEF LetIn, BlowOff, Before

\* what leaves the places and the history of the starts alone
LEMMA BoardMoves ==
  ASSUME DpmSpeaks \/ PieceArrives
  PROVE  /\ commOpen
         /\ UNCHANGED <<commStep, awaiting, commOpen, inbox, commands, dpm, refusals, trials,
                        rceStarts, verdict, enabling>>
<1>1. CASE DpmSpeaks
  BY <1>1 DEF DpmSpeaks, startVars
<1>2. CASE PieceArrives
  BY <1>2 DEF PieceArrives, startVars, dpmSide
<1>. QED BY <1>1, <1>2

LEMMA AtFirstKept ==
  ASSUME ControlTypeOK, AtFirst, ControlNext
  PROVE  AtFirst'
<1> USE PlacesAre
<1>1. CASE ConnectRce \/ ConnectRceFails \/ StartBoard \/ StopBoard
  <2>1. commStep' # "connect"
    BY <1>1, PlacesMoved
  <2>2. commStep' \in DOMAIN Before => rceStarts' = 0 /\ ~enabling'
    BY <1>1, PlacesMoved DEF AtFirst
  <2>3. commStep' \in LetIn \cup BlowOff \cup {"status", "Enable", "running"} => rceStarts' > 0
    <3>1. rceStarts \in Nat
      BY DEF ControlTypeOK
    <3>2. CASE commStep' = "wibOn"
      <4>1. rceStarts' = rceStarts + 1
        BY <3>2, <1>1, PlacesMoved
      <4>. QED BY <3>1, <4>1
    <3>3. CASE commStep' # "wibOn"
      BY <3>3, <1>1, PlacesMoved DEF AtFirst
    <3>. QED BY <3>2, <3>3
  <2>. QED BY <2>1, <2>2, <2>3 DEF AtFirst
<1>2. CASE SendToRce
  <2>1. commStep \in RceNames /\ commStep' = commStep /\ rceStarts' = rceStarts
        /\ enabling' = (enabling \/ commStep = "Enable")
    BY <1>2, CommandSent
  <2>. QED BY <2>1, CommandsAre DEF AtFirst
<1>3. CASE DeadlinePasses \/ SendFails
  <2>1. commStep \in RceNames /\ commStep' = Excused /\ rceStarts' = rceStarts
    BY <1>3, Cut, Refused
  <2>2. commStep' \notin DOMAIN Before
    BY <2>1, ExcusedIs
  <2>3. commStep' \in {"status", "running"} => commStep \in LetIn \cup {"Enable"}
    BY <2>1, ExcusedIs
  <2>. QED BY <2>1, <2>2, <2>3, ExcusedIs DEF AtFirst
<1>4. CASE ReadAnswer
  <2>1. /\ commStep \in RceNames /\ commStep' = CommandAfter[commStep]
        /\ UNCHANGED <<rceStarts, enabling>> /\ commStep # "status"
    BY <1>4, AnswerRead
  <2>2. commStep' # "connect"
    BY <2>1, NextCommand, CommandsAre
  <2>3. commStep' \in DOMAIN Before => commStep \in DOMAIN Before
    BY <2>1, CommandsAre
  <2>4. commStep' \in LetIn \cup BlowOff \cup {"status", "Enable", "running"} =>
          commStep \in LetIn \cup BlowOff \cup {"status", "Enable", "running"}
    BY <2>1, CommandsAre
  <2>. QED BY <2>1, <2>2, <2>3, <2>4 DEF AtFirst
<1>5. CASE CheckStatus
  <2>1. commStep = "status" /\ commStep' \in {"failed", "Enable", "status"}
        /\ rceStarts' = rceStarts
    BY <1>5, StatusTaken
  <2>. QED BY <2>1 DEF AtFirst
<1>6. CASE DpmAnswers
  BY <1>6, DpmTakes DEF AtFirst
<1>7. CASE DpmSpeaks \/ PieceArrives
  BY <1>7, BoardMoves DEF AtFirst
<1>. QED BY <1>1, <1>2, <1>3, <1>4, <1>5, <1>6, <1>7 DEF ControlNext

LEMMA DecidedKept ==
  ASSUME ControlTypeOK, AtFirst, Demanded, StatusUnderWay, DecidedRight, ControlNext
  PROVE  DecidedRight'
<1> USE PlacesAre
<1>1. CASE ConnectRce \/ ConnectRceFails \/ StartBoard \/ StopBoard
  <2>1. enabling' => enabling /\ commStep = "running" /\ commStep' = "hlsBlow"
    BY <1>1, PlacesMoved DEF AtFirst
  <2>2. commStep' # "Enable"
    BY <1>1, PlacesMoved
  <2>3. enabling' => UNCHANGED <<trials, verdict, refusals, inbox>>
    BY <2>1, <1>1, PlacesMoved
  <2>. QED BY <2>1, <2>2, <2>3 DEF DecidedRight, Enables
<1>2. CASE SendToRce
  <2>1. /\ enabling' = (enabling \/ commStep = "Enable") /\ commStep \in RceNames
        /\ UNCHANGED <<commStep, trials, verdict, refusals>>
    BY <1>2, CommandSent
  <2>2. Enables' => Enables /\ commStep \in {"Enable"} \cup BlowOff
    BY <2>1, CommandsAre DEF DecidedRight, Enables
  <2>3. ASSUME Enables'
        PROVE  \A i \in 1..Len(inbox') : inbox'[i].name \notin LetIn
    <3>1. /\ Len(inbox) \in Nat /\ Len(inbox') = Len(inbox) + 1
          /\ \A i \in 1..Len(inbox) : inbox'[i] = inbox[i]
          /\ inbox'[Len(inbox')].name = commStep
      BY <1>2, CommandSent
    <3>2. \A i \in 1..Len(inbox) : inbox[i].name \notin LetIn
      BY <2>2, <2>3 DEF DecidedRight
    <3>3. \A i \in 1..Len(inbox') : i \in 1..Len(inbox) \/ i = Len(inbox')
      BY <3>1
    <3>4. commStep \notin LetIn
      BY <2>2, <2>3
    <3>. QED BY <3>1, <3>2, <3>3, <3>4
  <2>4. Enables' => commStep' \in {"Enable"} \cup BlowOff
    BY <2>1, <2>2
  <2>5. Enables' => /\ verdict' # <<>> /\ verdict'[1].id = verdict'[1].asked
                    /\ verdict'[1].pass \/ trials' = MaxTrials
                    /\ verdict'[1].open \/ refusals' \cap LetIn # {}
    BY <2>1, <2>2 DEF DecidedRight
  <2>. QED BY <2>3, <2>4, <2>5 DEF DecidedRight, Enables
<1>3. CASE DeadlinePasses \/ SendFails
  <2>1. /\ commStep \in RceNames /\ commStep' = Excused
        /\ UNCHANGED <<trials, verdict, refusals, enabling>>
    BY <1>3, Cut, Refused
  <2>2. Enables' => enabling /\ commStep \in {"Enable"} \cup BlowOff
    BY <2>1, ExcusedIs, CommandsAre DEF DecidedRight, Enables
  <2>3. Enables' => commStep' \in {"running", "idle"}
    BY <2>1, <2>2, ExcusedIs
  <2>4. ASSUME Enables'
        PROVE  \A i \in 1..Len(inbox') : inbox'[i].name \notin LetIn
    <3>1. \A i \in 1..Len(inbox) : inbox[i].name \notin LetIn
      BY <2>2, <2>4 DEF DecidedRight, Enables
    <3>2. CASE DeadlinePasses
      <4>1. /\ Len(inbox') <= Len(inbox) /\ Len(inbox) \in Nat /\ Len(inbox') \in Nat
            /\ \A i \in 1..Len(inbox') : inbox'[i] = inbox[i]
        BY <3>2, Cut
      <4>2. \A i \in 1..Len(inbox') : i \in 1..Len(inbox)
        BY <4>1
      <4>. QED BY <4>1, <4>2, <3>1
    <3>3. CASE SendFails
      BY <3>3, <3>1, Refused
    <3>. QED BY <3>2, <3>3, <1>3
  <2>5. Enables' => /\ verdict' # <<>> /\ verdict'[1].id = verdict'[1].asked
                    /\ verdict'[1].pass \/ trials' = MaxTrials
                    /\ verdict'[1].open \/ refusals' \cap LetIn # {}
    BY <2>1, <2>2 DEF DecidedRight, Enables
  <2>. QED BY <2>3, <2>4, <2>5 DEF DecidedRight, Enables
<1>4. CASE ReadAnswer
  <2>1. /\ commStep \in RceNames /\ commStep' = CommandAfter[commStep] /\ commStep # "status"
        /\ UNCHANGED <<trials, verdict, refusals, enabling, inbox>>
    BY <1>4, AnswerRead
  <2>2. commStep' # "Enable"
    BY <2>1, CommandsAre
  <2>3. Enables' => enabling
    BY <2>1, <2>2 DEF Enables
  <2>4. enabling => commStep \in {"Enable"} \cup BlowOff
    BY <2>1, CommandsAre DEF DecidedRight
  <2>5. commStep \in {"Enable"} \cup BlowOff => commStep' \in {"running", "idle"} \cup BlowOff
    BY <2>1, CommandsAre
  <2>. QED BY <2>1, <2>3, <2>4, <2>5 DEF DecidedRight, Enables
<1>5. CASE CheckStatus
  <2>1. commStep = "status" /\ awaiting /\ commOpen /\ enabling' = enabling /\ ~enabling
        /\ UNCHANGED <<inbox, refusals, dpm>>
    BY <1>5, StatusTaken DEF DecidedRight
  <2>2. ASSUME Enables'
        PROVE  /\ verdict' # <<>> /\ verdict'[1].id = verdict'[1].asked
               /\ verdict'[1].pass \/ trials' = MaxTrials
               /\ verdict'[1].open \/ refusals' \cap LetIn # {}
               /\ \A i \in 1..Len(inbox') : inbox'[i].name \notin LetIn
    <3>1. commStep' = "Enable"
      BY <2>1, <2>2 DEF Enables
    <3>2. /\ 2 \in DOMAIN pieces /\ ReadsTo(2) /\ pieces[1].of.name = "status"
          /\ verdict' # <<>>
          /\ verdict'[1].id = pieces[1].of.id /\ verdict'[1].asked = commands
          /\ verdict'[1].open <=> pieces[1].open
          /\ verdict'[1].pass \/ trials' = MaxTrials
      BY <3>1, <1>5, StatusTaken
    <3>3. OnWire[1] = pieces[1] /\ 1 \in 1..Len(OnWire)
      BY <3>2, ReadTo
    <3>4. /\ OnWire[1].of.id = commands /\ inbox = <<>> /\ (OnWire[1].open <=> LetsIn)
      BY <2>1, <3>2, <3>3 DEF StatusUnderWay
    <3>5. rceStarts > 0
      BY <2>1 DEF AtFirst
    <3>6. "wibOn" \in Demands /\ "hlsOn" \in Demands
      BY DEF Demands, About
    <3>7. Stands("wibOn") /\ Stands("hlsOn")
      BY <2>1, <3>5 DEF Stands, After
    <3>8. ~Coming("wibOn") /\ ~Coming("hlsOn")
      BY <3>4 DEF Coming
    <3>9. Reached("wibOn") /\ Reached("hlsOn")
      BY <2>1, <3>6, <3>7, <3>8 DEF Demanded
    <3>10. LetsIn \/ refusals \cap LetIn # {}
      BY <3>9 DEF Reached, About, Makes, LetsIn
    <3>. QED BY <2>1, <3>2, <3>3, <3>4, <3>10
  <2>. QED BY <2>1, <2>2 DEF DecidedRight
<1>6. CASE DpmAnswers
  <2>1. /\ Len(inbox) \in Nat \ {0} /\ Len(inbox') = Len(inbox) - 1
        /\ \A i \in 1..Len(inbox') : inbox'[i] = inbox[i + 1]
        /\ refusals' = refusals \ {inbox[1].name} \/ refusals' = refusals \cup {inbox[1].name}
        /\ UNCHANGED <<commStep, trials, verdict, enabling>>
    BY <1>6, DpmTakes
  <2>2. ASSUME Enables
        PROVE  /\ \A i \in 1..Len(inbox') : inbox'[i].name \notin LetIn
               /\ refusals \cap LetIn \subseteq refusals' \cap LetIn
    <3>1. \A i \in 1..Len(inbox) : inbox[i].name \notin LetIn
      BY <2>2 DEF DecidedRight
    <3>2. 1 \in 1..Len(inbox) /\ \A i \in 1..Len(inbox') : i + 1 \in 1..Len(inbox)
      BY <2>1
    <3>. QED BY <2>1, <3>1, <3>2
  <2>3. Enables' = Enables
    BY <2>1 DEF Enables
  <2>. QED BY <2>1, <2>2, <2>3 DEF DecidedRight
<1>7. CASE DpmSpeaks \/ PieceArrives
  BY <1>7, BoardMoves DEF DecidedRight, Enables
<1>. QED BY <1>1, <1>2, <1>3, <1>4, <1>5, <1>6, <1>7 DEF ControlNext

LEMMA DemandsAre ==
  /\ Demands = {"wibOn", "wibBlow", "hlsOn", "hlsBlow", "Enable", "Stopped"}
  /\ About["wibOn"] = "wib" /\ About["wibBlow"] = "wib" /\ About["hlsOn"] = "hls"
  /\ About["hlsBlow"] = "hls" /\ About["Enable"] = "run" /\ About["Stopped"] = "run"
  /\ Makes["wibOn"] = "on" /\ Makes["wibBlow"] = "off" /\ Makes["hlsOn"] = "on"
  /\ Makes["hlsBlow"] = "off" /\ Makes["Enable"] = "Enable" /\ Makes["Stopped"] = "Stopped"
  /\ Changes["wib"] = {"reset", "wibOff", "wibOn", "wibBlow"}
  /\ Changes["hls"] = {"reset", "hlsOff", "hlsOn", "hlsBlow"}
  /\ Changes["run"] = {"reset", "Enable", "Stopped"}
BY DEF Demands, About, Makes, Changes

LEMMA AfterIs ==
  /\ After["wibOn"] = {"hlsOn", "status", "Enable", "running"}
  /\ After["hlsOn"] = {"status", "Enable", "running"} /\ After["Enable"] = {"running"}
  /\ After["hlsBlow"] = {"wibBlow", "Stopped", "idle"} /\ After["wibBlow"] = {"Stopped", "idle"}
  /\ After["Stopped"] = {"idle"}
BY DEF After

\* a command sets the part that it is about and leaves the other parts
LEMMA ObeysIs ==
  ASSUME NEW name \in RceNames
  PROVE  /\ name = "reset" =>
              Obeys(name) = [obeyed |-> {"reset"}, wib |-> "other", hls |-> "other", run |-> "other"]
         /\ name \in Settings \ {"reset", "hlsOff", "wibOff"} =>
              Obeys(name) = [dpm EXCEPT !.obeyed = @ \cup {name}]
         /\ name \in {"hlsOff", "hlsBlow"} =>
              Obeys(name) = [dpm EXCEPT !.obeyed = @ \cup {"hlsOff"}, !.hls = "off"]
         /\ name \in {"wibOff", "wibBlow"} =>
              Obeys(name) = [dpm EXCEPT !.obeyed = @ \cup {"wibOff"}, !.wib = "off"]
         /\ name = "hlsOn" => Obeys(name) = [dpm EXCEPT !.hls = "on"]
         /\ name = "wibOn" => Obeys(name) = [dpm EXCEPT !.wib = "on"]
         /\ name \in {"Enable", "Stopped"} => Obeys(name) = [dpm EXCEPT !.run = name]
         /\ name \in {"flush", "status"} => Obeys(name) = dpm
<1>1. CASE name = "reset"
  BY <1>1 DEF Obeys, Settings
<1>2. CASE name \in Settings \ {"reset", "hlsOff", "wibOff"}
  BY <1>2 DEF Obeys, Settings
<1>3. CASE name \in {"hlsOff", "hlsBlow"}
  BY <1>3 DEF Obeys, Settings
<1>4. CASE name \in {"wibOff", "wibBlow"}
  BY <1>4 DEF Obeys, Settings
<1>5. CASE name \in {"hlsOn", "wibOn"}
  BY <1>5 DEF Obeys, Settings
<1>6. CASE name \in {"Enable", "Stopped"}
  BY <1>6 DEF Obeys, Settings
<1>7. CASE name \in {"flush", "status"}
  BY <1>7 DEF Obeys, Settings
<1>. QED BY <1>1, <1>2, <1>3, <1>4, <1>5, <1>6, <1>7, CommandsAre, SettingsAre

LEMMA EveryCommand ==
  ASSUME NEW name \in RceNames
  PROVE  \/ name = "reset" \/ name \in Settings \ {"reset", "hlsOff", "wibOff"}
         \/ name \in {"hlsOff", "hlsBlow"} \/ name \in {"wibOff", "wibBlow"}
         \/ name = "hlsOn" \/ name = "wibOn" \/ name \in {"Enable", "Stopped"}
         \/ name \in {"flush", "status"}
BY CommandsAre, SettingsAre

LEMMA FieldSet ==
  ASSUME NEW b \in DpmSet, NEW o, NEW v
  PROVE  LET x == [b EXCEPT !.obeyed = o]
             h == [b EXCEPT !.obeyed = o, !.hls = v]
             w == [b EXCEPT !.obeyed = o, !.wib = v]
             h1 == [b EXCEPT !.hls = v]
             w1 == [b EXCEPT !.wib = v]
             r1 == [b EXCEPT !.run = v]
         IN /\ x.wib = b.wib /\ x.hls = b.hls /\ x.run = b.run /\ x.obeyed = o
            /\ h.wib = b.wib /\ h.hls = v /\ h.run = b.run /\ h.obeyed = o
            /\ w.wib = v /\ w.hls = b.hls /\ w.run = b.run /\ w.obeyed = o
            /\ h1.wib = b.wib /\ h1.hls = v /\ h1.run = b.run /\ h1.obeyed = b.obeyed
            /\ w1.wib = v /\ w1.hls = b.hls /\ w1.run = b.run /\ w1.obeyed = b.obeyed
            /\ r1.wib = b.wib /\ r1.hls = b.hls /\ r1.run = v /\ r1.obeyed = b.obeyed
BY DEF DpmSet

\* each part of the board is changed by the commands for it alone; all but a reset keep what
\* the board obeyed, and a setting is obeyed
LEMMA PartsObey ==
  ASSUME dpm \in DpmSet, NEW name \in RceNames
  PROVE  /\ name \notin Changes["wib"] => Obeys(name).wib = dpm.wib
         /\ name \notin Changes["hls"] => Obeys(name).hls = dpm.hls
         /\ name \notin Changes["run"] => Obeys(name).run = dpm.run
         /\ name = "wibOn" => Obeys(name).wib = "on"
         /\ name = "wibBlow" => Obeys(name).wib = "off"
         /\ name = "hlsOn" => Obeys(name).hls = "on"
         /\ name = "hlsBlow" => Obeys(name).hls = "off"
         /\ name \in {"Enable", "Stopped"} => Obeys(name).run = name
         /\ name # "reset" => dpm.obeyed \subseteq Obeys(name).obeyed
         /\ name \in Settings => name \in Obeys(name).obeyed
<1> USE DemandsAre, SettingsAre
<1>1. CASE name = "reset"
  <2>1. Obeys(name) = [obeyed |-> {"reset"}, wib |-> "other", hls |-> "other", run |-> "other"]
    BY <1>1, ObeysIs
  <2>. QED BY <1>1, <2>1
<1>2. CASE name \in Settings \ {"reset", "hlsOff", "wibOff"}
  <2>1. Obeys(name) = [dpm EXCEPT !.obeyed = dpm.obeyed \cup {name}]
    BY <1>2, ObeysIs
  <2>2. /\ Obeys(name).wib = dpm.wib /\ Obeys(name).hls = dpm.hls /\ Obeys(name).run = dpm.run
        /\ Obeys(name).obeyed = dpm.obeyed \cup {name}
    BY <2>1, FieldSet
  <2>. QED BY <1>2, <2>2
<1>3. CASE name \in {"hlsOff", "hlsBlow"}
  <2>1. Obeys(name) = [dpm EXCEPT !.obeyed = dpm.obeyed \cup {"hlsOff"}, !.hls = "off"]
    BY <1>3, ObeysIs
  <2>2. /\ Obeys(name).wib = dpm.wib /\ Obeys(name).hls = "off" /\ Obeys(name).run = dpm.run
        /\ Obeys(name).obeyed = dpm.obeyed \cup {"hlsOff"}
    BY <2>1, FieldSet
  <2>. QED BY <1>3, <2>2
<1>4. CASE name \in {"wibOff", "wibBlow"}
  <2>1. Obeys(name) = [dpm EXCEPT !.obeyed = dpm.obeyed \cup {"wibOff"}, !.wib = "off"]
    BY <1>4, ObeysIs
  <2>2. /\ Obeys(name).wib = "off" /\ Obeys(name).hls = dpm.hls /\ Obeys(name).run = dpm.run
        /\ Obeys(name).obeyed = dpm.obeyed \cup {"wibOff"}
    BY <2>1, FieldSet
  <2>. QED BY <1>4, <2>2
<1>5. CASE name = "hlsOn"
  <2>1. Obeys(name) = [dpm EXCEPT !.hls = "on"]
    BY <1>5, ObeysIs
  <2>2. /\ Obeys(name).wib = dpm.wib /\ Obeys(name).hls = "on" /\ Obeys(name).run = dpm.run
        /\ Obeys(name).obeyed = dpm.obeyed
    BY <2>1, FieldSet
  <2>. QED BY <1>5, <2>2
<1>6. CASE name = "wibOn"
  <2>1. Obeys(name) = [dpm EXCEPT !.wib = "on"]
    BY <1>6, ObeysIs
  <2>2. /\ Obeys(name).wib = "on" /\ Obeys(name).hls = dpm.hls /\ Obeys(name).run = dpm.run
        /\ Obeys(name).obeyed = dpm.obeyed
    BY <2>1, FieldSet
  <2>. QED BY <1>6, <2>2
<1>7. CASE name \in {"Enable", "Stopped"}
  <2>1. Obeys(name) = [dpm EXCEPT !.run = name]
    BY <1>7, ObeysIs
  <2>2. /\ Obeys(name).wib = dpm.wib /\ Obeys(name).hls = dpm.hls /\ Obeys(name).run = name
        /\ Obeys(name).obeyed = dpm.obeyed
    BY <2>1, FieldSet
  <2>. QED BY <1>7, <2>2
<1>8. CASE name \in {"flush", "status"}
  BY <1>8, ObeysIs
<1>. QED BY <1>1, <1>2, <1>3, <1>4, <1>5, <1>6, <1>7, <1>8, EveryCommand

LEMMA DemandMade ==
  ASSUME dpm \in DpmSet, NEW n \in Demands
  PROVE  Obeys(n)[About[n]] = Makes[n] /\ n \in Changes[About[n]] /\ n \in RceNames
<1>1. n \in RceNames
  BY DemandsAre, CommandsAre
<1>2. n \in Changes[About[n]]
  BY DemandsAre
<1>. QED BY <1>1, <1>2, PartsObey, DemandsAre

LEMMA OthersLeft ==
  ASSUME dpm \in DpmSet, NEW name \in RceNames, NEW n \in Demands, name \notin Changes[About[n]]
  PROVE  Obeys(name)[About[n]] = dpm[About[n]]
BY PartsObey, DemandsAre

LEMMA DemandedKept ==
  ASSUME ControlTypeOK, AtFirst, Demanded, ControlNext
  PROVE  Demanded'
<1> SUFFICES ASSUME commOpen', NEW n \in Demands, Stands(n)'
             PROVE  Coming(n)' \/ Reached(n)'
  BY DEF Demanded
<1> USE PlacesAre
<1>1. CASE ConnectRce \/ ConnectRceFails \/ StartBoard \/ StopBoard
  <2>1. ~awaiting' /\ (commStep' \in {"failed", "wibOn", "hlsBlow", "flush"})
    BY <1>1, PlacesMoved
  <2>2. commStep' \in After[n]
    BY <2>1 DEF Stands
  <2>. QED BY <2>1, <2>2, AfterIs, DemandsAre
<1>2. CASE SendToRce
  <2>1. /\ Len(inbox) \in Nat /\ Len(inbox') = Len(inbox) + 1 /\ commStep \in RceNames
        /\ \A i \in 1..Len(inbox) : inbox'[i] = inbox[i]
        /\ inbox'[Len(inbox')].name = commStep /\ commOpen
        /\ UNCHANGED <<commStep, rceStarts, dpm, refusals>>
    BY <1>2, CommandSent
  <2>2. CASE commStep = n
    <3>1. Len(inbox') \in 1..Len(inbox') /\ \A j \in 1..Len(inbox') : ~(j > Len(inbox'))
      BY <2>1
    <3>. QED BY <2>1, <2>2, <3>1 DEF Coming
  <2>3. CASE commStep # n
    <3>1. commStep \in After[n] /\ rceStarts > 0
      BY <2>1, <2>3 DEF Stands
    <3>2. commStep \notin Changes[About[n]]
      BY <3>1, <2>1, AfterIs, DemandsAre
    <3>3. \A i \in 1..Len(inbox') : i \in 1..Len(inbox) \/ i = Len(inbox')
      BY <2>1
    <3>4. \A i \in 1..Len(inbox) : i \in 1..Len(inbox')
      BY <2>1
    <3>5. Coming(n) \/ Reached(n)
      BY <2>1, <3>1 DEF Demanded, Stands
    <3>6. Coming(n) => Coming(n)'
      BY <2>1, <3>2, <3>3, <3>4 DEF Coming
    <3>7. Reached(n) => Reached(n)'
      BY <2>1, <3>2, <3>3 DEF Reached
    <3>. QED BY <3>5, <3>6, <3>7
  <2>. QED BY <2>2, <2>3
<1>3. CASE DeadlinePasses \/ SendFails
  BY <1>3, Cut, Refused
<1>4. CASE ReadAnswer \/ CheckStatus
  <2>1. /\ awaiting /\ ~awaiting' /\ commOpen /\ commStep \in RceNames
        /\ UNCHANGED <<inbox, dpm, refusals, rceStarts>>
    BY <1>4, AnswerRead, StatusTaken, CommandsAre
  <2>2. commStep' \in After[n] /\ rceStarts > 0
    BY <2>1 DEF Stands
  <2>3. commStep = n \/ commStep \in After[n]
    <3>1. CASE ReadAnswer
      <4>1. commStep' = CommandAfter[commStep] /\ commStep # "readout"
        BY <3>1, <2>2, AnswerRead DEF AtFirst
      <4>. QED BY <4>1, <2>1, <2>2, AfterIs, DemandsAre, CommandsAre
    <3>2. CASE CheckStatus
      <4>1. commStep = "status" /\ commStep' \in {"failed", "Enable", "status"}
        BY <3>2, StatusTaken
      <4>. QED BY <4>1, <2>2, AfterIs, DemandsAre
    <3>. QED BY <1>4, <3>1, <3>2
  <2>4. Coming(n) \/ Reached(n)
    BY <2>1, <2>2, <2>3 DEF Demanded, Stands
  <2>. QED BY <2>1, <2>4 DEF Coming, Reached
<1>6. CASE DpmAnswers
  <2>1. /\ Len(inbox) \in Nat \ {0} /\ Len(inbox') = Len(inbox) - 1
        /\ inbox[1].name \in RceNames
        /\ \A i \in 1..Len(inbox') : inbox'[i] = inbox[i + 1]
        /\ \/ dpm' = Obeys(inbox[1].name) /\ refusals' = refusals \ {inbox[1].name}
           \/ refusals' = refusals \cup {inbox[1].name} /\ dpm' = dpm
        /\ UNCHANGED <<commStep, awaiting, commOpen, rceStarts>>
    BY <1>6, DpmTakes
  <2>2. dpm \in DpmSet
    BY DEF ControlTypeOK
  <2>3. Coming(n) \/ Reached(n)
    BY <2>1 DEF Demanded, Stands
  <2>4. \A i \in 1..Len(inbox') : i + 1 \in 1..Len(inbox)
    BY <2>1
  <2>5. CASE Reached(n)
    <3>1. inbox[1].name \notin Changes[About[n]] /\ inbox[1].name # n
      BY <2>1, <2>5, <2>2, DemandMade DEF Reached
    <3>2. dpm'[About[n]] = dpm[About[n]]
      BY <2>1, <2>2, <3>1, OthersLeft
    <3>3. \A i \in 1..Len(inbox') : inbox'[i].name \notin Changes[About[n]]
      BY <2>1, <2>4, <2>5 DEF Reached
    <3>. QED BY <2>1, <2>5, <3>1, <3>2, <3>3 DEF Reached
  <2>6. CASE Coming(n)
    <3>1. PICK i \in 1..Len(inbox) :
            inbox[i].name = n /\ \A j \in 1..Len(inbox) :
              j > i => inbox[j].name \notin Changes[About[n]]
      BY <2>6 DEF Coming
    <3>2. CASE i = 1
      <4>1. \A k \in 1..Len(inbox') : k + 1 \in 1..Len(inbox) /\ k + 1 > 1
        BY <2>1
      <4>2. \A k \in 1..Len(inbox') : inbox'[k].name \notin Changes[About[n]]
        BY <2>1, <3>1, <3>2, <4>1
      <4>3. dpm'[About[n]] = Makes[n] \/ n \in refusals'
        BY <2>1, <2>2, <3>1, <3>2, DemandMade
      <4>. QED BY <4>2, <4>3 DEF Reached
    <3>3. CASE i # 1
      <4>1. i - 1 \in 1..Len(inbox') /\ (i - 1) + 1 = i
        BY <2>1, <3>3
      <4>2. \A j \in 1..Len(inbox') : j > i - 1 => j + 1 \in 1..Len(inbox) /\ j + 1 > i
        BY <2>1
      <4>3. inbox'[i - 1].name = n
        BY <2>1, <3>1, <4>1
      <4>4. \A j \in 1..Len(inbox') : j > i - 1 => inbox'[j].name \notin Changes[About[n]]
        BY <2>1, <3>1, <4>2
      <4>. QED BY <4>1, <4>3, <4>4 DEF Coming
    <3>. QED BY <3>2, <3>3
  <2>. QED BY <2>3, <2>5, <2>6
<1>7. CASE DpmSpeaks \/ PieceArrives
  BY <1>7, BoardMoves DEF Demanded, Stands, Coming, Reached
<1>. QED BY <1>1, <1>2, <1>3, <1>4, <1>6, <1>7 DEF ControlNext

\* without a status asked for none is under way
NoStatus(s) == \A i \in 1..Len(s) : s[i].of.name # "status"
NoneAsked(s) == \A i \in 1..Len(s) : s[i].name # "status"

LEMMA NoneUnderWay ==
  ASSUME StatusUnderWay, commOpen, commStep # "failed", ~AtStatus
  PROVE  NoStatus(OnWire) /\ NoneAsked(inbox)
BY DEF StatusUnderWay, NoStatus, NoneAsked

LEMMA NothingUnderWay ==
  ASSUME NoStatus(OnWire'), NoneAsked(inbox')
  PROVE  StatusUnderWay'
BY DEF StatusUnderWay, NoStatus, NoneAsked

LEMMA StatusKept ==
  ASSUME ControlTypeOK, AtFirst, StatusUnderWay, ControlNext
  PROVE  StatusUnderWay'
<1> SUFFICES ASSUME commOpen', commStep' # "failed"
             PROVE  StatusUnderWay'
  BY DEF StatusUnderWay
<1>1. CASE ConnectRce \/ ConnectRceFails \/ StartBoard \/ StopBoard
  <2>1. ~awaiting /\ inbox' = inbox /\ OnWire' = OnWire
    BY <1>1, PlacesMoved DEF OnWire
  <2>2. NoStatus(OnWire) /\ NoneAsked(inbox)
    <3>1. CASE commStep = "connect"
      BY <3>1 DEF AtFirst, NoStatus, NoneAsked
    <3>2. CASE commStep # "connect"
      <4>1. commOpen /\ commStep # "failed"
        BY <3>2, <1>1, PlacesMoved
      <4>. QED BY <4>1, <2>1, NoneUnderWay DEF AtStatus
    <3>. QED BY <3>1, <3>2
  <2>. QED BY <2>1, <2>2, NothingUnderWay
<1>2. CASE SendToRce
  <2>1. /\ Len(inbox) \in Nat /\ Len(inbox') = Len(inbox) + 1 /\ commStep \in RceNames
        /\ \A i \in 1..Len(inbox) : inbox'[i] = inbox[i] /\ commOpen /\ ~awaiting /\ awaiting'
        /\ inbox'[Len(inbox')].name = commStep /\ inbox'[Len(inbox')].id = commands'
        /\ UNCHANGED <<commStep, replies, pieces>>
    BY <1>2, CommandSent
  <2>2. NoStatus(OnWire) /\ NoneAsked(inbox) /\ OnWire' = OnWire
    <3>1. commOpen /\ ~awaiting
      BY <1>2, CommandSent
    <3>. QED BY <2>1, <3>1, NoneUnderWay DEF AtStatus, OnWire
  <2>3. \A i \in 1..Len(inbox') : i \in 1..Len(inbox) \/ i = Len(inbox')
    BY <2>1
  <2>4. \A i \in 1..Len(inbox') : inbox'[i].name = "status" => i = Len(inbox') /\ commStep = "status"
    BY <2>1, <2>2, <2>3 DEF NoneAsked
  <2>5. AtStatus' <=> commStep = "status"
    BY <1>2, <2>1, CommandSent DEF AtStatus
  <2>. QED BY <2>1, <2>2, <2>4, <2>5 DEF StatusUnderWay, NoStatus
<1>3. CASE DeadlinePasses \/ SendFails
  BY <1>3, Cut, Refused
<1>4. CASE ReadAnswer
  <2>1. commOpen /\ commStep \in RceNames /\ commStep # "status" /\ inbox' = inbox
    BY <1>4, AnswerRead
  <2>2. NoStatus(OnWire) /\ NoneAsked(inbox)
    BY <2>1, CommandsAre, NoneUnderWay DEF AtStatus
  <2>3. PICK n \in DOMAIN pieces : ReadsTo(n)
    BY <1>4, AnswerRead
  <2>4. /\ n \in Nat /\ Len(OnWire) \in Nat /\ n <= Len(OnWire) /\ Len(OnWire') = Len(OnWire) - n
        /\ \A i \in 1..Len(OnWire') : OnWire'[i] = OnWire[i + n]
    BY <2>3, ReadTo
  <2>5. \A i \in 1..Len(OnWire') : i + n \in 1..Len(OnWire)
    BY <2>4
  <2>6. NoStatus(OnWire')
    BY <2>2, <2>4, <2>5 DEF NoStatus
  <2>. QED BY <2>1, <2>2, <2>6, NothingUnderWay
<1>5. CASE CheckStatus
  <2>1. /\ 2 \in DOMAIN pieces /\ ReadsTo(2) /\ commOpen /\ commStep = "status" /\ inbox' = inbox
        /\ pieces[1].of.name = "status" /\ pieces[2].of = pieces[1].of
    BY <1>5, StatusTaken
  <2>2. /\ Len(OnWire) \in Nat /\ 2 <= Len(OnWire) /\ Len(OnWire') = Len(OnWire) - 2
        /\ \A i \in 1..Len(OnWire') : OnWire'[i] = OnWire[i + 2]
        /\ \A i \in 1..2 : OnWire[i] = pieces[i]
    BY <2>1, ReadTo
  <2>3. 1 \in 1..Len(OnWire) /\ OnWire[1].of.name = "status"
    BY <2>1, <2>2
  <2>4. inbox = <<>> /\ \A j \in 1..Len(OnWire) :
                         OnWire[j].of.name = "status" => 1 = j \/ 1 = j + 1 \/ j = 2
    BY <2>1, <2>3 DEF StatusUnderWay
  <2>5. \A i \in 1..Len(OnWire') : /\ i + 2 \in 1..Len(OnWire)
                                  /\ ~(1 = i + 2 \/ 1 = (i + 2) + 1 \/ i + 2 = 2)
    BY <2>2
  <2>6. NoStatus(OnWire')
    BY <2>2, <2>4, <2>5 DEF NoStatus
  <2>7. NoneAsked(inbox')
    BY <2>1, <2>4 DEF NoneAsked
  <2>. QED BY <2>6, <2>7, NothingUnderWay
<1>6. CASE DpmAnswers
  <2>1. /\ Len(inbox) \in Nat \ {0} /\ Len(inbox') = Len(inbox) - 1 /\ inbox \in Seq(CommandUnits)
        /\ inbox[1] \in CommandUnits /\ inbox[1].name \in RceNames /\ inbox # <<>>
        /\ \A i \in 1..Len(inbox') : inbox'[i] = inbox[i + 1]
        /\ inbox' \in Seq(CommandUnits)
        /\ \E flowing \in SUBSET Streams : replies' = replies \o Message(inbox[1], flowing)
        /\ UNCHANGED <<commStep, awaiting, commOpen, pieces, commands>>
    BY <1>6, DpmTakes DEF ControlTypeOK
  <2>2. /\ Len(OnWire) \in Nat /\ Len(OnWire') = Len(OnWire) + 2
        /\ \A i \in 1..Len(OnWire) : OnWire'[i] = OnWire[i]
    BY <2>1, Spoken
  <2>8. \A k \in {1, 2} : /\ OnWire'[Len(OnWire) + k].of = inbox[1]
                          /\ OnWire'[Len(OnWire) + k].open <=> LetsIn
    BY <2>1, Spoken
  <2>3. \A i \in 1..Len(OnWire') : i \in 1..Len(OnWire) \/ \E k \in {1, 2} : i = Len(OnWire) + k
    <3> TAKE i \in 1..Len(OnWire')
    <3>1. i \in 1..Len(OnWire) \/ i = Len(OnWire) + 1 \/ i = Len(OnWire) + 2
      BY <2>2
    <3>. QED BY <3>1
  <2>4. commOpen /\ commStep # "failed" /\ 1 \in 1..Len(inbox)
    BY <2>1
  <2>5. NoStatus(OnWire)
    BY <2>1, <2>4 DEF StatusUnderWay, NoStatus
  <2>6. CASE inbox[1].name = "status"
    <3>1. AtStatus /\ inbox[1].id = commands /\ 1 = Len(inbox)
      BY <2>4, <2>6 DEF StatusUnderWay
    <3>2. Len(inbox') = 0 /\ inbox' = <<>>
      BY <3>1, <2>1
    <3>3. dpm' = dpm
      <4>1. dpm' = Obeys("status") \/ dpm' = dpm
        BY <1>6, <2>6, DpmTakes
      <4>2. "status" \in RceNames
        BY CommandsAre
      <4>. QED BY <4>1, <4>2, ObeysIs
    <3>4. AtStatus' /\ commands' = commands /\ (LetsIn' <=> LetsIn)
      BY <3>1, <3>3, <2>1 DEF AtStatus, LetsIn
    <3>5. ASSUME NEW i \in 1..Len(OnWire'), OnWire'[i].of.name = "status"
          PROVE  /\ i \in {Len(OnWire) + 1, Len(OnWire) + 2}
                 /\ OnWire'[i].of.id = commands /\ (OnWire'[i].open <=> LetsIn)
      <4>1. i \notin 1..Len(OnWire)
        BY <3>5, <2>2, <2>5 DEF NoStatus
      <4>2. PICK k \in {1, 2} : i = Len(OnWire) + k
        BY <4>1, <2>3
      <4>3. OnWire'[i].of = inbox[1] /\ (OnWire'[i].open <=> LetsIn)
        BY <4>2, <2>8, Zenon
      <4>4. i \in {Len(OnWire) + 1, Len(OnWire) + 2}
        BY <4>2
      <4>. QED BY <4>3, <4>4, <3>1
    <3>6. \A i, j \in {Len(OnWire) + 1, Len(OnWire) + 2} : i = j \/ i = j + 1 \/ j = i + 1
      BY <2>2
    <3>7. \A i \in 1..Len(inbox') : FALSE
      BY <3>2
    <3>8. (\A i \in 1..Len(OnWire) : OnWire[i].of.name = "status" =>
             /\ AtStatus /\ OnWire[i].of.id = commands /\ inbox = <<>>
             /\ OnWire[i].open <=> LetsIn
             /\ \A j \in 1..Len(OnWire) :
                  OnWire[j].of.name = "status" => i = j \/ i = j + 1 \/ j = i + 1)'
      <4> SUFFICES ASSUME NEW i \in 1..Len(OnWire'), OnWire'[i].of.name = "status"
                   PROVE  /\ AtStatus' /\ OnWire'[i].of.id = commands' /\ inbox' = <<>>
                          /\ OnWire'[i].open <=> LetsIn'
                          /\ \A j \in 1..Len(OnWire') :
                               OnWire'[j].of.name = "status" => i = j \/ i = j + 1 \/ j = i + 1
        BY Zenon
      <4>1. /\ i \in {Len(OnWire) + 1, Len(OnWire) + 2}
            /\ OnWire'[i].of.id = commands /\ (OnWire'[i].open <=> LetsIn)
        BY <3>5
      <4>2. \A j \in 1..Len(OnWire') :
              OnWire'[j].of.name = "status" => i = j \/ i = j + 1 \/ j = i + 1
        BY <4>1, <3>5, <3>6
      <4>. QED BY <4>1, <4>2, <3>2, <3>4
    <3>. QED BY <3>7, <3>8 DEF StatusUnderWay
  <2>7. CASE inbox[1].name # "status"
    <3>1. NoStatus(OnWire')
      <4> SUFFICES ASSUME NEW i \in 1..Len(OnWire')
                   PROVE  OnWire'[i].of.name # "status"
        BY DEF NoStatus
      <4>1. CASE i \in 1..Len(OnWire)
        BY <4>1, <2>2, <2>5 DEF NoStatus
      <4>2. CASE i \notin 1..Len(OnWire)
        <5>1. PICK k \in {1, 2} : i = Len(OnWire) + k
          BY <4>2, <2>3
        <5>3. OnWire'[i].of = inbox[1]
          BY <5>1, <2>8, Zenon
        <5>. QED BY <5>3, <2>7
      <4>. QED BY <4>1, <4>2
    <3>2. \A i \in 1..Len(inbox') : i + 1 \in 1..Len(inbox) /\ (i + 1 = Len(inbox) => i = Len(inbox'))
      BY <2>1
    <3>3. \A i \in 1..Len(inbox') : inbox'[i].name = "status" =>
            AtStatus /\ inbox'[i].id = commands /\ i = Len(inbox')
      BY <2>1, <2>4, <3>2 DEF StatusUnderWay
    <3>4. AtStatus' = AtStatus
      BY <2>1 DEF AtStatus
    <3>. QED BY <2>1, <3>1, <3>3, <3>4 DEF StatusUnderWay, NoStatus
  <2>. QED BY <2>6, <2>7
<1>7. CASE DpmSpeaks
  <2> DEFINE c == [name |-> "none", id |-> 0]
  <2>1. c \in CommandUnits /\ c.name # "status" /\ {} \in SUBSET Streams
    BY DEF CommandUnits
  <2>2. replies' = replies \o Message(c, {}) /\ pieces' = pieces
    BY <1>7 DEF DpmSpeaks
  <2> HIDE DEF c
  <2>3. /\ Len(OnWire) \in Nat /\ Len(OnWire') = Len(OnWire) + 2
        /\ \A i \in 1..Len(OnWire) : OnWire'[i] = OnWire[i]
        /\ \A k \in {1, 2} : OnWire'[Len(OnWire) + k].of = c
    BY <2>1, <2>2, Spoken
  <2>4. \A i \in 1..Len(OnWire') : i \in 1..Len(OnWire) \/ OnWire'[i].of = c
    <3> TAKE i \in 1..Len(OnWire')
    <3>1. i \in 1..Len(OnWire) \/ i = Len(OnWire) + 1 \/ i = Len(OnWire) + 2
      BY <2>3
    <3>. QED BY <3>1, <2>3
  <2>5. /\ UNCHANGED <<commStep, awaiting, commOpen, inbox, commands, dpm>>
    BY <1>7, BoardMoves
  <2>6. \A i \in 1..Len(OnWire') : OnWire'[i].of.name = "status" =>
          i \in 1..Len(OnWire) /\ OnWire'[i] = OnWire[i]
    BY <2>1, <2>3, <2>4
  <2>7. \A i \in 1..Len(OnWire) : i \in 1..Len(OnWire')
    BY <2>3
  <2>. QED BY <2>5, <2>6, <2>7 DEF StatusUnderWay, AtStatus, LetsIn
<1>8. CASE PieceArrives
  BY <1>8, Shifted, BoardMoves DEF StatusUnderWay, AtStatus, LetsIn
<1>. QED BY <1>1, <1>2, <1>3, <1>4, <1>5, <1>6, <1>7, <1>8 DEF ControlNext

LEMMA BeforeIs ==
  /\ Before["connect"] = {} /\ Before["flush"] = {} /\ Before["reset"] = {}
  /\ Before["hlsOff"] = {"reset"} /\ Before["wibOff"] = {"reset", "hlsOff"}
  /\ Before["run_mode"] = {"reset", "hlsOff", "wibOff"}
  /\ Before["emul"] = {"reset", "hlsOff", "wibOff", "run_mode"}
  /\ Before["partition"] = {"reset", "hlsOff", "wibOff", "run_mode", "emul"}
  /\ Before["enable_rssi"] = {"reset", "hlsOff", "wibOff", "run_mode", "emul", "partition"}
  /\ Before["daq_host"] =
       {"reset", "hlsOff", "wibOff", "run_mode", "emul", "partition", "enable_rssi"}
  /\ Before["readout"] = {"reset", "hlsOff", "wibOff", "run_mode", "emul", "partition",
                          "enable_rssi", "daq_host"}
BY DEF Before, Settings

LEMMA BeforeNext ==
  ASSUME NEW c \in DOMAIN Before \ {"connect", "readout"}
  PROVE  Before[CommandAfter[c]] = Before[c] \cup ({c} \cap Settings)
<1> USE PlacesAre, CommandsAre, BeforeIs, SettingsAre
<1>1. CASE c = "flush"
  BY <1>1
<1>7. CASE c = "reset"
  BY <1>7
<1>8. CASE c = "hlsOff"
  BY <1>8
<1>2. CASE c = "wibOff"
  BY <1>2
<1>9. CASE c = "run_mode"
  BY <1>9
<1>3. CASE c = "emul"
  BY <1>3
<1>4. CASE c = "partition"
  BY <1>4
<1>5. CASE c = "enable_rssi"
  BY <1>5
<1>6. CASE c = "daq_host"
  BY <1>6
<1>. QED BY <1>1, <1>2, <1>3, <1>4, <1>5, <1>6, <1>7, <1>8, <1>9

\* an answer read, the next command follows with the same settings sent
LEMMA SentGoesOn ==
  ASSUME commStep \in RceNames, awaiting, ~awaiting', commStep' = CommandAfter[commStep]
  PROVE  Told' = Told /\ (IsBuilt' => IsBuilt \/ Told = Settings)
<1> USE PlacesAre, CommandsAre, BeforeIs, SettingsAre
<1>1. CASE commStep \in DOMAIN Before \ {"readout"}
  <2>1. commStep \in DOMAIN Before \ {"connect", "readout"} /\ commStep' \in DOMAIN Before
    BY <1>1
  <2>2. Told' = Before[commStep'] /\ Told = Before[commStep] \cup ({commStep} \cap Settings)
    BY <2>1 DEF Told
  <2>3. Before[commStep'] = Before[commStep] \cup ({commStep} \cap Settings)
    BY <2>1, BeforeNext
  <2>. QED BY <2>1, <2>2, <2>3 DEF IsBuilt
<1>2. CASE commStep = "readout"
  <2>1. Told = Before["readout"] \cup ({"readout"} \cap Settings) /\ Told' = Settings
    BY <1>2 DEF Told
  <2>2. Before["readout"] \cup ({"readout"} \cap Settings) = Settings
    OBVIOUS
  <2>. QED BY <2>1, <2>2
<1>3. CASE commStep \notin DOMAIN Before
  <2>1. commStep' \notin DOMAIN Before /\ commStep # "failed"
    BY <1>3
  <2>. QED BY <1>3, <2>1 DEF Told, IsBuilt
<1>. QED BY <1>1, <1>2, <1>3

\* obeyed, refused or to come
Kept(s) == s \in dpm.obeyed \/ s \in refusals \/ InInbox(s)

LEMMA KeptByBoard ==
  ASSUME ControlTypeOK, DpmAnswers, NEW s \in Settings, Kept(s),
         inbox[1].name = "reset" /\ s # "reset" => \E j \in 1..Len(inbox) : j > 1 /\ inbox[j].name = s
  PROVE  Kept(s)'
<1>1. /\ Len(inbox) \in Nat \ {0} /\ Len(inbox') = Len(inbox) - 1
      /\ inbox[1].name \in RceNames
      /\ \A i \in 1..Len(inbox') : inbox'[i] = inbox[i + 1]
      /\ \/ dpm' = Obeys(inbox[1].name) /\ refusals' = refusals \ {inbox[1].name}
         \/ refusals' = refusals \cup {inbox[1].name} /\ dpm' = dpm
  BY DpmTakes
<1>2. dpm \in DpmSet
  BY DEF ControlTypeOK
<1>3. CASE \E j \in 1..Len(inbox) : j > 1 /\ inbox[j].name = s
  <2>1. PICK j \in 1..Len(inbox) : j > 1 /\ inbox[j].name = s
    BY <1>3
  <2>2. j - 1 \in 1..Len(inbox') /\ (j - 1) + 1 = j
    BY <1>1, <2>1
  <2>3. inbox'[j - 1].name = s
    BY <1>1, <2>1, <2>2
  <2>. QED BY <2>2, <2>3 DEF Kept, InInbox
<1>4. CASE inbox[1].name = s
  BY <1>1, <1>2, <1>4, PartsObey DEF Kept
<1>5. CASE inbox[1].name # s /\ ~(\E j \in 1..Len(inbox) : j > 1 /\ inbox[j].name = s)
  <2>1. \A j \in 1..Len(inbox) : j = 1 \/ j > 1
    BY <1>1
  <2>2. s \in dpm.obeyed \/ s \in refusals
    BY <1>5, <2>1 DEF Kept, InInbox
  <2>3. inbox[1].name # "reset"
    BY <1>5
  <2>4. dpm.obeyed \subseteq dpm'.obeyed
    BY <1>1, <1>2, <2>3, PartsObey
  <2>. QED BY <1>1, <1>5, <2>2, <2>4 DEF Kept
<1>. QED BY <1>3, <1>4, <1>5

LEMMA SettingsStay ==
  ASSUME ControlTypeOK, AtFirst, SettingsKept, ControlNext
  PROVE  SettingsKept'
<1> SUFFICES ASSUME commOpen', commStep' # "failed"
             PROVE  SettingsKept'
  BY DEF SettingsKept
<1> USE PlacesAre
<1>1. CASE ConnectRce \/ ConnectRceFails \/ StartBoard \/ StopBoard
  <2>1. /\ ~awaiting' /\ UNCHANGED <<inbox, dpm, refusals>>
        /\ commStep' \in {"failed", "wibOn", "hlsBlow", "flush"}
    BY <1>1, PlacesMoved
  <2>2. CASE commStep' = "flush"
    <3>1. Told' = {}
      BY <2>1, <2>2, BeforeIs DEF Told
    <3>2. inbox' = <<>>
      BY <1>1, <2>1, <2>2, PlacesMoved DEF AtFirst
    <3>. QED BY <3>1, <3>2 DEF SettingsKept
  <2>3. CASE commStep' # "flush"
    <3>1. commOpen /\ commStep \in {"idle", "running"}
      BY <1>1, <2>3, PlacesMoved
    <3>2. Told = Settings /\ Told' = Settings
      BY <2>1, <2>3, <3>1 DEF Told
    <3>. QED BY <2>1, <3>1, <3>2 DEF SettingsKept, InInbox
  <2>. QED BY <2>2, <2>3
<1>2. CASE SendToRce
  <2>1. /\ Len(inbox) \in Nat /\ Len(inbox') = Len(inbox) + 1 /\ commStep \in RceNames
        /\ \A i \in 1..Len(inbox) : inbox'[i] = inbox[i]
        /\ inbox'[Len(inbox')].name = commStep /\ commOpen /\ ~awaiting /\ awaiting'
        /\ UNCHANGED <<commStep, dpm, refusals>>
    BY <1>2, CommandSent
  <2>2. commStep # "failed"
    BY <2>1, CommandsAre
  <2>3. Told' = Told \cup ({commStep} \cap Settings)
    <3>1. CASE commStep \in DOMAIN Before
      BY <2>1, <3>1, <1>2, CommandSent DEF Told
    <3>2. CASE commStep \notin DOMAIN Before
      BY <2>1, <3>2 DEF Told
    <3>. QED BY <3>1, <3>2
  <2>4. /\ \A i \in 1..Len(inbox') : i \in 1..Len(inbox) \/ i = Len(inbox')
        /\ \A i \in 1..Len(inbox) : i \in 1..Len(inbox') /\ Len(inbox') > i
        /\ Len(inbox') \in 1..Len(inbox')
    BY <2>1
  <2>5. \A s \in Told' : s \in dpm'.obeyed \/ s \in refusals' \/ InInbox(s)'
    BY <2>1, <2>2, <2>3, <2>4 DEF SettingsKept, InInbox
  <2>6. ASSUME NEW i \in 1..Len(inbox'), inbox'[i].name = "reset", NEW s \in Told' \ {"reset"}
        PROVE  \E j \in 1..Len(inbox') : j > i /\ inbox'[j].name = s
    <3>1. CASE i \in 1..Len(inbox)
      <4>1. CASE s = commStep
        BY <2>1, <2>4, <3>1, <4>1
      <4>2. CASE s # commStep
        <5>1. s \in Told \ {"reset"} /\ inbox[i].name = "reset"
          BY <2>1, <2>3, <2>6, <3>1, <4>2
        <5>2. PICK j \in 1..Len(inbox) : j > i /\ inbox[j].name = s
          BY <2>1, <2>2, <3>1, <5>1 DEF SettingsKept
        <5>. QED BY <2>1, <2>4, <5>2
      <4>. QED BY <4>1, <4>2
    <3>2. CASE i = Len(inbox')
      <4>1. commStep = "reset"
        BY <2>1, <2>6, <3>2
      <4>2. Told' \subseteq {"reset"}
        BY <2>1, <2>3, <4>1, BeforeIs DEF Told
      <4>. QED BY <4>2
    <3>. QED BY <3>1, <3>2, <2>4
  <2>. QED BY <2>5, <2>6 DEF SettingsKept
<1>3. CASE DeadlinePasses \/ SendFails
  BY <1>3, Cut, Refused
<1>4. CASE ReadAnswer
  <2>1. /\ commStep \in RceNames /\ commStep' = CommandAfter[commStep] /\ awaiting /\ ~awaiting'
        /\ commOpen /\ UNCHANGED <<inbox, dpm, refusals>>
    BY <1>4, AnswerRead
  <2>2. commStep # "failed"
    BY <2>1, CommandsAre
  <2>3. Told' = Told
    BY <2>1, SentGoesOn
  <2>. QED BY <2>1, <2>2, <2>3 DEF SettingsKept, InInbox
<1>5. CASE CheckStatus
  <2>1. /\ commStep = "status" /\ commOpen /\ UNCHANGED <<inbox, dpm, refusals>>
        /\ commStep' \in {"Enable", "status"}
    BY <1>5, StatusTaken
  <2>2. Told' = Told
    BY <2>1 DEF Told
  <2>. QED BY <2>1, <2>2 DEF SettingsKept, InInbox
<1>6. CASE DpmAnswers
  <2>1. /\ Len(inbox) \in Nat \ {0} /\ Len(inbox') = Len(inbox) - 1
        /\ \A i \in 1..Len(inbox') : inbox'[i] = inbox[i + 1]
        /\ UNCHANGED <<commStep, awaiting, commOpen>>
    BY <1>6, DpmTakes
  <2>2. Told' = Told /\ Told \subseteq Settings
    <3>1. Told' = Told
      BY <2>1 DEF Told
    <3>2. CASE commStep \in DOMAIN Before
      <4>1. Before[commStep] \subseteq Settings
        BY <3>2, BeforeIs, SettingsAre
      <4>. QED BY <3>1, <3>2, <4>1 DEF Told
    <3>. QED BY <3>1, <3>2 DEF Told
  <2>3. 1 \in 1..Len(inbox)
    BY <2>1
  <2>4. ASSUME NEW s \in Told'
        PROVE  s \in dpm'.obeyed \/ s \in refusals' \/ InInbox(s)'
    <3>1. Kept(s)
      BY <2>1, <2>2 DEF SettingsKept, Kept
    <3>2. inbox[1].name = "reset" /\ s # "reset" =>
            \E j \in 1..Len(inbox) : j > 1 /\ inbox[j].name = s
      BY <2>1, <2>2, <2>3 DEF SettingsKept
    <3>3. s \in Settings
      BY <2>2
    <3>4. Kept(s)'
      BY <1>6, <3>1, <3>2, <3>3, KeptByBoard
    <3>. QED BY <3>4 DEF Kept
  <2>5. ASSUME NEW i \in 1..Len(inbox'), inbox'[i].name = "reset", NEW s \in Told' \ {"reset"}
        PROVE  \E j \in 1..Len(inbox') : j > i /\ inbox'[j].name = s
    <3>1. i + 1 \in 1..Len(inbox) /\ inbox[i + 1].name = "reset"
      BY <2>1, <2>5
    <3>2. PICK j \in 1..Len(inbox) : j > i + 1 /\ inbox[j].name = s
      BY <2>1, <2>2, <3>1 DEF SettingsKept
    <3>3. j - 1 \in 1..Len(inbox') /\ j - 1 > i /\ (j - 1) + 1 = j
      BY <2>1, <3>1, <3>2
    <3>. QED BY <2>1, <3>2, <3>3
  <2>. QED BY <2>4, <2>5 DEF SettingsKept
<1>7. CASE DpmSpeaks \/ PieceArrives
  <2>1. commOpen /\ UNCHANGED <<commStep, awaiting, inbox, dpm, refusals>>
    BY <1>7, BoardMoves
  <2>2. Told' = Told
    BY <2>1 DEF Told
  <2>. QED BY <2>1, <2>2 DEF SettingsKept, InInbox
<1>. QED BY <1>1, <1>2, <1>3, <1>4, <1>5, <1>6, <1>7 DEF ControlNext

\* with nothing said unasked an answer is read in whole, and nothing is left of it
LEMMA ReadInWhole ==
  ASSUME ControlTypeOK, OwnAnswers, unasked = 0, NEW n \in DOMAIN pieces, ReadsTo(n)
  PROVE  inbox = <<>> /\ inbox' = <<>> /\ OnWire' = <<>>
<1>1. /\ n \in Nat /\ Len(OnWire) \in Nat /\ n <= Len(OnWire) /\ Len(OnWire') = Len(OnWire) - n
      /\ \E k \in 1..n : OnWire[k].ends
  BY ReadTo
<1>2. awaiting /\ commOpen /\ inbox' = inbox
  BY DEF ReadsTo
<1>3. OnWire # <<>>
  BY <1>1
<1>4. inbox = <<>> /\ Len(OnWire) = 2 /\ ~OnWire[1].ends
  BY <1>2, <1>3 DEF OwnAnswers
<1>5. PICK k \in 1..n : OnWire[k].ends
  BY <1>1
<1>6. k # 1
  BY <1>4, <1>5
<1>7. n = 2
  BY <1>1, <1>4, <1>6
<1>8. Len(OnWire') = 0
  BY <1>1, <1>4, <1>7
<1>9. OnWire' \in Seq(Chunks)
  <2>1. pieces' \in Seq(Chunks) /\ replies' \in Seq(Chunks)
    BY ReadTo DEF ReadsTo, ControlTypeOK
  <2>. QED BY <2>1 DEF OnWire
<1>. QED BY <1>2, <1>4, <1>8, <1>9

LEMMA AnswersStay ==
  ASSUME ControlTypeOK, AtFirst, SettingsKept, OwnAnswers, ControlNext
  PROVE  OwnAnswers'
<1> USE PlacesAre
<1>0. unasked \in Nat
  BY DEF ControlTypeOK
<1>1. CASE ConnectRce \/ ConnectRceFails \/ StartBoard \/ StopBoard
  <2>1. /\ ~awaiting /\ ~awaiting' /\ UNCHANGED <<inbox, dpm, refusals, unasked>>
        /\ OnWire' = OnWire
    BY <1>1, PlacesMoved DEF OnWire
  <2>2. CASE commStep = "connect"
    <3>1. commStep' \in {"flush", "failed"} /\ inbox = <<>> /\ OnWire = <<>>
      BY <1>1, <2>2, PlacesMoved DEF AtFirst
    <3>2. ~IsBuilt'
      BY <3>1 DEF IsBuilt
    <3>. QED BY <2>1, <3>1, <3>2 DEF OwnAnswers
  <2>3. CASE commStep # "connect"
    <3>1. commStep \in {"idle", "running"} /\ commOpen' = commOpen
      BY <1>1, <2>3, PlacesMoved
    <3>2. IsBuilt
      BY <3>1 DEF IsBuilt
    <3>. QED BY <2>1, <3>1, <3>2 DEF OwnAnswers
  <2>. QED BY <2>2, <2>3
<1>2. CASE SendToRce
  <2>1. /\ Len(inbox) \in Nat /\ Len(inbox') = Len(inbox) + 1 /\ commStep \in RceNames
        /\ \A i \in 1..Len(inbox) : inbox'[i] = inbox[i]
        /\ inbox'[Len(inbox')].name = commStep /\ commOpen /\ ~awaiting /\ awaiting'
        /\ UNCHANGED <<commStep, dpm, refusals, unasked, replies, pieces>>
    BY <1>2, CommandSent
  <2>2. commStep # "failed"
    BY <2>1, CommandsAre
  <2>3. unasked = 0 => OnWire' = <<>> /\ Len(inbox') = 1
    BY <2>1, <2>2 DEF OwnAnswers, OnWire
  <2>4. IsBuilt' = IsBuilt /\ (IsBuilt => commStep # "reset")
    BY <2>1 DEF IsBuilt
  <2>5. ASSUME unasked = 0, IsBuilt
        PROVE  \A i \in 1..Len(inbox') : inbox'[i].name # "reset"
    <3>1. \A i \in 1..Len(inbox') : i \in 1..Len(inbox) \/ i = Len(inbox')
      BY <2>1
    <3>. QED BY <2>1, <2>4, <2>5, <3>1 DEF OwnAnswers
  <2>. QED BY <2>1, <2>3, <2>4, <2>5 DEF OwnAnswers
<1>3. CASE DeadlinePasses \/ SendFails
  <2>1. /\ commStep \in RceNames /\ commStep' = Excused /\ ~commOpen'
        /\ UNCHANGED <<dpm, refusals, unasked>>
    BY <1>3, Cut, Refused
  <2>2. IsBuilt' => IsBuilt
    <3>1. IsBuilt' => commStep \in LetIn \cup {"Enable"} \cup BlowOff
      BY <2>1, ExcusedIs DEF IsBuilt
    <3>. QED BY <3>1 DEF IsBuilt
  <2>3. \A i \in 1..Len(inbox') : i \in 1..Len(inbox) /\ inbox'[i] = inbox[i]
    <3>1. CASE DeadlinePasses
      <4>1. /\ Len(inbox') <= Len(inbox) /\ Len(inbox) \in Nat /\ Len(inbox') \in Nat
            /\ \A i \in 1..Len(inbox') : inbox'[i] = inbox[i]
        BY <3>1, Cut
      <4>. QED BY <4>1
    <3>2. CASE SendFails
      BY <3>2, Refused
    <3>. QED BY <1>3, <3>1, <3>2
  <2>. QED BY <2>1, <2>2, <2>3 DEF OwnAnswers
<1>4. CASE ReadAnswer
  <2>1. /\ commStep \in RceNames /\ commStep' = CommandAfter[commStep] /\ awaiting /\ ~awaiting'
        /\ commOpen /\ UNCHANGED <<inbox, dpm, refusals, unasked>>
    BY <1>4, AnswerRead
  <2>2. unasked = 0 => inbox = <<>> /\ OnWire' = <<>>
    BY <1>4, AnswerRead, ReadInWhole
  <2>3. ASSUME unasked = 0, IsBuilt'
        PROVE  Settings \subseteq dpm.obeyed \cup refusals
    <3>1. CASE IsBuilt
      BY <2>3, <3>1 DEF OwnAnswers
    <3>2. CASE ~IsBuilt
      <4>1. Told = Settings /\ commStep # "failed"
        BY <2>1, <2>3, <3>2, SentGoesOn, CommandsAre
      <4>2. \A s \in Settings : ~InInbox(s)
        BY <2>2, <2>3 DEF InInbox
      <4>. QED BY <2>1, <4>1, <4>2 DEF SettingsKept
    <3>. QED BY <3>1, <3>2
  <2>. QED BY <2>1, <2>2, <2>3 DEF OwnAnswers
<1>5. CASE CheckStatus
  <2>1. /\ commStep = "status" /\ commOpen /\ ~awaiting'
        /\ UNCHANGED <<inbox, dpm, refusals, unasked>>
    BY <1>5, StatusTaken
  <2>2. unasked = 0 => inbox = <<>> /\ OnWire' = <<>>
    BY <1>5, StatusTaken, ReadInWhole
  <2>3. IsBuilt
    BY <2>1 DEF IsBuilt
  <2>. QED BY <2>1, <2>2, <2>3 DEF OwnAnswers
<1>6. CASE DpmAnswers
  <2>1. /\ Len(inbox) \in Nat \ {0} /\ Len(inbox') = Len(inbox) - 1
        /\ inbox # <<>> /\ inbox[1] \in CommandUnits /\ inbox[1].name \in RceNames
        /\ \A i \in 1..Len(inbox') : inbox'[i] = inbox[i + 1]
        /\ inbox' \in Seq(CommandUnits)
        /\ UNCHANGED <<commStep, awaiting, commOpen, pieces, unasked>>
    BY <1>6, DpmTakes
  <2>2. ASSUME unasked = 0, commOpen, commStep # "failed"
        PROVE  /\ awaiting /\ inbox' = <<>> /\ Len(OnWire') = 2
               /\ ~OnWire'[1].ends /\ OnWire'[2].ends
    <3>1. awaiting
      BY <2>1, <2>2 DEF OwnAnswers
    <3>2. OnWire = <<>> /\ Len(inbox) = 1
      BY <2>1, <2>2, <3>1 DEF OwnAnswers
    <3>3. inbox' = <<>>
      BY <2>1, <3>2
    <3>4. \E flowing \in SUBSET Streams : replies' = replies \o Message(inbox[1], flowing)
      BY <1>6, DpmTakes
    <3>5. Len(OnWire') = Len(OnWire) + 2 /\ Len(OnWire) \in Nat
      BY <2>1, <3>4, Spoken
    <3>6. \A k \in {1, 2} : OnWire'[Len(OnWire) + k].ends <=> k = 2
      BY <2>1, <3>4, Spoken
    <3>7. Len(OnWire) + 1 = 1 /\ Len(OnWire) + 2 = 2 /\ Len(OnWire) = 0
      BY <3>2
    <3>8. OnWire'[Len(OnWire) + 2].ends /\ ~OnWire'[Len(OnWire) + 1].ends
      <4>1. 1 # 2
        OBVIOUS
      <4>. QED BY <3>6, <4>1, Zenon
    <3>9. OnWire'[2].ends /\ ~OnWire'[1].ends
      BY <3>7, <3>8, Zenon
    <3>. QED BY <3>1, <3>3, <3>5, <3>7, <3>9
  <2>3. commStep = "failed" => ~awaiting
    BY CommandsAre DEF ControlTypeOK
  <2>4. ASSUME unasked = 0, IsBuilt
        PROVE  /\ Settings \subseteq dpm'.obeyed \cup refusals'
               /\ \A i \in 1..Len(inbox') : inbox'[i].name # "reset"
    <3>1. /\ Settings \subseteq dpm.obeyed \cup refusals
          /\ \A i \in 1..Len(inbox) : inbox[i].name # "reset"
      BY <2>4 DEF OwnAnswers
    <3>2. 1 \in 1..Len(inbox) /\ \A i \in 1..Len(inbox') : i + 1 \in 1..Len(inbox)
      BY <2>1
    <3>3. \A i \in 1..Len(inbox') : inbox'[i].name # "reset"
      BY <2>1, <3>1, <3>2
    <3>4. \/ dpm' = Obeys(inbox[1].name) /\ refusals' = refusals \ {inbox[1].name}
          \/ refusals' = refusals \cup {inbox[1].name} /\ dpm' = dpm
      BY <1>6, DpmTakes
    <3>5. dpm \in DpmSet /\ inbox[1].name # "reset"
      BY <3>1, <3>2 DEF ControlTypeOK
    <3>6. /\ dpm.obeyed \subseteq Obeys(inbox[1].name).obeyed
          /\ inbox[1].name \in Settings => inbox[1].name \in Obeys(inbox[1].name).obeyed
      BY <2>1, <3>5, PartsObey
    <3>7. Settings \subseteq dpm'.obeyed \cup refusals'
      BY <3>1, <3>4, <3>6
    <3>. QED BY <3>3, <3>7
  <2>5. IsBuilt' = IsBuilt
    BY <2>1 DEF IsBuilt
  <2>. QED BY <2>1, <2>2, <2>3, <2>4, <2>5 DEF OwnAnswers
<1>7. CASE DpmSpeaks
  <2>1. unasked' # 0
    BY <1>0, <1>7 DEF DpmSpeaks
  <2>. QED BY <2>1 DEF OwnAnswers
<1>8. CASE PieceArrives
  <2>1. /\ OnWire' = OnWire /\ UNCHANGED <<commStep, awaiting, commOpen, inbox, dpm, refusals>>
    BY <1>8, Shifted, BoardMoves
  <2>2. unasked' = unasked
    BY <1>8 DEF PieceArrives, dpmSide
  <2>. QED BY <2>1, <2>2 DEF OwnAnswers, IsBuilt
<1>. QED BY <1>1, <1>2, <1>3, <1>4, <1>5, <1>6, <1>7, <1>8 DEF ControlNext

LEMMA ControlKept == ControlInv /\ [ControlNext]_controlVars => ControlInv'
<1> SUFFICES ASSUME ControlInv, [ControlNext]_controlVars
             PROVE  ControlInv'
  OBVIOUS
<1>1. ControlTypeOK'
  BY ControlTyped DEF ControlInv
<1>2. CASE ControlNext
  BY <1>1, <1>2, AtFirstKept, DemandedKept, StatusKept, DecidedKept, SettingsStay, AnswersStay
     DEF ControlInv
<1>3. CASE UNCHANGED controlVars
  <2>1. UNCHANGED <<commStep, awaiting, commOpen, inbox, replies, pieces, commands, trials, dpm,
                    refusals, unasked, rceStarts, verdict, enabling>>
    BY <1>3 DEF controlVars, wires, dpmSide, startVars
  <2>2. OnWire' = OnWire
    BY <2>1 DEF OnWire
  <2>3. AtFirst'
    BY <2>1, <2>2 DEF ControlInv, AtFirst
  <2>4. Demanded'
    BY <2>1 DEF ControlInv, Demanded, Stands, Coming, Reached
  <2>5. StatusUnderWay'
    BY <2>1, <2>2 DEF ControlInv, StatusUnderWay, AtStatus, LetsIn
  <2>6. DecidedRight'
    BY <2>1 DEF ControlInv, DecidedRight, Enables
  <2>7. Told' = Told
    BY <2>1 DEF Told
  <2>8. SettingsKept'
    BY <2>1, <2>7 DEF ControlInv, SettingsKept, InInbox
  <2>9. OwnAnswers'
    BY <2>1, <2>2 DEF ControlInv, OwnAnswers, IsBuilt
  <2>. QED BY <1>1, <2>3, <2>4, <2>5, <2>6, <2>8, <2>9 DEF ControlInv
<1>. QED BY <1>2, <1>3

LEMMA FollowsFromInv == ControlInv => BoardFollows
<1> SUFFICES ASSUME ControlInv
             PROVE  BoardFollows
  OBVIOUS
<1> USE PlacesAre
<1>1. Configured
  <2> SUFFICES ASSUME commStep \in {"idle", "running", "status", "Enable"} \cup LetIn \cup BlowOff
               PROVE  /\ commOpen => Settings \subseteq dpm.obeyed \cup refusals \cup Outstanding
                      /\ unasked = 0 => Settings \subseteq dpm.obeyed \cup refusals
    BY DEF Configured
  <2>1. IsBuilt /\ commStep # "failed" /\ Told = Settings
    BY DEF IsBuilt, Told
  <2>2. \A s : InInbox(s) => s \in Outstanding
    <3>1. DOMAIN inbox = 1..Len(inbox)
      BY DEF ControlInv, ControlTypeOK
    <3>. QED BY <3>1 DEF InInbox, Outstanding
  <2>. QED BY <2>1, <2>2 DEF ControlInv, SettingsKept, OwnAnswers
<1>2. StatusOwn
  BY DEF ControlInv, DecidedRight, Enables, StatusOwn, Or
<1>3. StateDemanded
  <2>1. ASSUME Quiet, rceStarts > 0, NEW n \in Demands, commStep \in After[n]
        PROVE  dpm[About[n]] = Makes[n] \/ n \in refusals
    <3>1. Stands(n) /\ commOpen /\ inbox = <<>>
      BY <2>1 DEF Stands, Quiet
    <3>2. ~Coming(n)
      BY <3>1 DEF Coming
    <3>. QED BY <3>1, <3>2 DEF ControlInv, Demanded, Reached
  <2>2. ASSUME Quiet, commStep = "running"
        PROVE  Or(dpm.run = "Enable", {"Enable"}) /\ Or(dpm.wib = "on" /\ dpm.hls = "on", LetIn)
    <3>1. rceStarts > 0
      BY <2>2 DEF ControlInv, AtFirst
    <3>2. dpm.run = "Enable" \/ "Enable" \in refusals
      BY <2>1, <2>2, <3>1, DemandsAre, AfterIs
    <3>3. dpm.wib = "on" \/ "wibOn" \in refusals
      BY <2>1, <2>2, <3>1, DemandsAre, AfterIs
    <3>4. dpm.hls = "on" \/ "hlsOn" \in refusals
      BY <2>1, <2>2, <3>1, DemandsAre, AfterIs
    <3>. QED BY <3>2, <3>3, <3>4 DEF Or
  <2>3. ASSUME Quiet, commStep = "idle", rceStarts > 0
        PROVE  /\ Or(dpm.run = "Stopped", {"Stopped"})
               /\ Or(dpm.wib = "off" /\ dpm.hls = "off", BlowOff)
    <3>2. dpm.run = "Stopped" \/ "Stopped" \in refusals
      BY <2>1, <2>3, DemandsAre, AfterIs
    <3>3. dpm.wib = "off" \/ "wibBlow" \in refusals
      BY <2>1, <2>3, DemandsAre, AfterIs
    <3>4. dpm.hls = "off" \/ "hlsBlow" \in refusals
      BY <2>1, <2>3, DemandsAre, AfterIs
    <3>. QED BY <3>2, <3>3, <3>4 DEF Or
  <2>. QED BY <2>2, <2>3 DEF StateDemanded
<1>. QED BY <1>1, <1>2, <1>3 DEF BoardFollows

(* An RCE board follows its reader for every number of trials, of refusals *)
(* and of messages sent unasked: it is configured in whole before a run,   *)
(* it is enabled on a status of its own, and it is left as the last start  *)
(* or stop demanded.                                                       *)
THEOREM RceBoardFollows == ControlSpec => []BoardFollows
<1>1. ControlInit => ControlInv
  BY ControlInitially
<1>2. ControlInv /\ [ControlNext]_controlVars => ControlInv'
  BY ControlKept
<1>3. ControlInv => BoardFollows
  BY FollowsFromInv
<1>. QED BY <1>1, <1>2, <1>3, PTL DEF ControlSpec
=============================================================================
