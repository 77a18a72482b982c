----------------------------- MODULE RceControl -----------------------------
(***************************************************************************)
(* How the reader of an RCE board commands it: the constructor connects    *)
(* and configures, start() lets the data in, looks at the status and       *)
(* enables the run, stop() undoes both. RceComm sends a command and reads  *)
(* up to the end of a message, in half a second each, or closes the        *)
(* connection, which is never made again. Only the answer to ReadStatus is *)
(* looked at. The board (external) carries out what it is sent in order,   *)
(* may refuse it, answers, and may say something unasked.                  *)
(***************************************************************************)
EXTENDS Integers, Sequences, FiniteSets

CONSTANTS
  MaxTrials,    \* readings of the status in a start: 5
  HlsMask,      \* the streams of the board that are not used: _hls_mask
  MaxRceStarts, \* calls of start() (bound)
  MaxRefusals,  \* commands refused when they were last carried out (bound)
  MaxUnasked    \* messages the board sends of its own (bound)

Streams == {0, 1}
ASSUME RceControlAssumption ==
  /\ MaxTrials \in Nat \ {0} /\ HlsMask \subseteq Streams
  /\ MaxRceStarts \in Nat /\ MaxRefusals \in Nat /\ MaxUnasked \in Nat

VARIABLES
  commStep,   \* the command in hand, or where the reader is between them
  awaiting,   \* it has been sent, its answer is read
  commOpen,   \* is_open() of the connection
  inbox,      \* commands the board has got and not carried out
  replies,    \* pieces of messages on their way
  pieces,     \* pieces that have arrived
  commands,   \* history: commands sent
  trials,     \* n_retries
  dpm,        \* the board: the settings obeyed since its reset, its inputs, its run state
  refusals,   \* history: commands it refused when they came last
  unasked,    \* history: messages it sent of its own
  rceStarts,  \* history: calls of start()
  verdict,    \* history: the status last looked at in this start, if any
  enabling    \* history: Enable was sent in this start

wires == <<inbox, replies, pieces, commands>>
dpmSide == <<dpm, refusals, unasked>>
startVars == <<trials, rceStarts, verdict, enabling>>
controlVars == <<commStep, awaiting, commOpen, wires, dpmSide, startVars>>

\* the commands, and what comes after each
CommandAfter ==
  [flush |-> "reset", reset |-> "hlsOff", hlsOff |-> "wibOff", wibOff |-> "run_mode",
   run_mode |-> "emul", emul |-> "partition", partition |-> "enable_rssi",
   enable_rssi |-> "daq_host", daq_host |-> "readout", readout |-> "idle",
   wibOn |-> "hlsOn", hlsOn |-> "status", status |-> "Enable", Enable |-> "running",
   hlsBlow |-> "wibBlow", wibBlow |-> "Stopped", Stopped |-> "idle"]
LetIn == {"wibOn", "hlsOn"}
BlowOff == {"hlsBlow", "wibBlow", "Stopped"}
Settings == {"reset", "hlsOff", "wibOff", "run_mode", "emul", "partition", "enable_rssi",
             "daq_host", "readout"}

ControlInit ==
  /\ commStep = "connect" /\ awaiting = FALSE /\ commOpen = FALSE
  /\ inbox = <<>> /\ replies = <<>> /\ pieces = <<>> /\ commands = 0
  /\ dpm = [obeyed |-> {}, wib |-> "other", hls |-> "other", run |-> "other"]
  /\ refusals = {} /\ unasked = 0
  /\ trials = 0 /\ rceStarts = 0 /\ verdict = <<>> /\ enabling = FALSE
-----------------------------------------------------------------------------
(* RceComm. *)

ConnectRce ==
  /\ commStep = "connect" /\ commStep' = "flush" /\ commOpen' = TRUE
  /\ UNCHANGED <<awaiting, wires, dpmSide, startVars>>

ConnectRceFails ==
  /\ commStep = "connect" /\ commStep' = "failed"
  /\ UNCHANGED <<awaiting, commOpen, wires, dpmSide, startVars>>

SendToRce ==
  /\ commStep \in DOMAIN CommandAfter /\ ~awaiting /\ commOpen
  /\ awaiting' = TRUE /\ commands' = commands + 1
  /\ inbox' = Append(inbox, [name |-> commStep, id |-> commands + 1])
  /\ enabling' = (enabling \/ commStep = "Enable")
  /\ UNCHANGED <<commStep, commOpen, replies, pieces, dpmSide, trials, rceStarts, verdict>>

\* What an error leads to: a warning if it is of the commands that let data in or of the Enable
\* of a start(), or of a stop(), and what comes after these; else it leaves the constructor, where
\* LogError throws, or start(), and that is the end of the reader.
Excused ==
  CASE commStep \in LetIn -> "status"
    [] commStep = "Enable" -> "running"
    [] commStep \in BlowOff -> "idle"
    [] OTHER -> "failed"

LeavesOpen == UNCHANGED commOpen  \* variant: an error and no more
ClosesComm == commOpen' = FALSE

\* _check_deadline(), or the connection is lost: what is on its way to the board may be, too
DeadlinePasses ==
  /\ commStep \in DOMAIN CommandAfter /\ commOpen
  /\ commStep' = Excused /\ awaiting' = FALSE /\ ClosesComm
  /\ \E n \in 0..Len(inbox) : inbox' = SubSeq(inbox, 1, n)
  /\ UNCHANGED <<replies, pieces, commands, dpmSide, startVars>>

\* with the connection closed each command is an error at once
SendFails ==
  /\ commStep \in DOMAIN CommandAfter /\ ~commOpen /\ commStep' = Excused
  /\ UNCHANGED <<awaiting, commOpen, wires, dpmSide, startVars>>

\* read() takes what has arrived up to the end of a message, and perhaps some of what follows
ReadsTo(n) ==
  /\ awaiting /\ commOpen /\ \E k \in 1..n : pieces[k].ends
  /\ awaiting' = FALSE /\ pieces' = SubSeq(pieces, n + 1, Len(pieces))
  /\ UNCHANGED <<commOpen, inbox, replies, commands, dpmSide, rceStarts, enabling>>

ReadAnswer ==
  /\ commStep \in DOMAIN CommandAfter \ {"status"} /\ commStep' = CommandAfter[commStep]
  /\ \E n \in DOMAIN pieces : ReadsTo(n)
  /\ UNCHANGED <<trials, verdict>>
-----------------------------------------------------------------------------
(* TpcRceReceiver. *)

StartBoard ==
  /\ commStep = "idle" /\ rceStarts < MaxRceStarts /\ commStep' = "wibOn"
  /\ rceStarts' = rceStarts + 1 /\ trials' = 0 /\ verdict' = <<>> /\ enabling' = FALSE
  /\ UNCHANGED <<awaiting, commOpen, wires, dpmSide>>

StopBoard ==
  /\ commStep = "running" /\ commStep' = "hlsBlow"
  /\ UNCHANGED <<awaiting, commOpen, wires, dpmSide, startVars>>

\* a status in one piece with the end that belongs to it, and nothing else
IsStatus(message) ==
  /\ Len(message) = 2 /\ message[1].of.name = "status" /\ message[2].of = message[1].of
  /\ ~message[1].ends
\* data flow in every stream that is used
CheckHls(flowing) == Streams \ HlsMask \subseteq flowing

CheckStatus ==
  /\ commStep = "status"
  /\ \E n \in DOMAIN pieces :
       /\ ReadsTo(n)
       /\ LET message == SubSeq(pieces, 1, n)
              pass == CheckHls(message[1].flowing)
          IN IF IsStatus(message)
               THEN /\ trials' = trials + 1
                    /\ verdict' = <<[id |-> message[1].of.id, asked |-> commands, pass |-> pass,
                                     open |-> message[1].open]>>
                    /\ commStep' = IF pass \/ trials' = MaxTrials THEN "Enable" ELSE "status"
               ELSE commStep' = "failed" /\ UNCHANGED <<trials, verdict>>
-----------------------------------------------------------------------------
(* The board. *)

Message(command, flowing) ==
  [i \in 1..2 |-> [of |-> command, ends |-> i = 2, flowing |-> flowing,
                   open |-> dpm.wib = "on" /\ dpm.hls = "on"]]

Obeys(name) ==
  CASE name = "reset" -> [obeyed |-> {"reset"}, wib |-> "other", hls |-> "other", run |-> "other"]
    [] name \in Settings \ {"reset", "hlsOff", "wibOff"} -> [dpm EXCEPT !.obeyed = @ \cup {name}]
    [] name \in {"hlsOff", "hlsBlow"} -> [dpm EXCEPT !.obeyed = @ \cup {"hlsOff"}, !.hls = "off"]
    [] name \in {"wibOff", "wibBlow"} -> [dpm EXCEPT !.obeyed = @ \cup {"wibOff"}, !.wib = "off"]
    [] name = "hlsOn" -> [dpm EXCEPT !.hls = "on"]
    [] name = "wibOn" -> [dpm EXCEPT !.wib = "on"]
    [] name \in {"Enable", "Stopped"} -> [dpm EXCEPT !.run = name]
    [] OTHER -> dpm

DpmAnswers ==
  /\ inbox # <<>> /\ inbox' = Tail(inbox)
  /\ LET c == Head(inbox)
     IN /\ \/ dpm' = Obeys(c.name) /\ refusals' = refusals \ {c.name}
           \/ /\ c.name \notin {"flush", "status"} /\ Cardinality(refusals) < MaxRefusals
              /\ refusals' = refusals \cup {c.name} /\ UNCHANGED dpm
        /\ \E flowing \in IF c.name = "status" THEN SUBSET Streams ELSE {{}} :
             replies' = replies \o Message(c, flowing)
  /\ UNCHANGED <<commStep, awaiting, commOpen, pieces, commands, unasked, startVars>>

DpmSpeaks ==
  /\ commOpen /\ unasked < MaxUnasked /\ unasked' = unasked + 1
  /\ replies' = replies \o Message([name |-> "none", id |-> 0], {})
  /\ UNCHANGED <<commStep, awaiting, commOpen, inbox, pieces, commands, dpm, refusals, startVars>>

PieceArrives ==
  /\ commOpen /\ replies # <<>>
  /\ replies' = Tail(replies) /\ pieces' = Append(pieces, Head(replies))
  /\ UNCHANGED <<commStep, awaiting, commOpen, inbox, commands, dpmSide, startVars>>
-----------------------------------------------------------------------------
ControlNext ==
  \/ ConnectRce \/ ConnectRceFails \/ SendToRce \/ DeadlinePasses \/ SendFails \/ ReadAnswer
  \/ StartBoard \/ StopBoard \/ CheckStatus \/ DpmAnswers \/ DpmSpeaks \/ PieceArrives

ControlSpec == ControlInit /\ [][ControlNext]_controlVars
-----------------------------------------------------------------------------
(* Properties. *)

Outstanding == {inbox[i].name : i \in DOMAIN inbox}
Quiet == commOpen /\ inbox = <<>>
Or(holds, names) == holds \/ refusals \cap names # {}

(* The board has every setting of the configuration once there is a reader, *)
(* but for those it refused and those it has still to carry out.            *)
Configured ==
  commStep \in {"idle", "running", "status", "Enable"} \cup LetIn \cup BlowOff =>
    /\ commOpen => Settings \subseteq dpm.obeyed \cup refusals \cup Outstanding
    /\ unasked = 0 => Settings \subseteq dpm.obeyed \cup refusals

(* A run for which Enable was sent goes by a status that the board gave of *)
(* itself in this start, with its data let in: all streams in use flowed,  *)
(* or it was the last try.                                                 *)
StatusOwn ==
  enabling => /\ verdict # <<>> /\ verdict[1].id = verdict[1].asked
              /\ verdict[1].pass \/ trials = MaxTrials
              /\ Or(verdict[1].open, LetIn)

(* A board that has nothing left to carry out is in the state that the     *)
(* start or the stop before demanded, unless the connection was lost.      *)
StateDemanded ==
  /\ Quiet /\ commStep = "running" =>
       Or(dpm.run = "Enable", {"Enable"}) /\ Or(dpm.wib = "on" /\ dpm.hls = "on", LetIn)
  /\ Quiet /\ commStep = "idle" /\ rceStarts > 0 =>
       Or(dpm.run = "Stopped", {"Stopped"}) /\ Or(dpm.wib = "off" /\ dpm.hls = "off", BlowOff)

(* The board is never enabled or left as no part of the reader meant it,   *)
(* though answers are not looked at and errors are excused: a run goes on  *)
(* from a board configured in whole and a status of its own, a stop ends   *)
(* it, and what cannot be told the board ends the connection.              *)
BoardFollows == Configured /\ StatusOwn /\ StateDemanded
=============================================================================
