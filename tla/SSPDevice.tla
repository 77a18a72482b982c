------------------------------ MODULE SSPDevice ------------------------------
(***************************************************************************)
(* How the SSP reader brings up its board: DeviceManager::OpenDevice(),    *)
(* DeviceInterface::Initialize(), which joins the board's clock endpoint   *)
(* to the timing system, and the registers the configuration sets, all by  *)
(* commands over a channel that loses nothing and splits answers anywhere. *)
(* SendReceive() takes what comes next for the answer to what it has sent; *)
(* after a failure it empties the channel and sends again.                 *)
(*                                                                         *)
(* An answer is a sequence of units: a header, and a unit for the data if  *)
(* the command returns any. What the registers hold is told apart as far   *)
(* as Initialize() does.                                                   *)
(***************************************************************************)
EXTENDS Integers, Sequences, SequencesExt, FiniteSetsExt

CONSTANTS
  RetryCount,  \* how often SendReceive() tries again (3)
  SyncTries,   \* how often the endpoint is reset (5)
  MaxSettings  \* registers the configuration sets (bound)

ASSUME SSPDeviceAssumption ==
  RetryCount \in Nat /\ SyncTries \in Nat \ {0} /\ MaxSettings \in Nat

\* rxSizeExpected of the commands, in units
EthernetUnits == [read |-> 2, readMask |-> 2, write |-> 1, writeMask |-> 2, arrayWrite |-> 1]
USBUnits == EthernetUnits

VARIABLES
  comm,      \* the kind of device
  ipc,       \* where the constructor of the reader is
  phase,     \* where SendReceive() is
  tries,     \* timesTried
  asked,     \* commands the board has got and not carried out
  onTheWay,  \* units of answers that have not arrived
  here,      \* units that have arrived on the comm channel
  rx,        \* the answer taken
  board,     \* the board's registers
  known,     \* the registers as Initialize() has read them
  syncs,     \* nTries
  settings,  \* registers set by the configuration so far
  late,      \* history: an answer was still to come when a purge ended
  joined     \* history: the endpoint has run since it was last reset

channel == <<phase, tries, asked, onTheWay, here, rx>>
deviceVars == <<comm, ipc, phase, tries, asked, onTheWay, here, rx, board, known, syncs,
                settings, late, joined>>

\* the steps that are a command: what it does to which register, and the step after it
Command(op, reg, val, next) == [op |-> op, reg |-> reg, val |-> val, next |-> next]
Script ==
  [stop1 |-> Command("write", "none", "-", "stop2"),      \* eventDataControl
   stop2 |-> Command("writeMask", "none", "-", "stop3"),  \* master_logic_control
   stop3 |-> Command("write", "none", "-", "stop4"),      \* fifo_control
   stop4 |-> Command("write", "none", "-", "stop5"),      \* PurgeDDR
   stop5 |-> Command("write", "none", "-", "data"),       \* event_data_control
   read1 |-> Command("read", "status", "-", "read2"),
   read2 |-> Command("read", "control", "-", "read3"),
   read3 |-> Command("read", "clock", "-", "decide"),
   sync1 |-> Command("write", "clock", "internal", "sync2"),
   sync2 |-> Command("write", "control", "reset", "sync3"),
   sync3 |-> Command("write", "control", "wanted", "sync4"),
   sync4 |-> Command("write", "clock", "timing", "sync5"),
   sync5 |-> Command("read", "status", "-", "synced"),
   wait  |-> Command("read", "status", "-", "waited"),
   set   |-> Command("write", "none", "-", "configure"),
   setMask |-> Command("writeMask", "none", "-", "configure"),
   setArray |-> Command("arrayWrite", "none", "-", "configure"),
   channels |-> Command("arrayWrite", "none", "-", "done")]  \* channel_control
Current == Script[ipc]
Attempt == <<ipc, syncs, settings, tries>>
Expected == (IF comm = "usb" THEN USBUnits ELSE EthernetUnits)[Current.op]

DeviceInit ==
  /\ comm \in {"usb", "ethernet", "emulated"}
  /\ ipc = "open" /\ phase = "idle" /\ tries = 0
  /\ asked = <<>> /\ onTheWay = <<>> /\ here = <<>> /\ rx = <<>>
  /\ board \in [status : {"lost", "running"}, control : {"other", "wanted"},
                clock : {"other", "timing"}]
  /\ known = [status |-> "lost", control |-> "other", clock |-> "other"]
  /\ syncs = 0 /\ settings = 0 /\ late = FALSE /\ joined = (board.status = "running")
-----------------------------------------------------------------------------
(* SendReceive(). *)

OutsideChannel == UNCHANGED <<comm, known, syncs, settings, joined>>

\* an error: the channel is emptied and the command sent again, or the exception
\* leaves the constructor
Failed ==
  IF tries < RetryCount
    THEN tries' = tries + 1 /\ phase' = "purge" /\ UNCHANGED ipc
    ELSE phase' = "idle" /\ ipc' = "failed" /\ UNCHANGED tries

Send ==
  /\ comm # "emulated" /\ ipc \in DOMAIN Script /\ phase \in {"idle", "send"}
  /\ asked' = Append(asked, [id |-> Attempt, cmd |-> Current]) /\ phase' = "receive"
  /\ UNCHANGED <<ipc, tries, onTheWay, here, rx, board, late>> /\ OutsideChannel

\* less than the command is written, which the board ignores
SendShort ==
  /\ comm # "emulated" /\ ipc \in DOMAIN Script /\ phase \in {"idle", "send"}
  /\ Failed /\ UNCHANGED <<asked, onTheWay, here, rx, board, late>> /\ OutsideChannel

\* what a read takes; that of the Ethernet device returns with the first units
Taken == Min({Expected, Len(here)})
WholeAnswer == Taken = Expected
Receives(ready, complete) ==
  /\ phase = "receive" /\ ready
  /\ rx' = SubSeq(here, 1, Taken) /\ here' = SubSeq(here, Taken + 1, Len(here))
  /\ IF complete THEN phase' = "taken" /\ UNCHANGED <<ipc, tries>> ELSE Failed
  /\ UNCHANGED <<asked, onTheWay, board, late>> /\ OutsideChannel

EthernetReceives == comm = "ethernet" /\ Receives(here # <<>>, WholeAnswer)
\* that of the USB device waits a second for the rest
USBReceives == comm = "usb" /\ Receives(TRUE, WholeAnswer)

\* the connection is lost: this exception SendReceive() does not catch
ConnectionLost ==
  /\ comm = "ethernet" /\ phase \in {"send", "receive", "purge"}
  /\ phase' = "idle" /\ ipc' = "failed"
  /\ UNCHANGED <<tries, asked, onTheWay, here, rx, board, late>> /\ OutsideChannel

\* a fault while the USB channel is emptied leaves SendReceive() from its handler
USBPurgeFails ==
  /\ comm = "usb" /\ phase = "purge" /\ phase' = "idle" /\ ipc' = "failed"
  /\ UNCHANGED <<tries, asked, onTheWay, here, rx, board, late>> /\ OutsideChannel

PurgeReads ==
  /\ phase = "purge" /\ here # <<>> /\ here' = <<>>
  /\ UNCHANGED <<ipc, phase, tries, asked, onTheWay, rx, board, late>> /\ OutsideChannel

\* variant: the channel is found empty once and not looked at again
PurgeOnce ==
  /\ phase = "purge" /\ here = <<>> /\ phase' = "send"
  /\ UNCHANGED <<ipc, tries, asked, onTheWay, here, rx, board, late>> /\ OutsideChannel

StillComing == asked # <<>> \/ onTheWay # <<>>
\* nothing has come for a second (Ethernet) or ten milliseconds (USB)
PurgeEnds ==
  /\ phase = "purge" /\ here = <<>> /\ phase' = "send"
  /\ late' = (late \/ StillComing)
  /\ UNCHANGED <<ipc, tries, asked, onTheWay, here, rx, board>> /\ OutsideChannel
-----------------------------------------------------------------------------
(* Initialize() and ConfigureDevice(). *)

KeepChannel == UNCHANGED <<comm, asked, onTheWay, here, board, late, joined>>
Goes(to) == ipc' = to /\ UNCHANGED <<phase, tries, rx>>

AtStep(from, to) == ipc = from /\ Goes(to) /\ KeepChannel /\ UNCHANGED <<known, syncs>>
Passes(from, to) == AtStep(from, to) /\ UNCHANGED settings
Throws(from) == Passes(from, "failed")

\* the devices are listed again at each open, for Ethernet also; the driver may refuse
RefreshDevices ==
  \/ Passes("open", IF comm = "emulated" THEN "stop1" ELSE "listed")
  \/ comm # "emulated" /\ Throws("open")

\* a channel after the other is opened and set up; what was opened is closed on a fault
OpenUSB == comm = "usb" /\ (Passes("listed", "stop1") \/ Throws("listed"))
OpenEthernet == comm = "ethernet" /\ (Passes("listed", "stop1") \/ Throws("listed"))

\* Stop() ends with a purge of the data channel, which may fail
PurgeData == Passes("data", "read1") \/ (comm # "emulated" /\ Throws("data"))

\* the value is that of the answer's data
Returned == IF Current.op = "read" THEN [known EXCEPT ![Current.reg] = rx[2].val] ELSE known
CommandReturns ==
  /\ phase = "taken" /\ phase' = "idle" /\ tries' = 0 /\ rx' = <<>>
  /\ ipc' = Current.next /\ known' = Returned
  /\ KeepChannel /\ UNCHANGED <<syncs, settings>>

\* commands to the emulated device return at once and change nothing
EmulatedReturns == comm = "emulated" /\ ipc \in DOMAIN Script /\ Passes(ipc, Current.next)

OnceReady == IF known.status = "running" THEN "configureDAQ" ELSE "wait"
Ready == known.status \in {"ready", "running"}
LooksOk == Ready /\ known.control = "wanted" /\ known.clock = "timing"
Decide == Passes("decide", IF LooksOk THEN OnceReady ELSE "sync1")

\* after the last try LogError throws, also out of Initialize()
Synced ==
  /\ ipc = "synced"
  /\ IF Ready THEN UNCHANGED syncs /\ Goes(OnceReady)
              ELSE syncs' = syncs + 1 /\ Goes(IF syncs' < SyncTries THEN "sync1" ELSE "failed")
  /\ KeepChannel /\ UNCHANGED <<known, settings>>

Waited == Passes("waited", OnceReady)

\* a value that the configuration lacks, or a wrong one, is refused
ConfigureDAQ == Passes("configureDAQ", "configure") \/ Throws("configureDAQ")

\* SetRegister() and SetRegisterArray(), by name or address
ConfigureDevice ==
  /\ settings < MaxSettings /\ settings' = settings + 1
  /\ \E to \in {"set", "setMask", "setArray"} : AtStep("configure", to)

\* the control registers of the channels come last
BuildChannelControl == Passes("configure", "channels") \/ Throws("configure")
-----------------------------------------------------------------------------
(* The board. *)

Unit(a, v) == [id |-> a.id, val |-> v]
AnswerTo(a, v) == [k \in 1..EthernetUnits[a.cmd.op] |-> Unit(a, v)]

\* it carries out a command and answers; a reset endpoint has lost its clock
BoardAnswers ==
  /\ asked # <<>> /\ asked' = Tail(asked)
  /\ LET a == Head(asked)
         written == a.cmd.op = "write" /\ a.cmd.reg # "none"
     IN
       /\ board' = IF ~written THEN board
                   ELSE [board EXCEPT ![a.cmd.reg] = a.cmd.val,
                                      !.status = IF a.cmd.val = "reset" THEN "lost" ELSE @]
       /\ joined' = (joined /\ board'.control # "reset")
       /\ onTheWay' = onTheWay \o
            AnswerTo(a, IF a.cmd.op = "read" THEN board[a.cmd.reg] ELSE "-")
  /\ UNCHANGED <<comm, ipc, phase, tries, here, rx, known, syncs, settings, late>>

\* some of the units on the way arrive
Arrive ==
  /\ \E n \in 1..Len(onTheWay) :
       here' = here \o SubSeq(onTheWay, 1, n) /\ onTheWay' = SubSeq(onTheWay, n + 1, Len(onTheWay))
  /\ UNCHANGED <<comm, ipc, phase, tries, asked, rx, board, known, syncs, settings, late,
                 joined>>

\* the endpoint finds the timing system, in one step more, or loses it
EndpointMoves ==
  /\ board.control # "reset"
  /\ \E s \in {"lost", "ready", "running"} :
       /\ s # board.status /\ (board.status = "lost" => s = "ready")
       /\ board' = [board EXCEPT !.status = s] /\ joined' = (joined \/ s = "running")
  /\ UNCHANGED <<comm, ipc, channel, known, syncs, settings, late>>
-----------------------------------------------------------------------------
DeviceStep ==
  \/ RefreshDevices \/ OpenUSB \/ OpenEthernet \/ PurgeData
  \/ Send \/ SendShort \/ EthernetReceives \/ USBReceives \/ ConnectionLost
  \/ USBPurgeFails \/ PurgeReads \/ PurgeEnds \/ CommandReturns \/ EmulatedReturns
  \/ Decide \/ Synced \/ Waited
  \/ ConfigureDAQ \/ ConfigureDevice \/ BuildChannelControl
  \/ BoardAnswers \/ Arrive \/ EndpointMoves

\* what follows an answer that was late is not explored (bound)
DeviceNext == ~late /\ DeviceStep

DeviceSpec == DeviceInit /\ [][DeviceNext]_deviceVars
-----------------------------------------------------------------------------
(* Properties. *)

(* The answer a command returns with is the answer to it, as last sent, and  *)
(* nothing of it is left for the next command, though answers are not marked *)
(* and come in pieces: unless an answer was later than the purge waited.     *)
AnswersOwn ==
  phase = "taken" /\ ~late => here = <<>> /\ ~StillComing /\ \A u \in ToSet(rx) : u.id = Attempt

(* Once Initialize() is over the endpoint listens to the partition and with *)
(* the address it was told, the board runs on the timing system's clock, and *)
(* the endpoint has run since it was reset, whether it was reset now or was *)
(* found in order, unless an answer was late. With the emulated device it is *)
(* never over.                                                              *)
EndpointReady ==
  ipc \in {"configureDAQ", "configure", "set", "setMask", "setArray", "channels", "done"} =>
    /\ comm # "emulated"
    /\ late \/ (board.control = "wanted" /\ board.clock = "timing" /\ joined)

(* The board is brought up right: each step acts on the answer to its own   *)
(* command, and what they lead to is a board in step with the timing system. *)
BringUpRight == AnswersOwn /\ EndpointReady
=============================================================================
