------------------------------ MODULE WIBReader ------------------------------
(***************************************************************************)
(* The WIB reader: its constructor, which configures a warm interface      *)
(* board and its front end boards (FEMBs), and starts their stream to the  *)
(* DAQ. The slow control is asked not to disturb meanwhile. A failed try   *)
(* is repeated from the beginning; every call to the board may fail.       *)
(* start() and stop() only look at the pointer to the board; getNext_()    *)
(* returns nothing until a stop is wanted.                                 *)
(***************************************************************************)
EXTENDS Integers, FiniteSets

CONSTANTS
  FEMBCount,   \* boards of a WIB (4)
  MaxTries     \* the largest configuration_tries (bound)

ASSUME WIBAssumption == FEMBCount \in Nat \ {0} /\ MaxTries \in Nat

FEMBs == 1..FEMBCount

VARIABLES
  configTries, \* configuration_tries
  enabled,    \* enable_FEMBs
  continues,  \* continueOnFEMBRegReadError
  faults,     \* what is wrong with the configuration or the board, for every try
  wpc,        \* where the constructor is
  iTry,
  iFEMB,
  created,    \* wib points to a board
  dnd,        \* the board's SLOW_CONTROL_DND
  femb,       \* of each FEMB: off, powered, configured
  streaming,  \* the links send
  outcome,    \* how the constructor ended, or the exception on its way
  liftFailed  \* history: the last write that lifts the request failed

wibVars == <<configTries, enabled, continues, faults, wpc, iTry, iFEMB, created, dnd, femb,
             streaming, outcome, liftFailed>>
setting == <<configTries, enabled, continues, faults>>

\* a parameter out of range, of the WIB or of FEMBs; firmware that is not the one expected
Faults == [parameters : BOOLEAN, mode : BOOLEAN, copies : BOOLEAN,
           refused : SUBSET FEMBs, unreadable : SUBSET FEMBs, version : SUBSET FEMBs]

\* FEMBs and links may be on since an earlier run
WibInit ==
  /\ configTries \in 0..MaxTries /\ enabled \in SUBSET FEMBs /\ continues \in BOOLEAN
  /\ faults \in {f \in Faults : Cardinality(f.refused) + Cardinality(f.unreadable)
                                   + Cardinality(f.version) <= 1}
  /\ wpc = "try" /\ iTry = 1 /\ iFEMB = 1 /\ created = FALSE /\ dnd = FALSE
  /\ femb \in [FEMBs -> {"off", "powered"}] /\ streaming \in BOOLEAN
  /\ outcome = "none" /\ liftFailed = FALSE
-----------------------------------------------------------------------------
\* a cet::exception leaves the constructor past its handlers
Refuse == wpc' = "failed" /\ outcome' = "refused"
On(from, to) == wpc = from /\ wpc' = to /\ UNCHANGED outcome

\* where setupWIB() talks to the board; when it begins it makes the connection, which leaves
\* the pointer as it was if that fails, and then asks the slow control to keep away
Talks ==
  \/ /\ wpc \in {"check", "reset", "copy", "fake", "power", "read", "configure", "stream", "lift"}
     /\ UNCHANGED <<created, dnd>>
  \/ /\ wpc = "try" /\ configTries > 0 /\ ~faults.parameters
     /\ \/ UNCHANGED <<created, dnd>>
        \/ created' = TRUE /\ dnd' \in {dnd, TRUE}

\* a call to the board throws: a bad reply or a timing error ends the try, anything
\* else the constructor, after its best effort to lift the request
BoardThrows ==
  /\ Talks
  /\ \/ iTry < configTries /\ iTry' = iTry + 1 /\ wpc' = "try" /\ UNCHANGED outcome
     \/ iTry = configTries /\ wpc' = "bestEffort" /\ outcome' = "exhausted" /\ UNCHANGED iTry
     \/ wpc' = "bestEffort" /\ outcome' = "unhandled" /\ UNCHANGED iTry
  /\ UNCHANGED <<setting, iFEMB, femb, streaming, liftFailed>>

\* setupWIB(): the parameters, then a new connection
Begin ==
  /\ wpc = "try" /\ configTries > 0
  /\ IF faults.parameters THEN Refuse /\ UNCHANGED <<created, dnd>>
                          ELSE On("try", "check") /\ created' = TRUE /\ dnd' = TRUE
  /\ UNCHANGED <<setting, iTry, iFEMB, femb, streaming, liftFailed>>

NoTries ==
  /\ wpc = "try" /\ configTries = 0 /\ wpc' = "bestEffort" /\ outcome' = "exhausted"
  /\ UNCHANGED <<setting, iTry, iFEMB, created, dnd, femb, streaming, liftFailed>>

\* the mode of the DAQ and the version of the firmware
CheckFirmware ==
  /\ wpc = "check" /\ IF faults.mode THEN Refuse ELSE On("check", "reset")
  /\ UNCHANGED <<setting, iTry, iFEMB, created, dnd, femb, streaming, liftFailed>>

\* a full reset, or a checked one, which leaves a board with a good clock as it is
Reset ==
  /\ On("reset", "copy")
  /\ \/ femb' = [i \in FEMBs |-> "off"] /\ streaming' = FALSE
     \/ UNCHANGED <<femb, streaming>>
  /\ UNCHANGED <<setting, iTry, iFEMB, created, dnd, liftFailed>>

CheckCopyMode ==
  /\ wpc = "copy" /\ IF faults.copies THEN Refuse ELSE On("copy", "fake")
  /\ UNCHANGED <<setting, iTry, iFEMB, created, dnd, femb, streaming, liftFailed>>

ConfigFakeData ==
  /\ On("fake", "femb") /\ iFEMB' = 1
  /\ UNCHANGED <<setting, iTry, created, dnd, femb, streaming, liftFailed>>

\* the next FEMB, whose parameters are looked at before its power is switched on
NextFEMB ==
  /\ wpc = "femb"
  /\ IF iFEMB > FEMBCount THEN On("femb", "stream") /\ UNCHANGED iFEMB
     ELSE IF iFEMB \notin enabled THEN On("femb", "femb") /\ iFEMB' = iFEMB + 1
     ELSE IF iFEMB \in faults.refused THEN Refuse /\ UNCHANGED iFEMB
     ELSE On("femb", "power") /\ UNCHANGED iFEMB
  /\ UNCHANGED <<setting, iTry, created, dnd, femb, streaming, liftFailed>>

\* a FEMB that is configured goes on being so
PowerFEMB ==
  /\ On("power", "read")
  /\ femb' = [femb EXCEPT ![iFEMB] = IF @ = "off" THEN "powered" ELSE @]
  /\ UNCHANGED <<setting, iTry, iFEMB, created, dnd, streaming, liftFailed>>

PowersDown == femb' = [femb EXCEPT ![iFEMB] = "off"]
\* a FEMB whose registers cannot be read is switched off, and skipped if that is allowed;
\* one of another version, or told to send what it does not know, is refused and left on
ReadFEMB ==
  /\ wpc = "read"
  /\ IF iFEMB \in faults.unreadable
       THEN /\ PowersDown
            /\ IF continues THEN On("read", "femb") /\ iFEMB' = iFEMB + 1
                            ELSE Refuse /\ UNCHANGED iFEMB
       ELSE /\ IF iFEMB \in faults.version THEN Refuse ELSE On("read", "configure")
            /\ UNCHANGED <<femb, iFEMB>>
  /\ UNCHANGED <<setting, iTry, created, dnd, streaming, liftFailed>>

ConfigFEMB ==
  /\ On("configure", "femb")
  /\ femb' = [femb EXCEPT ![iFEMB] = "configured"] /\ iFEMB' = iFEMB + 1
  /\ UNCHANGED <<setting, iTry, created, dnd, streaming, liftFailed>>

StartStream ==
  /\ On("stream", "lift") /\ streaming' = TRUE
  /\ UNCHANGED <<setting, iTry, iFEMB, created, dnd, femb, liftFailed>>

LiftDND ==
  /\ wpc = "lift" /\ wpc' = "bestEffort" /\ outcome' = "configured" /\ dnd' = FALSE
  /\ UNCHANGED <<setting, iTry, iFEMB, created, femb, streaming, liftFailed>>

\* variant: the constructor ends with the exception
NoEffort ==
  /\ wpc = "bestEffort" /\ wpc' = IF outcome = "configured" THEN "done" ELSE "failed"
  /\ UNCHANGED <<setting, iTry, iFEMB, created, dnd, femb, streaming, outcome, liftFailed>>

\* "Try to un-set DIM do-not-disturb no matter what happened"
BestEffort ==
  /\ wpc = "bestEffort" /\ wpc' = IF outcome = "configured" THEN "done" ELSE "failed"
  /\ \/ created /\ dnd' = FALSE /\ liftFailed' = FALSE
     \/ created /\ liftFailed' = TRUE /\ UNCHANGED dnd
     \/ ~created /\ UNCHANGED <<dnd, liftFailed>>
  /\ UNCHANGED <<setting, iTry, iFEMB, created, femb, streaming, outcome>>

WibNext ==
  \/ BoardThrows \/ Begin \/ NoTries \/ CheckFirmware \/ Reset \/ CheckCopyMode \/ ConfigFakeData
  \/ NextFEMB \/ PowerFEMB \/ ReadFEMB \/ ConfigFEMB \/ StartStream \/ LiftDND \/ BestEffort

WibSpec == WibInit /\ [][WibNext]_wibVars
-----------------------------------------------------------------------------
(* Properties. *)

(* However the tries went, a reader that exists has a board that streams,   *)
(* with every enabled FEMB configured, or off if it could not be read and   *)
(* that is allowed; the slow control is not asked any more to keep away, as *)
(* it is not after a failure either, unless the write failed or the failure *)
(* was one the reader itself found, past which no handler lifts the request.*)
ConfiguredOrGone ==
  /\ wpc = "done" =>
       /\ streaming /\ ~dnd
       /\ \A i \in enabled : \/ femb[i] = "configured"
                             \/ femb[i] = "off" /\ continues /\ i \in faults.unreadable
  /\ wpc = "failed" /\ dnd => liftFailed \/ outcome = "refused"
=============================================================================
