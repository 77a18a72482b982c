------------------------------ MODULE MCBoards ------------------------------
(***************************************************************************)
(* Parts of the system that share no state, in one run: a behaviour is of  *)
(* one of them, and the others stay in one of their initial states. They   *)
(* are the Central Trigger Board reader over two runs, the bring-up of the *)
(* SSP board, the settings of its registers, the bring-up of the warm      *)
(* interface board, the control connections of the Penn board and of an    *)
(* RCE board, the older receiver of RCE data, the isolated muon finder,    *)
(* the collector of hits, the filters of triggers, the reordering and the  *)
(* expansion of FELIX frames and the module that thins out SSP data.       *)
(***************************************************************************)
EXTENDS MCCTB, SSPDevice, SSPRegisters, WIBReader, PennClient, RceReceiver, RceControl,
        MuonFinder, HitCollector, TriggerFilters, FrameExpand, SparsifySSP

\* the filters as an experiment would set them, and with a parameter or two changed
Usual == [passAll |-> {}, random |-> FALSE, cutOnNTriggers |-> TRUE, selectAll |-> FALSE,
          onType |-> TRUE, onPattern |-> FALSE, onCounter |-> FALSE,
          invert |-> FALSE, insert |-> TRUE, wanted |-> Filters]
Usually == {o \in Options : Cardinality({f \in DOMAIN Usual : o[f] # Usual[f]}) <= 2}

\* every register by its name in each way, and settings that meet in a register
Alone == UNION {{Plain(n), All(n), Arr(n, Declared(n)), Ele(n, 0), Ele(n, 11)} : n \in Names}
           \cup {Arr("channel_control", 11), Plain("unknown"), Misspelt("channel_control"),
                 Misspelt("led_threshold"), Logical({"ext"}, FALSE)}
Meeting == {All("channel_control"), Arr("channel_control", 12), Ele("channel_control", 3),
            Logical({"ext", "rate"}, TRUE), Literal(At("channel_control", 3), Bits),
            Literal(At("led_threshold", 2), {"rest", "ext"}), All("led_threshold"),
            Ele("led_threshold", 2)}
SomeConfigs == {{s} : s \in Alone} \cup SUBSET Meeting

VARIABLE part

boards == <<deviceVars, registerVars, wibVars>>
clients == <<clientVars, rceVars, controlVars>>
software == <<muonVars, collectorVars, filterVars>>
formats == <<reorderVars, expandVars, sparsifyVars>>

\* a part that is not the behaviour's begins in one way only
PartsInit ==
  /\ part \in {"ctb", "device", "registers", "wib", "client", "rce", "control", "muon", "hits",
              "filter", "reorder", "expand", "sparsify"}
  /\ part = "device" \/ (comm = "usb"
                         /\ board = [status |-> "lost", control |-> "other", clock |-> "other"])
  /\ part = "registers" \/ hardwareConfig = {}
  /\ part = "wib" \/ (configTries = 0 /\ enabled = {} /\ continues = FALSE /\ streaming = FALSE
                      /\ faults = [parameters |-> FALSE, mode |-> FALSE, copies |-> FALSE,
                                   refused |-> {}, unreadable |-> {}, version |-> {}]
                      /\ femb = [i \in FEMBs |-> "off"])
  /\ part = "client" \/ (endpoints = 0 /\ coming = <<>>)
  /\ part = "hits" \/ dummyMode = FALSE
  /\ part = "filter" \/ options = Usual
  /\ part = "reorder" \/ (avx = FALSE /\ deviating = [l \in Links |-> {}])
  /\ part = "expand" \/ (mapFiles = "good" /\ felixLink = [crate |-> 1, slot |-> 0, fiber |-> 1])
  /\ part = "sparsify" \/ removes = FALSE
  /\ Init /\ DeviceInit /\ RegistersInit /\ WibInit /\ ClientInit /\ RceInit /\ ControlInit
  /\ MuonInit /\ CollectorInit /\ FilterInit /\ ReorderInit /\ ExpandInit /\ SparsifyInit

PartsNext ==
  /\ UNCHANGED part
  /\ \/ part = "ctb" /\ Next /\ UNCHANGED <<boards, clients, software, formats>>
     \/ part = "device" /\ DeviceNext
                        /\ UNCHANGED <<vars, registerVars, wibVars, clients, software, formats>>
     \/ part = "registers" /\ RegistersNext
                           /\ UNCHANGED <<vars, deviceVars, wibVars, clients, software, formats>>
     \/ part = "wib" /\ WibNext
                     /\ UNCHANGED <<vars, deviceVars, registerVars, clients, software, formats>>
     \/ part = "client" /\ ClientNext
                        /\ UNCHANGED <<vars, boards, rceVars, controlVars, software, formats>>
     \/ part = "rce" /\ RceNext
                     /\ UNCHANGED <<vars, boards, clientVars, controlVars, software, formats>>
     \/ part = "control" /\ ControlNext
                         /\ UNCHANGED <<vars, boards, clientVars, rceVars, software, formats>>
     \/ part = "muon" /\ MuonNext
                      /\ UNCHANGED <<vars, boards, clients, collectorVars, filterVars, formats>>
     \/ part = "hits" /\ CollectorNext
                      /\ UNCHANGED <<vars, boards, clients, muonVars, filterVars, formats>>
     \/ part = "filter" /\ FilterNext
                        /\ UNCHANGED <<vars, boards, clients, muonVars, collectorVars, formats>>
     \/ part = "reorder" /\ ReorderNext
                         /\ UNCHANGED <<vars, boards, clients, software, expandVars, sparsifyVars>>
     \/ part = "expand" /\ ExpandNext
                        /\ UNCHANGED <<vars, boards, clients, software, reorderVars, sparsifyVars>>
     \/ part = "sparsify" /\ SparsifyNext
                          /\ UNCHANGED <<vars, boards, clients, software, reorderVars, expandVars>>

PartsSpec == PartsInit /\ [][PartsNext]_<<part, vars, boards, clients, software, formats>>
=============================================================================
