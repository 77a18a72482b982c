---------------------------- MODULE SSPRegisters ----------------------------
(***************************************************************************)
(* What the settings of an SSP board do to its registers:                  *)
(* SSP::ConfigureDevice() takes the keys of the hardware configuration in  *)
(* the order of their names. A key names a register, all or one of the     *)
(* elements of an array, a literal address, or logical settings of the     *)
(* channels; registers are found by their name in RegMap. The commands and *)
(* their faults are those of SSPDevice.                                    *)
(*                                                                         *)
(* An address is a bank and a word in it. Of a word the three groups of    *)
(* bits that logical settings replace are told apart, and the rest.        *)
(***************************************************************************)
EXTENDS Integers, Sequences, SequencesExt, FiniteSetsExt

CONSTANT HardwareConfigs  \* configurations: sets of settings (bound)

Bits == {"ext", "led", "rate", "rest"}
ChannelIndex == 0..11

VARIABLES
  hardwareConfig,  \* the configuration
  keysLeft,        \* keys not yet taken
  regs,            \* what has been written: address -> Bits -> value
  chControlReg,    \* the control words of the channels, to be sent last
  regPc            \* "keys", "channels", "done", "failed"

registerVars == <<hardwareConfig, keysLeft, regs, chControlReg, regPc>>
-----------------------------------------------------------------------------
(* RegMap. *)

\* registers one word after the other, arrays sixteen words apart
Words(bank, first, names) == {<<names[i], <<bank, first + i - 1>>>> : i \in DOMAIN names}
Arrays(bank, first, names) == {<<names[i], <<bank, first + 16 * (i - 1)>>>> : i \in DOMAIN names}

ArmFields ==
  Words("arm", 0, <<"armStatus", "armError", "armCommand", "armVersion", "armTest">>)
    \cup Words("arm", 8, <<"armRxAddress", "armRxCommand", "armRxSize", "armRxStatus",
                           "armTxAddress", "armTxCommand", "armTxSize", "armTxStatus",
                           "armPackets", "armOperMode", "armOptions", "armModemStatus">>)
    \cup Words("arm", 192, <<"PurgeDDR">>)

Monitor(prefix, first) ==
  Words("zynq", first, <<prefix \o "_config", prefix \o "_select", prefix \o "_gpio">>)
    \cup Words("zynq", first + 4, <<prefix \o "_config_readback", prefix \o "_select_readback",
                                    prefix \o "_gpio_readback", prefix \o "_id_readback",
                                    prefix \o "_control", prefix \o "_status">>)
    \cup Arrays("zynq", first + 16, <<prefix \o "_bias", prefix \o "_value">>)

ZynqFields ==
  {<<"zynqTest", <<"zynq", 0>>>>, <<"timestamp", <<"zynq", 14>>>>,
   <<"codeErrCounts", <<"zynq", 64>>>>, <<"dispErrCounts", <<"zynq", 72>>>>,
   <<"dspStatus", <<"zynq", 88>>>>, <<"eventDataStatus", <<"zynq", 100>>>>}
    \cup Words("zynq", 8, <<"eventDataInterfaceSelect", "fakeNumEvents", "fakeEventSize",
                            "fakeBaseline", "fakePeakSum", "fakePrerise">>)
    \cup Words("zynq", 80, <<"link_rx_status", "eventDataControl", "eventDataPhaseControl",
                             "eventDataPhaseStatus", "c2c_master_status", "c2c_control",
                             "c2c_master_intr_control">>)
    \cup Words("zynq", 92, <<"comm_clock_status", "comm_clock_control">>)
    \cup Words("zynq", 96, <<"comm_led_config", "comm_led_input">>)
    \cup Words("zynq", 128, <<"qi_dac_control", "qi_dac_config">>)
    \cup Words("zynq", 192, <<"bias_control", "bias_status">>)
    \cup Arrays("zynq", 208, <<"bias_config", "bias_readback">>)
    \cup Monitor("vmon", 256) \cup Monitor("imon", 320)

BoardFields ==
  Words("artix", 0, <<"board_id", "fifo_control">>)
    \cup Words("artix", 4, <<"dp_fpga_fw_build", "calib_build">>)
    \cup Words("artix", 8, <<"dp_clock_status", "module_id">>)
    \cup Words("artix", 12, <<"c2c_slave_status", "c2c_slave_intr_control">>)

\* what is set for each channel, first half and second
TriggerArrays == <<"channel_control", "led_threshold", "cfd_parameters", "readout_pretrigger",
                   "readout_window", "p_window", "i2_window", "m1_window">>
WindowArrays == <<"m2_window", "d_window", "i1_window", "disc_width", "baseline_start", "c_window">>
TriggerFields == Arrays("artix", 16, TriggerArrays)
WindowFields == Arrays("artix", 144, WindowArrays)

TimingFields ==
  Words("artix", 256, <<"trigger_input_delay", "gpio_output_width", "front_panel_config",
                        "channel_pulsed_control", "dsp_led_config", "dsp_led_input",
                        "baseline_delay", "diag_channel_input">>)
    \cup Words("artix", 265, <<"event_data_control", "adc_config", "adc_config_load", "qi_config",
                               "qi_delay", "qi_pulse_width", "qi_pulsed", "external_gate_width">>)
    \cup Words("artix", 280, <<"pdts_cmd_control">>)
    \cup Words("artix", 289, <<"lat_timestamp_lsb", "lat_timestamp_msb", "live_timestamp_lsb",
                               "live_timestamp_msb", "sync_period", "sync_delay", "sync_count">>)
    \cup Words("artix", 304, <<"pdts_control", "pdts_status", "pdts_ts_preset">>)
    \cup Words("artix", 320, <<"master_logic_control", "master_logic_status", "overflow_status",
                               "phase_value", "link_tx_status">>)
    \cup Words("artix", 328, <<"dsp_clock_control", "dsp_clock_phase_control">>)
    \cup Words("artix", 384, <<"code_revision", "code_date">>)

CountArrays == <<"dropped_event_count", "accepted_event_count", "ahit_count", "disc_count",
                 "idelay_count", "adc_data_monitor", "adc_status">>
CountFields == Arrays("artix", 448, CountArrays)

Fields == UNION {ArmFields, ZynqFields, BoardFields, TriggerFields, WindowFields, TimingFields,
                 CountFields}
Names == {f[1] : f \in Fields}
\* the address of the field, or of its first element
Field == [n \in Names |-> (CHOOSE f \in Fields : f[1] = n)[2]]

PerChannel == ToSet(TriggerArrays \o WindowArrays \o CountArrays)
                \cup {"bias_config", "bias_readback", "vmon_bias", "imon_bias"}
\* the declared lengths
Declared(n) ==
  CASE n \in PerChannel -> 12
    [] n \in {"vmon_value", "imon_value"} -> 9
    [] n = "zynqTest" -> 6
    [] n \in {"codeErrCounts", "dispErrCounts"} -> 5
    [] n = "armTest" -> 4
    [] n = "pdts_cmd_control" -> 3
    [] n \in {"timestamp", "pdts_ts_preset"} -> 2
    [] OTHER -> 1

\* registers of which all bits can be written, and some
Whole == {"armCommand", "armTest", "fakeNumEvents", "fakeEventSize", "fakeBaseline", "fakePeakSum",
          "fakePrerise", "comm_led_input", "vmon_select", "imon_select", "channel_control",
          "channel_pulsed_control", "dsp_led_input", "diag_channel_input", "adc_config",
          "pdts_cmd_control", "pdts_control", "pdts_status", "pdts_ts_preset"}
Partly == {"PurgeDDR", "eventDataInterfaceSelect", "eventDataControl", "eventDataPhaseControl",
           "c2c_control", "c2c_master_intr_control", "comm_clock_control", "comm_led_config",
           "qi_dac_control", "qi_dac_config", "bias_control", "bias_config", "vmon_config",
           "vmon_gpio", "vmon_control", "imon_config", "imon_gpio", "imon_control", "calib_build",
           "module_id", "c2c_slave_intr_control", "trigger_input_delay", "gpio_output_width",
           "front_panel_config", "dsp_led_config", "baseline_delay", "event_data_control",
           "adc_config_load", "qi_config", "qi_delay", "qi_pulse_width", "qi_pulsed",
           "external_gate_width", "master_logic_control", "dsp_clock_control",
           "dsp_clock_phase_control"} \cup (ToSet(TriggerArrays \o WindowArrays) \ Whole)

\* the registers by name: two arrays are an element shorter than their fields
fNamed ==
  [n \in Names |-> [at |-> Field[n],
                    size |-> IF n \in {"vmon_value", "imon_value"} THEN 8 ELSE Declared(n),
                    writeMask |-> IF n \in Whole THEN Bits
                                  ELSE IF n \in Partly THEN {"rest"} ELSE {}]]

FirstOnly(at, i) == at  \* variant: the element's offset forgotten
\* an index beyond the end is a message in the log and no more
Element(at, i) == <<at[1], at[2] + i>>
-----------------------------------------------------------------------------
(* Settings: by name (of an array all, one by one, or a single element), by *)
(* address, or logical, of all channels.                                    *)

Value(s, i) == <<s, i>>
Plain(n) == [kind |-> "plain", name |-> n]
All(n) == [kind |-> "ALL_", name |-> n]
Arr(n, length) == [kind |-> "ARR_", name |-> n, length |-> length]
Ele(n, index) == [kind |-> "ELE_", name |-> n, index |-> index]
\* another prefix, or none, before the name of a register
Misspelt(n) == [kind |-> "other", name |-> n]
Literal(at, mask) == [kind |-> "Literals", at |-> at, mask |-> mask]
Logical(groups, valid) == [kind |-> "ChannelControl", groups |-> groups, valid |-> valid]

\* the order of the keys' names
Order == <<"ALL_", "ARR_", "ChannelControl", "ELE_", "Literals", "other", "plain">>
Rank(s) == CHOOSE k \in DOMAIN Order : Order[k] = s.kind

RegistersInit ==
  /\ hardwareConfig \in HardwareConfigs /\ keysLeft = hardwareConfig
  /\ regs = <<>> /\ chControlReg = [i \in ChannelIndex |-> [b \in Bits |-> "zero"]]
  /\ regPc = "keys"

IsNext(s) == regPc = "keys" /\ s \in keysLeft /\ \A t \in keysLeft : Rank(s) <= Rank(t)
Done(s) == keysLeft' = keysLeft \ {s} /\ UNCHANGED <<hardwareConfig, regPc>>

\* words written to, the rest stays as it is
Contents(at) == IF at \in DOMAIN regs THEN regs[at] ELSE [b \in Bits |-> "untouched"]
Write(ats, mask, value) ==
  regs' = [a \in DOMAIN regs \cup ats |->
            [b \in Bits |-> IF a \in ats /\ b \in mask THEN value[a] ELSE Contents(a)[b]]]

\* a setting that is refused: the exception leaves the constructor of the reader
Refused(s) ==
  /\ IsNext(s) /\ regPc' = "failed" /\ UNCHANGED <<hardwareConfig, keysLeft, regs, chControlReg>>

ForChannels(s) == s.name = "channel_control" /\ s.kind \in {"ALL_", "ARR_", "ELE_", "other"}
ByName(s, kind) == IsNext(s) /\ s.kind = kind /\ ~ForChannels(s)

SetRegisterByName(s) ==
  /\ ByName(s, "plain") /\ s.name \in Names /\ fNamed[s.name].size = 1
  /\ LET reg == fNamed[s.name] IN Write({reg.at}, reg.writeMask, [a \in {reg.at} |-> Value(s, 0)])
  /\ Done(s) /\ UNCHANGED chControlReg

SetRegisterElementByName(s) ==
  /\ ByName(s, "ELE_") /\ s.name \in Names
  /\ LET reg == fNamed[s.name]
         ats == {Element(reg.at, s.index)}
     IN Write(ats, reg.writeMask, [a \in ats |-> Value(s, s.index)])
  /\ Done(s) /\ UNCHANGED chControlReg

\* arrays are written without a mask
SetRegisterArrayByName(s) ==
  /\ IsNext(s) /\ s.kind \in {"ALL_", "ARR_"} /\ ~ForChannels(s) /\ s.name \in Names
  /\ LET reg == fNamed[s.name]
         ats == {Element(reg.at, i) : i \in 0..(reg.size - 1)}
     IN /\ s.kind = "ARR_" => s.length = reg.size
        /\ Write(ats, Bits,
                 [a \in ats |-> Value(s, IF s.kind = "ALL_" THEN 0 ELSE a[2] - reg.at[2])])
  /\ Done(s) /\ UNCHANGED chControlReg

\* no such name, an array as if it were one register, a wrong number of values
RefuseByName(s) ==
  /\ \E kind \in {"plain", "ELE_", "ALL_", "ARR_", "other"} : ByName(s, kind)
  /\ \/ s.kind = "other" \/ s.name \notin Names
     \/ s.kind = "plain" /\ s.name \in Names /\ fNamed[s.name].size > 1
     \/ s.kind = "ARR_" /\ s.name \in Names /\ s.length # fNamed[s.name].size
  /\ Refused(s)

SetLiteral(s) ==
  /\ IsNext(s) /\ s.kind = "Literals" /\ Write({s.at}, s.mask, [a \in {s.at} |-> Value(s, 0)])
  /\ Done(s) /\ UNCHANGED chControlReg

\* the control words are kept for later; a short list of values is read beyond its end
KeepChannelControl(s) ==
  /\ IsNext(s) /\ s.kind \in {"ALL_", "ARR_", "ELE_"} /\ ForChannels(s)
  /\ chControlReg' =
       [i \in ChannelIndex |->
         CASE s.kind = "ALL_" -> [b \in Bits |-> Value(s, 0)]
           [] s.kind = "ARR_" -> [b \in Bits |-> IF i < s.length THEN Value(s, i) ELSE "garbage"]
           [] s.kind = "ELE_" /\ i = s.index -> [b \in Bits |-> Value(s, i)]
           [] OTHER -> chControlReg[i]]
  /\ Done(s) /\ UNCHANGED regs

\* with another prefix they are passed over in silence, logical settings come later
PassOver(s) ==
  /\ IsNext(s) /\ (s.kind = "ChannelControl" \/ (s.kind = "other" /\ ForChannels(s)))
  /\ Done(s) /\ UNCHANGED <<regs, chControlReg>>

LogicalSettings == {s \in hardwareConfig : s.kind = "ChannelControl"}
IsLogical(b) == \E s \in LogicalSettings : b \in s.groups
BuildChannelControlRegisters ==
  /\ regPc = "keys" /\ keysLeft = {}
  /\ IF \A s \in LogicalSettings : s.valid
       THEN /\ regPc' = "channels"
            /\ chControlReg' = [i \in ChannelIndex |->
                 [b \in Bits |-> IF IsLogical(b) THEN "logical" ELSE chControlReg[i][b]]]
       ELSE regPc' = "failed" /\ UNCHANGED chControlReg
  /\ UNCHANGED <<hardwareConfig, keysLeft, regs>>

SendChannelControl ==
  /\ regPc = "channels" /\ regPc' = "done"
  /\ LET at == fNamed["channel_control"].at
         words == {Element(at, i) : i \in ChannelIndex}
     IN regs' = [a \in DOMAIN regs \cup words |->
                  IF a \in words THEN chControlReg[a[2] - at[2]] ELSE Contents(a)]
  /\ UNCHANGED <<hardwareConfig, keysLeft, chControlReg>>

\* a command fails, whatever the setting
CommandFails ==
  /\ regPc \in {"keys", "channels"} /\ regPc' = "failed"
  /\ UNCHANGED <<hardwareConfig, keysLeft, regs, chControlReg>>

RegistersNext ==
  \/ \E s \in keysLeft :
       \/ SetRegisterByName(s) \/ SetRegisterElementByName(s) \/ SetRegisterArrayByName(s)
       \/ RefuseByName(s) \/ SetLiteral(s) \/ KeepChannelControl(s) \/ PassOver(s)
  \/ BuildChannelControlRegisters \/ SendChannelControl \/ CommandFails

RegistersSpec == RegistersInit /\ [][RegistersNext]_registerVars
-----------------------------------------------------------------------------
(* Properties. *)

\* where the words of a field are
At(n, i) == <<Field[n][1], Field[n][2] + i>>
AllWords == UNION {{At(n, i) : i \in 0..(Declared(n) - 1)} : n \in Names}
ControlWords == {At("channel_control", i) : i \in ChannelIndex}

\* the elements of a field that a setting by name is about
Meant(s) ==
  CASE s.kind = "plain" -> {0}
    [] s.kind = "ELE_" -> {s.index} \cap 0..(Declared(s.name) - 1)
    [] s.kind \in {"ALL_", "ARR_"} -> 0..(fNamed[s.name].size - 1)
    [] OTHER -> {}

\* whether a setting is about these bits of a word, and what it says of them
Means(s, a, b) ==
  IF s.kind = "Literals" THEN s.at = a /\ b \in s.mask
  ELSE /\ \E i \in Meant(s) : At(s.name, i) = a
       /\ s.kind \in {"plain", "ELE_"} => b \in fNamed[s.name].writeMask
Says(s, a) == Value(s, IF s.kind \in {"ELE_", "ARR_"} THEN a[2] - Field[s.name][2] ELSE 0)

\* the setting among these that comes last
LastOf(some) == CHOOSE s \in some : \A t \in some : Rank(t) <= Rank(s)
SaidOf(a, b) ==
  LET about == {s \in hardwareConfig : Means(s, a, b)}
  IN IF about = {} THEN "untouched" ELSE Says(LastOf(about), a)

\* what the settings say of a channel: logical ones first, then the last by name
SaidOfChannel(i, b) ==
  LET about == {s \in hardwareConfig : s.kind # "Literals" /\ Means(s, At("channel_control", i), b)}
  IN CASE IsLogical(b) -> "logical"
       [] about = {} -> "zero"
       [] OTHER -> Says(LastOf(about), At("channel_control", i))

ShortLists == {s \in hardwareConfig : s.kind = "ARR_" /\ s.length < fNamed[s.name].size}
Strayed == {At(s.name, s.index) : s \in {t \in hardwareConfig :
                                          t.kind = "ELE_" /\ t.index >= Declared(t.name)}}

(* A board that is configured has in every register what the last setting  *)
(* about it says, its bits that may not be set one by one as they were,    *)
(* and the control words what the logical settings say, else the elements, *)
(* else the whole array, else zero, whatever literals said of them: but    *)
(* for a word that an index beyond its array has strayed to, and control   *)
(* words whose list is short.                                              *)
RegistersRight ==
  regPc = "done" =>
    /\ \A a \in (AllWords \cup DOMAIN regs) \ (ControlWords \cup Strayed) : \A b \in Bits :
         Contents(a)[b] = SaidOf(a, b)
    /\ ShortLists = {} =>
         \A i \in ChannelIndex : \A b \in Bits :
           Contents(At("channel_control", i))[b] = SaidOfChannel(i, b)
=============================================================================
