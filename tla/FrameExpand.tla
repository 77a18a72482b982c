----------------------------- MODULE FrameExpand -----------------------------
(***************************************************************************)
(* How the samples of a FELIX frame reach the search for hits, and the     *)
(* names its channels get. The samples of the collection wires are put     *)
(* from the packed segments into registers of sixteen, six to a frame, and *)
(* the registers of a message side by side; a hit knows its wire by the    *)
(* place there alone. Two tables give its channel in the link and its      *)
(* channel offline, relative to a base that the channel map, read from two *)
(* files, gives for the first frame's crate, slot and fiber.               *)
(***************************************************************************)
EXTENDS FelixReorder

CONSTANTS
  WIBs,         \* slots of the links (bound)
  Listed,       \* stream channels of which the files' lines are looked at (bound)
  WindowMsgs    \* messages of a window (bound)

ASSUME FrameExpandAssumption ==
  WIBs \subseteq 0..4 /\ Listed \subseteq 0..127 /\ WindowMsgs \in Nat

REGISTERS_PER_FRAME == 6
SAMPLES_PER_REGISTER == 16
FRAMES_PER_MSG == 12
Entries == 0..SAMPLES_PER_REGISTER - 1
Indices == 0..REGISTERS_PER_FRAME * SAMPLES_PER_REGISTER - 1

VARIABLES
  felixLink,     \* crate, slot and fiber, of the headers
  mapFiles,      \* what opening and reading the map's files comes to
  mapped,        \* the map: "none", "loaded" or "thrown"
  registers,     \* of the messages expanded so far
  expandedMsgs,
  base           \* m_offline_channel_base

expandVars == <<felixLink, mapFiles, mapped, registers, expandedMsgs, base>>

ExpandInit ==
  /\ felixLink \in [crate : 1..6, slot : WIBs, fiber : {1, 2}]
  /\ mapFiles \in {"good", "missing", "outOfRange"} /\ mapped = "none"
  /\ registers = <<>> /\ expandedMsgs = 0 /\ base = 0
-----------------------------------------------------------------------------
(* Two segments into a register of sixteen samples. *)

Zero == [seg |-> -1, adc |-> -1, nibble |-> -1]
None == 255

lane_shuffle == <<0, 1, 2, 0, 3, 4, 5, 0>>
shuffle_mask_lo == <<0, 2, 2, 4, 6, 8, 8, 10, 1, 3, 3, 5, 7, 9, 9, 11>>
shuffle_mask_hi == <<0, None, 4, None, 6, None, 10, None, 1, None, 5, None, 7, None, 11, None>>

\* byte p of a half of the register, once the second segment begins with it
LaneByte(first, half, p) ==
  LET n == 4 * lane_shuffle[4 * half + (p \div 4) + 1] + (p % 4)
  IN  IF p = None THEN <<Zero, Zero>> ELSE Byte(first + (n \div 12), n % 12)

\* item i, of four nibbles, the lowest first
Item(first, i, mask) == LET p == 2 * (i % 8) IN
  LaneByte(first, i \div 8, mask[p + 1]) \o LaneByte(first, i \div 8, mask[p + 2])

\* variant: the odd items are not shifted
Unshifted(first) ==
  [i \in Entries |->
     LET lo == Item(first, i, shuffle_mask_lo)
         hi == Item(first, i, shuffle_mask_hi)
     IN  <<lo[1], hi[2], lo[3], hi[4]>>]

\* the low nibbles of the bytes come from one arrangement, the high ones from the other; of
\* the odd items, which begin in the middle of a byte, both are shifted first
expand_two_segments(first) ==
  [i \in Entries |->
     LET lo == Item(first, i, shuffle_mask_lo)
         hi == Item(first, i, shuffle_mask_hi)
     IN  IF i % 2 = 0 THEN <<lo[1], hi[2], lo[3], hi[4]>> ELSE <<lo[2], hi[1], lo[4], hi[3]>>]
-----------------------------------------------------------------------------
(* The collection wires of a block, of a frame and of a message. *)

expanded_all == [j \in 0..3 |-> expand_two_segments(2 * j)]

FromSecond == {0, 1, 2, 3, 8, 9}          \* blend_mask
shuffle_mask == <<0, 1, 3, 4, 6, 7, 0, 0>>

expanded_coll ==
  [h \in 0..1 |->
     LET blended == [i \in Entries |->
                       expanded_all[2 * h + (IF i \in FromSecond THEN 1 ELSE 0)][i]]
     IN  [i \in Entries |-> IF i < 12 THEN blended[2 * shuffle_mask[(i \div 2) + 1] + (i % 2)]
                                      ELSE <<Zero, Zero, Zero, Zero>>]]

adcs_tmp == [r \in 0..7 |-> [i \in Entries |-> <<r \div 2, expanded_coll[r % 2][i]>>]]

\* the places that are left in six registers take the samples of the last two
get_frame_collection_adcs ==
  [r \in 0..REGISTERS_PER_FRAME - 1 |->
     [i \in Entries |-> IF i < 12 THEN adcs_tmp[r][i]
                                  ELSE adcs_tmp[6 + (r \div 3)][4 * (r % 3) + i - 12]]]

MessageRegisters == REGISTERS_PER_FRAME * FRAMES_PER_MSG

\* a register of one time is next to that of the next time; frame counts through the messages
expand_message_adcs(firstFrame) ==
  [p \in 0..MessageRegisters - 1 |->
     [i \in Entries |-> <<firstFrame + (p % FRAMES_PER_MSG),
                          get_frame_collection_adcs[p \div FRAMES_PER_MSG][i]>>]]

\* of a window of messages: a register at a time, and one sample of it
get256(ireg, itime) ==
  registers[MessageRegisters * (itime \div 12) + FRAMES_PER_MSG * ireg + (itime % 12)]
get16(ichan, itime) ==
  LET at == (MessageRegisters * (itime \div 12) * SAMPLES_PER_REGISTER)
            + (ichan \div SAMPLES_PER_REGISTER) * SAMPLES_PER_REGISTER * FRAMES_PER_MSG
            + SAMPLES_PER_REGISTER * (itime % 12) + (ichan % SAMPLES_PER_REGISTER)
  IN  registers[at \div SAMPLES_PER_REGISTER][at % SAMPLES_PER_REGISTER]
-----------------------------------------------------------------------------
(* The tables of a hit's channel. Six rows of sixteen: the row's twelve in *)
(* an order all rows share, and a third of what the seventh or eighth row  *)
(* had.                                                                    *)

InRow(i) == i % SAMPLES_PER_REGISTER
Row(i) == i \div SAMPLES_PER_REGISTER
\* where the sample stands before the last two registers are taken apart, and its place there
TmpRow(i) == IF InRow(i) < 12 THEN Row(i) ELSE 6 + (Row(i) \div 3)
TmpPlace(i) == IF InRow(i) < 12 THEN InRow(i) ELSE 4 * (Row(i) % 3) + InRow(i) - 12

collection_index_to_channel(i) ==
  32 * TmpRow(i) + <<16, 17, 18, 19, 10, 11, 20, 21, 12, 13, 14, 15>>[TmpPlace(i) + 1]
collection_index_to_offline(i) ==
  <<12, 0, 24, 36, 252, 240, 264, 276>>[TmpRow(i) + 1]
  + <<0, 2, 4, 6, 11, 9, 8, 10, 7, 5, 3, 1>>[TmpPlace(i) + 1]
-----------------------------------------------------------------------------
(* The channel map. *)

\* protoDUNETPCChannelMap_FELIX_v4: the channel of a line of the file, for the collection
\* wires of a stream; the order turns round from one side of the beam and of the crate to the
\* other
CollectionStreams == {t \in 0..127 : t % 32 \in 10..21}
FelixFile(crate, slot, fiber, t) ==
  LET k == (t % 32) - 10
      wire == 240 * (fiber % 2) + <<12, 0, 24, 36>>[(t \div 32) + 1]
              + IF k < 6 THEN 11 - 2 * k ELSE 2 * (k - 6)
  IN  2560 * crate + IF (crate % 2 = 1) <=> (fiber < 2) THEN 1600 + 48 * slot + wire
                                                        ELSE 2559 - 48 * slot - wire

\* protoDUNETPCChannelMap_RCE_v4 has the same wire under another stream channel
RceStream(t) == 16 * (t \div 16) + IF t % 16 < 8 THEN 2 * (t % 16) ELSE 2 * (t % 8) + 1

Lines == [crate : 0..5, slot : WIBs, fiber : 0..3, stream : Listed \cap CollectionStreams]
OfflineOf(l) == FelixFile(l.crate, l.slot, l.fiber, l.stream)
StreamOf(l, k) == IF k = "FELIX" THEN l.stream ELSE RceStream(l.stream)

\* the constructor: both files, in turn, up to the first that cannot be opened or the first
\* number that is out of range
LoadMap ==
  /\ mapped = "none" /\ mapped' = IF mapFiles = "good" THEN "loaded" ELSE "thrown"
  /\ UNCHANGED <<felixLink, mapFiles, registers, expandedMsgs, base>>

fvInstalledAPA == <<3, 5, 2, 6, 1, 4>>
TPCSet(installed) == (CHOOSE i \in 1..6 : fvInstalledAPA[i] = installed) - 1

\* installed crates and fibers count from one; a wrong number falls back
GetOfflineNumber(crate, slot, fiber, streamchannel, k) ==
  LET set == TPCSet(IF crate \in 1..6 THEN crate ELSE 1)
      lslot == IF slot < 5 THEN slot ELSE 0
      lfiber == IF fiber \in 1..4 THEN fiber ELSE 1
      stream == IF k = "FELIX" THEN streamchannel
                               ELSE CHOOSE t \in 0..127 : RceStream(t) = streamchannel
  IN  FelixFile(set, lslot, lfiber - 1, stream)

LineOf(offline) == CHOOSE l \in Lines : OfflineOf(l) = offline
InstalledAPAFromOffline(offline) == fvInstalledAPA[LineOf(offline).crate + 1]
WIBFromOffline(offline) == LineOf(offline).slot
FEMBFromOffline(offline) == LineOf(offline).fiber + 1
StreamChannelFromOffline(offline, k) == StreamOf(LineOf(offline), k)

\* a link has two fibers of the map
getOfflineChannel(f, ch) ==
  LET fiberloc == (IF f.fiber = 2 THEN 3 ELSE 1) + IF ch > 127 THEN 1 ELSE 0
  IN  GetOfflineNumber(f.crate, f.slot, fiberloc, ch % 128, "FELIX")
-----------------------------------------------------------------------------
(* The processing thread. *)

ExpandMessage ==
  /\ mapped = "loaded" /\ expandedMsgs < WindowMsgs /\ expandedMsgs' = expandedMsgs + 1
  /\ LET n == expandedMsgs * MessageRegisters
         new == expand_message_adcs(expandedMsgs * FRAMES_PER_MSG)
     IN  registers' = [p \in 0..n + MessageRegisters - 1 |->
                         IF p < n THEN registers[p] ELSE new[p - n]]
  /\ base' = IF expandedMsgs = 0 THEN getOfflineChannel(felixLink, 48) ELSE base
  /\ UNCHANGED <<felixLink, mapFiles, mapped>>

\* addHitsToQueue(): of a hit at place i of the registers
OfflineChannel(i) ==
  base + (IF felixLink.fiber = 1 THEN 1 ELSE -1) * collection_index_to_offline(i)

ExpandNext == LoadMap \/ ExpandMessage
ExpandSpec == ExpandInit /\ [][ExpandNext]_expandVars
-----------------------------------------------------------------------------
(* Properties. *)

(* What stands at a place of the registers is, at every time of the window,  *)
(* the sample of the frame of that time and of the channel that              *)
(* collection_index_to_channel() names, whole and in its own bits, read as a *)
(* register or alone; and every collection channel of the frame is there.    *)
ExpandedRight ==
  expandedMsgs > 0 =>
    /\ {collection_index_to_channel(i) : i \in Indices}
         = {c \in 0..255 : c % 128 \in CollectionStreams}
    /\ \A i \in Indices : \A t \in 0..expandedMsgs * FRAMES_PER_MSG - 1 :
         LET c == collection_index_to_channel(i) IN
         /\ get16(i, t) = <<t, <<c \div 64, Append(Channel(c % 64), Zero)>>>>
         /\ get16(i, t) = get256(Row(i), t)[InRow(i)]

(* The offline channel that a hit gets is the one the map has for the        *)
(* channel of its wire, for the crates of the side of the beam where the     *)
(* FELIX readout was: for the others the pattern is turned round, and only   *)
(* the first wire's channel is right.                                        *)
OfflinesRight ==
  expandedMsgs > 0 =>
    \A i \in Indices :
      OfflineChannel(i) = getOfflineChannel(felixLink, collection_index_to_channel(i))
      <=> felixLink.crate \in 4..6 \/ collection_index_to_offline(i) = 0

(* Asked for the offline channel of the crate, slot, fiber and stream that   *)
(* it gives for an offline channel, the map gives that channel again, for    *)
(* the numbering of either readout.                                          *)
MapInverse ==
  mapped = "loaded" /\ expandedMsgs = 0 =>
    \A l \in Lines : \A k \in {"FELIX", "RCE"} :
      LET o == OfflineOf(l) IN
      GetOfflineNumber(InstalledAPAFromOffline(o), WIBFromOffline(o), FEMBFromOffline(o),
                       StreamChannelFromOffline(o, k), k) = o

(* FELIX data keep their channels: reordered for a fragment, expanded for    *)
(* the search for hits, and named offline.                                   *)
FramesRight == ReorderedRight /\ ExpandedRight /\ OfflinesRight /\ MapInverse
=============================================================================
