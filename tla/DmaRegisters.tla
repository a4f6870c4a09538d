---------------------------- MODULE DmaRegisters ----------------------------
(***************************************************************************)
(* The register file of emulator-core/src/dma.rs and the latch of          *)
(* emulator-core/src/irq.rs, as values: DICR with its flags, enables and   *)
(* computed master flag, the channels with their CHCR start bit, and the   *)
(* DPCR enables.  MADR, and the bits of CHCR and BCR no decision of the    *)
(* bus reads, are left out.  DICR bit 15 (bus error) is left out too: it   *)
(* starts clear and no 32-bit write, the only kind a CPU store makes here, *)
(* can set it.                                                             *)
(***************************************************************************)
EXTENDS Integers

CONSTANTS
  Channels,   \* the DMA channels of the instance, a subset of 0..6
  Modes,      \* Modes[ch]: the CHCR variants of a channel that behave apart
  Words       \* the BCR lengths software programs

ASSUME WordsAssumption == Words \subseteq Nat

DicrType == [enable : SUBSET Channels, master : BOOLEAN, flags : SUBSET Channels]

ChannelType == [start : BOOLEAN, mode : UNION {Modes[ch] : ch \in Channels}, words : Words]

ResetDicr == [enable |-> {}, master |-> FALSE, flags |-> {}]

\* Bit 31 of DICR as software reads it.
MasterFlag(dicr) == dicr.master /\ dicr.flags # {}

\* A 32-bit write: the enables are replaced, a flag written 1 is cleared.
WriteDicr(dicr, value) ==
  [enable |-> value.enable, master |-> value.master,
   flags  |-> dicr.flags \ value.flags]

\* Mutant: writing 1 to a flag of a disabled channel leaves it set.
WriteDicrKeepingDisabled(dicr, value) ==
  [WriteDicr(dicr, value) EXCEPT !.flags = dicr.flags \ (value.flags \cap value.enable)]

\* The flag is set only under the channel's enable and the master enable.
NotifyDone(dicr, ch) ==
  IF ch \in dicr.enable /\ dicr.master
  THEN [dicr EXCEPT !.flags = @ \cup {ch}]
  ELSE dicr

\* Both write_dicr and notify_channel_done return the 0-to-1 edge.
MasterEdge(before, after) == ~MasterFlag(before) /\ MasterFlag(after)
=============================================================================
