------------------------------ MODULE MCBusDma ------------------------------
\* All four channels, two of them at a time, and the VBlank; a clock long enough
\* for a drain to be late by more than a VBlank period.
EXTENDS BusDma

MCModes == [ch \in Channels |->
              CASE ch = Gpu -> {"manual", "request"}
                [] ch = Cd  -> {"burst", "chopped"}
                [] ch = Spu -> {"manual"}
                [] ch = Otc -> {"trigger", "no trigger"}]
MCCost == [ch \in Channels |-> [w \in Words |-> IF ch = Cd THEN 3 ELSE 2]]
MCSlots == {SlotOf[ch] : ch \in Channels} \cup {VBlank}
MCMaxTime == 20
MCDpcrValues == {{}, Channels}

\* Enable every channel; the same, acknowledging every flag; interrupts off.
EnableAll == [enable |-> Channels, master |-> TRUE, flags |-> {}]
AcknowledgeAll == [EnableAll EXCEPT !.flags = Channels]
MCDicrValues == {EnableAll, AcknowledgeAll, ResetDicr}

\* The deadline of a slot that is not pending is never read.
PendingOnly ==
  <<[bus EXCEPT !.queue.targets = [s \in bus.queue.pending |-> bus.queue.targets[s]]],
    line, drain>>

JustOne == {1}
AllFour == {2, 3, 4, 6}
GpuAndCd == {2, 3}
SpuAndOtc == {4, 6}

\* The channels that a behaviour uses, told by the transfer length of its initial
\* state: the GPU and the CD over a shorter time, a CD burst's hold apart, with
\* DICR's master enable always on, or the SPU and the OTC with interrupts turned off
\* and on.
OneOrTwo == {1, 2}

AtRest(ch) ==
  /\ ~bus.chan[ch].start
  /\ bus.chan[ch].mode = ResetMode(ch)
  /\ SlotOf[ch] \notin bus.queue.pending
  /\ ch \notin bus.granted
  /\ ch \notin bus.refused
  /\ ch # Otc => ~line[ch]

OnePair ==
  IF bus.chan[Gpu].words = 1
  THEN /\ bus.now <= 2 \/ drain # Idle \/ (bus.now = 3 /\ bus.granted = {Cd})
       /\ bus.dicr = ResetDicr \/ bus.dicr.master
       /\ \A ch \in Channels : bus.chan[ch].words = 1
       /\ \A ch \in SpuAndOtc : AtRest(ch)
  ELSE /\ \A ch \in Channels : bus.chan[ch].words = 2
       /\ \A ch \in GpuAndCd : AtRest(ch)
=============================================================================
