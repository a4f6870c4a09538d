------------------------------- MODULE BusDma -------------------------------
(***************************************************************************)
(* The event core of emulator-core/src/bus.rs: CPU stores to the DMA       *)
(* registers, the kick of a channel, the clock, and the scheduler drain    *)
(* that completes transfers and raises interrupts.  Channels 2 (GPU, the   *)
(* block and manual modes), 3 (CD-ROM), 4 (SPU) and 6 (OTC) and VBlank are *)
(* here; channels 0 and 1 are in MdecDma, the linked-list walk of channel  *)
(* 2 is in GpuListWalk.                                                    *)
(*                                                                         *)
(* `bus` holds what the methods of Bus take as `&mut self`; the operators  *)
(* named after them take and return such a record.  A drain is a sequence  *)
(* of steps, one per round of its loops; the CPU does nothing before it    *)
(* ends.                                                                   *)
(***************************************************************************)
EXTENDS DmaRegisters, DeadlineQueue

CONSTANTS
  Cost,           \* Cost[ch][words]: clocks a transfer takes on the bus
  FirstVBlank,    \* clock of the first VBlank after power-on
  VBlankPeriod,   \* clocks of a field; the video region does not change here
  TickLengths,    \* clocks an instruction adds
  DpcrValues,     \* the channel enables software writes to DPCR
  DicrValues,     \* the values software writes to DICR
  MaxClock        \* bound of the model: the clock does not pass it

Gpu == 2
Cd  == 3
Spu == 4
Otc == 6

VBlank == 14
SlotOf == [ch \in {Gpu, Cd, Spu, Otc} |->
             CASE ch = Gpu -> 4 [] ch = Cd -> 9 [] ch = Spu -> 6 [] ch = Otc -> 8]

\* The variant CHCR = 0 stands for.
ResetMode(ch) == CASE ch = Otc -> "no trigger" [] ch = Cd -> "burst" [] OTHER -> "manual"

ASSUME ChannelsAssumption == Channels \subseteq {Gpu, Cd, Spu, Otc}
ASSUME SlotsOfChannels    == Slots = {SlotOf[ch] : ch \in Channels} \cup {VBlank}
ASSUME CostAssumption     == Cost \in [Channels -> [Words -> Nat \ {0}]]
ASSUME ModesAssumption    == \A ch \in Channels : ResetMode(ch) \in Modes[ch]
ASSUME PeriodAssumption   == FirstVBlank \in Nat \ {0} /\ VBlankPeriod \in Nat \ {0}
\* A 64-bit clock does not reach the end of its range.
ASSUME ClockAssumption    == MaxClock \in Nat /\ MaxClock + FirstVBlank + VBlankPeriod <= MaxTime
ASSUME TicksAssumption    == TickLengths \subseteq Nat \ {0}
ASSUME StoresAssumption   == DpcrValues \subseteq SUBSET Channels /\ DicrValues \subseteq DicrType

VARIABLES
  bus,    \* now, queue, dpcr, chan, dicr, istat, waiting; and three histories:
          \* `granted` and `refused`, the channels whose latest kick moved its
          \* payload or was turned away for good, and `acked`, that software
          \* has acknowledged IRQ3 since DICR's master flag last rose
  line,   \* the device lines the bus samples when a channel is kicked: GPU DREQ,
          \* a sector in the CD FIFO, SPUCNT in a transfer mode
  drain   \* where the scheduler drain is, whether it is the branch-boundary one,
          \* and the `dma_edge` it has gathered

vars == <<bus, line, drain>>

BusType ==
  [now : 0..MaxClock, queue : QueueType, dpcr : SUBSET Channels,
   chan : [Channels -> ChannelType], dicr : DicrType,
   istat : SUBSET {"VBlank", "Dma"}, waiting : BOOLEAN,
   granted : SUBSET Channels, refused : SUBSET Channels, acked : BOOLEAN]

LineType == [Channels \ {Otc} -> BOOLEAN]

DrainType == [stage : {"cpu", "vblank", "slots"}, post : BOOLEAN, edge : BOOLEAN]

Idle == [stage |-> "cpu", post |-> FALSE, edge |-> FALSE]

Init ==
  /\ \E w \in Words :
       bus = [now |-> 0,
              queue |-> Schedule(EmptyQueue, VBlank, 0, FirstVBlank),
              dpcr |-> {},
              chan |-> [ch \in Channels |->
                          [start |-> FALSE, mode |-> ResetMode(ch), words |-> w]],
              dicr |-> ResetDicr, istat |-> {}, waiting |-> FALSE,
              granted |-> {}, refused |-> {}, acked |-> FALSE]
  /\ line = [ch \in Channels \ {Otc} |-> FALSE]
  /\ drain = Idle

-----------------------------------------------------------------------------
\* The methods of Bus.

\* A granted kick: its payload has moved, its completion is `delay` from now.
Grant(b, ch, delay) ==
  [b EXCEPT !.queue = Schedule(@, SlotOf[ch], b.now, delay),
            !.granted = @ \cup {ch}]

\* A kick turned away: nothing is scheduled and nothing retries it.
Refuse(b, ch) == [b EXCEPT !.refused = @ \cup {ch}]

CostOf(b, ch) == Cost[ch][b.chan[ch].words]

\* Mutant: CHCR clears as a whole, its sync mode and direction included.
RestingModeCleared(ch, mode) == "cleared"

\* What is left of a channel's variant once it completes: the trigger bit of
\* OTC and of a CD burst clears with the start bit.
RestingMode(ch, mode) == IF ch \in {Otc, Cd} THEN ResetMode(ch) ELSE mode

\* complete_dma_channel: the start bit clears and DICR is told.
Complete(b, ch) ==
  [b EXCEPT !.chan[ch].start = FALSE,
            !.chan[ch].mode = RestingMode(ch, @),
            !.dicr = NotifyDone(@, ch),
            !.granted = @ \ {ch},
            !.refused = @ \ {ch}]

RaiseOnEdge(before, after) ==
  IF MasterEdge(before.dicr, after.dicr)
  THEN [after EXCEPT !.istat = @ \cup {"Dma"}]
  ELSE after

CompleteNow(b, ch) == RaiseOnEdge(b, Complete(b, ch))

\* Mutant: a kick under a disabled channel is dropped.
KickGpuDroppedWhenDisabled(b) ==
  LET ch == b.chan[Gpu]
  IN  IF ~ch.start \/ Gpu \notin b.dpcr
      THEN [b EXCEPT !.waiting = FALSE]
      ELSE IF ch.mode = "request" /\ ~line[Gpu]
      THEN [b EXCEPT !.waiting = TRUE]
      ELSE Grant([b EXCEPT !.waiting = FALSE], Gpu, CostOf(b, Gpu))

\* The GPU arm of run_dma_channel.  A kick that cannot start is remembered in
\* gpu_dma_waiting_for_request.
KickGpu(b) ==
  LET ch == b.chan[Gpu]
  IN  IF ~ch.start
      THEN [b EXCEPT !.waiting = FALSE]
      ELSE IF Gpu \notin b.dpcr \/ (ch.mode = "request" /\ ~line[Gpu])
      THEN [b EXCEPT !.waiting = TRUE]
      ELSE Grant([b EXCEPT !.waiting = FALSE], Gpu, CostOf(b, Gpu))

\* advance_cycles: the clock, then the retry of a waiting GPU kick.
Advance(b, n) ==
  LET later == [b EXCEPT !.now = @ + n]
  IN  IF ~b.waiting THEN later
      ELSE IF SlotOf[Gpu] \in b.queue.pending THEN [later EXCEPT !.waiting = FALSE]
      ELSE KickGpu(later)

\* The CD arm.  An empty FIFO completes at once; a chopped burst is scheduled;
\* any other burst holds the CPU off the bus and completes when it is over.
KickCd(b) ==
  IF Cd \notin b.dpcr THEN Refuse(b, Cd)
  ELSE IF ~line[Cd] THEN CompleteNow(b, Cd)
  ELSE IF b.chan[Cd].mode = "chopped" THEN Grant(b, Cd, CostOf(b, Cd))
  ELSE CompleteNow(Advance(b, CostOf(b, Cd)), Cd)

\* The SPU arm.  Outside a transfer mode nothing moves but the completion is
\* still scheduled, for the current cycle.
KickSpu(b) ==
  IF Spu \notin b.dpcr THEN Refuse(b, Spu)
  ELSE Grant(b, Spu, IF line[Spu] THEN CostOf(b, Spu) ELSE 0)

\* The OTC arm: START without TRIGGER moves nothing.  The transfer holds the
\* CPU for its length and completes two cycles after that.
KickOtc(b) ==
  IF Otc \notin b.dpcr \/ b.chan[Otc].mode # "trigger" THEN Refuse(b, Otc)
  ELSE Advance(Grant(b, Otc, CostOf(b, Otc) + 2), CostOf(b, Otc))

RunDmaChannel(b, ch) ==
  CASE ch = Gpu -> KickGpu(b)
    [] ch = Cd  -> KickCd(b)
    [] ch = Spu -> KickSpu(b)
    [] ch = Otc -> KickOtc(b)

-----------------------------------------------------------------------------
\* CPU stores, between two drains.

OnCpu == drain.stage = "cpu"

ClockWithinBound(b) == b.now <= MaxClock

\* A CHCR store.  With the start bit it runs this channel and no other; without
\* it the channel just stops: an event already scheduled for it stays.
WriteChcr(ch, start, mode) ==
  /\ OnCpu
  /\ LET written == [bus EXCEPT !.chan[ch].start = start, !.chan[ch].mode = mode,
                                !.granted = @ \ {ch}, !.refused = @ \ {ch}]
         after   == IF start THEN RunDmaChannel(written, ch) ELSE written
     IN  /\ ClockWithinBound(after)
         /\ bus' = after
  /\ UNCHANGED <<line, drain>>

WriteBcr(ch, words) ==
  /\ OnCpu
  /\ bus' = [bus EXCEPT !.chan[ch].words = words]
  /\ UNCHANGED <<line, drain>>

WriteDpcr(enabled) ==
  /\ OnCpu
  /\ bus' = [bus EXCEPT !.dpcr = enabled]
  /\ UNCHANGED <<line, drain>>

StoreDicr(value) ==
  /\ OnCpu
  /\ LET written == [bus EXCEPT !.dicr = WriteDicr(@, value)]
     IN  bus' = RaiseOnEdge(bus, [written EXCEPT !.acked = @ /\ MasterFlag(written.dicr)])
  /\ UNCHANGED <<line, drain>>

WriteIStat(kept) ==
  /\ OnCpu
  /\ bus' = [bus EXCEPT !.istat = @ \cap kept,
                       !.acked = @ \/ ("Dma" \notin kept /\ MasterFlag(bus.dicr))]
  /\ UNCHANGED <<line, drain>>

\* A device raises or drops a line the bus samples.
LineChanges(ch) ==
  /\ OnCpu
  /\ line' = [line EXCEPT ![ch] = ~@]
  /\ UNCHANGED <<bus, drain>>

-----------------------------------------------------------------------------
\* The clock and the drain.

\* The early out of drain_scheduler_events_inner, then the drain's first loop.
StartDrain(b, post) ==
  drain' = IF b.now < b.queue.earliest
           THEN Idle
           ELSE [stage |-> "vblank", post |-> post, edge |-> FALSE]

\* Bus::tick: an instruction's clocks, then the drain without the CD slot.
Tick(n) ==
  /\ OnCpu
  /\ bus' = Advance(bus, n)
  /\ ClockWithinBound(bus')
  /\ StartDrain(bus', FALSE)
  /\ UNCHANGED line

\* Bus::add_cycles: a load or store's clocks, with no drain.
AddCycles(n) ==
  /\ OnCpu
  /\ bus' = Advance(bus, n)
  /\ ClockWithinBound(bus')
  /\ UNCHANGED <<line, drain>>

\* drain_scheduler_events_post_op, at a branch boundary: the CD slot too.
BranchBoundary ==
  /\ OnCpu
  /\ StartDrain(bus, TRUE)
  /\ UNCHANGED <<bus, line>>

\* Mutant: re-armed from the clock of the drain.
RearmVBlankFromNow(b) ==
  [b EXCEPT !.queue = Schedule(Remove(@, VBlank), VBlank, b.now, VBlankPeriod)]

\* VBlank is re-armed from its own deadline, not from the clock.
RearmVBlank(b) ==
  [b EXCEPT !.queue = Schedule(Remove(@, VBlank), VBlank,
                               b.queue.targets[VBlank], VBlankPeriod)]

DrainVBlank ==
  /\ drain.stage = "vblank"
  /\ IF DueInclusive(bus.queue, VBlank, bus.now)
     THEN /\ bus' = [RearmVBlank(bus) EXCEPT !.istat = @ \cup {"VBlank"}]
          /\ UNCHANGED drain
     ELSE /\ drain' = [drain EXCEPT !.stage = "slots"]
          /\ UNCHANGED bus
  /\ UNCHANGED line

CdSlot == {SlotOf[ch] : ch \in Channels \cap {Cd}}

Excluded == IF drain.post THEN {} ELSE CdSlot

\* Mutant: the edge of the last completion overwrites the earlier ones.
DrainSlotLastEdge ==
  /\ drain.stage = "slots"
  /\ \E ch \in Channels :
       /\ NextDue(bus.queue, bus.now, Excluded) = SlotOf[ch]
       /\ bus' = Complete([bus EXCEPT !.queue = Remove(@, SlotOf[ch])], ch)
       /\ drain' = [drain EXCEPT !.edge = MasterEdge(bus.dicr, bus'.dicr)]
  /\ UNCHANGED line

\* One round of the take_due loop: the channel of the slot completes.
DrainSlot ==
  /\ drain.stage = "slots"
  /\ \E ch \in Channels :
       /\ NextDue(bus.queue, bus.now, Excluded) = SlotOf[ch]
       /\ bus' = Complete([bus EXCEPT !.queue = Remove(@, SlotOf[ch])], ch)
       /\ drain' = [drain EXCEPT !.edge = @ \/ MasterEdge(bus.dicr, bus'.dicr)]
  /\ UNCHANGED line

\* No slot is left; the branch boundary also takes a CD event due on this very
\* cycle; the edge gathered since the drain began raises IRQ3 once.
FinishDrain ==
  /\ drain.stage = "slots"
  /\ NextDue(bus.queue, bus.now, Excluded) = NoSlot
  /\ LET takesCd == /\ drain.post /\ Cd \in Channels
                    /\ DueInclusive(bus.queue, SlotOf[Cd], bus.now)
         after   == IF takesCd
                    THEN Complete([bus EXCEPT !.queue = Remove(@, SlotOf[Cd])], Cd)
                    ELSE bus
         edge    == drain.edge \/ MasterEdge(bus.dicr, after.dicr)
     IN  bus' = IF edge THEN [after EXCEPT !.istat = @ \cup {"Dma"}] ELSE after
  /\ drain' = Idle
  /\ UNCHANGED line

Next ==
  \/ \E ch \in Channels, start \in BOOLEAN : \E mode \in Modes[ch] : WriteChcr(ch, start, mode)
  \/ \E ch \in Channels, words \in Words : WriteBcr(ch, words)
  \/ \E enabled \in DpcrValues : WriteDpcr(enabled)
  \/ \E value \in DicrValues : StoreDicr(value)
  \/ \E kept \in SUBSET {"VBlank", "Dma"} : WriteIStat(kept)
  \/ \E ch \in Channels \ {Otc} : LineChanges(ch)
  \/ \E n \in TickLengths : Tick(n) \/ AddCycles(n)
  \/ BranchBoundary
  \/ DrainVBlank
  \/ DrainSlot
  \/ FinishDrain

Spec == Init /\ [][Next]_vars

-----------------------------------------------------------------------------
\* The registers, the queue and the drain keep their types.
TypeOK ==
  /\ bus \in BusType
  /\ line \in LineType
  /\ drain \in DrainType

\* A busy channel always has something that ends it: its completion event, or
\* (the GPU) the retry of every clock advance.  The exception is the kick that
\* run_dma_channel turned away, which only another CHCR store revives.
BusyHasAnEnd ==
  \A ch \in Channels : bus.chan[ch].start =>
    \/ SlotOf[ch] \in bus.queue.pending
    \/ ch = Gpu /\ bus.waiting
    \/ ch \in bus.refused

\* No DMA interrupt is lost: while the CPU runs, a DICR master flag that
\* software has not acknowledged since it rose shows in I_STAT, whichever of
\* the drain, an immediate completion and a DICR store raised it.
DmaInterruptNotLost ==
  OnCpu /\ MasterFlag(bus.dicr) => "Dma" \in bus.istat \/ bus.acked

\* VBlank keeps the grid of its period however late a drain takes it: a CD burst
\* that holds the bus over it moves the interrupt and no later VBlank.
VBlankKeepsItsGrid ==
  /\ VBlank \in bus.queue.pending
  /\ \E n \in 0..MaxTime : bus.queue.targets[VBlank] = FirstVBlank + n * VBlankPeriod

\* Would a drain (`post`: the branch-boundary one) that ends now have left the
\* event of slot s behind?
Overdue(b, s, post) ==
  /\ s \in b.queue.pending
  /\ IF s = VBlank \/ (post /\ s \in CdSlot)
     THEN b.queue.targets[s] <= b.now
     ELSE s \notin CdSlot /\ b.queue.targets[s] < b.now

NothingOverdue(b, post) == \A s \in Slots : ~Overdue(b, s, post)

\* After an instruction's tick, and after a branch boundary, no event is overdue,
\* whether the drain ran its loops or its early out trusted the cached deadline.
DrainLeavesNothingOverdue ==
  [][/\ FinishDrain => NothingOverdue(bus', drain.post)
     /\ (\E n \in TickLengths : Tick(n)) /\ drain' = Idle => NothingOverdue(bus', FALSE)
     /\ BranchBoundary /\ drain' = Idle => NothingOverdue(bus', TRUE)]_vars

\* The GPU channel goes idle by itself only after its payload has moved: a kick
\* that waits for DPCR or DREQ is not ended by another transfer's event.  Untrue: the event
\* of a transfer stopped before the kick ends it.
GpuRequestIsServed ==
  [][drain.stage = "slots" /\ bus.chan[Gpu].start /\ ~bus'.chan[Gpu].start
     => Gpu \in bus.granted]_vars
=============================================================================
