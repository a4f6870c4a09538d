---------------------------- MODULE GpuListWalk ----------------------------
(***************************************************************************)
(* DMA channel 2 in linked-list mode: the walker of bus.rs, which fetches  *)
(* one word a clock, the GPU's input FIFO of gpu.rs, which takes whole     *)
(* packets as the drawing before them ends, and the batches with which     *)
(* bus.rs runs many of those clocks at once: the cached quiet span, the    *)
(* quiet batch and the push run.                                           *)
(*                                                                         *)
(* A word is known by what it is for.  "draw" is the first word of a       *)
(* primitive, "image" of an A0 upload, "state" of E3 to E5, "env" of E1,   *)
(* E2 or E6; "param" and "pixel" are what follows "draw" and "image".      *)
(* GP0(1F), polylines, downloads, block mode, CPU words to GP0, posted GP1 *)
(* writes and the limit oracles are left out.  `now` is left out with the  *)
(* clock: the cached span counts from the current cycle.  A completion     *)
(* event is drained at any time after it was scheduled.                    *)
(***************************************************************************)
EXTENDS Naturals, Sequences

CONSTANTS
  Programs,     \* what software may be running: the lists it has linked up in RAM, what
                \* it does besides kicking them (it stops them, pauses the channel in
                \* DPCR, reads the GPU back with a manual transfer), the stores it makes
  Depth,        \* words of the FIFO: 16 in the code
  DrawWords,    \* words of a primitive's packet
  DrawCost,     \* clocks a primitive draws
  UploadWords,  \* pixel words that follow an A0 header
  NodeSetup,    \* clocks between a header and its payload: 15 in the code
  EmptySetup,   \* the same for a node without payload: 8 or 9 in the code
  Ticks         \* clocks an instruction adds

Heads == {"draw", "image", "state", "env"}
Word  == Heads \cup {"param", "pixel"}
Node  == Seq(Word)

\* The length of a span without an end; u32::MAX in the code.
Forever == 1000000

ASSUME ProgramsAssumption ==
  Programs \subseteq [lists  : SUBSET (Seq(Node) \ {<<>>}),
                      does   : SUBSET {"stop", "dpcr", "manual"},
                      stores : Nat]
ASSUME FifoAssumption ==
  /\ Depth \in Nat \ {0} /\ DrawWords \in Nat \ {0, 1} /\ UploadWords \in Nat \ {0}
ASSUME TimesAssumption ==
  /\ DrawCost \in 0..Forever - 1
  /\ NodeSetup \in 0..Forever - 1 /\ EmptySetup \in 0..Forever - 1
  /\ Ticks \subseteq Nat \ {0}

\* Op applied n times.  The operand is bound to a value, or TLC would evaluate it
\* once for each of its uses when it looks for ENABLED.
Iterate(Op(_), x, n) ==
  LET after[k \in 0..n] ==
        IF k = 0 THEN x ELSE CHOOSE y \in {Op(z) : z \in {after[k - 1]}} : TRUE
  IN  after[n]

Lesser(a, b)  == IF a <= b THEN a ELSE b
Greater(a, b) == IF a >= b THEN a ELSE b
Less(a, b)    == IF a <= b THEN 0 ELSE a - b

VARIABLES
  chan,    \* channel 2: its enable in DPCR, its start bit and mode, the list MADR
           \* points to, the flag of a kick that waits for DREQ, the GpuDma event
  walk,    \* the walk: nodes not yet admitted, words left of the admitted one, its
           \* setup clocks, and whether the next thing is a header; or NoWalk
  gpu,     \* the input FIFO, the clocks of drawing left, the pixel words expected
  quiet,   \* the cached span: clocks until gpu_quiet_until, 0 when unknown
  hist,    \* history: has the GPU taken a packet that is not one, was a word dropped
           \* on a full FIFO, does the pending event precede the latest kick, has
           \* such an event ended a later transfer
  software \* the program, and in `stores` how many stores it still makes

vars == <<chan, walk, gpu, quiet, hist, software>>

NoWalk == [nodes |-> <<>>, words |-> <<>>, setup |-> 0, header |-> FALSE, live |-> FALSE]

System == [chan |-> chan, walk |-> walk, gpu |-> gpu, quiet |-> quiet, hist |-> hist]

Becomes(s) ==
  \E t \in {s} : /\ chan' = t.chan
                 /\ walk' = t.walk
                 /\ gpu' = t.gpu
                 /\ quiet' = t.quiet
                 /\ hist' = t.hist

Init ==
  /\ chan = [enabled |-> TRUE, start |-> FALSE, mode |-> "list", list |-> <<>>,
             waiting |-> FALSE, event |-> FALSE]
  /\ walk = NoWalk
  /\ gpu = [fifo |-> <<>>, busy |-> 0, upload |-> 0]
  /\ quiet = 0
  /\ hist = [torn |-> FALSE, dropped |-> FALSE, stale |-> FALSE, late |-> FALSE]
  /\ software \in Programs

-----------------------------------------------------------------------------
\* The GPU's input FIFO.

PacketSize(w) == CASE w = "draw" -> DrawWords [] w = "image" -> 3 [] OTHER -> 1

\* Room the front command gives beyond Depth.
Allowance(w) == IF w \in {"env", "image"} THEN 2 ELSE PacketSize(w)

Capacity(g) ==
  IF g.upload > 0 \/ g.fifo = <<>> THEN Depth ELSE Depth + Allowance(Head(g.fifo))

HasRoom(g) == Len(g.fifo) < Capacity(g)

\* dma_fifo_requests_node; with the DMA direction to the GPU it is DREQ too.
RequestsNode(g) ==
  \/ g.fifo = <<>>
  \/ g.upload = 0 /\ Len(g.fifo) < Capacity(g) - Depth

\* Words gp0_write takes as one packet; a word no packet starts with stands for
\* a command of one word.
IsPacket(p) == /\ p[1] \in Heads
               /\ \A i \in 2..Len(p) : p[i] = "param"

Execute(s, packet) ==
  LET fine == IF s.gpu.upload > 0 THEN packet = <<"pixel">> ELSE IsPacket(packet)
      run(g) ==
        IF g.upload > 0 THEN [g EXCEPT !.upload = @ - 1]
        ELSE CASE packet[1] = "draw"  -> [g EXCEPT !.busy = @ + DrawCost]
               [] packet[1] = "image" -> [g EXCEPT !.upload = UploadWords]
               [] OTHER               -> g
  IN  [s EXCEPT !.gpu = run(@), !.hist.torn = @ \/ ~fine]

\* May the drain take the packet at the head?
Ready(g) ==
  /\ g.fifo # <<>>
  /\ g.upload > 0 \/ Head(g.fifo) = "state" \/ g.busy = 0
  /\ g.upload > 0 \/ Len(g.fifo) >= PacketSize(Head(g.fifo))

TakeOne(s) ==
  IF ~Ready(s.gpu) THEN s
  ELSE LET count == IF s.gpu.upload > 0 THEN 1
                    ELSE Lesser(Len(s.gpu.fifo), PacketSize(Head(s.gpu.fifo)))
           packet == SubSeq(s.gpu.fifo, 1, count)
       IN  Execute([s EXCEPT !.gpu.fifo = SubSeq(@, count + 1, Len(@))], packet)

\* drain_dma_input_fifo.
Drain(s) == Iterate(TakeOne, s, Len(s.gpu.fifo))

\* gp0_push_dma: a word that finds the FIFO full is dropped.
Push(s, word) ==
  IF ~HasRoom(s.gpu)
  THEN [s EXCEPT !.hist.dropped = TRUE]
  ELSE Drain([s EXCEPT !.gpu.fifo = Append(@, word)])

FifoQuiet(g) ==
  IF g.fifo = <<>> THEN Forever
  ELSE IF g.upload > 0 \/ g.busy < 2 \/ Head(g.fifo) = "state" THEN 0 ELSE g.busy - 1

Spend(s, n) == [s EXCEPT !.gpu.busy = Less(@, n)]

\* One round of decay_busy_fifo_draining's loop: the drawing ends, the FIFO moves.
DrainRound(r) ==
  IF r.left = 0 \/ r.s.gpu.fifo = <<>> THEN r
  ELSE LET elapsed == Lesser(Greater(r.s.gpu.busy, 1), r.left)
       IN  [s |-> Drain(Spend(r.s, elapsed)), left |-> r.left - elapsed]

\* decay_busy_fifo_draining: such rounds until the clocks are used up or the FIFO is
\* empty.
DecayDraining(s, n) ==
  LET end == Iterate(DrainRound, [s |-> Drain(s), left |-> n], n)
  IN  Spend(end.s, end.left)

DecayBusy(s, n) ==
  IF s.gpu.fifo # <<>> /\ FifoQuiet(s.gpu) < n THEN DecayDraining(s, n) ELSE Spend(s, n)

-----------------------------------------------------------------------------
\* The walker, one clock at a time.

\* A header is fetched.
Admit(s) ==
  LET node == Head(s.walk.nodes)
  IN  [s EXCEPT !.walk.nodes = Tail(@), !.walk.words = node, !.walk.header = FALSE,
                !.walk.setup = IF node = <<>> THEN EmptySetup ELSE NodeSetup]

PushWord(s) == Push([s EXCEPT !.walk.words = Tail(@)], Head(s.walk.words))

FetchWord(s) == IF HasRoom(s.gpu) THEN PushWord(s) ELSE s

\* The event is scheduled for the next clock; it replaces one still pending.
EndWalk(s) ==
  [s EXCEPT !.walk = NoWalk, !.chan.event = TRUE, !.hist.stale = FALSE]

\* advance_experimental_gpu_list.
WalkStep(s) ==
  IF ~s.walk.live THEN s
  ELSE IF ~s.chan.start THEN [s EXCEPT !.walk = NoWalk]
  ELSE IF ~s.chan.enabled THEN s
  ELSE IF s.walk.setup > 0 THEN [s EXCEPT !.walk.setup = @ - 1]
  ELSE IF s.walk.header THEN IF RequestsNode(s.gpu) THEN Admit(s) ELSE s
  ELSE IF s.walk.words # <<>> THEN FetchWord(s)
  ELSE IF s.walk.nodes = <<>> THEN EndWalk(s)
  ELSE [s EXCEPT !.walk.header = TRUE]

\* step_gpu_list_cycle.
StepCycle(s) == WalkStep(DecayBusy(s, 1))

\* Mutant: a stop leaves the admitted node where it is.
FinishNodeNot(s) == s

\* finish_admitted_gpu_node: what is left of the node goes to the FIFO at once.
FinishNode(s) == Iterate(PushWord, s, Len(s.walk.words))

-----------------------------------------------------------------------------
\* Many clocks at once.

\* Clocks over which the walk and the FIFO only count: gpu_list_quiet_cycles.
ListQuiet(s) ==
  CASE ~s.walk.live \/ ~s.chan.start      -> 0
    [] OTHER ->
       IF ~s.chan.enabled THEN Forever
       ELSE IF s.walk.setup > 0 THEN s.walk.setup
       ELSE IF s.walk.header THEN IF RequestsNode(s.gpu) THEN 0 ELSE Forever
       ELSE IF s.walk.words # <<>> /\ ~HasRoom(s.gpu) THEN Forever ELSE 0

QuietCycles(s) ==
  IF ListQuiet(s) = 0 THEN 0 ELSE Lesser(ListQuiet(s), FifoQuiet(s.gpu))

\* A span of Forever has no end to come closer.
Shorten(span, n) == IF span = Forever THEN Forever ELSE Less(span, n)

\* Mutant: the setup of a paused channel goes on.
QuietBatchUnpaused(s, n) ==
  [Spend(s, n) EXCEPT !.walk.setup = Less(@, n)]

QuietBatch(s, n) ==
  [Spend(s, n) EXCEPT !.walk.setup = IF s.chan.enabled THEN Less(@, n) ELSE @]

\* dma_push_run_len: words the FIFO has room for while its head waits.
PushRunLen(g, max) ==
  IF g.upload > 0 \/ g.fifo = <<>> THEN 0
  ELSE Lesser(FifoQuiet(g), Lesser(Less(Capacity(g), Len(g.fifo)), max))

\* gpu_list_push_run: how many of `left` clocks only queue a word.
PushRun(s, left) ==
  IF /\ s.walk.live /\ ~s.walk.header /\ s.walk.setup = 0
     /\ s.chan.start /\ s.chan.enabled
  THEN PushRunLen(s.gpu, Lesser(Len(s.walk.words), left))
  ELSE 0

TakeRun(s, run) ==
  [Spend(s, run) EXCEPT !.gpu.fifo = @ \o SubSeq(s.walk.words, 1, run),
                        !.walk.words = SubSeq(@, run + 1, Len(@))]

\* What a batch leaves of its span; <<>> is an unknown span.
AheadOf(span, n) == <<Shorten(span, n)>>

\* One round of advance_cycles_slow's loop.
Round(r) ==
  LET run   == PushRun(r.s, r.left)
      span  == QuietCycles(r.s)
      batch == Lesser(span, r.left)
  IN  IF r.left = 0 THEN r
      ELSE IF run > 0
      THEN [s |-> TakeRun(r.s, run), left |-> r.left - run, ahead |-> <<>>]
      ELSE IF batch > 0
      THEN [s |-> QuietBatch(r.s, batch), left |-> r.left - batch, ahead |-> AheadOf(span, batch)]
      ELSE [s |-> StepCycle(r.s), left |-> r.left - 1, ahead |-> <<>>]

WalkCycles(s, n) == Iterate(Round, [s |-> s, left |-> n, ahead |-> <<>>], n)

StartWalk(s) ==
  [s EXCEPT !.chan.waiting = FALSE,
            !.walk = [nodes |-> s.chan.list, words |-> <<>>, setup |-> 0,
                      header |-> TRUE, live |-> TRUE]]

MustWait(s) == \/ ~s.chan.enabled
               \/ s.chan.mode = "list" /\ ~RequestsNode(s.gpu)

\* run_dma_channel(2).  A manual transfer reads the GPU back at once and leaves
\* the completion event to come.
RunChannel(s) ==
  LET t == [s EXCEPT !.quiet = 0]
  IN  IF ~t.chan.start THEN [t EXCEPT !.chan.waiting = FALSE]
      ELSE IF MustWait(t) THEN [t EXCEPT !.chan.waiting = TRUE]
      ELSE IF t.chan.mode = "list" THEN StartWalk(t)
      ELSE [t EXCEPT !.chan.waiting = FALSE, !.chan.event = TRUE, !.hist.stale = FALSE]

\* Mutant: a waiting kick is forgotten.
RetryWaitingNever(s) == [s EXCEPT !.chan.waiting = FALSE]

\* The end of advance_cycles_slow: a waiting kick is tried again, unless an event
\* is pending.
RetryWaiting(s) ==
  IF s.chan.event THEN [s EXCEPT !.chan.waiting = FALSE] ELSE RunChannel(s)

\* refresh_gpu_quiet_until.
Refresh(s, ahead) ==
  [s EXCEPT !.quiet = IF ~s.walk.live \/ s.chan.waiting THEN 0
                      ELSE IF ahead = <<>> THEN QuietCycles(s) ELSE ahead[1]]

AdvanceSlow(s, n) ==
  LET w == IF s.walk.live THEN WalkCycles(s, n)
           ELSE [s |-> DecayBusy(s, n), left |-> 0, ahead |-> <<>>]
  IN  IF w.s.chan.waiting THEN Refresh(RetryWaiting(w.s), <<>>) ELSE Refresh(w.s, w.ahead)

\* advance_cycles.
Advance(s, n) ==
  IF ~s.walk.live /\ ~s.chan.waiting THEN DecayBusy(s, n)
  ELSE IF ~s.chan.waiting /\ n <= s.quiet
  THEN [QuietBatch(s, n) EXCEPT !.quiet = Shorten(@, n)]
  ELSE AdvanceSlow(s, n)

-----------------------------------------------------------------------------
\* Actions.  A store pays its own clock before it reaches the bus, and an access
\* to I/O space forgets the span.

Stored == [Advance(System, 1) EXCEPT !.quiet = 0]

Store ==
  /\ software.stores > 0
  /\ software' = [software EXCEPT !.stores = @ - 1]

Tick(n) ==
  /\ Becomes(Advance(System, n))
  /\ UNCHANGED software

\* MADR and CHCR, with the channel idle.
Kick(mode, list) ==
  /\ ~Stored.chan.start
  /\ Store
  /\ Becomes(RunChannel(
       [Stored EXCEPT !.chan.start = TRUE, !.chan.mode = mode, !.chan.list = list,
                      !.hist.stale = Stored.chan.event]))

\* CHCR, without the start bit.
Stop ==
  /\ Stored.chan.start
  /\ Store
  /\ Becomes(FinishNode([Stored EXCEPT !.chan.start = FALSE]))

\* Mutant: the span survives a store to DPCR.
WriteDpcrKeepingSpan ==
  /\ Store
  /\ Becomes([Advance(System, 1) EXCEPT !.chan.enabled = ~@])

WriteDpcr ==
  /\ Store
  /\ Becomes([Stored EXCEPT !.chan.enabled = ~@])

Complete(s) == [s EXCEPT !.chan.event = FALSE, !.chan.start = FALSE]

\* The scheduler drain.
EventDue ==
  /\ chan.event
  /\ Becomes(Complete([System EXCEPT !.quiet = 0, !.hist.stale = FALSE,
                                     !.hist.late = @ \/ hist.stale]))
  /\ UNCHANGED software

Next ==
  \/ \E n \in Ticks : Tick(n)
  \/ \E list \in software.lists : Kick("list", list)
  \/ "manual" \in software.does /\ Kick("manual", <<>>)
  \/ "stop" \in software.does /\ Stop
  \/ "dpcr" \in software.does /\ WriteDpcr
  \/ EventDue

\* The clock never stops and the drain runs at every branch.
Fairness == WF_vars(\E n \in Ticks : Tick(n)) /\ WF_vars(EventDue)

Spec == Init /\ [][Next]_vars /\ Fairness

-----------------------------------------------------------------------------
\* Programs that send whole packets: what software owes the walker.

\* A packet with the pixels that follow it.
TotalOf(w) == IF w = "image" THEN PacketSize(w) + UploadWords ELSE PacketSize(w)

\* A packet and its pixels stand at c.
PacketAt(x, c) ==
  /\ x[c] \in Heads
  /\ c + TotalOf(x[c]) <= Len(x) + 1
  /\ \A j \in 1..TotalOf(x[c]) - 1 :
       x[c + j] = IF j < PacketSize(x[c]) THEN "param" ELSE "pixel"

\* The pixels an upload still expects, then packets; `cuts` is where one ends and
\* the next may start.
Packets(x, upload) ==
  \E cuts \in SUBSET (1..Len(x) + 1) :
    /\ upload + 1 \in cuts /\ Len(x) + 1 \in cuts
    /\ \A i \in 1..upload : x[i] = "pixel"
    /\ \A c \in cuts : c <= Len(x) => PacketAt(x, c) /\ c + TotalOf(x[c]) \in cuts

AllWords(list) ==
  LET last[k \in 0..Len(list)] ==
        IF k = 0 THEN <<>> ELSE list[Len(list) - k + 1] \o last[k - 1]
  IN  last[Len(list)]

\* Every node is made of packets and the FIFO takes it whole, whatever the walker
\* admits it behind.
NodesAreWhole(p) ==
  \A list \in p.lists : \A i \in 1..Len(list) :
    Packets(list[i], 0) /\ Len(list[i]) <= Depth + 1

\* Packets go on in the next node, and no walk is stopped between two nodes.
ListsAreWhole(p) ==
  "stop" \notin p.does /\ \A list \in p.lists : Packets(AllWords(list), 0)

SendsPackets(p) == NodesAreWhole(p) \/ ListsAreWhole(p)

-----------------------------------------------------------------------------
\* Properties.

\* A span bus.rs still remembers is the span a recomputation would find: nothing
\* has changed the walk, the FIFO or the channel behind the cache's back.
QuietCacheIsSound == quiet > 0 => quiet = QuietCycles(System)

\* Every variable has its type, and the cached span is that of the state.
TypeOK ==
  /\ QuietCacheIsSound
  /\ chan \in [enabled : BOOLEAN, start : BOOLEAN, mode : {"list", "manual"},
               list : software.lists \cup {<<>>}, waiting : BOOLEAN, event : BOOLEAN]
  /\ walk \in [nodes : Seq(Node), words : Node, setup : Nat, header : BOOLEAN, live : BOOLEAN]
  /\ gpu \in [fifo : Seq(Word), busy : Nat, upload : 0..UploadWords]
  /\ quiet \in Nat
  /\ hist \in [torn : BOOLEAN, dropped : BOOLEAN, stale : BOOLEAN, late : BOOLEAN]
  /\ \E p \in Programs : software = [p EXCEPT !.stores = software.stores]
  /\ software.stores \in Nat

\* The per-cycle reference of an advance: every clock stepped by itself, nothing
\* cached.
PlainAdvance(s, n) ==
  LET t == Iterate(StepCycle, s, n)
  IN  IF t.chan.waiting THEN RetryWaiting(t) ELSE t

\* The batches of advance_cycles (the cached span, the quiet batch, the push run,
\* the FIFO's own decay of many clocks) end in the state the plain per-cycle loop
\* ends in, wherever the walk and the FIFO are.
BatchingChangesNothing ==
  \A n \in Ticks :
    [Advance(System, n) EXCEPT !.quiet = 0] = [PlainAdvance(System, n) EXCEPT !.quiet = 0]

\* Lists reach the GPU whole, whatever is stopped, paused and kicked around the walk:
\* no word is lost on a full FIFO, the push run, which does not look, queues none
\* beyond it, and the GPU takes no packet made of another's words, unless the
\* completion of an earlier, stopped transfer came late and ended the walk inside a
\* node.
ListsArriveWhole ==
  /\ ~hist.dropped
  /\ Len(gpu.fifo) <= Capacity(gpu)
  /\ hist.torn => hist.late

\* A transfer of a channel that stays enabled ends, whatever waits, pauses and
\* stops came before it; again, unless a late event cuts a node.
TransferEnds ==
  []((chan.start /\ [](chan.enabled /\ ~hist.late)) => <>~chan.start)
=============================================================================
