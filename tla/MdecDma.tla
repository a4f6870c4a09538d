------------------------------ MODULE MdecDma ------------------------------
(***************************************************************************)
(* The MDEC (emulator-core/src/mdec.rs) and DMA channels 0 and 1, which    *)
(* bus.rs runs against it: a kick of channel 0 parks until the decoder     *)
(* asks for data, a decode command's input transfer lasts as long as its   *)
(* frame, and decoding happens when somebody asks for output.              *)
(*                                                                         *)
(* A compressed word is "data" or "pad" (FE00); BlockWords data words make *)
(* a macroblock, which decodes to OutWords output words.  Table contents,  *)
(* pixels, the output format and RAM addresses are left out.  A completion *)
(* event is taken by the drain at any time after it was scheduled: the     *)
(* clocks it takes depend on BCR.  What a completion does to DICR and      *)
(* I_STAT is in BusDma.                                                    *)
(***************************************************************************)
EXTENDS Naturals, Sequences, FiniteSets

CONSTANTS
  BlockWords,   \* data words of a macroblock
  OutWords,     \* output words it decodes to: at least eight in the code
  Streams,      \* what RAM may hold for channel 0 to move
  OutSizes,     \* words channel 1 is programmed for
  Counts,       \* parameter words a decode command announces
  TableWords,   \* parameter words of a table upload
  CpuWords,     \* parameter words software writes itself
  PortReads     \* does software read the data port?

In  == 0
Out == 1
Word == {"data", "pad"}

ASSUME BlockAssumption   == BlockWords \in Nat \ {0} /\ OutWords \in Nat \ {0, 1}
ASSUME StreamsAssumption == Streams \subseteq Seq(Word) \ {<<>>}
ASSUME SizesAssumption   == OutSizes \subseteq Nat \ {0} /\ Counts \subseteq Nat
ASSUME TableAssumption   == TableWords \in Nat \ {0}
ASSUME PortAssumption    == CpuWords \subseteq Word /\ PortReads \in BOOLEAN

VARIABLES
  mdec,   \* the decoder: command code, busy bit, parameter words expected, the
          \* data-in enable, the parked kick, both queues, the reset in progress
  dma,    \* DPCR's and CHCR's bits of the two channels, the pending completions
  hist    \* history: the words given to the current frame and taken from it,
          \* who gave them, whether the decoder ran before all were given; what
          \* channel 0's latest kick carries, whether a reset, a new command or
          \* the CPU's own words cut in on it, whether software took output
          \* itself; the events that precede their channel's latest kick

vars == <<mdec, dma, hist>>

MdecType ==
  [code : {"none", "decode", "table"}, busy : BOOLEAN, expected : Nat,
   inEnabled : BOOLEAN, waiting : BOOLEAN, rl : Seq(Word), out : Nat,
   reset : {"over", "capturing", "completing"}]

DmaType == [dpcr : SUBSET {In, Out}, start : SUBSET {In, Out}, events : SUBSET {In, Out}]

HistType ==
  [given : Seq(Word), taken : Nat, fed : {"none", "dma", "cpu"}, early : BOOLEAN,
   carries : {"none", "frame", "table"}, abandoned : BOOLEAN,
   ported : BOOLEAN, stale : SUBSET {In, Out}]

Init ==
  /\ mdec = [code |-> "none", busy |-> FALSE, expected |-> 0, inEnabled |-> FALSE,
             waiting |-> FALSE, rl |-> <<>>, out |-> 0, reset |-> "over"]
  /\ dma = [dpcr |-> {}, start |-> {}, events |-> {}]
  /\ hist = [given |-> <<>>, taken |-> 0, fed |-> "none", early |-> FALSE,
             carries |-> "none", abandoned |-> FALSE,
             ported |-> FALSE, stale |-> {}]

\* The methods of Bus and Mdec take and return a system: the three variables.
System == [mdec |-> mdec, dma |-> dma, hist |-> hist]

Becomes(s) == mdec' = s.mdec /\ dma' = s.dma /\ hist' = s.hist

-----------------------------------------------------------------------------
\* The decoder.

RequestsInput(d) == d.inEnabled /\ d.busy /\ d.expected # 0

WaitsForOutput(d) == d.code = "decode" /\ d.busy

CanContinue(d) == WaitsForOutput(d) /\ d.rl # <<>>

CanDmaOut(d) == d.out > 0 \/ CanContinue(d)

Data(w) == Cardinality({i \in DOMAIN w : w[i] = "data"})

Blocks(w) == Data(w) \div BlockWords

\* decode_one_macroblock: padding is skipped; a stream that ends inside a
\* macroblock is consumed with it.
DecodeOne(d) ==
  IF Data(d.rl) < BlockWords
  THEN [d EXCEPT !.rl = <<>>]
  ELSE LET last == CHOOSE i \in DOMAIN d.rl :
                     d.rl[i] = "data" /\ Data(SubSeq(d.rl, 1, i)) = BlockWords
       IN  [d EXCEPT !.rl = SubSeq(@, last + 1, Len(@)), !.out = @ + OutWords]

\* decode_until_output_words: one macroblock is always enough for the one or
\* two words it is asked for.
Refill(s) ==
  IF s.mdec.out = 0 /\ CanContinue(s.mdec)
  THEN [s EXCEPT !.mdec = DecodeOne(@), !.hist.early = @ \/ s.mdec.expected # 0]
  ELSE s

\* Mutant: a frame that decodes to nothing leaves the command busy.
EndIfEmptyNever(s) == s

\* The frame's input has arrived: with nothing to decode the command is over.
EndIfEmpty(s) ==
  [s EXCEPT !.mdec.busy = @ /\ (s.mdec.out > 0 \/ CanContinue(s.mdec))]

\* Mutant: a count of parameter words that wraps below zero.
WordsLeftUnsaturated(expected, words) == expected - Len(words)

WordsLeft(expected, words) == IF Len(words) < expected THEN expected - Len(words) ELSE 0

\* The words DMA0 delivers replace whatever the queues held.
Accept(d, words) ==
  [d EXCEPT !.busy = TRUE, !.expected = WordsLeft(@, words), !.rl = words, !.out = 0]

\* dma_write_in_from.  Only a decode or a table command requests input.
DmaWriteIn(s, words) ==
  IF s.mdec.code = "table"
  THEN [s EXCEPT !.mdec.expected = 0, !.mdec.busy = FALSE, !.hist.carries = "table"]
  ELSE EndIfEmpty(Refill(
         [s EXCEPT !.mdec = Accept(@, words), !.hist.given = words, !.hist.taken = 0,
                   !.hist.fed = "dma", !.hist.early = FALSE, !.hist.ported = FALSE,
                   !.hist.carries = "frame"]))

Pop(s) ==
  IF s.mdec.out = 0 THEN s
  ELSE [s EXCEPT !.mdec.out = @ - 1, !.hist.taken = @ + 1]

\* dma_read_out: word by word; past the end of the frame the words are zeros.
DmaReadOut(s, n) ==
  LET after[k \in 0..n] == IF k = 0 THEN s ELSE Pop(Refill(after[k - 1]))
  IN  after[n]

\* Mutant: a leading pad word is taken for the end of the frame.
FrameIsOverAtFirstPad(d) ==
  WaitsForOutput(d) /\ d.out = 0 /\ (d.rl = <<>> \/ Head(d.rl) = "pad")

\* The condition of complete_dma_out.
FrameIsOver(d) == WaitsForOutput(d) /\ d.out = 0 /\ Data(d.rl) = 0

\* One parameter word the CPU writes.
Parameter(s, word) ==
  LET kept == IF s.mdec.code = "decode"
              THEN [s EXCEPT !.mdec.rl = Append(@, word), !.hist.given = Append(@, word),
                             !.hist.fed = "cpu", !.hist.abandoned = TRUE]
              ELSE s
      next == [kept EXCEPT !.mdec.expected = @ - 1]
  IN  IF next.mdec.expected # 0 THEN next
      ELSE IF next.mdec.code = "decode" THEN EndIfEmpty(Refill(next))
      ELSE [next EXCEPT !.mdec.busy = FALSE]

\* A new frame: what the queues held is gone.
Forget(s) ==
  [s EXCEPT !.mdec.rl = <<>>, !.mdec.out = 0, !.hist.given = <<>>, !.hist.taken = 0,
            !.hist.fed = "none", !.hist.early = FALSE, !.hist.ported = FALSE]

\* A command word.  Without parameters it leaves the busy bit and the queues.
Command(s, code, count) ==
  LET expected == CASE code = "decode" -> count [] code = "table" -> TableWords [] OTHER -> 0
      latched  == [s EXCEPT !.mdec.code = code, !.mdec.expected = expected,
                            !.mdec.busy = @ \/ expected # 0, !.hist.abandoned = TRUE]
  IN  IF code = "decode" /\ expected # 0 THEN Forget(latched) ELSE latched

Reset(s) ==
  Forget([s EXCEPT !.mdec.code = "none", !.mdec.busy = FALSE, !.mdec.expected = 0,
                   !.mdec.inEnabled = FALSE, !.mdec.reset = "capturing",
                   !.hist.abandoned = TRUE])

-----------------------------------------------------------------------------
\* The two channels.

Runs(s, ch) == ch \in s.dma.dpcr /\ ch \in s.dma.start

Scheduled(s, ch) == [s EXCEPT !.dma.events = @ \cup {ch}, !.hist.stale = @ \ {ch}]

\* try_schedule_ready_mdec_out: nothing retries a kick that finds no output,
\* except the arrival of a frame.
TryScheduleReadyMdecOut(s, n) ==
  IF Out \in s.dma.events \/ ~CanDmaOut(s.mdec) \/ ~Runs(s, Out) THEN s
  ELSE Scheduled(DmaReadOut(s, n), Out)

\* Mutant: a decode's input transfer completes on a timer as a table's does.
StartMdecInOnTimer(s, words, n) ==
  IF Runs(s, In) /\ ~RequestsInput(s.mdec) THEN [s EXCEPT !.mdec.waiting = TRUE]
  ELSE IF ~Runs(s, In) THEN [s EXCEPT !.mdec.waiting = FALSE]
  ELSE Scheduled(DmaWriteIn([s EXCEPT !.mdec.waiting = FALSE, !.hist.abandoned = FALSE],
                            words), In)

\* start_mdec_in_dma: without the request the kick parks; with DPCR off it is
\* dropped.  A frame leaves the channel busy and feeds a channel 1 that is
\* already kicked; anything else completes after its words.
StartMdecIn(s, words, n) ==
  IF Runs(s, In) /\ ~RequestsInput(s.mdec) THEN [s EXCEPT !.mdec.waiting = TRUE]
  ELSE IF ~Runs(s, In) THEN [s EXCEPT !.mdec.waiting = FALSE]
  ELSE LET after == DmaWriteIn([s EXCEPT !.mdec.waiting = FALSE, !.hist.abandoned = FALSE],
                               words)
       IN  IF WaitsForOutput(after.mdec)
           THEN TryScheduleReadyMdecOut(after, n)
           ELSE Scheduled(after, In)

\* service_mdec_dma_request, after every store to an MDEC register.
ServiceMdecDmaRequest(s, words, n) ==
  IF ~s.mdec.waiting THEN s
  ELSE IF In \notin s.dma.start THEN [s EXCEPT !.mdec.waiting = FALSE]
  ELSE IF RequestsInput(s.mdec) /\ In \in s.dma.dpcr THEN StartMdecIn(s, words, n)
  ELSE s

Complete(s, ch) ==
  [s EXCEPT !.dma.start = @ \ {ch},
            !.hist.carries = IF ch = In THEN "none" ELSE @]

-----------------------------------------------------------------------------
\* What software does.

WriteChcr(ch, on, words, n) ==
  LET written == [System EXCEPT !.dma.start = IF on THEN @ \cup {ch} ELSE @ \ {ch},
                                !.hist.carries = IF ch = In THEN "none" ELSE @,
                                !.hist.stale = @ \cup (dma.events \cap {ch})]
  IN  Becomes(IF ~on THEN written
              ELSE IF ch = In THEN StartMdecIn(written, words, n)
              ELSE TryScheduleReadyMdecOut(written, n))

WriteDpcr(enabled) ==
  /\ dma' = [dma EXCEPT !.dpcr = enabled]
  /\ UNCHANGED <<mdec, hist>>

WriteParameter(word, words, n) ==
  /\ mdec.expected # 0
  /\ Becomes(ServiceMdecDmaRequest(Parameter(System, word), words, n))

WriteCommand(code, count, words, n) ==
  /\ mdec.expected = 0
  /\ Becomes(ServiceMdecDmaRequest(Command(System, code, count), words, n))

WriteReset(words, n) == Becomes(ServiceMdecDmaRequest(Reset(System), words, n))

\* A control write right behind a reset is lost, with the enable it carries.
WriteControl(enable, words, n) ==
  LET written == IF mdec.reset = "capturing"
                 THEN [System EXCEPT !.mdec.reset = "completing"]
                 ELSE [System EXCEPT !.mdec.inEnabled = enable]
  IN  Becomes(ServiceMdecDmaRequest(written, words, n))

\* read32 of the data port: the next macroblock is decoded as soon as the last
\* word is taken.  (A read that finds only a cut-off macroblock takes that too.)
ReadDataPort ==
  /\ PortReads
  /\ LET filled == Refill([System EXCEPT !.hist.ported = @ \/ CanDmaOut(mdec)])
     IN  Becomes(IF filled.mdec.out = 0 THEN filled ELSE Refill(Pop(filled)))

-----------------------------------------------------------------------------
\* What time does.

ResetAdvances ==
  /\ mdec.reset # "over"
  /\ mdec' = [mdec EXCEPT !.reset = IF @ = "capturing" THEN "completing" ELSE "over"]
  /\ UNCHANGED <<dma, hist>>

Taken(ch) == [System EXCEPT !.dma.events = @ \ {ch}, !.hist.stale = @ \ {ch}]

\* The MdecInDma slot of the drain.
MdecInDue ==
  /\ In \in dma.events
  /\ Becomes(Complete(Taken(In), In))

\* The MdecOutDma slot: channel 0 completes with the frame's last output.
MdecOutDue ==
  /\ Out \in dma.events
  /\ Becomes(Complete(IF FrameIsOver(mdec)
                      THEN Complete([Taken(Out) EXCEPT !.mdec.busy = FALSE,
                                                       !.mdec.rl = <<>>], In)
                      ELSE Taken(Out), Out))

Next ==
  \/ \E words \in Streams, n \in OutSizes :
       \/ \E ch \in {In, Out}, on \in BOOLEAN : WriteChcr(ch, on, words, n)
       \/ \E word \in CpuWords : WriteParameter(word, words, n)
       \/ \E code \in {"none", "decode", "table"}, count \in Counts :
            WriteCommand(code, count, words, n)
       \/ WriteReset(words, n)
       \/ \E enable \in BOOLEAN : WriteControl(enable, words, n)
  \/ \E enabled \in SUBSET {In, Out} : WriteDpcr(enabled)
  \/ ReadDataPort
  \/ ResetAdvances
  \/ MdecInDue
  \/ MdecOutDue

Spec == Init /\ [][Next]_vars

-----------------------------------------------------------------------------
\* The decoder, the channels and the history keep their types.
TypeOK == mdec \in MdecType /\ dma \in DmaType /\ hist \in HistType

Conserved ==
  hist.taken + mdec.out + OutWords * Blocks(mdec.rl) = OutWords * Blocks(hist.given)

\* Every macroblock of the frame is taken once, still queued as output, or still
\* in the input queue, however DMA1 slices the output, whoever reads it, and
\* wherever the padding falls.  A frame the CPU feeds is kept only if nobody
\* asks for output before its last word.
FrameIsConserved == hist.fed = "dma" \/ ~hist.early => Conserved

\* Channel 0 goes idle by an event while it carries a frame that DMA0 fed, no event
\* of an earlier kick being pending.
FrameEnds ==
  /\ hist.carries = "frame" /\ hist.fed = "dma" /\ In \notin hist.stale
  /\ In \in dma.start \ dma'.start /\ dma'.events # dma.events

\* Has a busy channel 0 whose words have moved an end: its event, channel 1's, or
\* output that channel 1 can still take?
HasAnEnd ==
  \/ In \in dma.events
  \/ WaitsForOutput(mdec) /\ (Out \in dma.events \/ CanDmaOut(mdec))

\* No input transfer is left busy for good while channel 1 alone drains its frame.
\* (The data port can drain it too, and then nothing ends the transfer: ~hist.ported.)
InputBusyHasAnEnd ==
  In \in dma.start /\ hist.carries # "none" /\ ~hist.abandoned /\ ~hist.ported => HasAnEnd

\* A parked kick that has everything it waits for.
Stranded(d, c) == d.waiting /\ In \in c.start /\ In \in c.dpcr /\ RequestsInput(d)

\* Channel 0 starts and ends when it should.  A parked kick starts with the store that
\* gives it what it waits for (only a store to DPCR can leave it behind), and the channel
\* stays busy until its frame has been drained, whatever slices channel 1 takes.
InputKeepsItsTime ==
  [][/\ Stranded(mdec', dma') => dma'.dpcr # dma.dpcr \/ Stranded(mdec, dma)
     /\ FrameEnds => mdec.out = 0 /\ Data(mdec.rl) = 0]_vars
=============================================================================
