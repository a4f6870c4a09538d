---------------------------- MODULE SerialPort ----------------------------
(***************************************************************************)
(* SIO0 (emulator-core/src/sio.rs) with the pads and memory cards behind   *)
(* its two ports (pad.rs) and the bus's services of it (bus.rs): a byte    *)
(* is exchanged with the selected device when it starts, is on the wire    *)
(* for ByteTicks, and the device's /ACK and its interrupt follow.  SIO0 is *)
(* not clocked: it catches up when it is accessed and when the scheduler's *)
(* Sio0 event is taken at a branch boundary, late as that may be.          *)
(*                                                                         *)
(* A deadline is the number of clocks to it, zero or less once it is due.  *)
(* The byte on the wire, the wait for /ACK and its pulse are flags in the  *)
(* code that its deadlines imply; the controller's bit of I_STAT is raised *)
(* as `latched` rises; the bytes received are kept in `hist` alone.  MODE, *)
(* BAUD, the per-byte /ACK tables, their override, the slow-pad option and *)
(* the diagnostics are left out.                                           *)
(***************************************************************************)
EXTENDS MemoryCard, TLC, SequencesExt

CONSTANTS
  None,
  Ports,       \* the port CTRL.13 selects: 1 or 2
  Pads,        \* the ports that may have a pad
  Cards,       \* the cards that may be plugged into each port
  CtrlValues,  \* what software stores in CTRL, without ACK and RESET
  Sectors,     \* the low bytes of the frame numbers it names
  Data,        \* the data bytes it writes
  ByteTicks,   \* clocks a byte is on the wire: ten bit times
  AckDelay,    \* clocks from there to the device's /ACK
  AckPulse,    \* its width
  MaxLate,     \* clocks a boundary may be late, the length of a block
  MaxUpsets    \* bounds how often a device is plugged or unplugged, or the other port
               \* selected without releasing /JOYN

ASSUME PortsAssumption == Ports = {1, 2} /\ Pads \subseteq Ports
ASSUME CardsAssumption ==
  \A p \in Ports : \A c \in Cards[p] :
    c.bytes \in [0..Frames - 1 -> Frame] /\ c.new \in BOOLEAN /\ c = Card(c.bytes, c.new)
ASSUME CtrlAssumption  == CtrlValues \subseteq SUBSET {"joyn", "slot2", "ackIrq", "force"}
ASSUME DataAssumption  == Sectors \cup Data \subseteq Byte
ASSUME TicksAssumption == {ByteTicks, AckDelay, AckPulse} \subseteq Nat \ {0} /\ {MaxLate, MaxUpsets} \subseteq Nat
ASSUME NoneAssumption  == None \notin Int /\ None \notin {"pad", "card"} /\ None \notin CardType \cup PadType

VARIABLES
  sio,     \* SIO0's registers, the byte on the wire, the byte queued, its deadlines
  ports,   \* the devices behind each port and the one selected
  event,   \* clocks to the scheduler's Sio0 event, None without one
  hist     \* history: per port, what its card was sent and sent back since it left
           \* Idle, and what it should hold; how many upsets there were

vars == <<sio, ports, event, hist>>

Clocks  == -MaxLate .. ByteTicks + AckDelay + AckPulse
Deadline == Clocks \cup {None}
MaybeByte == Byte \cup {None}

SioType ==
  [ctrl : SUBSET {"joyn", "slot2", "ackIrq", "force"}, rx : BOOLEAN, latched : BOOLEAN,
   ackInput : BOOLEAN, rxValid : BOOLEAN, queued : MaybeByte,
   pendingAck : BOOLEAN, transfer : Deadline, ack : Deadline, ackEnd : Deadline]

PortType ==
  [pad : PadType \cup {None}, card : CardType \cup {None},
   selected : {None, "pad", "card"}]

HistType ==
  [told : [Ports -> [sent : Seq(Byte), heard : Seq(Byte),
                     image : [0..Frames - 1 -> Frame] \cup {None}]],
   upsets : 0..MaxUpsets]
Untold(card) ==
  [sent |-> <<>>, heard |-> <<>>, image |-> IF card = None THEN None ELSE card.bytes]
Forget(told) == [told EXCEPT !.sent = <<>>, !.heard = <<>>]

\* Sio0::new.
NewSio ==
  [ctrl |-> {}, rx |-> FALSE, latched |-> FALSE, ackInput |-> FALSE, rxValid |-> FALSE,
   queued |-> None, pendingAck |-> FALSE, transfer |-> None, ack |-> None, ackEnd |-> None]

\* A launch has plugged the configured pads and cards.
Init ==
  /\ sio = NewSio
  /\ \E cards \in [Ports -> UNION {Cards[p] : p \in Ports} \cup {None}], pads \in SUBSET Pads :
       /\ \A p \in Ports : cards[p] \in Cards[p] \cup {None}
       /\ ports = [p \in Ports |->
                    [pad |-> IF p \in pads THEN IdlePad ELSE None,
                     card |-> cards[p], selected |-> None]]
  /\ event = None
  /\ hist = [told |-> [p \in Ports |-> Untold(ports[p].card)], upsets |-> 0]

System == [sio |-> sio, ports |-> ports, hist |-> hist]
-----------------------------------------------------------------------------
\* A port and its devices: exchange_detailed_at and deselect.

NoAnswer(port) == [port |-> port, rx |-> 255, ack |-> FALSE]

PadAnswers(port, tx) ==
  LET r == ExchangePad(port.pad, tx)
  IN  [port |-> [port EXCEPT !.pad = r.pad], rx |-> r.rx, ack |-> r.ack]

CardAnswers(port, tx) ==
  LET r == ExchangeCard(port.card, tx)
  IN  [port |-> [port EXCEPT !.card = r.card, !.selected = "card"],
       rx |-> r.rx, ack |-> r.ack]

ExchangeAt(port, tx) ==
  CASE port.selected = "pad"  /\ port.pad # None  -> PadAnswers(port, tx)
    [] port.selected = "card" /\ port.card # None -> CardAnswers(port, tx)
    [] port.selected = None /\ tx = PadAddress /\ port.pad # None ->
         [port |-> [port EXCEPT !.pad = IdlePad, !.selected = "pad"],
          rx |-> 255, ack |-> TRUE]
    [] port.selected = None /\ tx = Address /\ port.card # None -> CardAnswers(port, tx)
    [] OTHER -> NoAnswer(port)

Deselect(port) ==
  [pad      |-> IF port.pad = None THEN None ELSE IdlePad,
   card     |-> IF port.card = None THEN None ELSE ResetCard(port.card),
   selected |-> None]

ActivePort(ctrl) == IF "slot2" \in ctrl THEN 2 ELSE 1

\* What a card should hold that held `image`, once it has been sent all of `sent`:
\* only a complete request for a frame it has changes it.
Stored(image, sent) ==
  LET frame == SubSeq(sent, 7, 6 + FrameBytes)
      at    == sent[5] * 256 + sent[6]
  IN  IF Len(sent) = 7 + FrameBytes
         /\ sent = WriteRequest(SubSeq(sent, 3, 4), sent[5], sent[6], frame)
         /\ at < Frames
      THEN [image EXCEPT ![at] = frame]
      ELSE image

\* What passed between host and card since it left Idle.
Told(told, before, after, tx, rx) ==
  IF before.card = None \/ after.card = None \/ after.selected # "card" THEN told
  ELSE IF before.card.phase = "Idle"
       THEN IF after.card.phase = "Idle" THEN Forget(told)
            ELSE [told EXCEPT !.sent = <<tx>>, !.heard = <<rx>>]
       ELSE [sent |-> Append(told.sent, tx), heard |-> Append(told.heard, rx),
             image |-> Stored(told.image, Append(told.sent, tx))]

-----------------------------------------------------------------------------
\* The shifter.

\* start_transfer_at, `from` clocks from now.
StartTransfer(s, tx, from) ==
  LET selected == "joyn" \in s.sio.ctrl
      p        == ActivePort(s.sio.ctrl)
      r        == IF selected THEN ExchangeAt(s.ports[p], tx) ELSE NoAnswer(s.ports[p])
  IN  [sio |-> [s.sio EXCEPT !.rxValid = selected \/ "force" \in s.sio.ctrl,
                             !.pendingAck = r.ack,
                             !.ctrl = @ \ {"force"},
                             !.ack = None,
                             !.transfer = from + ByteTicks],
       ports |-> [s.ports EXCEPT ![p] = r.port],
       hist |-> [s.hist EXCEPT !.told[p] = Told(@, s.ports[p], r.port, tx, r.rx)]]

Due(deadline) == deadline # None /\ deadline <= 0

StartQueuedNow(s, at) ==
  StartTransfer([s EXCEPT !.sio.queued = None], s.sio.queued, 0)

\* tick's first branch: the byte is in; its /ACK is to come, unless another byte was
\* waiting to start.
StartQueued(s, at) ==
  StartTransfer([s EXCEPT !.sio.queued = None], s.sio.queued, at)

ByteEnds(s) ==
  LET at == s.sio.transfer
      in == [s EXCEPT !.sio.transfer = None,
                      !.sio.rx = @ \/ s.sio.rxValid,
                      !.sio.ack = IF s.sio.pendingAck THEN at + AckDelay ELSE @]
  IN  IF s.sio.queued = None THEN in ELSE StartQueued(in, at)

AckFires(s) ==
  [s EXCEPT !.sio.ack = None,
            !.sio.pendingAck = FALSE,
            !.sio.ackInput = IF s.sio.pendingAck THEN TRUE ELSE @,
            !.sio.ackEnd = IF s.sio.pendingAck THEN s.sio.ack + AckPulse ELSE @,
            !.sio.latched = @ \/ (s.sio.pendingAck /\ "ackIrq" \in s.sio.ctrl)]

\* One turn of tick's loop.
Turn(s) ==
  IF Due(s.sio.transfer) THEN ByteEnds(s)
  ELSE IF Due(s.sio.ack) THEN AckFires(s)
  ELSE IF Due(s.sio.ackEnd)
       THEN [s EXCEPT !.sio.ackEnd = None, !.sio.ackInput = FALSE]
  ELSE s

\* Op applied n times, its operand bound to a value each time.
Iterate(Op(_), x, n) ==
  LET after[k \in 0..n] ==
        IF k = 0 THEN x ELSE CHOOSE y \in {Op(z) : z \in {after[k - 1]}} : TRUE
  IN  after[n]

\* Sio0::tick.  Two bytes and the last one's /ACK are the most that can be due.
Ticked(s) == Iterate(Turn, s, 4)

CaughtUp == Ticked(System)

NextDeadlineButPulse(x) ==
  LET pending == {x.transfer, x.ack} \ {None}
  IN  IF pending = {} THEN None ELSE CHOOSE d \in pending : \A e \in pending : d <= e

\* next_deadline.
NextDeadline(x) ==
  LET pending == {x.transfer, x.ack, x.ackEnd} \ {None}
  IN  IF pending = {} THEN None ELSE CHOOSE d \in pending : \A e \in pending : d <= e

\* write_data_at.
WriteDataAt(s, tx) ==
  IF s.sio.transfer # None THEN [s EXCEPT !.sio.queued = tx]
  ELSE StartTransfer([s EXCEPT !.sio.ackInput = FALSE, !.sio.ackEnd = None], tx, 0)

\* What write_ctrl forgets when /JOYN is released.
Abandon(x) ==
  [x EXCEPT !.ackInput = FALSE, !.queued = None, !.pendingAck = FALSE,
            !.transfer = None, !.ack = None, !.ackEnd = None]

DeselectAll(s) ==
  [s EXCEPT !.ports = [p \in Ports |-> Deselect(s.ports[p])],
            !.hist.told = [p \in Ports |-> Forget(@[p])]]

Switches(s, value) ==
  IF {"joyn"} \subseteq s.sio.ctrl \cap value /\ ActivePort(value) # ActivePort(s.sio.ctrl)
  THEN 1 ELSE 0

WriteCtrlAt(s, value, acks) ==
  LET acked    == [s EXCEPT !.sio.latched = IF acks THEN FALSE ELSE @,
                            !.hist.upsets = @ + Switches(s, value)]
      released == "joyn" \in s.sio.ctrl /\ "joyn" \notin value
      after    == IF released THEN DeselectAll([acked EXCEPT !.sio = Abandon(@)]) ELSE acked
  IN  [after EXCEPT !.sio.ctrl = value]

ResetPort(s) ==
  DeselectAll([s EXCEPT !.sio = NewSio])

-----------------------------------------------------------------------------
\* The bus.

Becomes(s) ==
  /\ sio' = s.sio
  /\ ports' = s.ports
  /\ hist' = s.hist

\* An access works on SIO0 as it has caught up, catches up again and rearms the event:
\* service_sio0 and reschedule_sio0_event.
Served(after) ==
  \E s \in {Ticked(after)} :
    /\ Becomes(s)
    /\ event' = NextDeadline(s.sio)

\* Bytes that tell something to the device they are for.
Listening(port) ==
  CASE port.selected = None   -> {0} \cup (IF port.pad = None THEN {} ELSE {PadAddress})
                                     \cup (IF port.card = None THEN {} ELSE {Address})
    [] port.selected = "pad"  -> IF port.pad # None /\ port.pad.step = 0 THEN {Poll, 0} ELSE {0}
    [] port.selected = "card" ->
         IF port.card = None THEN {0}
         ELSE CASE port.card.phase = "Idle"          -> {Address, 0}
                [] port.card.phase = "GotAddr"       -> {Read, Write, GetId, 0}
                [] port.card.phase \in {"ReadMsb", "WriteMsb"} -> {0}
                [] port.card.phase \in {"ReadLsb", "WriteLsb"} -> Sectors
                [] port.card.phase = "WriteData" -> Data
                [] port.card.phase = "WriteChecksum" ->
                     {port.card.checksum, Xor(port.card.checksum, 1)}
                [] OTHER -> {0}

WriteData ==
  \E now \in {CaughtUp} :
    \E tx \in Listening(now.ports[ActivePort(now.sio.ctrl)]) :
      Served(WriteDataAt(now, tx))

WriteCtrl ==
  \E value \in CtrlValues, acks \in BOOLEAN :
    /\ hist.upsets + Switches(System, value) <= MaxUpsets
    /\ \E now \in {CaughtUp} : Served(WriteCtrlAt(now, value, acks))

Reset == Served(ResetPort(CaughtUp))

\* pop_rx.
ReadData == sio.rx /\ Served([CaughtUp EXCEPT !.sio.rx = FALSE])

\* A read of the other registers.
ReadStat == event # None /\ Served(CaughtUp)

\* drain_due_scheduler_events, at a branch boundary.
BranchBoundary == Due(event) /\ Served(CaughtUp)

Later(deadline) == IF deadline = None THEN None ELSE deadline - 1

\* A clock of the CPU.
Pass ==
  /\ event # None
  /\ event > -MaxLate
  /\ sio' = [sio EXCEPT !.transfer = Later(@), !.ack = Later(@), !.ackEnd = Later(@)]
  /\ event' = Later(event)
  /\ UNCHANGED <<ports, hist>>

-----------------------------------------------------------------------------
\* The host plugs devices, at any time.

Changes(p, port, told) ==
  /\ ports' = [ports EXCEPT ![p] = port]
  /\ hist' = [told |-> [hist.told EXCEPT ![p] = told], upsets |-> hist.upsets + 1]
  /\ hist.upsets < MaxUpsets
  /\ UNCHANGED <<sio, event>>

\* attach_digital_pad_port1: a new port device takes over the card.
AttachPad(p) ==
  /\ p \in Pads
  /\ Changes(p, [pad |-> IdlePad, card |-> ports[p].card, selected |-> None], hist.told[p])

\* without_pad.
DetachPad(p) ==
  /\ ports[p].pad # None
  /\ Changes(p, [ports[p] EXCEPT !.pad = None,
                                 !.selected = IF @ = "pad" THEN None ELSE @], hist.told[p])

\* attach_memcard_port1: the bytes of a file, or a new card.
AttachCard(p) ==
  \E card \in Cards[p] :
    Changes(p, [pad |-> ports[p].pad, card |-> card, selected |-> None], Untold(card))

\* without_memcard.
DetachCard(p) ==
  /\ ports[p].card # None
  /\ Changes(p, [ports[p] EXCEPT !.card = None,
                                 !.selected = IF @ = "card" THEN None ELSE @], Untold(None))

\* memcard_port1_snapshot.
Snapshot(p) ==
  /\ ports[p].card # None
  /\ ports[p].card.dirty
  /\ ports' = [ports EXCEPT ![p].card.dirty = FALSE]
  /\ UNCHANGED <<sio, event, hist>>

Next ==
  \/ WriteData
  \/ WriteCtrl
  \/ Reset
  \/ ReadData
  \/ ReadStat
  \/ BranchBoundary
  \/ Pass
  \/ \E p \in Ports : AttachPad(p)
  \/ \E p \in Ports : DetachPad(p)
  \/ \E p \in Ports : AttachCard(p)
  \/ \E p \in Ports : DetachCard(p)
  \/ \E p \in Ports : Snapshot(p)

Spec == Init /\ [][Next]_vars

-----------------------------------------------------------------------------
\* Properties.

\* The scheduler's Sio0 slot holds SIO0's next deadline after every access, so that
\* nothing pending is left without an event to serve it.
EventIsArmed ==
  LET pending == {sio.transfer, sio.ack, sio.ackEnd} \ {None}
  IN  IF pending = {} THEN event = None
      ELSE event \in pending /\ \A d \in pending : event <= d

\* The registers and devices stay in their ranges, at most one deadline is pending
\* (this is why tick may test them in any order) and has its event, and a port that is
\* not selected has no /ACK to come or to end, its devices waiting for an address.
TypeOK ==
  /\ EventIsArmed
  /\ sio \in SioType
  /\ \A p \in Ports : ports[p] \in PortType
  /\ event \in Deadline
  /\ hist \in HistType
  /\ Cardinality({d \in {"transfer", "ack", "ackEnd"} : sio[d] # None}) <= 1
  /\ "joyn" \notin sio.ctrl =>
       /\ sio.ack = None /\ sio.ackEnd = None /\ ~sio.ackInput /\ ~sio.pendingAck
       /\ \A p \in Ports :
            /\ ports[p].selected = None
            /\ ports[p].card # None => ports[p].card.phase = "Idle"

\* Catching up late in one go leaves SIO0 and its devices as catching up at every
\* clock would have.
Clock(s) ==
  Ticked([s EXCEPT !.sio.transfer = Later(@), !.sio.ack = Later(@), !.sio.ackEnd = Later(@)])
LateServiceChangesNothing ==
  \A n \in 1..ByteTicks + ByteTicks + AckDelay + AckPulse :
    Ticked([System EXCEPT
      !.sio.transfer = IF @ = None THEN None ELSE @ - n,
      !.sio.ack      = IF @ = None THEN None ELSE @ - n,
      !.sio.ackEnd   = IF @ = None THEN None ELSE @ - n])
    = Iterate(Clock, Ticked(System), n)

\* A card holds what the complete write requests it was sent have stored, each whole
\* and with the right checksum, and nothing of any other: not of one that was broken
\* off, resumed under another command or sent while it was not selected.
CardHoldsWhatWasWritten ==
  \A p \in Ports :
    ports[p].card # None => ports[p].card.bytes = hist.told[p].image

\* A host that reads a frame hears the flag, the IDs, the address and then the frame
\* with its checksum, each one byte after the byte it answers.
FrameOrNothing(card, at) ==
  IF at < Frames THEN card.bytes[at] ELSE [k \in 1..FrameBytes |-> 255]
ReadReturnsTheFrame ==
  \A p \in Ports :
    LET told == hist.told[p]
        card == ports[p].card
        msb  == told.sent[5]
        lsb  == told.sent[6]
    IN  card # None /\ Len(told.sent) > 5 /\ told.sent[2] = Read =>
          IsPrefix(Append(Tail(told.heard), card.spdr),
                   ReadReply(IF card.new THEN 8 ELSE 0, msb, lsb,
                             FrameOrNothing(card, msb * 256 + lsb)))

\* A card keeps the frames it was told and tells the frames it keeps, whatever was broken
\* off, mixed or resumed in between.
CardIsFaithful == CardHoldsWhatWasWritten /\ ReadReturnsTheFrame
=============================================================================
