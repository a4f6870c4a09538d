---------------------------- MODULE MemoryCard ----------------------------
(***************************************************************************)
(* A memory card and a digital pad as their serial port sees them          *)
(* (emulator-core/src/pad.rs): what either answers to a byte, and how that *)
(* moves it.  A card's traffic is full-duplex: the byte it sends is the    *)
(* answer it prepared on the byte before.                                  *)
(*                                                                         *)
(* Bytes are numbers.  The pad's payload (buttons, sticks, configuration)  *)
(* and the diagnostic logs of both are left out.                           *)
(***************************************************************************)
EXTENDS Integers, Sequences, FiniteSetsExt

CONSTANTS
  Frames,       \* frames of a card: 1024 in the code
  FrameBytes,   \* bytes of a frame: 128
  PollLast      \* last step of a button poll: 3 for a digital pad, 7 for an analog one

ASSUME FramesAssumption == Frames \in 1..65536 /\ FrameBytes \in Nat \ {0, 1}
ASSUME PollAssumption   == PollLast \in Nat \ {0, 1}

Byte == 0..255
Bit(byte, weight) == (byte \div weight) % 2
OfBits(B(_)) == B(1) + 2 * B(2) + 4 * B(4) + 8 * B(8) + 16 * B(16) + 32 * B(32) + 64 * B(64) + 128 * B(128)
Xor(a, b) == OfBits(LAMBDA weight : (Bit(a, weight) + Bit(b, weight)) % 2)

PadAddress == 1
Address    == 129
Read       == 82
Write      == 87
GetId      == 83
Poll       == 66
Good       == 71
Bad        == 78

\* Phases that answer one byte whatever they are sent, and what follows them.
Script ==
  [ReadId1  |-> [to |-> "ReadId2",  says |-> 93],
   ReadId2  |-> [to |-> "ReadMsb",  says |-> 0],
   ReadAck1 |-> [to |-> "ReadAck2", says |-> 93],
   WriteId1 |-> [to |-> "WriteId2", says |-> 93],
   WriteId2 |-> [to |-> "WriteMsb", says |-> 0],
   WriteAck1 |-> [to |-> "WriteAck2", says |-> 93],
   IdId1    |-> [to |-> "IdId2",    says |-> 93],
   IdId2    |-> [to |-> "IdAck1",   says |-> 0],
   IdAck1   |-> [to |-> "IdAck2",   says |-> 92],
   IdAck2   |-> [to |-> "IdInfo",   says |-> 93]]

Phase ==
  DOMAIN Script \cup
  {"Idle", "GotAddr", "ReadMsb", "ReadLsb", "ReadAck2", "ReadEchoMsb", "ReadEchoLsb",
   "ReadData", "ReadChecksum", "ReadEnd", "WriteMsb", "WriteLsb", "WriteData",
   "WriteChecksum", "WriteAck2", "IdInfo", "IdEnd"}

Frame == [1..FrameBytes -> Byte]

\* `i` is the byte SendData or SendInfo is at; RxData's is the length of the buffer.
CardType ==
  [phase : Phase, i : 0..FrameBytes + 4, msb : Byte, lsb : Byte, checksum : Byte,
   buffer : Seq(Byte), spdr : Byte, bytes : [0..Frames - 1 -> Frame],
   dirty : BOOLEAN, new : BOOLEAN]

Card(bytes, new) ==
  [phase |-> "Idle", i |-> 0, msb |-> 0, lsb |-> 0, checksum |-> 0, buffer |-> <<>>,
   spdr |-> 255, bytes |-> bytes, dirty |-> FALSE, new |-> new]

ResetCardHalfway(c) ==
  [c EXCEPT !.i = 0, !.msb = 0, !.lsb = 0, !.checksum = 0, !.spdr = 255]

\* MemoryCard::reset.
ResetCard(c) ==
  [c EXCEPT !.phase = "Idle", !.i = 0, !.msb = 0, !.lsb = 0, !.checksum = 0,
            !.buffer = <<>>, !.spdr = 255]

AddressedFrame(c) == c.msb * 256 + c.lsb

\* read_frame_byte: FF behind the end of the card.
ReadFrameByte(c, i) ==
  IF AddressedFrame(c) < Frames THEN c.bytes[AddressedFrame(c)][i + 1] ELSE 255

\* commit_write_buffer.
Commit(c) ==
  IF AddressedFrame(c) >= Frames THEN c
  ELSE [c EXCEPT !.bytes[AddressedFrame(c)] = c.buffer, !.dirty = TRUE, !.new = FALSE]

-----------------------------------------------------------------------------
\* exchange and prepare_next_byte: the card after a byte, the byte it sends
\* meanwhile, and whether it asks for another.

Answer(c, phase, next, ack) ==
  [card |-> [c EXCEPT !.phase = phase, !.spdr = next], rx |-> c.spdr, ack |-> ack]

\* The card forgets the command; what it sent goes out all the same.
EndOf(c, next, ack) == [Answer(ResetCard(c), "Idle", next, ack) EXCEPT !.rx = c.spdr]

SendData(c, i) ==
  LET byte == ReadFrameByte(c, i)
      last == i + 1 = FrameBytes
  IN  Answer([c EXCEPT !.i = IF last THEN 0 ELSE i + 1, !.checksum = Xor(@, byte)],
             IF last THEN "ReadChecksum" ELSE "ReadData", byte, TRUE)

ExchangeRead(c, tx) ==
  CASE c.phase = "ReadMsb"      -> Answer([c EXCEPT !.msb = tx], "ReadLsb", tx, TRUE)
    [] c.phase = "ReadLsb"      -> Answer([c EXCEPT !.lsb = tx], "ReadAck1", 92, TRUE)
    [] c.phase = "ReadAck2"     -> Answer(c, "ReadEchoMsb", c.msb, TRUE)
    [] c.phase = "ReadEchoMsb"  -> Answer(c, "ReadEchoLsb", c.lsb, TRUE)
    [] c.phase = "ReadEchoLsb"  -> SendData([c EXCEPT !.checksum = Xor(c.msb, c.lsb)], 0)
    [] c.phase = "ReadData"     -> SendData(c, c.i)
    [] c.phase = "ReadChecksum" -> Answer(c, "ReadEnd", c.checksum, TRUE)
    [] c.phase = "ReadEnd"      -> EndOf(c, Good, TRUE)

ExchangeWrite(c, tx) ==
  CASE c.phase = "WriteMsb" -> Answer([c EXCEPT !.msb = tx], "WriteLsb", tx, TRUE)
    [] c.phase = "WriteLsb" ->
         Answer([c EXCEPT !.lsb = tx, !.checksum = Xor(c.msb, tx), !.buffer = <<>>],
                "WriteData", tx, TRUE)
    [] c.phase = "WriteData" ->
         Answer([c EXCEPT !.buffer = Append(@, tx), !.checksum = Xor(@, tx)],
                IF Len(c.buffer) + 1 < FrameBytes THEN "WriteData" ELSE "WriteChecksum",
                tx, TRUE)
    [] c.phase = "WriteChecksum" ->
         IF tx = c.checksum THEN Answer(Commit(c), "WriteAck1", 92, TRUE)
                            ELSE EndOf(c, Bad, FALSE)
    [] c.phase = "WriteAck2" -> EndOf(c, IF c.dirty THEN Good ELSE Bad, TRUE)

Info == <<4, 0, 0, 128>>

ExchangeGetId(c) ==
  CASE c.phase = "IdInfo" ->
         Answer([c EXCEPT !.i = (@ + 1) % Len(Info)],
                IF c.i + 1 < Len(Info) THEN "IdInfo" ELSE "IdEnd",
                Info[c.i + 1], c.i + 1 < Len(Info))
    [] c.phase = "IdEnd" -> EndOf(c, 0, FALSE)

FirstPhase(tx) ==
  CASE tx = Read -> "ReadId1" [] tx = Write -> "WriteId1" [] tx = GetId -> "IdId1"

ExchangeCard(c, tx) ==
  CASE c.phase \in DOMAIN Script ->
         Answer(c, Script[c.phase].to, Script[c.phase].says, TRUE)
    [] c.phase = "Idle" ->
         IF tx = Address THEN Answer(c, "GotAddr", IF c.new THEN 8 ELSE 0, TRUE)
                         ELSE Answer(c, "Idle", 255, FALSE)
    [] c.phase = "GotAddr" ->
         IF tx \in {Read, Write, GetId} THEN Answer(c, FirstPhase(tx), 90, TRUE)
                                        ELSE EndOf(c, 255, FALSE)
    [] c.phase \in {"IdInfo", "IdEnd"} -> ExchangeGetId(c)
    [] c.phase \in {"WriteMsb", "WriteLsb", "WriteData", "WriteChecksum", "WriteAck2"} ->
         ExchangeWrite(c, tx)
    [] OTHER -> ExchangeRead(c, tx)

-----------------------------------------------------------------------------
\* The pad: the step it is at and the last step of its command.

PadType == [step : 0..PollLast, last : {1, PollLast}]
IdlePad == [step |-> 0, last |-> 1]

\* DigitalPad::exchange_at and last_step_for_cmd.
ExchangePad(p, tx) ==
  CASE p.step = 0 ->
         [pad |-> [step |-> 1, last |-> IF tx = Poll THEN PollLast ELSE 1],
          rx |-> 65, ack |-> TRUE]
    [] p.step = 1 -> [pad |-> [p EXCEPT !.step = 2], rx |-> 90, ack |-> TRUE]
    [] p.step > 1 ->
         LET more == p.step < p.last
         IN  [pad |-> IF more THEN [p EXCEPT !.step = @ + 1] ELSE IdlePad,
              rx |-> 255, ack |-> more]

-----------------------------------------------------------------------------
\* What a host that reads a frame is sent from its command on, and what a host that
\* writes one sends, as far as the data sheet has it.

\* Each bit of the checksum of some bytes is 1 if an odd number of them have it.
Parity(bytes) == OfBits(LAMBDA weight : Cardinality({k \in DOMAIN bytes : Bit(bytes[k], weight) = 1}) % 2)

Checksum(msb, lsb, frame) == Parity(<<msb, lsb>> \o frame)

ReadReply(flag, msb, lsb, frame) ==
  <<flag, 90, 93, 0, msb, 92, 93, msb, lsb>> \o frame \o <<Checksum(msb, lsb, frame), Good>>

WriteRequest(pads, msb, lsb, frame) ==
  <<Address, Write>> \o pads \o <<msb, lsb>> \o frame \o <<Checksum(msb, lsb, frame)>>
=============================================================================
