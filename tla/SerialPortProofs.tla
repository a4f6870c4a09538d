------------------------- MODULE SerialPortProofs -------------------------
(***************************************************************************)
(* What is proved of SIO0, the pads and the memory cards, for cards of     *)
(* every size, delays and blocks of every length.                          *)
(*                                                                         *)
(* The module goes from the inside out, and so does the invariant.  A card *)
(* is Traced if what passed between it and the host says where it is: how  *)
(* many bytes, which ones, the reply so far, the checksum of the frame so  *)
(* far.  A port is good if its card is, SIO0 if at most one deadline is    *)
(* pending (Lone) and nothing is under way on a released port (Released).  *)
(* Sound says it of a whole state, as the methods of Sio0 take and return  *)
(* one; Inv adds that deadlines are in time and that the event is armed.   *)
(*                                                                         *)
(* tick's loop is four turns: TickedRests shows that they are enough, and  *)
(* LateIs that a tick n clocks late ends where n ticks on time end,        *)
(* because a turn that has something to do does the same late.             *)
(***************************************************************************)
EXTENDS SerialPort, FiniteSetTheorems, SequenceTheorems, WellFoundedInduction, TLAPS

-----------------------------------------------------------------------------
(* Bytes and their bits. *)

Weights == {1, 2, 4, 8, 16, 32, 64, 128}

\* A bit is 0 or 1, and an 8-bit sum of bits is a byte that has them.
LEMMA BitIs ==
  ASSUME NEW b \in Nat, NEW w \in Weights
  PROVE  Bit(b, w) \in {0, 1}
BY SMT DEF Bit, Weights

\* The bits of a sum of weighted bits.
LEMMA BitsOfSum ==
  ASSUME NEW f \in [Weights -> {0, 1}], NEW c,
         c = f[1] + 2 * f[2] + 4 * f[4] + 8 * f[8] + 16 * f[16] + 32 * f[32] + 64 * f[64] + 128 * f[128]
  PROVE  c \in Byte /\ \A w \in Weights : Bit(c, w) = f[w]
<1>1. PICK b0, b1, b2, b3, b4, b5, b6, b7 :
             /\ b0 = f[1] /\ b1 = f[2] /\ b2 = f[4] /\ b3 = f[8]
             /\ b4 = f[16] /\ b5 = f[32] /\ b6 = f[64] /\ b7 = f[128]
  OBVIOUS
<1>2. /\ b0 \in {0, 1} /\ b1 \in {0, 1} /\ b2 \in {0, 1} /\ b3 \in {0, 1}
      /\ b4 \in {0, 1} /\ b5 \in {0, 1} /\ b6 \in {0, 1} /\ b7 \in {0, 1}
  BY <1>1 DEF Weights
<1>3. c = b0 + 2 * b1 + 4 * b2 + 8 * b3 + 16 * b4 + 32 * b5 + 64 * b6 + 128 * b7
  BY <1>1
<1>4. c \in Byte
  BY <1>2, <1>3 DEF Byte
<1>5. Bit(c, 1) = b0 /\ Bit(c, 2) = b1 /\ Bit(c, 4) = b2 /\ Bit(c, 8) = b3
  BY <1>2, <1>3 DEF Bit
<1>6. Bit(c, 16) = b4 /\ Bit(c, 32) = b5 /\ Bit(c, 64) = b6 /\ Bit(c, 128) = b7
  BY <1>2, <1>3 DEF Bit
<1> QED
  BY <1>1, <1>4, <1>5, <1>6 DEF Weights

\* Xor's result is a byte, and 0 changes nothing.
LEMMA XorIs ==
  ASSUME NEW a \in Byte, NEW b \in Byte
  PROVE  Xor(a, b) \in Byte /\ Xor(0, b) = b
<1>1. ASSUME NEW x \in Byte, NEW w \in Weights
      PROVE  (Bit(x, w) + Bit(b, w)) % 2 \in {0, 1}
  BY <1>1 DEF Bit, Byte, Weights
<1>2. Xor(a, b) \in Byte
  <2>1. PICK f : f = [w \in Weights |-> (Bit(a, w) + Bit(b, w)) % 2]
    OBVIOUS
  <2>2. f \in [Weights -> {0, 1}]
    BY <1>1, <2>1
  <2>3. Xor(a, b) = f[1] + 2 * f[2] + 4 * f[4] + 8 * f[8] + 16 * f[16] + 32 * f[32] + 64 * f[64] + 128 * f[128]
    BY <2>1 DEF Xor, OfBits, Weights
  <2> QED
    BY <2>2, <2>3, BitsOfSum
<1>3. Xor(0, b) = b
  BY SMTT(60) DEF Xor, OfBits, Bit, Byte
<1> QED
  BY <1>2, <1>3

\* How many bytes have a bit, and the parity of that.
Having(bytes, w) == {k \in DOMAIN bytes : Bit(bytes[k], w) = 1}
Odd(bytes, w) == Cardinality(Having(bytes, w)) % 2

\* The bytes that have a bit are finitely many, their number odd or even.
LEMMA OddIs ==
  ASSUME NEW bytes \in Seq(Byte), NEW w \in Weights
  PROVE  IsFiniteSet(Having(bytes, w)) /\ Odd(bytes, w) \in {0, 1}
<1>1. IsFiniteSet(1..Len(bytes)) /\ Having(bytes, w) \subseteq 1..Len(bytes)
  BY FS_Interval DEF Having
<1>2. IsFiniteSet(Having(bytes, w))
  BY <1>1, FS_Subset
<1>3. Cardinality(Having(bytes, w)) \in Nat
  BY <1>2, FS_CardinalityType
<1> QED
  BY <1>2, <1>3 DEF Odd

\* One more byte flips the bits it has.
LEMMA OddOfMore ==
  ASSUME NEW bytes \in Seq(Byte), NEW b \in Byte, NEW w \in Weights
  PROVE  Odd(Append(bytes, b), w) = (Odd(bytes, w) + Bit(b, w)) % 2
<1>1. PICK n : n = Len(bytes) + 1
  OBVIOUS
<1>2. PICK more : more = Append(bytes, b)
  OBVIOUS
<1>3. /\ n \in Nat /\ n \notin Having(bytes, w) /\ DOMAIN more = DOMAIN bytes \cup {n}
      /\ more[n] = b /\ \A k \in DOMAIN bytes : more[k] = bytes[k]
  BY <1>1, <1>2 DEF Having
<1>4. Having(more, w) = IF Bit(b, w) = 1 THEN Having(bytes, w) \cup {n} ELSE Having(bytes, w)
  BY <1>3 DEF Having
<1>5. Bit(b, w) \in {0, 1}
  BY BitIs DEF Byte
<1>6. /\ IsFiniteSet(Having(bytes, w)) /\ Cardinality(Having(bytes, w)) \in Nat
      /\ Cardinality(Having(bytes, w) \cup {n}) = Cardinality(Having(bytes, w)) + 1
  BY <1>3, OddIs, FS_CardinalityType, FS_AddElement
<1>7. Odd(more, w) = (Odd(bytes, w) + Bit(b, w)) % 2
  <2>1. CASE Bit(b, w) = 1
    <3>1. Odd(more, w) = (Cardinality(Having(bytes, w)) + 1) % 2
      BY <1>4, <1>6, <2>1 DEF Odd
    <3> QED
      BY <1>6, <2>1, <3>1 DEF Odd
  <2>2. CASE Bit(b, w) = 0
    <3>1. Odd(more, w) = Cardinality(Having(bytes, w)) % 2
      BY <1>4, <2>2 DEF Odd
    <3> QED
      BY <1>6, <2>2, <3>1 DEF Odd
  <2> QED
    BY <1>5, <2>1, <2>2
<1> QED
  BY <1>2, <1>7

\* The running checksum: what Xor makes of one more byte is the parity of all.
LEMMA ParityOfMore ==
  ASSUME NEW bytes \in Seq(Byte), NEW b \in Byte
  PROVE  Parity(bytes) \in Byte /\ Parity(Append(bytes, b)) = Xor(Parity(bytes), b)
<1>1. \A s \in Seq(Byte) : Parity(s) = OfBits(LAMBDA w : Odd(s, w))
  BY DEF Parity, OfBits, Odd, Having
<1>2. PICK c : c = Parity(bytes)
  OBVIOUS
<1>3. c \in Byte /\ \A w \in Weights : Bit(c, w) = Odd(bytes, w)
  <2>1. PICK f : f = [w \in Weights |-> Odd(bytes, w)]
    OBVIOUS
  <2>2. f \in [Weights -> {0, 1}]
    BY <2>1, OddIs
  <2>3. c = f[1] + 2 * f[2] + 4 * f[4] + 8 * f[8] + 16 * f[16] + 32 * f[32] + 64 * f[64] + 128 * f[128]
    BY <1>1, <1>2, <2>1 DEF OfBits, Weights
  <2>4. c \in Byte /\ \A w \in Weights : Bit(c, w) = f[w]
    BY <2>2, <2>3, BitsOfSum
  <2> QED
    BY <2>1, <2>4
<1>4. PICK more : more = Append(bytes, b)
  OBVIOUS
<1>5. more \in Seq(Byte)
  BY <1>4
<1>6. \A w \in Weights : Odd(more, w) = (Bit(c, w) + Bit(b, w)) % 2
  BY <1>3, <1>4, <1>5, OddOfMore
<1>7. Parity(more) = Xor(c, b)
  <2>1. Parity(more) = OfBits(LAMBDA w : Odd(more, w))
    BY <1>1, <1>5
  <2> QED
    BY <1>6, <2>1 DEF OfBits, Xor, Weights
<1> QED
  BY <1>2, <1>3, <1>4, <1>7

\* The checksum of two bytes is their exclusive or.
LEMMA ParityOfTwo ==
  ASSUME NEW a \in Byte, NEW b \in Byte
  PROVE  Parity(<<a, b>>) = Xor(a, b)
<1>1. PICK none : none = <<>>
  OBVIOUS
<1>0. none \in Seq(Byte)
  BY <1>1
<1>2. Parity(none) = 0
  <2>1. \A w \in Weights : {k \in DOMAIN none : Bit(none[k], w) = 1} = {}
    BY <1>1
  <2>2. \A w \in Weights : Cardinality({k \in DOMAIN none : Bit(none[k], w) = 1}) % 2 = 0
    BY <2>1, FS_EmptySet
  <2> QED
    BY <2>2 DEF Parity, OfBits, Weights
<1>3. PICK one : one = Append(none, a)
  OBVIOUS
<1>in. one \in Seq(Byte)
  BY <1>0, <1>3
<1>4. Parity(one) = a
  BY <1>0, <1>2, <1>3, ParityOfMore, XorIs
<1>5. <<a, b>> = Append(one, b)
  BY <1>1, <1>3
<1> QED
  BY <1>in, <1>4, <1>5, ParityOfMore

-----------------------------------------------------------------------------
(* The card: what each phase answers. *)

Scripted == {"ReadId1", "ReadId2", "ReadAck1", "WriteId1", "WriteId2", "WriteAck1",
             "IdId1", "IdId2", "IdAck1", "IdAck2"}
Reading  == {"ReadMsb", "ReadLsb", "ReadAck2", "ReadEchoMsb", "ReadEchoLsb", "ReadData",
             "ReadChecksum", "ReadEnd"}
Writing  == {"WriteMsb", "WriteLsb", "WriteData", "WriteChecksum", "WriteAck2"}
Ending   == {"IdInfo", "IdEnd"}

\* The phases, by command.
LEMMA PhasesAre ==
  /\ DOMAIN Script = Scripted
  /\ Phase = {"Idle", "GotAddr"} \cup Scripted \cup Reading \cup Writing \cup Ending
<1>1. DOMAIN Script = Scripted
  BY DEF Script, Scripted
<1> QED
  BY <1>1 DEF Phase, Scripted, Reading, Writing, Ending

\* The phases with one answer for every byte.
LEMMA ScriptIs ==
  ASSUME NEW c, NEW tx
  PROVE  /\ c.phase = "ReadId1"  => ExchangeCard(c, tx) = Answer(c, "ReadId2", 93, TRUE)
         /\ c.phase = "ReadId2"  => ExchangeCard(c, tx) = Answer(c, "ReadMsb", 0, TRUE)
         /\ c.phase = "ReadAck1" => ExchangeCard(c, tx) = Answer(c, "ReadAck2", 93, TRUE)
         /\ c.phase = "WriteId1" => ExchangeCard(c, tx) = Answer(c, "WriteId2", 93, TRUE)
         /\ c.phase = "WriteId2" => ExchangeCard(c, tx) = Answer(c, "WriteMsb", 0, TRUE)
         /\ c.phase = "WriteAck1" => ExchangeCard(c, tx) = Answer(c, "WriteAck2", 93, TRUE)
         /\ c.phase = "IdId1"  => ExchangeCard(c, tx) = Answer(c, "IdId2", 93, TRUE)
         /\ c.phase = "IdId2"  => ExchangeCard(c, tx) = Answer(c, "IdAck1", 0, TRUE)
         /\ c.phase = "IdAck1" => ExchangeCard(c, tx) = Answer(c, "IdAck2", 92, TRUE)
         /\ c.phase = "IdAck2" => ExchangeCard(c, tx) = Answer(c, "IdInfo", 93, TRUE)
<1>1. ASSUME c.phase \in Scripted
      PROVE  ExchangeCard(c, tx) = Answer(c, Script[c.phase].to, Script[c.phase].says, TRUE)
  BY <1>1, PhasesAre DEF ExchangeCard, Scripted
<1>2. ASSUME c.phase \in {"ReadId1", "ReadId2", "ReadAck1", "WriteId1", "WriteId2"}
      PROVE  \/ c.phase = "ReadId1" /\ Script[c.phase].to = "ReadId2" /\ Script[c.phase].says = 93
             \/ c.phase = "ReadId2" /\ Script[c.phase].to = "ReadMsb" /\ Script[c.phase].says = 0
             \/ c.phase = "ReadAck1" /\ Script[c.phase].to = "ReadAck2" /\ Script[c.phase].says = 93
             \/ c.phase = "WriteId1" /\ Script[c.phase].to = "WriteId2" /\ Script[c.phase].says = 93
             \/ c.phase = "WriteId2" /\ Script[c.phase].to = "WriteMsb" /\ Script[c.phase].says = 0
  BY <1>2 DEF Script
<1>3. ASSUME c.phase \in {"WriteAck1", "IdId1", "IdId2", "IdAck1", "IdAck2"}
      PROVE  \/ c.phase = "WriteAck1" /\ Script[c.phase].to = "WriteAck2" /\ Script[c.phase].says = 93
             \/ c.phase = "IdId1" /\ Script[c.phase].to = "IdId2" /\ Script[c.phase].says = 93
             \/ c.phase = "IdId2" /\ Script[c.phase].to = "IdAck1" /\ Script[c.phase].says = 0
             \/ c.phase = "IdAck1" /\ Script[c.phase].to = "IdAck2" /\ Script[c.phase].says = 92
             \/ c.phase = "IdAck2" /\ Script[c.phase].to = "IdInfo" /\ Script[c.phase].says = 93
  BY <1>3 DEF Script
<1>4. CASE c.phase \in {"ReadId1", "ReadId2", "ReadAck1", "WriteId1", "WriteId2"}
  BY <1>1, <1>2, <1>4 DEF Scripted
<1>5. CASE c.phase \in {"WriteAck1", "IdId1", "IdId2", "IdAck1", "IdAck2"}
  BY <1>1, <1>3, <1>5 DEF Scripted
<1> QED
  BY <1>4, <1>5

\* The phases outside a command.
LEMMA StartIs ==
  ASSUME NEW c, NEW tx
  PROVE  /\ c.phase = "Idle" =>
              ExchangeCard(c, tx) = IF tx = Address THEN Answer(c, "GotAddr", IF c.new THEN 8 ELSE 0, TRUE)
                                    ELSE Answer(c, "Idle", 255, FALSE)
         /\ c.phase = "GotAddr" =>
              ExchangeCard(c, tx) = IF tx = Read THEN Answer(c, "ReadId1", 90, TRUE)
                                    ELSE IF tx = Write THEN Answer(c, "WriteId1", 90, TRUE)
                                    ELSE IF tx = GetId THEN Answer(c, "IdId1", 90, TRUE)
                                    ELSE EndOf(c, 255, FALSE)
<1>1. c.phase = "Idle" =>
        ExchangeCard(c, tx) = IF tx = Address THEN Answer(c, "GotAddr", IF c.new THEN 8 ELSE 0, TRUE)
                              ELSE Answer(c, "Idle", 255, FALSE)
  BY PhasesAre DEF ExchangeCard, Scripted
<1>2. c.phase = "GotAddr" =>
        ExchangeCard(c, tx) = IF tx \in {Read, Write, GetId} THEN Answer(c, FirstPhase(tx), 90, TRUE)
                              ELSE EndOf(c, 255, FALSE)
  BY PhasesAre DEF ExchangeCard, Scripted
<1>3. FirstPhase(Read) = "ReadId1" /\ FirstPhase(Write) = "WriteId1" /\ FirstPhase(GetId) = "IdId1"
  BY DEF FirstPhase, Read, Write, GetId
<1> QED
  BY <1>1, <1>2, <1>3

\* The phases of a read.
LEMMA ReadIs ==
  ASSUME NEW c, NEW tx
  PROVE  /\ c.phase = "ReadMsb" => ExchangeCard(c, tx) = Answer([c EXCEPT !.msb = tx], "ReadLsb", tx, TRUE)
         /\ c.phase = "ReadLsb" => ExchangeCard(c, tx) = Answer([c EXCEPT !.lsb = tx], "ReadAck1", 92, TRUE)
         /\ c.phase = "ReadAck2" => ExchangeCard(c, tx) = Answer(c, "ReadEchoMsb", c.msb, TRUE)
         /\ c.phase = "ReadEchoMsb" => ExchangeCard(c, tx) = Answer(c, "ReadEchoLsb", c.lsb, TRUE)
         /\ c.phase = "ReadEchoLsb" =>
              ExchangeCard(c, tx) = SendData([c EXCEPT !.checksum = Xor(c.msb, c.lsb)], 0)
         /\ c.phase = "ReadData" => ExchangeCard(c, tx) = SendData(c, c.i)
         /\ c.phase = "ReadChecksum" => ExchangeCard(c, tx) = Answer(c, "ReadEnd", c.checksum, TRUE)
         /\ c.phase = "ReadEnd" => ExchangeCard(c, tx) = EndOf(c, Good, TRUE)
<1>1. c.phase \in Reading => ExchangeCard(c, tx) = ExchangeRead(c, tx)
  BY PhasesAre DEF ExchangeCard, Scripted, Reading
<1> QED
  BY <1>1 DEF ExchangeRead, Reading

\* The phases of a write.
LEMMA WriteIs ==
  ASSUME NEW c, NEW tx
  PROVE  /\ c.phase = "WriteMsb" => ExchangeCard(c, tx) = Answer([c EXCEPT !.msb = tx], "WriteLsb", tx, TRUE)
         /\ c.phase = "WriteLsb" =>
              ExchangeCard(c, tx) = Answer([c EXCEPT !.lsb = tx, !.checksum = Xor(c.msb, tx), !.buffer = <<>>],
                                           "WriteData", tx, TRUE)
         /\ c.phase = "WriteData" =>
              ExchangeCard(c, tx) = Answer([c EXCEPT !.buffer = Append(c.buffer, tx),
                                                     !.checksum = Xor(c.checksum, tx)],
                                           IF Len(c.buffer) + 1 < FrameBytes THEN "WriteData" ELSE "WriteChecksum",
                                           tx, TRUE)
         /\ c.phase = "WriteChecksum" =>
              ExchangeCard(c, tx) = IF tx = c.checksum THEN Answer(Commit(c), "WriteAck1", 92, TRUE)
                                    ELSE EndOf(c, Bad, FALSE)
         /\ c.phase = "WriteAck2" => ExchangeCard(c, tx) = EndOf(c, IF c.dirty THEN Good ELSE Bad, TRUE)
<1>1. c.phase \in Writing => ExchangeCard(c, tx) = ExchangeWrite(c, tx)
  BY PhasesAre DEF ExchangeCard, Scripted, Writing
<1> QED
  BY <1>1 DEF ExchangeWrite, Writing

\* The phases at the end of the command that asks for the IDs.
LEMMA GetIdIs ==
  ASSUME NEW c, NEW tx
  PROVE  /\ c.phase = "IdInfo" =>
              ExchangeCard(c, tx) = Answer([c EXCEPT !.i = (c.i + 1) % 4],
                                           IF c.i + 1 < 4 THEN "IdInfo" ELSE "IdEnd",
                                           Info[c.i + 1], c.i + 1 < 4)
         /\ c.phase = "IdEnd" => ExchangeCard(c, tx) = EndOf(c, 0, FALSE)
<1>1. c.phase \in Ending => ExchangeCard(c, tx) = ExchangeGetId(c)
  BY PhasesAre DEF ExchangeCard, Scripted, Ending
<1>2. Len(Info) = 4
  BY DEF Info
<1> QED
  BY <1>1, <1>2 DEF ExchangeGetId, Ending

-----------------------------------------------------------------------------
(* The card: its fields in each phase. *)

\* How far SendData, SendInfo and RxData are.
Shaped(c, phase) ==
  /\ phase = "ReadData" => c.i \in 1..FrameBytes - 1
  /\ phase = "IdInfo" => c.i \in 0..3
  /\ phase \notin {"ReadData", "IdInfo"} => c.i = 0
  /\ phase = "WriteData" => Len(c.buffer) < FrameBytes
  /\ phase = "WriteChecksum" => Len(c.buffer) = FrameBytes

GoodCard == {c \in CardType : Shaped(c, c.phase)}

Same(c, d) ==
  /\ d.i = c.i /\ d.msb = c.msb /\ d.lsb = c.lsb /\ d.checksum = c.checksum
  /\ d.buffer = c.buffer /\ d.bytes = c.bytes /\ d.dirty = c.dirty /\ d.new = c.new

\* A card that answers changes its phase and its next byte alone.
LEMMA AnswerIs ==
  ASSUME NEW c \in CardType, NEW to \in Phase, NEW says \in Byte, NEW ack \in BOOLEAN, Shaped(c, to),
         NEW r, r = Answer(c, to, says, ack)
  PROVE  /\ r.card \in GoodCard /\ r.rx = c.spdr /\ r.ack = ack
         /\ r.card.phase = to /\ r.card.spdr = says /\ Same(c, r.card)
<1>1. r.card = [c EXCEPT !.phase = to, !.spdr = says] /\ r.rx = c.spdr /\ r.ack = ack
  BY DEF Answer
<1>2. r.card \in CardType /\ r.card.phase = to /\ r.card.spdr = says
  BY <1>1 DEF CardType
<1>3. Same(c, r.card)
  BY <1>1 DEF Same, CardType
<1>4. Shaped(r.card, to)
  BY <1>3 DEF Same, Shaped
<1> QED
  BY <1>1, <1>2, <1>3, <1>4 DEF GoodCard

\* A card that is reset keeps what it holds.
LEMMA ResetCardIs ==
  ASSUME NEW c \in CardType, NEW d, d = ResetCard(c)
  PROVE  /\ d \in GoodCard /\ d.phase = "Idle"
         /\ d.bytes = c.bytes /\ d.dirty = c.dirty /\ d.new = c.new
<1>1. d.phase = "Idle" /\ d.i = 0 /\ d.bytes = c.bytes /\ d.dirty = c.dirty /\ d.new = c.new
  BY DEF ResetCard, CardType
<1>2. <<>> \in Seq(Byte) /\ 255 \in Byte /\ 0 \in Byte /\ "Idle" \in Phase /\ 0 \in 0..FrameBytes + 4
  BY PhasesAre, FramesAssumption DEF Byte
<1>3. PICK none : none = <<>>
  OBVIOUS
<1>4. d = [phase |-> "Idle", i |-> 0, msb |-> 0, lsb |-> 0, checksum |-> 0, buffer |-> none,
           spdr |-> 255, bytes |-> c.bytes, dirty |-> c.dirty, new |-> c.new]
  BY <1>3 DEF ResetCard, CardType
<1>5. d \in CardType
  BY <1>2, <1>3, <1>4 DEF CardType
<1> QED
  BY <1>1, <1>5 DEF GoodCard, Shaped

\* A card that forgets its command keeps what it holds and sends its byte.
LEMMA EndIs ==
  ASSUME NEW c \in CardType, NEW says \in Byte, NEW ack \in BOOLEAN, NEW r, r = EndOf(c, says, ack)
  PROVE  /\ r.card \in GoodCard /\ r.rx = c.spdr /\ r.ack = ack
         /\ r.card.phase = "Idle" /\ r.card.spdr = says
         /\ r.card.bytes = c.bytes /\ r.card.dirty = c.dirty /\ r.card.new = c.new
<1>1. PICK d : d = ResetCard(c)
  OBVIOUS
<1>2. PICK a : a = Answer(d, "Idle", says, ack)
  OBVIOUS
<1>3. /\ d \in CardType /\ Shaped(d, "Idle") /\ "Idle" \in Phase
      /\ d.bytes = c.bytes /\ d.dirty = c.dirty /\ d.new = c.new
  BY <1>1, ResetCardIs, PhasesAre DEF GoodCard
<1>4. /\ a.card \in GoodCard /\ a.ack = ack /\ a.card.phase = "Idle" /\ a.card.spdr = says
      /\ Same(d, a.card)
  BY <1>2, <1>3, AnswerIs
<1>5. r = [a EXCEPT !.rx = c.spdr]
  BY <1>1, <1>2 DEF EndOf
<1>6. r.card = a.card /\ r.rx = c.spdr /\ r.ack = a.ack
  BY <1>2, <1>5 DEF Answer
<1> QED
  BY <1>3, <1>4, <1>6 DEF Same

\* The sizes of a card, as numbers.
LEMMA SizesAre == Frames \in Nat \ {0} /\ FrameBytes \in Nat /\ FrameBytes > 1
BY FramesAssumption

\* Two bytes name a frame.
LEMMA AddressIs ==
  ASSUME NEW m \in Byte, NEW l \in Byte
  PROVE  m * 256 + l \in Nat
BY DEF Byte

\* The bytes of the protocol are bytes.
LEMMA BytesAre ==
  {0, 4, 8, 90, 92, 93, 128, 255, Address, Read, Write, GetId, Good, Bad} \subseteq Byte
BY DEF Byte, Address, Read, Write, GetId, Good, Bad

\* What every byte leaves of a card.
Keeps(c, r) == r.card \in GoodCard /\ r.rx = c.spdr /\ r.ack \in BOOLEAN

\* A byte of the frame that is read, FF behind the end of the card.
LEMMA FrameByteIs ==
  ASSUME NEW c \in CardType, NEW i \in 0..FrameBytes - 1
  PROVE  ReadFrameByte(c, i) \in Byte /\ ReadFrameByte(c, i) = FrameOrNothing(c, c.msb * 256 + c.lsb)[i + 1]
<1>1. PICK at : at = c.msb * 256 + c.lsb
  OBVIOUS
<1>2. at \in Nat /\ i + 1 \in 1..FrameBytes
  <2>1. c.msb \in Byte /\ c.lsb \in Byte
    BY DEF CardType
  <2> QED
    BY <1>1, <2>1, SizesAre, AddressIs
<1>3. CASE at < Frames
  <2>1. at \in 0..Frames - 1
    BY <1>2, <1>3, SizesAre
  <2>2. c.bytes[at] \in [1..FrameBytes -> Byte]
    BY <2>1 DEF CardType, Frame
  <2>3. c.bytes[at][i + 1] \in Byte
    BY <1>2, <2>2
  <2> QED
    BY <1>1, <1>3, <2>3 DEF ReadFrameByte, AddressedFrame, FrameOrNothing
<1>4. CASE ~(at < Frames)
  BY <1>1, <1>2, <1>4 DEF ReadFrameByte, AddressedFrame, FrameOrNothing, Byte
<1> QED
  BY <1>3, <1>4

\* The card after it has prepared a byte of the frame.
LEMMA SendDataIs ==
  ASSUME NEW c \in CardType, NEW i \in 0..FrameBytes - 1, NEW r, r = SendData(c, i)
  PROVE  /\ Keeps(c, r) /\ r.card.spdr = ReadFrameByte(c, i)
         /\ r.card.phase = IF i + 1 = FrameBytes THEN "ReadChecksum" ELSE "ReadData"
         /\ i + 1 # FrameBytes => r.card.i = i + 1
         /\ r.card.checksum = Xor(c.checksum, ReadFrameByte(c, i))
         /\ r.card.msb = c.msb /\ r.card.lsb = c.lsb /\ r.card.bytes = c.bytes /\ r.card.new = c.new
<1>1. PICK byte : byte = ReadFrameByte(c, i)
  OBVIOUS
<1>2. PICK to : to = IF i + 1 = FrameBytes THEN "ReadChecksum" ELSE "ReadData"
  OBVIOUS
<1>3. PICK d : d = [c EXCEPT !.i = IF i + 1 = FrameBytes THEN 0 ELSE i + 1,
                             !.checksum = Xor(c.checksum, byte)]
  OBVIOUS
<1>4. r = Answer(d, to, byte, TRUE)
  BY <1>1, <1>2, <1>3 DEF SendData
<1>5. byte \in Byte /\ to \in Phase
  BY <1>1, <1>2, FrameByteIs, PhasesAre DEF Reading
<1>6. c.checksum \in Byte /\ Xor(c.checksum, byte) \in Byte
  BY <1>5, XorIs DEF CardType
<1>7. /\ d \in CardType /\ d.i = IF i + 1 = FrameBytes THEN 0 ELSE i + 1
      /\ d.checksum = Xor(c.checksum, byte)
      /\ d.msb = c.msb /\ d.lsb = c.lsb /\ d.bytes = c.bytes /\ d.new = c.new /\ d.spdr = c.spdr
  BY <1>3, <1>6, SizesAre DEF CardType
<1>8. Shaped(d, to)
  BY <1>2, <1>7, SizesAre DEF Shaped
<1>9. /\ r.card \in GoodCard /\ r.rx = d.spdr /\ r.ack = TRUE
      /\ r.card.phase = to /\ r.card.spdr = byte /\ Same(d, r.card)
  BY <1>4, <1>5, <1>7, <1>8, AnswerIs
<1> QED
  BY <1>1, <1>2, <1>7, <1>9 DEF Keeps, Same

\* A card whose buffer is a frame stores it, if it has the frame.
LEMMA CommitIs ==
  ASSUME NEW c \in CardType, Len(c.buffer) = FrameBytes, NEW d, d = Commit(c)
  PROVE  /\ d \in CardType /\ d.i = c.i /\ d.msb = c.msb /\ d.lsb = c.lsb /\ d.spdr = c.spdr
         /\ d.bytes = IF c.msb * 256 + c.lsb < Frames
                      THEN [c.bytes EXCEPT ![c.msb * 256 + c.lsb] = c.buffer] ELSE c.bytes
<1>1. PICK at : at = c.msb * 256 + c.lsb
  OBVIOUS
<1>2. at \in Nat /\ c.buffer \in Frame
  <2>1. c.msb \in Byte /\ c.lsb \in Byte /\ c.buffer \in Seq(Byte)
    BY DEF CardType
  <2>2. c.buffer \in [1..FrameBytes -> Byte]
    BY <2>1
  <2>3. at \in Nat
    BY <1>1, <2>1, AddressIs
  <2> QED
    BY <2>2, <2>3 DEF Frame
<1>3. CASE at < Frames
  <2>1. PICK b : b = [c.bytes EXCEPT ![at] = c.buffer]
    OBVIOUS
  <2>2. b \in [0..Frames - 1 -> Frame]
    BY <1>2, <2>1 DEF CardType
  <2>3. ~(AddressedFrame(c) >= Frames) /\ AddressedFrame(c) = at
    BY <1>1, <1>2, <1>3, SizesAre DEF AddressedFrame
  <2>4. d = [c EXCEPT !.bytes = [c.bytes EXCEPT ![at] = c.buffer], !.dirty = TRUE, !.new = FALSE]
    BY <2>3 DEF Commit, CardType
  <2>5. d = [c EXCEPT !.bytes = b, !.dirty = TRUE, !.new = FALSE]
    BY <2>1, <2>4
  <2>6. d \in CardType /\ d.i = c.i /\ d.msb = c.msb /\ d.lsb = c.lsb /\ d.spdr = c.spdr /\ d.bytes = b
    BY <2>2, <2>5 DEF CardType
  <2> QED
    BY <1>1, <1>3, <2>1, <2>6
<1>4. CASE ~(at < Frames)
  <2>1. AddressedFrame(c) >= Frames
    BY <1>1, <1>2, <1>4, SizesAre DEF AddressedFrame
  <2>2. d = c
    BY <2>1 DEF Commit
  <2> QED
    BY <1>1, <1>4, <2>2
<1> QED
  BY <1>3, <1>4

\* An answer leaves a good card.
LEMMA AnswerKeeps ==
  ASSUME NEW c, NEW d \in CardType, NEW to \in Phase, NEW says \in Byte, NEW ack \in BOOLEAN,
         Shaped(d, to), d.spdr = c.spdr, NEW r, r = Answer(d, to, says, ack)
  PROVE  Keeps(c, r)
<1>1. r.card \in GoodCard /\ r.rx = d.spdr /\ r.ack = ack
  BY AnswerIs
<1> QED
  BY <1>1 DEF Keeps

\* The end of a command leaves a good card.
LEMMA EndKeeps ==
  ASSUME NEW c \in CardType, NEW says \in Byte, NEW ack \in BOOLEAN, NEW r, r = EndOf(c, says, ack)
  PROVE  Keeps(c, r)
<1>1. r.card \in GoodCard /\ r.rx = c.spdr /\ r.ack = ack
  BY EndIs
<1> QED
  BY <1>1 DEF Keeps

\* A byte that moves a good card on leaves a good card.
LEMMA ReadKeeps ==
  ASSUME NEW c \in GoodCard, NEW tx \in Byte, c.phase \in Reading, NEW r, r = ExchangeCard(c, tx)
  PROVE  Keeps(c, r)
<1>1. c \in CardType /\ Shaped(c, c.phase) /\ c.msb \in Byte /\ c.lsb \in Byte /\ c.checksum \in Byte
  BY DEF GoodCard, CardType
<1>3. CASE c.phase = "ReadMsb"
  <2>1. PICK d : d = [c EXCEPT !.msb = tx]
    OBVIOUS
  <2>2. d \in CardType /\ d.i = 0 /\ d.spdr = c.spdr
    BY <1>1, <1>3, <2>1 DEF CardType, Shaped
  <2>3. r = Answer(d, "ReadLsb", tx, TRUE) /\ Shaped(d, "ReadLsb") /\ "ReadLsb" \in Phase
    BY <1>3, <2>1, <2>2, ReadIs, PhasesAre DEF Shaped, Reading
  <2> QED
    BY <2>2, <2>3, AnswerKeeps
<1>4. CASE c.phase = "ReadLsb"
  <2>1. PICK d : d = [c EXCEPT !.lsb = tx]
    OBVIOUS
  <2>2. d \in CardType /\ d.i = 0 /\ d.spdr = c.spdr
    BY <1>1, <1>4, <2>1 DEF CardType, Shaped
  <2>3. r = Answer(d, "ReadAck1", 92, TRUE) /\ Shaped(d, "ReadAck1") /\ "ReadAck1" \in Phase /\ 92 \in Byte
    BY <1>4, <2>1, <2>2, ReadIs, PhasesAre, BytesAre DEF Shaped, Scripted
  <2> QED
    BY <2>2, <2>3, AnswerKeeps
<1>5. CASE c.phase = "ReadAck2"
  <2>1. r = Answer(c, "ReadEchoMsb", c.msb, TRUE) /\ Shaped(c, "ReadEchoMsb") /\ "ReadEchoMsb" \in Phase
    BY <1>1, <1>5, ReadIs, PhasesAre DEF Shaped, Reading
  <2> QED
    BY <1>1, <2>1, AnswerKeeps
<1>6. CASE c.phase = "ReadEchoMsb"
  <2>1. r = Answer(c, "ReadEchoLsb", c.lsb, TRUE) /\ Shaped(c, "ReadEchoLsb") /\ "ReadEchoLsb" \in Phase
    BY <1>1, <1>6, ReadIs, PhasesAre DEF Shaped, Reading
  <2> QED
    BY <1>1, <2>1, AnswerKeeps
<1>7. CASE c.phase = "ReadEchoLsb"
  <2>1. PICK d : d = [c EXCEPT !.checksum = Xor(c.msb, c.lsb)]
    OBVIOUS
  <2>2. d \in CardType /\ d.spdr = c.spdr
    BY <1>1, <2>1, XorIs DEF CardType
  <2>3. r = SendData(d, 0)
    BY <1>7, <2>1, ReadIs
  <2>4. 0 \in 0..FrameBytes - 1
    BY SizesAre
  <2>5. Keeps(d, r)
    BY <2>2, <2>3, <2>4, SendDataIs
  <2> QED
    BY <2>2, <2>5 DEF Keeps
<1>8. CASE c.phase = "ReadData"
  <2>1. r = SendData(c, c.i)
    BY <1>8, ReadIs
  <2>2. c.i \in 0..FrameBytes - 1
    BY <1>1, <1>8, SizesAre DEF Shaped
  <2> QED
    BY <1>1, <2>1, <2>2, SendDataIs
<1>9. CASE c.phase = "ReadChecksum"
  <2>1. r = Answer(c, "ReadEnd", c.checksum, TRUE) /\ Shaped(c, "ReadEnd") /\ "ReadEnd" \in Phase
    BY <1>1, <1>9, ReadIs, PhasesAre DEF Shaped, Reading
  <2> QED
    BY <1>1, <2>1, AnswerKeeps
<1>10. CASE c.phase = "ReadEnd"
  <2>1. r = EndOf(c, Good, TRUE) /\ Good \in Byte
    BY <1>10, ReadIs, BytesAre
  <2> QED
    BY <1>1, <2>1, EndKeeps
<1> QED
  BY <1>3, <1>4, <1>5, <1>6, <1>7, <1>8, <1>9, <1>10 DEF Reading

\* A byte of a write leaves a good card.
LEMMA WriteKeeps ==
  ASSUME NEW c \in GoodCard, NEW tx \in Byte, c.phase \in Writing, NEW r, r = ExchangeCard(c, tx)
  PROVE  Keeps(c, r)
<1>1. c \in CardType /\ Shaped(c, c.phase) /\ c.msb \in Byte /\ c.checksum \in Byte /\ c.buffer \in Seq(Byte)
  BY DEF GoodCard, CardType
<1>2. CASE c.phase = "WriteMsb"
  <2>1. PICK d : d = [c EXCEPT !.msb = tx]
    OBVIOUS
  <2>2. d \in CardType /\ d.i = 0 /\ d.spdr = c.spdr
    BY <1>1, <1>2, <2>1 DEF CardType, Shaped
  <2>3. r = Answer(d, "WriteLsb", tx, TRUE) /\ Shaped(d, "WriteLsb") /\ "WriteLsb" \in Phase
    BY <1>2, <2>1, <2>2, WriteIs, PhasesAre DEF Shaped, Writing
  <2> QED
    BY <2>2, <2>3, AnswerKeeps
<1>3. CASE c.phase = "WriteLsb"
  <2>1. PICK none : none = <<>>
    OBVIOUS
  <2>2. PICK d : d = [c EXCEPT !.lsb = tx, !.checksum = Xor(c.msb, tx), !.buffer = none]
    OBVIOUS
  <2>3. none \in Seq(Byte) /\ Len(none) < FrameBytes /\ Xor(c.msb, tx) \in Byte
    BY <1>1, <2>1, SizesAre, XorIs
  <2>4. d \in CardType /\ d.i = 0 /\ d.spdr = c.spdr /\ d.buffer = none
    BY <1>1, <1>3, <2>2, <2>3 DEF CardType, Shaped
  <2>5. r = Answer(d, "WriteData", tx, TRUE)
    BY <1>3, <2>1, <2>2, WriteIs
  <2>6. Shaped(d, "WriteData") /\ "WriteData" \in Phase
    BY <2>3, <2>4, PhasesAre DEF Shaped, Writing
  <2> QED
    BY <2>4, <2>5, <2>6, AnswerKeeps
<1>4. CASE c.phase = "WriteData"
  <2>1. PICK more : more = Append(c.buffer, tx)
    OBVIOUS
  <2>2. PICK d : d = [c EXCEPT !.buffer = more, !.checksum = Xor(c.checksum, tx)]
    OBVIOUS
  <2>3. more \in Seq(Byte) /\ Len(more) = Len(c.buffer) + 1 /\ Xor(c.checksum, tx) \in Byte
    BY <1>1, <2>1, XorIs
  <2>4. d \in CardType /\ d.i = 0 /\ d.spdr = c.spdr /\ d.buffer = more
    BY <1>1, <1>4, <2>2, <2>3 DEF CardType, Shaped
  <2>5. PICK to : to = IF Len(c.buffer) + 1 < FrameBytes THEN "WriteData" ELSE "WriteChecksum"
    OBVIOUS
  <2>6. r = Answer(d, to, tx, TRUE)
    BY <1>4, <2>1, <2>2, <2>5, WriteIs
  <2>7. Len(c.buffer) < FrameBytes /\ Len(c.buffer) \in Nat
    BY <1>1, <1>4 DEF Shaped
  <2>8. Shaped(d, to) /\ to \in Phase
    BY <2>3, <2>4, <2>5, <2>7, PhasesAre, SizesAre DEF Shaped, Writing
  <2> QED
    BY <2>4, <2>6, <2>8, AnswerKeeps
<1>5. CASE c.phase = "WriteChecksum"
  <2>1. PICK d : d = Commit(c)
    OBVIOUS
  <2>2. d \in CardType /\ d.i = 0 /\ d.spdr = c.spdr
    BY <1>1, <1>5, <2>1, CommitIs DEF Shaped
  <2>3. r = IF tx = c.checksum THEN Answer(d, "WriteAck1", 92, TRUE) ELSE EndOf(c, Bad, FALSE)
    BY <1>5, <2>1, WriteIs
  <2>4. Shaped(d, "WriteAck1") /\ "WriteAck1" \in Phase /\ 92 \in Byte /\ Bad \in Byte
    BY <2>2, PhasesAre, BytesAre DEF Shaped, Scripted
  <2>5. CASE tx = c.checksum
    BY <2>2, <2>3, <2>4, <2>5, AnswerKeeps
  <2>6. CASE tx # c.checksum
    BY <1>1, <2>3, <2>4, <2>6, EndKeeps
  <2> QED
    BY <2>5, <2>6
<1>6. CASE c.phase = "WriteAck2"
  <2>1. r = EndOf(c, IF c.dirty THEN Good ELSE Bad, TRUE)
    BY <1>6, WriteIs
  <2>2. (IF c.dirty THEN Good ELSE Bad) \in Byte
    BY BytesAre
  <2> QED
    BY <1>1, <2>1, <2>2, EndKeeps
<1> QED
  BY <1>2, <1>3, <1>4, <1>5, <1>6 DEF Writing

\* A byte outside reads and writes leaves a good card.
LEMMA OthersKeep ==
  ASSUME NEW c \in GoodCard, NEW tx \in Byte, c.phase \notin Reading \cup Writing,
         NEW r, r = ExchangeCard(c, tx)
  PROVE  Keeps(c, r)
<1>1. c \in CardType /\ Shaped(c, c.phase)
  BY DEF GoodCard
<1>2. ASSUME NEW to \in Phase, NEW says \in Byte, c.i = 0,
             to \notin {"ReadData", "WriteData", "WriteChecksum"}, r = Answer(c, to, says, TRUE)
      PROVE  Keeps(c, r)
  <2>1. Shaped(c, to)
    BY <1>2 DEF Shaped
  <2> QED
    BY <1>1, <1>2, <2>1, AnswerKeeps
<1>3. CASE c.phase \in Scripted
  <2>1. c.i = 0
    BY <1>1, <1>3 DEF Shaped, Scripted
  <2>2. PICK to, says :
          /\ r = Answer(c, to, says, TRUE) /\ says \in {0, 92, 93}
          /\ to \in {"ReadId2", "ReadMsb", "ReadAck2", "WriteId2", "WriteMsb", "WriteAck2",
                     "IdId2", "IdAck1", "IdAck2", "IdInfo"}
    <3>1. CASE c.phase = "ReadId1"
      <4>1. r = Answer(c, "ReadId2", 93, TRUE)
        BY <3>1, ScriptIs
      <4> QED
        BY <4>1
    <3>2. CASE c.phase = "ReadId2"
      <4>1. r = Answer(c, "ReadMsb", 0, TRUE)
        BY <3>2, ScriptIs
      <4> QED
        BY <4>1
    <3>3. CASE c.phase = "ReadAck1"
      <4>1. r = Answer(c, "ReadAck2", 93, TRUE)
        BY <3>3, ScriptIs
      <4> QED
        BY <4>1
    <3>4. CASE c.phase = "WriteId1"
      <4>1. r = Answer(c, "WriteId2", 93, TRUE)
        BY <3>4, ScriptIs
      <4> QED
        BY <4>1
    <3>5. CASE c.phase = "WriteId2"
      <4>1. r = Answer(c, "WriteMsb", 0, TRUE)
        BY <3>5, ScriptIs
      <4> QED
        BY <4>1
    <3>6. CASE c.phase = "WriteAck1"
      <4>1. r = Answer(c, "WriteAck2", 93, TRUE)
        BY <3>6, ScriptIs
      <4> QED
        BY <4>1
    <3>7. CASE c.phase = "IdId1"
      <4>1. r = Answer(c, "IdId2", 93, TRUE)
        BY <3>7, ScriptIs
      <4> QED
        BY <4>1
    <3>8. CASE c.phase = "IdId2"
      <4>1. r = Answer(c, "IdAck1", 0, TRUE)
        BY <3>8, ScriptIs
      <4> QED
        BY <4>1
    <3>9. CASE c.phase = "IdAck1"
      <4>1. r = Answer(c, "IdAck2", 92, TRUE)
        BY <3>9, ScriptIs
      <4> QED
        BY <4>1
    <3>10. CASE c.phase = "IdAck2"
      <4>1. r = Answer(c, "IdInfo", 93, TRUE)
        BY <3>10, ScriptIs
      <4> QED
        BY <4>1
    <3> QED
      BY <1>3, <3>1, <3>2, <3>3, <3>4, <3>5, <3>6, <3>7, <3>8, <3>9, <3>10 DEF Scripted
  <2>3. to \in Phase /\ to \notin {"ReadData", "WriteData", "WriteChecksum"} /\ says \in Byte
    BY <2>2, PhasesAre, BytesAre DEF Scripted, Reading, Writing, Ending
  <2> QED
    BY <1>2, <2>1, <2>2, <2>3
<1>4. CASE c.phase = "Idle"
  <2>1. PICK flag : flag = IF c.new THEN 8 ELSE 0
    OBVIOUS
  <2>2. r = IF tx = Address THEN Answer(c, "GotAddr", flag, TRUE) ELSE Answer(c, "Idle", 255, FALSE)
    BY <1>4, <2>1, StartIs
  <2>3. /\ Shaped(c, "GotAddr") /\ Shaped(c, "Idle") /\ "GotAddr" \in Phase /\ "Idle" \in Phase
        /\ flag \in Byte /\ 255 \in Byte
    BY <1>1, <1>4, <2>1, PhasesAre, BytesAre DEF Shaped
  <2>4. CASE tx = Address
    BY <1>1, <2>2, <2>3, <2>4, AnswerKeeps
  <2>5. CASE tx # Address
    BY <1>1, <2>2, <2>3, <2>5, AnswerKeeps
  <2> QED
    BY <2>4, <2>5
<1>5. CASE c.phase = "GotAddr"
  <2>1. \/ \E to \in {"ReadId1", "WriteId1", "IdId1"} : r = Answer(c, to, 90, TRUE)
        \/ r = EndOf(c, 255, FALSE)
    BY <1>5, StartIs
  <2>2. {"ReadId1", "WriteId1", "IdId1"} \subseteq Phase /\ 90 \in Byte /\ 255 \in Byte
    BY PhasesAre, BytesAre DEF Scripted
  <2>3. c.i = 0
    BY <1>1, <1>5 DEF Shaped
  <2>4. CASE r = EndOf(c, 255, FALSE)
    BY <1>1, <2>2, <2>4, EndKeeps
  <2>5. ASSUME NEW to \in {"ReadId1", "WriteId1", "IdId1"}, r = Answer(c, to, 90, TRUE)
        PROVE  Keeps(c, r)
    BY <1>2, <2>2, <2>3, <2>5
  <2> QED
    BY <2>1, <2>4, <2>5
<1>6. CASE c.phase = "IdInfo"
  <2>1. PICK i : i = c.i
    OBVIOUS
  <2>2. i \in 0..3
    BY <1>1, <1>6, <2>1 DEF Shaped
  <2>3. PICK d : d = [c EXCEPT !.i = (i + 1) % 4]
    OBVIOUS
  <2>4. PICK to : to = IF i + 1 < 4 THEN "IdInfo" ELSE "IdEnd"
    OBVIOUS
  <2>5. PICK more : more = (i + 1 < 4)
    OBVIOUS
  <2>6. r = Answer(d, to, Info[i + 1], more)
    BY <1>6, <2>1, <2>3, <2>4, <2>5, GetIdIs
  <2>7. (i + 1) % 4 \in 0..FrameBytes + 4 /\ (i + 1) % 4 \in 0..3 /\ (~(i + 1 < 4) => (i + 1) % 4 = 0)
    BY <2>2, SizesAre
  <2>8. d \in CardType /\ d.i = (i + 1) % 4 /\ d.spdr = c.spdr
    BY <1>1, <2>3, <2>7 DEF CardType
  <2>9. Shaped(d, to) /\ to \in Phase
    BY <2>4, <2>7, <2>8, PhasesAre DEF Shaped, Ending
  <2>10. more \in BOOLEAN
    BY <2>5
  <2>11. Info[i + 1] \in Byte
    BY <2>2, BytesAre DEF Info
  <2> QED
    BY <2>6, <2>8, <2>9, <2>10, <2>11, AnswerKeeps
<1>7. CASE c.phase = "IdEnd"
  BY <1>1, <1>7, GetIdIs, BytesAre, EndKeeps
<1> QED
  <2>1. c.phase \in Phase
    BY <1>1 DEF CardType
  <2> QED
    BY <1>3, <1>4, <1>5, <1>6, <1>7, <2>1, PhasesAre DEF Ending

\* A byte leaves a good card.
LEMMA CardKeeps ==
  ASSUME NEW c \in GoodCard, NEW tx \in Byte, NEW r, r = ExchangeCard(c, tx)
  PROVE  Keeps(c, r)
BY ReadKeeps, WriteKeeps, OthersKeep

-----------------------------------------------------------------------------
(* The card: what it was told and what it tells. *)

\* What passed between the host and a card says where the card is.
InRead  == {"ReadId1", "ReadId2", "ReadMsb", "ReadLsb", "ReadAck1", "ReadAck2", "ReadEchoMsb",
            "ReadEchoLsb", "ReadData", "ReadChecksum", "ReadEnd"}
InWrite == {"WriteId1", "WriteId2", "WriteMsb", "WriteLsb", "WriteData", "WriteChecksum",
            "WriteAck1", "WriteAck2"}
InId    == {"IdId1", "IdId2", "IdAck1", "IdAck2", "IdInfo", "IdEnd"}

\* How many bytes a card in the phase has been sent.
SentIn(c) ==
  CASE c.phase \in {"ReadId1", "WriteId1"} -> 2
    [] c.phase \in {"ReadId2", "WriteId2"} -> 3
    [] c.phase \in {"ReadMsb", "WriteMsb"} -> 4
    [] c.phase \in {"ReadLsb", "WriteLsb"} -> 5
    [] c.phase = "ReadAck1"      -> 6
    [] c.phase = "ReadAck2"      -> 7
    [] c.phase = "ReadEchoMsb"   -> 8
    [] c.phase = "ReadEchoLsb"   -> 9
    [] c.phase = "ReadData"      -> 9 + c.i
    [] c.phase = "ReadChecksum"  -> 9 + FrameBytes
    [] c.phase = "ReadEnd"       -> 10 + FrameBytes
    [] c.phase = "WriteData"     -> 6 + Len(c.buffer)
    [] c.phase = "WriteChecksum" -> 6 + FrameBytes
    [] c.phase = "WriteAck1"     -> 7 + FrameBytes
    [] c.phase = "WriteAck2"     -> 8 + FrameBytes

\* The k-th byte of the reply to a read of which `sent` has been sent.
Asked(c, sent) == FrameOrNothing(c, sent[5] * 256 + sent[6])
ReplyAt(c, sent, k) ==
  CASE k = 1 -> IF c.new THEN 8 ELSE 0
    [] k = 2 -> 90
    [] k = 3 -> 93
    [] k = 4 -> 0
    [] k = 5 -> sent[5]
    [] k = 6 -> 92
    [] k = 7 -> 93
    [] k = 8 -> sent[5]
    [] k = 9 -> sent[6]
    [] k \in 10..9 + FrameBytes -> Asked(c, sent)[k - 9]
    [] k = 10 + FrameBytes -> Checksum(sent[5], sent[6], Asked(c, sent))
    [] k = 11 + FrameBytes -> Good

\* The host has heard the reply so far, and the card is about to say its next byte.
HearsReply(c, told) ==
  /\ \A k \in 2..Len(told.sent) : told.heard[k] = ReplyAt(c, told.sent, k - 1)
  /\ c.spdr = ReplyAt(c, told.sent, Len(told.sent))

Named(c, told) ==
  /\ Len(told.sent) >= 5 => told.sent[5] = c.msb
  /\ Len(told.sent) >= 6 => told.sent[6] = c.lsb

TracedRead(c, told) ==
  /\ Len(told.sent) = SentIn(c) /\ told.sent[2] = Read
  /\ HearsReply(c, told) /\ Named(c, told)
  /\ c.phase = "ReadData" =>
       c.checksum = Parity(<<c.msb, c.lsb>> \o SubSeq(Asked(c, told.sent), 1, c.i))
  /\ c.phase = "ReadChecksum" => c.checksum = Checksum(c.msb, c.lsb, Asked(c, told.sent))

TracedWrite(c, told) ==
  /\ Len(told.sent) = SentIn(c) /\ told.sent[2] = Write
  /\ Named(c, told)
  /\ c.phase \in {"WriteData", "WriteChecksum"} =>
       /\ \A k \in 1..Len(c.buffer) : told.sent[6 + k] = c.buffer[k]
       /\ c.checksum = Parity(<<c.msb, c.lsb>> \o c.buffer)

Traced(c, told) ==
  /\ Len(told.heard) = Len(told.sent) /\ told.image = c.bytes
  /\ c.phase # "Idle" => Len(told.sent) > 0 /\ told.sent[1] = Address
  /\ c.phase = "GotAddr" => Len(told.sent) = 1 /\ HearsReply(c, told)
  /\ c.phase \in InRead => TracedRead(c, told)
  /\ c.phase \in InWrite => TracedWrite(c, told)
  /\ c.phase \in InId => Len(told.sent) > 1 /\ told.sent[2] = GetId
  /\ c.phase = "Idle" /\ Len(told.sent) > 5 /\ told.sent[2] = Read =>
       Len(told.sent) = 11 + FrameBytes /\ HearsReply(c, told)

\* What a card has for a frame is a frame.
LEMMA FrameOrNothingIs ==
  ASSUME NEW c, c.bytes \in [0..Frames - 1 -> Frame], NEW at \in Nat
  PROVE  FrameOrNothing(c, at) \in [1..FrameBytes -> Byte]
<1>1. CASE at < Frames
  BY <1>1, SizesAre DEF FrameOrNothing, Frame
<1>2. CASE ~(at < Frames)
  BY <1>2, BytesAre DEF FrameOrNothing
<1> QED
  BY <1>1, <1>2

\* A sequence and one byte more.
LEMMA AppendIs ==
  ASSUME NEW s \in Seq(Byte), NEW b \in Byte, NEW m, m = Append(s, b)
  PROVE  /\ m \in Seq(Byte) /\ Len(m) = Len(s) + 1 /\ Len(s) \in Nat
         /\ \A k \in 1..Len(s) : m[k] = s[k]
         /\ m[Len(s) + 1] = b
OBVIOUS

\* One more byte changes nothing of the reply so far.
LEMMA ReplyStays ==
  ASSUME NEW c, NEW d, d.bytes = c.bytes, d.new = c.new, NEW sent \in Seq(Byte), NEW tx \in Byte,
         NEW k \in 1..Len(sent), k <= 11 + FrameBytes
  PROVE  ReplyAt(d, Append(sent, tx), k) = ReplyAt(c, sent, k)
<1>1. PICK more : more = Append(sent, tx)
  OBVIOUS
<1>2. \A j \in 1..Len(sent) : more[j] = sent[j]
  BY <1>1
<1>3. ASSUME Len(sent) >= 6 PROVE Asked(d, more) = Asked(c, sent)
  <2>1. more[5] = sent[5] /\ more[6] = sent[6]
    BY <1>2, <1>3
  <2> QED
    BY <2>1 DEF Asked, FrameOrNothing
<1>4. CASE k <= 9
  <2>1. k \in {1, 2, 3, 4, 5, 6, 7, 8, 9}
    BY <1>4
  <2>2. /\ k \in {5, 8} => more[5] = sent[5]
        /\ k = 9 => more[6] = sent[6]
    BY <1>2
  <2> QED
    BY <1>1, <2>1, <2>2 DEF ReplyAt
<1>5. CASE k > 9
  <2>1. Asked(d, more) = Asked(c, sent) /\ more[5] = sent[5] /\ more[6] = sent[6]
    BY <1>2, <1>3, <1>5
  <2>2. k \in 10..9 + FrameBytes \/ k = 10 + FrameBytes \/ k = 11 + FrameBytes
    BY <1>5, SizesAre
  <2>3. CASE k \in 10..9 + FrameBytes
    BY <1>1, <1>5, <2>1, <2>3, SizesAre DEF ReplyAt
  <2>4. CASE k = 10 + FrameBytes
    BY <1>1, <1>5, <2>1, <2>4, SizesAre DEF ReplyAt
  <2>5. CASE k = 11 + FrameBytes
    BY <1>1, <1>5, <2>1, <2>5, SizesAre DEF ReplyAt
  <2> QED
    BY <2>2, <2>3, <2>4, <2>5
<1> QED
  BY <1>4, <1>5

\* The host hears the byte the card was about to say.
LEMMA HearsMore ==
  ASSUME NEW c, NEW told, told.sent \in Seq(Byte), told.heard \in Seq(Byte), NEW n \in 1..10 + FrameBytes,
         n = Len(told.sent), n = Len(told.heard), HearsReply(c, told), NEW tx, tx \in Byte,
         NEW d, d.bytes = c.bytes, d.new = c.new, NEW t, t.sent = Append(told.sent, tx),
         t.heard = Append(told.heard, c.spdr), d.spdr = ReplyAt(d, t.sent, n + 1), c.spdr \in Byte
  PROVE  HearsReply(d, t)
<1>1. /\ Len(t.sent) = n + 1 /\ Len(t.heard) = n + 1 /\ n \in Nat
      /\ \A k \in 1..n : t.heard[k] = told.heard[k]
      /\ t.heard[n + 1] = c.spdr
  <2>1. Len(t.sent) = Len(told.sent) + 1
    <3>1. PICK s : s = told.sent
      OBVIOUS
    <3>2. PICK m : m = Append(s, tx)
      OBVIOUS
    <3>3. s \in Seq(Byte)
      BY <3>1
    <3>4. Len(m) = Len(s) + 1
      BY <3>2, <3>3
    <3> QED
      BY <3>1, <3>2, <3>4
  <2>2. /\ Len(t.heard) = Len(told.heard) + 1 /\ Len(told.heard) \in Nat
        /\ \A k \in 1..Len(told.heard) : t.heard[k] = told.heard[k]
        /\ t.heard[Len(told.heard) + 1] = c.spdr
    BY AppendIs
  <2> QED
    BY <2>1, <2>2
<1>2. ASSUME NEW k \in 1..n PROVE ReplyAt(d, t.sent, k) = ReplyAt(c, told.sent, k)
  <2>1. k <= 11 + FrameBytes /\ k \in 1..Len(told.sent)
    BY <1>1, SizesAre
  <2>2. ReplyAt(d, Append(told.sent, tx), k) = ReplyAt(c, told.sent, k)
    BY <2>1, ReplyStays
  <2> QED
    BY <2>2
<1>3. ASSUME NEW k \in 2..n + 1 PROVE t.heard[k] = ReplyAt(d, t.sent, k - 1)
  <2>1. k - 1 \in 1..n /\ k \in Int
    BY <1>1
  <2>2. CASE k <= n
    <3>1. t.heard[k] = told.heard[k] /\ k \in 2..Len(told.sent)
      BY <1>1, <2>2
    <3>2. told.heard[k] = ReplyAt(c, told.sent, k - 1)
      BY <3>1 DEF HearsReply
    <3> QED
      BY <1>2, <2>1, <3>1, <3>2
  <2>3. CASE k = n + 1
    <3>1. c.spdr = ReplyAt(c, told.sent, n)
      BY DEF HearsReply
    <3>2. k - 1 = n
      BY <1>1, <2>3
    <3> QED
      BY <1>1, <1>2, <2>1, <2>3, <3>1, <3>2
  <2> QED
    BY <1>1, <2>1, <2>2, <2>3
<1> QED
  BY <1>1, <1>3 DEF HearsReply

IsConcat(m, s, t) ==
  /\ m \in Seq(Byte) /\ Len(m) = Len(s) + Len(t) /\ Len(s) \in Nat /\ Len(t) \in Nat
  /\ \A k \in 1..Len(s) : m[k] = s[k]
  /\ \A k \in 1..Len(t) : m[Len(s) + k] = t[k]

\* Two sequences of bytes in one.
LEMMA ConcatIs ==
  ASSUME NEW s \in Seq(Byte), NEW t \in Seq(Byte)
  PROVE  IsConcat(s \o t, s, t)
BY DEF IsConcat

\* A request for a write, byte by byte.
IsRequest(q, pads, m, l, frame) ==
  /\ q \in Seq(Byte) /\ Len(q) = 7 + FrameBytes
  /\ q[1] = Address /\ q[2] = Write /\ q[3] = pads[1] /\ q[4] = pads[2] /\ q[5] = m /\ q[6] = l
  /\ \A k \in 1..FrameBytes : q[6 + k] = frame[k]
  /\ q[7 + FrameBytes] = Checksum(m, l, frame)

\* The bytes of a write request.
LEMMA RequestIs ==
  ASSUME NEW pads \in Seq(Byte), Len(pads) = 2, NEW m \in Byte, NEW l \in Byte,
         NEW frame \in Seq(Byte), Len(frame) = FrameBytes
  PROVE  IsRequest(WriteRequest(pads, m, l, frame), pads, m, l, frame)
<1>0. PICK q : q = WriteRequest(pads, m, l, frame)
  OBVIOUS
<1>1. PICK sum : sum = Checksum(m, l, frame)
  OBVIOUS
<1>2. sum \in Byte
  <2>1. PICK all : all = <<m, l>> \o frame
    OBVIOUS
  <2>2. <<m, l>> \in Seq(Byte)
    OBVIOUS
  <2>3. all \in Seq(Byte)
    BY <2>1, <2>2
  <2>4. sum = Parity(all)
    BY <1>1, <2>1 DEF Checksum
  <2> QED
    BY <2>3, <2>4, BytesAre, ParityOfMore
<1>3. PICK a, b, c : a = <<Address, Write>> /\ b = <<m, l>> /\ c = <<sum>>
  OBVIOUS
<1>4. /\ a \in Seq(Byte) /\ Len(a) = 2 /\ a[1] = Address /\ a[2] = Write
      /\ b \in Seq(Byte) /\ Len(b) = 2 /\ b[1] = m /\ b[2] = l
      /\ c \in Seq(Byte) /\ Len(c) = 1 /\ c[1] = sum
  <2>1. Address \in Byte /\ Write \in Byte
    BY BytesAre
  <2> QED
    BY <1>2, <1>3, <2>1
<1>5. PICK u, v, w : u = a \o pads /\ v = u \o b /\ w = v \o frame
  OBVIOUS
<1>6. q = w \o c
  BY <1>0, <1>1, <1>3, <1>5 DEF WriteRequest
<1>7. /\ u \in Seq(Byte) /\ Len(u) = 4
      /\ u[1] = Address /\ u[2] = Write /\ u[3] = pads[1] /\ u[4] = pads[2]
  <2>1. /\ u \in Seq(Byte) /\ Len(u) = Len(a) + Len(pads)
        /\ \A k \in 1..Len(a) : u[k] = a[k]
        /\ \A k \in 1..Len(pads) : u[Len(a) + k] = pads[k]
    <3>1. IsConcat(u, a, pads)
      BY <1>4, <1>5, ConcatIs
    <3> QED
      BY <3>1 DEF IsConcat
  <2>2. 1 \in 1..2 /\ 2 \in 1..2 /\ 2 + 1 = 3 /\ 2 + 2 = 4
    OBVIOUS
  <2> QED
    BY <1>4, <2>1, <2>2
<1>8. /\ v \in Seq(Byte) /\ Len(v) = 6
      /\ v[1] = Address /\ v[2] = Write /\ v[3] = pads[1] /\ v[4] = pads[2] /\ v[5] = m /\ v[6] = l
  <2>1. /\ v \in Seq(Byte) /\ Len(v) = Len(u) + Len(b)
        /\ \A k \in 1..Len(u) : v[k] = u[k]
        /\ \A k \in 1..Len(b) : v[Len(u) + k] = b[k]
    <3>1. IsConcat(v, u, b)
      BY <1>4, <1>5, <1>7, ConcatIs
    <3> QED
      BY <3>1 DEF IsConcat
  <2>2. {1, 2, 3, 4} \subseteq 1..4 /\ 1 \in 1..2 /\ 2 \in 1..2 /\ 4 + 1 = 5 /\ 4 + 2 = 6
    OBVIOUS
  <2> QED
    BY <1>4, <1>7, <2>1, <2>2
<1>9. /\ w \in Seq(Byte) /\ Len(w) = 6 + FrameBytes
      /\ \A k \in 1..6 : w[k] = v[k]
      /\ \A k \in 1..FrameBytes : w[6 + k] = frame[k]
  <2>1. IsConcat(w, v, frame)
    BY <1>5, <1>8, ConcatIs
  <2> QED
    BY <1>8, <2>1 DEF IsConcat
<1>10. /\ q \in Seq(Byte) /\ Len(q) = 7 + FrameBytes
       /\ \A k \in 1..6 + FrameBytes : q[k] = w[k]
       /\ q[7 + FrameBytes] = sum
  <2>1. /\ q \in Seq(Byte) /\ Len(q) = Len(w) + Len(c)
        /\ \A k \in 1..Len(w) : q[k] = w[k]
        /\ \A k \in 1..Len(c) : q[Len(w) + k] = c[k]
    <3>1. IsConcat(q, w, c)
      BY <1>4, <1>6, <1>9, ConcatIs
    <3> QED
      BY <3>1 DEF IsConcat
  <2>2. 6 + FrameBytes + 1 = 7 + FrameBytes /\ 1 \in 1..1
    BY SizesAre
  <2> QED
    BY <1>4, <1>9, <2>1, <2>2
<1>11. \A k \in 1..6 : k \in 1..6 + FrameBytes
  BY SizesAre
<1>12. \A k \in 1..FrameBytes : 6 + k \in 1..6 + FrameBytes
  BY SizesAre
<1>13. \A k \in {1, 2, 3, 4, 5, 6} : q[k] = v[k]
  BY <1>9, <1>10, <1>11
<1> QED
  <2>1. /\ q[1] = Address /\ q[2] = Write /\ q[3] = pads[1] /\ q[4] = pads[2] /\ q[5] = m /\ q[6] = l
        /\ \A k \in 1..FrameBytes : q[6 + k] = frame[k]
    BY <1>8, <1>9, <1>10, <1>12, <1>13
  <2>2. IsRequest(q, pads, m, l, frame)
    BY <1>1, <1>10, <2>1 DEF IsRequest
  <2> QED
    BY <1>0, <2>2

\* Only a whole request for a write changes what a card should hold.
IsStored(image, sent, frame) ==
  /\ Len(sent) # 7 + FrameBytes => Stored(image, sent) = image
  /\ Len(sent) >= 2 /\ sent[2] # Write => Stored(image, sent) = image
  /\ Len(sent) = 7 + FrameBytes /\ sent[1] = Address /\ sent[2] = Write =>
       /\ frame \in Seq(Byte) /\ Len(frame) = FrameBytes
       /\ \A k \in 1..FrameBytes : frame[k] = sent[6 + k]
       /\ Stored(image, sent) =
            IF sent[7 + FrameBytes] = Checksum(sent[5], sent[6], frame)
               /\ sent[5] * 256 + sent[6] < Frames
            THEN [image EXCEPT ![sent[5] * 256 + sent[6]] = frame] ELSE image

\* What a complete write request stores.
LEMMA StoredIs ==
  ASSUME NEW image, NEW sent \in Seq(Byte)
  PROVE  IsStored(image, sent, SubSeq(sent, 7, 6 + FrameBytes))
<1>0. PICK frame : frame = SubSeq(sent, 7, 6 + FrameBytes)
  OBVIOUS
<1>1. Len(sent) # 7 + FrameBytes => Stored(image, sent) = image
  BY DEF Stored
<1>2. ASSUME Len(sent) = 7 + FrameBytes
      PROVE  /\ frame \in Seq(Byte) /\ Len(frame) = FrameBytes
             /\ \A k \in 1..FrameBytes : frame[k] = sent[6 + k]
             /\ sent[5] \in Byte /\ sent[6] \in Byte
             /\ \E pads \in Seq(Byte) : /\ pads = SubSeq(sent, 3, 4) /\ Len(pads) = 2
                                        /\ pads[1] = sent[3] /\ pads[2] = sent[4]
  <2>1. /\ frame \in Seq(Byte) /\ Len(frame) = FrameBytes
        /\ \A k \in 1..FrameBytes : frame[k] = sent[6 + k]
    BY <1>0, <1>2, SizesAre
  <2>2. sent[5] \in Byte /\ sent[6] \in Byte
    BY <1>2, SizesAre
  <2>3. PICK pads : pads = SubSeq(sent, 3, 4)
    OBVIOUS
  <2>4. pads \in Seq(Byte) /\ Len(pads) = 2 /\ pads[1] = sent[3] /\ pads[2] = sent[4]
    BY <1>2, <2>3, SizesAre
  <2> QED
    BY <2>1, <2>2, <2>3, <2>4
<1>3. ASSUME Len(sent) = 7 + FrameBytes
      PROVE  sent = WriteRequest(SubSeq(sent, 3, 4), sent[5], sent[6], frame) <=>
               /\ sent[1] = Address /\ sent[2] = Write
               /\ sent[7 + FrameBytes] = Checksum(sent[5], sent[6], frame)
  <2>1. PICK pads \in Seq(Byte) : /\ pads = SubSeq(sent, 3, 4) /\ Len(pads) = 2
                                  /\ pads[1] = sent[3] /\ pads[2] = sent[4]
    BY <1>2, <1>3
  <2>2. PICK q : q = WriteRequest(pads, sent[5], sent[6], frame)
    OBVIOUS
  <2>3. /\ q \in Seq(Byte) /\ Len(q) = 7 + FrameBytes
        /\ q[1] = Address /\ q[2] = Write /\ q[3] = pads[1] /\ q[4] = pads[2]
        /\ q[5] = sent[5] /\ q[6] = sent[6]
        /\ \A k \in 1..FrameBytes : q[6 + k] = frame[k]
        /\ q[7 + FrameBytes] = Checksum(sent[5], sent[6], frame)
    <3>1. IsRequest(q, pads, sent[5], sent[6], frame)
      BY <1>2, <1>3, <2>1, <2>2, RequestIs
    <3> QED
      BY <3>1 DEF IsRequest
  <2>4. ASSUME sent[1] = Address, sent[2] = Write,
               sent[7 + FrameBytes] = Checksum(sent[5], sent[6], frame)
        PROVE  sent = q
    <3>1. ASSUME NEW k \in 1..Len(sent) PROVE sent[k] = q[k]
      <4>1. k \in {1, 2, 3, 4, 5, 6} \/ k - 6 \in 1..FrameBytes \/ k = 7 + FrameBytes
        BY <1>3, SizesAre
      <4>2. CASE k \in {1, 2, 3, 4, 5, 6}
        BY <2>1, <2>3, <2>4, <4>2
      <4>3. CASE k - 6 \in 1..FrameBytes
        <5>1. k = 6 + (k - 6)
          BY <1>3, SizesAre
        <5>2. q[6 + (k - 6)] = frame[k - 6] /\ sent[6 + (k - 6)] = frame[k - 6]
          BY <1>2, <1>3, <2>3, <4>3
        <5> QED
          BY <5>1, <5>2
      <4>4. CASE k = 7 + FrameBytes
        BY <2>3, <2>4, <4>4
      <4> QED
        BY <4>1, <4>2, <4>3, <4>4
    <3> QED
      BY <1>3, <2>3, <3>1, SeqEqual
  <2> QED
    BY <2>1, <2>2, <2>3, <2>4
<1>4. ASSUME Len(sent) >= 2, sent[2] # Write PROVE Stored(image, sent) = image
  <2>1. CASE Len(sent) = 7 + FrameBytes
    BY <1>0, <1>3, <1>4, <2>1 DEF Stored
  <2> QED
    BY <1>1, <2>1
<1>5. ASSUME Len(sent) = 7 + FrameBytes, sent[1] = Address, sent[2] = Write
      PROVE  Stored(image, sent) =
               IF sent[7 + FrameBytes] = Checksum(sent[5], sent[6], frame)
                  /\ sent[5] * 256 + sent[6] < Frames
               THEN [image EXCEPT ![sent[5] * 256 + sent[6]] = frame] ELSE image
  BY <1>0, <1>3, <1>5 DEF Stored
<1> QED
  BY <1>0, <1>1, <1>2, <1>4, <1>5 DEF IsStored

-----------------------------------------------------------------------------
(* The card: a byte keeps the trace. *)

ToldType == [sent : Seq(Byte), heard : Seq(Byte), image : [0..Frames - 1 -> Frame] \cup {None}]

\* A byte in the middle of a conversation.
Longer(told, c, tx, t) ==
  /\ t.sent = Append(told.sent, tx) /\ t.heard = Append(told.heard, c.spdr)
  /\ t.image = Stored(told.image, Append(told.sent, tx))

IsLonger(told, tx, t) ==
  /\ t.sent \in Seq(Byte) /\ Len(t.sent) = Len(told.sent) + 1 /\ Len(told.sent) \in Nat
  /\ \A k \in 1..Len(told.sent) : t.sent[k] = told.sent[k]
  /\ t.sent[Len(told.sent) + 1] = tx
  /\ t.heard \in Seq(Byte) /\ Len(t.heard) = Len(t.sent)
  /\ t.image = Stored(told.image, t.sent)

\* The trace after a byte more.
LEMMA LongerIs ==
  ASSUME NEW c \in CardType, NEW told \in ToldType, Len(told.heard) = Len(told.sent), NEW tx \in Byte,
         NEW t, Longer(told, c, tx, t)
  PROVE  IsLonger(told, tx, t)
<1>1. PICK sent, heard : sent = told.sent /\ heard = told.heard
  OBVIOUS
<1>2. sent \in Seq(Byte) /\ heard \in Seq(Byte) /\ c.spdr \in Byte /\ Len(heard) = Len(sent)
  BY <1>1 DEF ToldType, CardType
<1>3. PICK a, b : a = Append(sent, tx) /\ b = Append(heard, c.spdr)
  OBVIOUS
<1>4. /\ a \in Seq(Byte) /\ Len(a) = Len(sent) + 1 /\ Len(sent) \in Nat
      /\ \A k \in 1..Len(sent) : a[k] = sent[k]
      /\ a[Len(sent) + 1] = tx
  BY <1>2, <1>3
<1>5. b \in Seq(Byte) /\ Len(b) = Len(a)
  BY <1>2, <1>3
<1>6. t.sent = a /\ t.heard = b /\ t.image = Stored(told.image, a)
  BY <1>1, <1>3 DEF Longer
<1> QED
  BY <1>1, <1>4, <1>5, <1>6 DEF IsLonger

\* One more byte of a frame in the checksum.
LEMMA PrefixIs ==
  ASSUME NEW m \in Byte, NEW l \in Byte, NEW f \in [1..FrameBytes -> Byte]
  PROVE  /\ Parity(<<m, l>> \o SubSeq(f, 1, 0)) = Xor(m, l)
         /\ Parity(<<m, l>> \o SubSeq(f, 1, FrameBytes)) = Checksum(m, l, f)
         /\ \A i \in 0..FrameBytes - 1 :
              Xor(Parity(<<m, l>> \o SubSeq(f, 1, i)), f[i + 1]) = Parity(<<m, l>> \o SubSeq(f, 1, i + 1))
<1>1. f \in Seq(Byte) /\ Len(f) = FrameBytes
  BY SizesAre
<1>2. PICK two : two = <<m, l>>
  OBVIOUS
<1>3. two \in Seq(Byte) /\ Len(two) = 2
  BY <1>2
<1>4. two \o SubSeq(f, 1, 0) = two
  <2>1. SubSeq(f, 1, 0) = <<>>
    BY SubSeqEmpty
  <2> QED
    BY <1>3, <2>1, ConcatEmptySeq
<1>5. SubSeq(f, 1, FrameBytes) = f
  BY <1>1, SizesAre
<1>6. ASSUME NEW i \in 0..FrameBytes - 1
      PROVE  Xor(Parity(two \o SubSeq(f, 1, i)), f[i + 1]) = Parity(two \o SubSeq(f, 1, i + 1))
  <2>1. PICK some, more : some = SubSeq(f, 1, i) /\ more = SubSeq(f, 1, i + 1)
    OBVIOUS
  <2>2. some \in Seq(Byte) /\ f[i + 1] \in Byte /\ more = Append(some, f[i + 1])
    BY <1>1, <2>1, SizesAre
  <2>3. PICK all : all = two \o some
    OBVIOUS
  <2>4. all \in Seq(Byte) /\ two \o more = Append(all, f[i + 1])
    BY <1>3, <2>2, <2>3
  <2> QED
    BY <2>1, <2>2, <2>3, <2>4, ParityOfMore
<1> QED
  BY <1>2, <1>4, <1>5, <1>6, ParityOfTwo DEF Checksum

\* What a card that is read becomes, `n` bytes having been sent before this one.
Replying(c, d, t, n) ==
  /\ d.bytes = c.bytes /\ d.new = c.new /\ d.phase \in InRead
  /\ SentIn(d) = n + 1 /\ Named(d, t) /\ d.spdr = ReplyAt(d, t.sent, n + 1)
  /\ d.phase = "ReadData" =>
       d.checksum = Parity(<<d.msb, d.lsb>> \o SubSeq(Asked(d, t.sent), 1, d.i))
  /\ d.phase = "ReadChecksum" => d.checksum = Checksum(d.msb, d.lsb, Asked(d, t.sent))

\* A conversation that reads, after one more byte.
LEMMA ReadGoesOn ==
  ASSUME NEW c \in GoodCard, c.phase # "Idle", NEW told \in ToldType, Traced(c, told), NEW tx \in Byte,
         NEW t, Longer(told, c, tx, t), NEW n, n = Len(told.sent), n \in 1..10 + FrameBytes,
         HearsReply(c, told), t.sent[2] = Read, NEW d, Replying(c, d, t, n)
  PROVE  Traced(d, t)
<1>1. c \in CardType /\ c.spdr \in Byte /\ told.sent \in Seq(Byte) /\ told.heard \in Seq(Byte)
  BY DEF GoodCard, CardType, ToldType
<1>2. Len(told.heard) = Len(told.sent) /\ told.image = c.bytes /\ told.sent[1] = Address
  BY DEF Traced
<1>3. /\ d.bytes = c.bytes /\ d.new = c.new /\ d.phase \in InRead
      /\ SentIn(d) = n + 1 /\ Named(d, t) /\ d.spdr = ReplyAt(d, t.sent, n + 1)
      /\ d.phase = "ReadData" =>
           d.checksum = Parity(<<d.msb, d.lsb>> \o SubSeq(Asked(d, t.sent), 1, d.i))
      /\ d.phase = "ReadChecksum" => d.checksum = Checksum(d.msb, d.lsb, Asked(d, t.sent))
  BY DEF Replying
<1>4. /\ t.sent \in Seq(Byte) /\ Len(t.sent) = n + 1 /\ n \in Nat
      /\ \A k \in 1..n : t.sent[k] = told.sent[k]
      /\ Len(t.heard) = Len(t.sent)
      /\ t.image = Stored(told.image, t.sent)
  BY <1>1, <1>2, LongerIs DEF IsLonger
<1>5. HearsReply(d, t)
  <2>1. t.sent = Append(told.sent, tx) /\ t.heard = Append(told.heard, c.spdr)
    BY DEF Longer
  <2>2. n = Len(told.heard)
    BY <1>2
  <2> QED
    BY <1>1, <1>3, <2>1, <2>2, HearsMore
<1>6. t.image = d.bytes
  <2>1. Len(t.sent) >= 2 /\ t.sent[2] # Write
    BY <1>4 DEF Read, Write
  <2>2. Stored(told.image, t.sent) = told.image
    BY <1>4, <2>1, StoredIs DEF IsStored
  <2> QED
    BY <1>2, <1>3, <1>4, <2>2
<1>7. Len(t.sent) > 0 /\ t.sent[1] = Address
  BY <1>2, <1>4
<1>8. TracedRead(d, t)
  BY <1>3, <1>4, <1>5 DEF TracedRead
<1>9. d.phase \notin InWrite \cup InId \cup {"Idle", "GotAddr"}
  BY <1>3 DEF InRead, InWrite, InId
<1> QED
  BY <1>4, <1>6, <1>7, <1>8, <1>9 DEF Traced

\* What a card has become that answered.
HasBecome(c, to, says, d) == d.phase = to /\ d.spdr = says /\ Same(c, d)

\* A card that answers has become what HasBecome says.
LEMMA AnswerHas ==
  ASSUME NEW c \in CardType, NEW to, NEW says, NEW ack
  PROVE  HasBecome(c, to, says, Answer(c, to, says, ack).card)
<1>1. Answer(c, to, says, ack).card = [c EXCEPT !.phase = to, !.spdr = says]
  BY DEF Answer
<1> QED
  BY <1>1 DEF CardType, Same, HasBecome

\* What one has become that forgot its command.
HasEnded(c, says, d) ==
  /\ d.phase = "Idle" /\ d.spdr = says
  /\ d.bytes = c.bytes /\ d.dirty = c.dirty /\ d.new = c.new

\* A card that ends its command has become what HasEnded says.
LEMMA EndHas ==
  ASSUME NEW c \in CardType, NEW says \in Byte, NEW ack \in BOOLEAN
  PROVE  HasEnded(c, says, EndOf(c, says, ack).card)
<1>1. PICK r : r = EndOf(c, says, ack)
  OBVIOUS
<1>2. /\ r.card.phase = "Idle" /\ r.card.spdr = says
      /\ r.card.bytes = c.bytes /\ r.card.dirty = c.dirty /\ r.card.new = c.new
  BY <1>1, EndIs
<1> QED
  BY <1>1, <1>2 DEF HasEnded

\* The bytes of the reply outside the frame.
LEMMA ReplyIs ==
  ASSUME NEW d, NEW sent
  PROVE  /\ ReplyAt(d, sent, 1) = (IF d.new THEN 8 ELSE 0) /\ ReplyAt(d, sent, 2) = 90
         /\ ReplyAt(d, sent, 3) = 93 /\ ReplyAt(d, sent, 4) = 0 /\ ReplyAt(d, sent, 5) = sent[5]
         /\ ReplyAt(d, sent, 6) = 92 /\ ReplyAt(d, sent, 7) = 93 /\ ReplyAt(d, sent, 8) = sent[5]
         /\ ReplyAt(d, sent, 9) = sent[6]
<1>1. ASSUME NEW k PROVE k = 1 => ReplyAt(d, sent, k) = (IF d.new THEN 8 ELSE 0)
  BY SizesAre DEF ReplyAt
<1>2. ASSUME NEW k PROVE k = 2 => ReplyAt(d, sent, k) = 90
  BY SizesAre DEF ReplyAt
<1>3. ASSUME NEW k PROVE k = 3 => ReplyAt(d, sent, k) = 93
  BY SizesAre DEF ReplyAt
<1>4. ASSUME NEW k PROVE k = 4 => ReplyAt(d, sent, k) = 0
  BY SizesAre DEF ReplyAt
<1>5. ASSUME NEW k PROVE k \in {5, 8} => ReplyAt(d, sent, k) = sent[5]
  BY SizesAre DEF ReplyAt
<1>6. ASSUME NEW k PROVE k = 6 => ReplyAt(d, sent, k) = 92
  BY SizesAre DEF ReplyAt
<1>7. ASSUME NEW k PROVE k = 7 => ReplyAt(d, sent, k) = 93
  BY SizesAre DEF ReplyAt
<1>8. ASSUME NEW k PROVE k = 9 => ReplyAt(d, sent, k) = sent[6]
  BY SizesAre DEF ReplyAt
<1> QED
  BY <1>1, <1>2, <1>3, <1>4, <1>5, <1>6, <1>7, <1>8

\* The bytes of the frame in a reply.
LEMMA ReplyOfFrame ==
  ASSUME NEW d, NEW sent, NEW i \in 0..FrameBytes - 1
  PROVE  ReplyAt(d, sent, i + 10) = Asked(d, sent)[i + 1]
<1>1. i + 10 \in 10..9 + FrameBytes /\ i \in Nat
  BY SizesAre
<1>2. PICK k : k = i + 10
  OBVIOUS
<1>3. k \in 10..9 + FrameBytes /\ k - 9 = i + 1 /\ k \notin {1, 2, 3, 4, 5, 6, 7, 8, 9}
  BY <1>1, <1>2, SizesAre
<1>4. k # 10 + FrameBytes /\ k # 11 + FrameBytes
  BY <1>3, SizesAre
<1> QED
  BY <1>2, <1>3, <1>4, SizesAre DEF ReplyAt

\* The checksum and the last byte of a reply.
LEMMA ReplyAfterFrame ==
  ASSUME NEW d, NEW sent
  PROVE  /\ ReplyAt(d, sent, 10 + FrameBytes) = Checksum(sent[5], sent[6], Asked(d, sent))
         /\ ReplyAt(d, sent, 11 + FrameBytes) = Good
<1>1. PICK k, m : k = 10 + FrameBytes /\ m = 11 + FrameBytes
  OBVIOUS
<1>2. /\ k \notin {1, 2, 3, 4, 5, 6, 7, 8, 9} /\ k \notin 10..9 + FrameBytes
      /\ m \notin {1, 2, 3, 4, 5, 6, 7, 8, 9} /\ m \notin 10..9 + FrameBytes /\ m # 10 + FrameBytes
  BY <1>1, SizesAre
<1>3. ReplyAt(d, sent, k) = Checksum(sent[5], sent[6], Asked(d, sent))
  BY <1>1, <1>2, SizesAre DEF ReplyAt
<1>4. ReplyAt(d, sent, m) = Good
  BY <1>1, <1>2, SizesAre DEF ReplyAt
<1> QED
  BY <1>1, <1>3, <1>4

\* What a card that reads has been sent, once another byte has come.
ReadSent(c, told, tx, t, n, f) ==
  /\ n = SentIn(c) /\ n \in 2..10 + FrameBytes /\ n = Len(told.sent) /\ t.sent[2] = Read
  /\ n >= 5 => t.sent[5] = c.msb
  /\ n >= 6 => t.sent[6] = c.lsb
  /\ n >= 6 => Asked(c, t.sent) = f
  /\ n <= 6 => t.sent[n + 1] = tx
  /\ f = FrameOrNothing(c, c.msb * 256 + c.lsb) /\ f \in [1..FrameBytes -> Byte]

\* What was sent to a card in a read when it is sent a byte more.
LEMMA ReadSentIs ==
  ASSUME NEW c \in GoodCard, c.phase \in InRead, NEW told \in ToldType, Traced(c, told),
         NEW tx \in Byte, NEW t, Longer(told, c, tx, t)
  PROVE  ReadSent(c, told, tx, t, Len(told.sent), FrameOrNothing(c, c.msb * 256 + c.lsb))
<1>1. PICK n, f : n = Len(told.sent) /\ f = FrameOrNothing(c, c.msb * 256 + c.lsb)
  OBVIOUS
<1>2. c \in CardType /\ Shaped(c, c.phase) /\ c.msb \in Byte /\ c.lsb \in Byte
  BY DEF GoodCard, CardType
<1>3. Len(told.heard) = Len(told.sent) /\ n = SentIn(c) /\ told.sent[2] = Read /\ Named(c, told)
  BY <1>1 DEF Traced, TracedRead
<1>4. /\ n \in Nat /\ \A k \in 1..n : t.sent[k] = told.sent[k]
      /\ t.sent[n + 1] = tx
  <2>1. IsLonger(told, tx, t)
    BY <1>2, <1>3, LongerIs
  <2> QED
    BY <1>1, <2>1 DEF IsLonger
<1>5. n \in 2..10 + FrameBytes
  <2>1. CASE c.phase = "ReadData"
    <3>1. c.i \in 1..FrameBytes - 1 /\ SentIn(c) = 9 + c.i
      BY <1>2, <2>1 DEF Shaped, SentIn
    <3> QED
      BY <1>3, <3>1, SizesAre
  <2>2. CASE c.phase \in {"ReadChecksum", "ReadEnd"}
    <3>1. SentIn(c) = 9 + FrameBytes \/ SentIn(c) = 10 + FrameBytes
      BY <2>2 DEF SentIn
    <3> QED
      BY <1>3, <3>1, SizesAre
  <2>3. CASE c.phase \in InRead \ {"ReadData", "ReadChecksum", "ReadEnd"}
    <3>1. SentIn(c) \in {2, 3, 4, 5, 6, 7, 8, 9}
      BY <2>3 DEF SentIn, InRead
    <3> QED
      BY <1>3, <3>1, SizesAre
  <2> QED
    BY <2>1, <2>2, <2>3
<1>6. /\ t.sent[2] = Read
      /\ n >= 5 => t.sent[5] = c.msb
      /\ n >= 6 => t.sent[6] = c.lsb
  <2>1. 2 \in 1..n /\ (n >= 5 => 5 \in 1..n) /\ (n >= 6 => 6 \in 1..n)
    BY <1>5
  <2>2. (n >= 5 => told.sent[5] = c.msb) /\ (n >= 6 => told.sent[6] = c.lsb)
    BY <1>1, <1>3 DEF Named
  <2> QED
    BY <1>3, <1>4, <2>1, <2>2
<1>7. n >= 6 => Asked(c, t.sent) = f
  BY <1>1, <1>5, <1>6 DEF Asked
<1>8. f \in [1..FrameBytes -> Byte]
  <2>1. c.bytes \in [0..Frames - 1 -> Frame] /\ c.msb * 256 + c.lsb \in Nat
    BY <1>2, AddressIs DEF CardType
  <2> QED
    BY <1>1, <2>1, FrameOrNothingIs
<1> QED
  BY <1>1, <1>3, <1>4, <1>5, <1>6, <1>7, <1>8 DEF ReadSent

\* An answer before the frame or after it.
LEMMA ReadAnswers ==
  ASSUME NEW c \in GoodCard, c.phase \in InRead, NEW told \in ToldType, Traced(c, told), NEW tx \in Byte,
         NEW t, Longer(told, c, tx, t), NEW n, n = Len(told.sent), n \in 1..10 + FrameBytes, t.sent[2] = Read,
         NEW e, e.bytes = c.bytes, e.new = c.new, NEW to, to \in InRead \ {"ReadData", "ReadChecksum"},
         NEW says, NEW d, HasBecome(e, to, says, d), SentIn(d) = n + 1, says = ReplyAt(d, t.sent, n + 1),
         n >= 4 => t.sent[5] = e.msb, n >= 5 => t.sent[6] = e.lsb
  PROVE  Traced(d, t)
<1>1. /\ d.phase = to /\ d.spdr = says /\ d.bytes = c.bytes /\ d.new = c.new
      /\ d.msb = e.msb /\ d.lsb = e.lsb
  BY DEF HasBecome, Same
<1>2. HearsReply(c, told) /\ c.phase # "Idle" /\ Len(told.heard) = Len(told.sent)
  BY DEF Traced, TracedRead, InRead
<1>3. Len(t.sent) = n + 1 /\ n \in Nat
  <2>1. c \in CardType
    BY DEF GoodCard
  <2> QED
    BY <1>2, <2>1, LongerIs DEF IsLonger
<1>4. Named(d, t)
  BY <1>1, <1>3 DEF Named
<1>5. Replying(c, d, t, n)
  BY <1>1, <1>4 DEF Replying
<1> QED
  BY <1>2, <1>5, ReadGoesOn

\* A byte in a conversation that reads.
LEMMA ReadTraced ==
  ASSUME NEW c \in GoodCard, c.phase \in InRead, NEW told \in ToldType, Traced(c, told),
         NEW tx \in Byte, NEW t, Longer(told, c, tx, t)
  PROVE  Traced(ExchangeCard(c, tx).card, t)
<1>1. PICK n, f : n = Len(told.sent) /\ f = FrameOrNothing(c, c.msb * 256 + c.lsb)
  OBVIOUS
<1>2. PICK d : d = ExchangeCard(c, tx).card
  OBVIOUS
<1>3. /\ c \in CardType /\ Shaped(c, c.phase) /\ c.msb \in Byte /\ c.lsb \in Byte
      /\ c.checksum \in Byte
  BY DEF GoodCard, CardType
<1>4. HearsReply(c, told) /\ c.phase # "Idle"
  BY DEF Traced, TracedRead, InRead
<1>5. ReadSent(c, told, tx, t, n, f)
  BY <1>1, ReadSentIs
<1>6. /\ n = SentIn(c) /\ n \in 1..10 + FrameBytes /\ t.sent[2] = Read
      /\ n >= 5 => t.sent[5] = c.msb
      /\ n >= 6 => t.sent[6] = c.lsb
      /\ n <= 6 => t.sent[n + 1] = tx
      /\ f \in [1..FrameBytes -> Byte]
  BY <1>5 DEF ReadSent
<1>in. n \in 1..10 + FrameBytes /\ t.sent[2] = Read
  BY <1>6
<1>7. ASSUME n >= 6, d.bytes = c.bytes PROVE Asked(d, t.sent) = f
  BY <1>5, <1>7 DEF ReadSent, Asked, FrameOrNothing
<1>8. CASE c.phase = "ReadId1"
  <2>1. PICK e, says : e = c /\ says = 93
    OBVIOUS
  <2>2. /\ e \in CardType /\ e.bytes = c.bytes /\ e.new = c.new
        /\ e.msb = c.msb /\ e.lsb = c.lsb
    BY <1>3, <2>1 DEF CardType
  <2>3. d = Answer(e, "ReadId2", says, TRUE).card
    BY <1>2, <1>8, <2>1, ScriptIs
  <2>4. HasBecome(e, "ReadId2", says, d)
    BY <2>2, <2>3, AnswerHas
  <2>5. n = 2 /\ n + 1 = 3 /\ SentIn(d) = 3 /\ "ReadId2" \in InRead \ {"ReadData", "ReadChecksum"}
    BY <1>6, <1>8, <2>4 DEF SentIn, HasBecome, InRead
  <2>6. says = ReplyAt(d, t.sent, n + 1)
    BY <1>6, <2>1, <2>5, ReplyIs
  <2>7. (n >= 4 => t.sent[5] = e.msb) /\ (n >= 5 => t.sent[6] = e.lsb)
    BY <1>6, <2>2, <2>5
  <2>8. Traced(d, t)
    BY <1>1, <1>in, <2>2, <2>4, <2>5, <2>6, <2>7, ReadAnswers
  <2> QED
    BY <1>2, <2>8
<1>9. CASE c.phase = "ReadId2"
  <2>1. PICK e, says : e = c /\ says = 0
    OBVIOUS
  <2>2. /\ e \in CardType /\ e.bytes = c.bytes /\ e.new = c.new
        /\ e.msb = c.msb /\ e.lsb = c.lsb
    BY <1>3, <2>1 DEF CardType
  <2>3. d = Answer(e, "ReadMsb", says, TRUE).card
    BY <1>2, <1>9, <2>1, ScriptIs
  <2>4. HasBecome(e, "ReadMsb", says, d)
    BY <2>2, <2>3, AnswerHas
  <2>5. n = 3 /\ n + 1 = 4 /\ SentIn(d) = 4 /\ "ReadMsb" \in InRead \ {"ReadData", "ReadChecksum"}
    BY <1>6, <1>9, <2>4 DEF SentIn, HasBecome, InRead
  <2>6. says = ReplyAt(d, t.sent, n + 1)
    BY <1>6, <2>1, <2>5, ReplyIs
  <2>7. (n >= 4 => t.sent[5] = e.msb) /\ (n >= 5 => t.sent[6] = e.lsb)
    BY <1>6, <2>2, <2>5
  <2>8. Traced(d, t)
    BY <1>1, <1>in, <2>2, <2>4, <2>5, <2>6, <2>7, ReadAnswers
  <2> QED
    BY <1>2, <2>8
<1>10. CASE c.phase = "ReadMsb"
  <2>1. PICK e, says : e = [c EXCEPT !.msb = tx] /\ says = tx
    OBVIOUS
  <2>2. /\ e \in CardType /\ e.bytes = c.bytes /\ e.new = c.new
        /\ e.msb = tx /\ e.lsb = c.lsb
    BY <1>3, <2>1 DEF CardType
  <2>3. d = Answer(e, "ReadLsb", says, TRUE).card
    BY <1>2, <1>10, <2>1, ReadIs
  <2>4. HasBecome(e, "ReadLsb", says, d)
    BY <2>2, <2>3, AnswerHas
  <2>5. n = 4 /\ n + 1 = 5 /\ SentIn(d) = 5 /\ "ReadLsb" \in InRead \ {"ReadData", "ReadChecksum"}
    BY <1>6, <1>10, <2>4 DEF SentIn, HasBecome, InRead
  <2>6. says = ReplyAt(d, t.sent, n + 1)
    BY <1>6, <2>1, <2>5, ReplyIs
  <2>7. (n >= 4 => t.sent[5] = e.msb) /\ (n >= 5 => t.sent[6] = e.lsb)
    BY <1>6, <2>2, <2>5
  <2>8. Traced(d, t)
    BY <1>1, <1>in, <2>2, <2>4, <2>5, <2>6, <2>7, ReadAnswers
  <2> QED
    BY <1>2, <2>8
<1>11. CASE c.phase = "ReadLsb"
  <2>1. PICK e, says : e = [c EXCEPT !.lsb = tx] /\ says = 92
    OBVIOUS
  <2>2. /\ e \in CardType /\ e.bytes = c.bytes /\ e.new = c.new
        /\ e.msb = c.msb /\ e.lsb = tx
    BY <1>3, <2>1 DEF CardType
  <2>3. d = Answer(e, "ReadAck1", says, TRUE).card
    BY <1>2, <1>11, <2>1, ReadIs
  <2>4. HasBecome(e, "ReadAck1", says, d)
    BY <2>2, <2>3, AnswerHas
  <2>5. n = 5 /\ n + 1 = 6 /\ SentIn(d) = 6 /\ "ReadAck1" \in InRead \ {"ReadData", "ReadChecksum"}
    BY <1>6, <1>11, <2>4 DEF SentIn, HasBecome, InRead
  <2>6. says = ReplyAt(d, t.sent, n + 1)
    BY <1>6, <2>1, <2>5, ReplyIs
  <2>7. (n >= 4 => t.sent[5] = e.msb) /\ (n >= 5 => t.sent[6] = e.lsb)
    BY <1>6, <2>2, <2>5
  <2>8. Traced(d, t)
    BY <1>1, <1>in, <2>2, <2>4, <2>5, <2>6, <2>7, ReadAnswers
  <2> QED
    BY <1>2, <2>8
<1>12. CASE c.phase = "ReadAck1"
  <2>1. PICK e, says : e = c /\ says = 93
    OBVIOUS
  <2>2. /\ e \in CardType /\ e.bytes = c.bytes /\ e.new = c.new
        /\ e.msb = c.msb /\ e.lsb = c.lsb
    BY <1>3, <2>1 DEF CardType
  <2>3. d = Answer(e, "ReadAck2", says, TRUE).card
    BY <1>2, <1>12, <2>1, ScriptIs
  <2>4. HasBecome(e, "ReadAck2", says, d)
    BY <2>2, <2>3, AnswerHas
  <2>5. n = 6 /\ n + 1 = 7 /\ SentIn(d) = 7 /\ "ReadAck2" \in InRead \ {"ReadData", "ReadChecksum"}
    BY <1>6, <1>12, <2>4 DEF SentIn, HasBecome, InRead
  <2>6. says = ReplyAt(d, t.sent, n + 1)
    BY <1>6, <2>1, <2>5, ReplyIs
  <2>7. (n >= 4 => t.sent[5] = e.msb) /\ (n >= 5 => t.sent[6] = e.lsb)
    BY <1>6, <2>2, <2>5
  <2>8. Traced(d, t)
    BY <1>1, <1>in, <2>2, <2>4, <2>5, <2>6, <2>7, ReadAnswers
  <2> QED
    BY <1>2, <2>8
<1>13. CASE c.phase = "ReadAck2"
  <2>1. PICK e, says : e = c /\ says = c.msb
    OBVIOUS
  <2>2. /\ e \in CardType /\ e.bytes = c.bytes /\ e.new = c.new
        /\ e.msb = c.msb /\ e.lsb = c.lsb
    BY <1>3, <2>1 DEF CardType
  <2>3. d = Answer(e, "ReadEchoMsb", says, TRUE).card
    BY <1>2, <1>13, <2>1, ReadIs
  <2>4. HasBecome(e, "ReadEchoMsb", says, d)
    BY <2>2, <2>3, AnswerHas
  <2>5. n = 7 /\ n + 1 = 8 /\ SentIn(d) = 8 /\ "ReadEchoMsb" \in InRead \ {"ReadData", "ReadChecksum"}
    BY <1>6, <1>13, <2>4 DEF SentIn, HasBecome, InRead
  <2>6. says = ReplyAt(d, t.sent, n + 1)
    BY <1>6, <2>1, <2>5, ReplyIs
  <2>7. (n >= 4 => t.sent[5] = e.msb) /\ (n >= 5 => t.sent[6] = e.lsb)
    BY <1>6, <2>2, <2>5
  <2>8. Traced(d, t)
    BY <1>1, <1>in, <2>2, <2>4, <2>5, <2>6, <2>7, ReadAnswers
  <2> QED
    BY <1>2, <2>8
<1>14. CASE c.phase = "ReadEchoMsb"
  <2>1. PICK e, says : e = c /\ says = c.lsb
    OBVIOUS
  <2>2. /\ e \in CardType /\ e.bytes = c.bytes /\ e.new = c.new
        /\ e.msb = c.msb /\ e.lsb = c.lsb
    BY <1>3, <2>1 DEF CardType
  <2>3. d = Answer(e, "ReadEchoLsb", says, TRUE).card
    BY <1>2, <1>14, <2>1, ReadIs
  <2>4. HasBecome(e, "ReadEchoLsb", says, d)
    BY <2>2, <2>3, AnswerHas
  <2>5. n = 8 /\ n + 1 = 9 /\ SentIn(d) = 9 /\ "ReadEchoLsb" \in InRead \ {"ReadData", "ReadChecksum"}
    BY <1>6, <1>14, <2>4 DEF SentIn, HasBecome, InRead
  <2>6. says = ReplyAt(d, t.sent, n + 1)
    BY <1>6, <2>1, <2>5, ReplyIs
  <2>7. (n >= 4 => t.sent[5] = e.msb) /\ (n >= 5 => t.sent[6] = e.lsb)
    BY <1>6, <2>2, <2>5
  <2>8. Traced(d, t)
    BY <1>1, <1>in, <2>2, <2>4, <2>5, <2>6, <2>7, ReadAnswers
  <2> QED
    BY <1>2, <2>8
<1>15. ASSUME NEW e \in CardType, NEW i \in 0..FrameBytes - 1, n = i + 9, d = SendData(e, i).card,
                e.bytes = c.bytes, e.new = c.new, e.msb = c.msb, e.lsb = c.lsb,
                e.checksum = Parity(<<c.msb, c.lsb>> \o SubSeq(f, 1, i))
      PROVE  Traced(d, t)
  <2>1. PICK r : r = SendData(e, i)
    OBVIOUS
  <2>2. /\ d.spdr = ReadFrameByte(e, i)
        /\ d.phase = IF i + 1 = FrameBytes THEN "ReadChecksum" ELSE "ReadData"
        /\ i + 1 # FrameBytes => d.i = i + 1
        /\ d.checksum = Xor(e.checksum, ReadFrameByte(e, i))
        /\ d.msb = c.msb /\ d.lsb = c.lsb /\ d.bytes = c.bytes /\ d.new = c.new
    BY <1>15, <2>1, SendDataIs
  <2>3. ReadFrameByte(e, i) = f[i + 1]
    <3>1. ReadFrameByte(e, i) = FrameOrNothing(e, e.msb * 256 + e.lsb)[i + 1]
      BY <1>15, FrameByteIs
    <3>2. FrameOrNothing(e, e.msb * 256 + e.lsb) = FrameOrNothing(c, c.msb * 256 + c.lsb)
      BY <1>15 DEF FrameOrNothing
    <3> QED
      BY <1>1, <3>1, <3>2
  <2>4. /\ n >= 6 /\ n + 1 = i + 10 /\ i \in Nat
        /\ Asked(d, t.sent) = f
    BY <1>7, <1>15, <2>2
  <2>5. d.spdr = ReplyAt(d, t.sent, n + 1)
    <3>1. ReplyAt(d, t.sent, i + 10) = f[i + 1]
      BY <2>4, ReplyOfFrame
    <3> QED
      BY <2>2, <2>3, <2>4, <3>1
  <2>6. Named(d, t)
    BY <1>6, <2>2, <2>4 DEF Named
  <2>7. d.checksum = Parity(<<c.msb, c.lsb>> \o SubSeq(f, 1, i + 1))
    <3>1. PICK g : g = f
      OBVIOUS
    <3>2. g \in [1..FrameBytes -> Byte] /\ c.msb \in Byte /\ c.lsb \in Byte
      BY <1>3, <1>6, <3>1
    <3>3. \A j \in 0..FrameBytes - 1 :
            Xor(Parity(<<c.msb, c.lsb>> \o SubSeq(g, 1, j)), g[j + 1])
            = Parity(<<c.msb, c.lsb>> \o SubSeq(g, 1, j + 1))
      BY <3>2, PrefixIs
    <3> QED
      BY <1>15, <2>2, <2>3, <3>1, <3>3
  <2>8. CASE i + 1 = FrameBytes
    <3>1. d.phase = "ReadChecksum"
      BY <2>2, <2>8
    <3>2. SentIn(d) = n + 1 /\ d.phase \in InRead
      BY <2>4, <2>8, <3>1, SizesAre DEF SentIn, InRead
    <3>3. d.checksum = Checksum(d.msb, d.lsb, Asked(d, t.sent))
      BY <1>3, <1>6, <2>2, <2>4, <2>7, <2>8, PrefixIs
    <3>4. Replying(c, d, t, n)
      BY <2>2, <2>5, <2>6, <3>1, <3>2, <3>3 DEF Replying
    <3> QED
      BY <1>1, <1>4, <1>in, <3>4, ReadGoesOn
  <2>9. CASE i + 1 # FrameBytes
    <3>1. d.phase = "ReadData" /\ d.i = i + 1
      BY <2>2, <2>9
    <3>2. SentIn(d) = n + 1 /\ d.phase \in InRead
      BY <2>4, <3>1 DEF SentIn, InRead
    <3>3. d.checksum = Parity(<<d.msb, d.lsb>> \o SubSeq(Asked(d, t.sent), 1, d.i))
      BY <2>2, <2>4, <2>7, <3>1
    <3>4. Replying(c, d, t, n)
      BY <2>2, <2>5, <2>6, <3>1, <3>2, <3>3 DEF Replying
    <3> QED
      BY <1>1, <1>4, <1>in, <3>4, ReadGoesOn
  <2> QED
    BY <2>8, <2>9
<1>16. CASE c.phase = "ReadEchoLsb"
  <2>1. PICK e : e = [c EXCEPT !.checksum = Xor(c.msb, c.lsb)]
    OBVIOUS
  <2>2. /\ e \in CardType /\ e.bytes = c.bytes /\ e.new = c.new /\ e.msb = c.msb /\ e.lsb = c.lsb
        /\ e.checksum = Xor(c.msb, c.lsb)
    BY <1>3, <2>1, XorIs DEF CardType
  <2>3. d = SendData(e, 0).card
    BY <1>2, <1>16, <2>1, ReadIs
  <2>4. n = 0 + 9 /\ 0 \in 0..FrameBytes - 1
    BY <1>6, <1>16, SizesAre DEF SentIn
  <2>5. e.checksum = Parity(<<c.msb, c.lsb>> \o SubSeq(f, 1, 0))
    BY <1>3, <1>6, <2>2, PrefixIs
  <2> QED
    BY <1>2, <1>15, <2>2, <2>3, <2>4, <2>5
<1>17. CASE c.phase = "ReadData"
  <2>1. d = SendData(c, c.i).card
    BY <1>2, <1>17, ReadIs
  <2>2. c.i \in 0..FrameBytes - 1 /\ c.i >= 1 /\ n = c.i + 9
    BY <1>3, <1>6, <1>17, SizesAre DEF Shaped, SentIn
  <2>3. c.checksum = Parity(<<c.msb, c.lsb>> \o SubSeq(Asked(c, told.sent), 1, c.i))
    BY <1>17 DEF Traced, TracedRead
  <2>4. Asked(c, told.sent) = f
    BY <1>1, <2>2, <1>17 DEF Traced, TracedRead, Named, Asked
  <2>5. c.checksum = Parity(<<c.msb, c.lsb>> \o SubSeq(f, 1, c.i))
    BY <2>3, <2>4
  <2> QED
    BY <1>2, <1>3, <1>15, <2>1, <2>2, <2>5
<1>18. CASE c.phase = "ReadChecksum"
  <2>1. d = Answer(c, "ReadEnd", c.checksum, TRUE).card
    BY <1>2, <1>18, ReadIs
  <2>2. HasBecome(c, "ReadEnd", c.checksum, d)
    BY <1>3, <2>1, AnswerHas
  <2>3. n = 9 + FrameBytes /\ n + 1 = 10 + FrameBytes /\ SentIn(d) = n + 1 /\ n >= 6
        /\ "ReadEnd" \in InRead \ {"ReadData", "ReadChecksum"}
    BY <1>6, <1>18, <2>2, SizesAre DEF SentIn, HasBecome, InRead
  <2>4. d.bytes = c.bytes
    BY <2>2 DEF HasBecome, Same
  <2>5. Asked(d, t.sent) = f /\ Asked(c, told.sent) = f
    <3>1. Asked(c, told.sent) = f
      BY <1>1, <2>3, <1>18 DEF Traced, TracedRead, Named, Asked
    <3> QED
      BY <1>7, <2>3, <2>4, <3>1
  <2>6. c.checksum = Checksum(c.msb, c.lsb, f)
    BY <2>5, <1>18 DEF Traced, TracedRead
  <2>7. c.checksum = ReplyAt(d, t.sent, n + 1)
    BY <1>6, <2>3, <2>5, <2>6, ReplyAfterFrame
  <2>8. (n >= 4 => t.sent[5] = c.msb) /\ (n >= 5 => t.sent[6] = c.lsb)
    BY <1>6, <2>3
  <2> QED
    BY <1>1, <1>2, <1>3, <1>in, <2>2, <2>3, <2>7, <2>8, ReadAnswers
<1>19. CASE c.phase = "ReadEnd"
  <2>1. d = EndOf(c, Good, TRUE).card
    BY <1>2, <1>19, ReadIs
  <2>2. d.phase = "Idle" /\ d.spdr = Good /\ d.bytes = c.bytes /\ d.new = c.new
    <3>1. PICK says, ack : says = Good /\ ack = TRUE
      OBVIOUS
    <3>2. says \in Byte /\ ack \in BOOLEAN
      BY <3>1, BytesAre
    <3>3. c \in CardType /\ d = EndOf(c, says, ack).card
      BY <1>3, <2>1, <3>1
    <3>4. HasEnded(c, says, d)
      BY <3>2, <3>3, EndHas
    <3> QED
      BY <3>1, <3>4 DEF HasEnded
  <2>3. n = 10 + FrameBytes /\ n + 1 = 11 + FrameBytes /\ n >= 6
    BY <1>6, <1>19, SizesAre DEF SentIn
  <2>4. Good = ReplyAt(d, t.sent, n + 1)
    BY <2>3, ReplyAfterFrame
  <2>5. Len(told.heard) = Len(told.sent) /\ told.image = c.bytes
    BY DEF Traced
  <2>6. IsLonger(told, tx, t)
    BY <1>3, <2>5, LongerIs
  <2>7. /\ t.sent \in Seq(Byte) /\ Len(t.sent) = n + 1 /\ Len(t.heard) = Len(t.sent)
        /\ t.image = Stored(told.image, t.sent)
    BY <1>1, <2>6 DEF IsLonger
  <2>8. t.image = d.bytes
    <3>1. Len(t.sent) >= 2 /\ t.sent[2] # Write
      BY <1>6, <2>3, <2>7 DEF Read, Write
    <3>2. Stored(told.image, t.sent) = told.image
      BY <2>7, <3>1, StoredIs DEF IsStored
    <3> QED
      BY <2>2, <2>5, <2>7, <3>2
  <2>9. HearsReply(d, t)
    <3>1. told.sent \in Seq(Byte) /\ told.heard \in Seq(Byte) /\ c.spdr \in Byte
      BY <1>3 DEF ToldType, CardType
    <3>2. t.sent = Append(told.sent, tx) /\ t.heard = Append(told.heard, c.spdr)
      BY DEF Longer
    <3>3. d.spdr = ReplyAt(d, t.sent, n + 1) /\ n = Len(told.heard)
      BY <1>1, <2>2, <2>4, <2>5
    <3> QED
      BY <1>1, <1>4, <1>in, <2>2, <3>1, <3>2, <3>3, HearsMore
  <2>10. Traced(d, t)
    BY <2>2, <2>3, <2>7, <2>8, <2>9 DEF Traced, InRead, InWrite, InId
  <2> QED
    BY <1>2, <2>10
<1> QED
  BY <1>8, <1>9, <1>10, <1>11, <1>12, <1>13, <1>14, <1>16, <1>17, <1>18, <1>19 DEF InRead

\* What a card that is written becomes, `n` bytes having been sent before this one.
Storing(d, t, n) ==
  /\ d.phase \in InWrite /\ SentIn(d) = n + 1 /\ Named(d, t)
  /\ d.phase \in {"WriteData", "WriteChecksum"} =>
       /\ \A k \in 1..Len(d.buffer) : t.sent[6 + k] = d.buffer[k]
       /\ d.checksum = Parity(<<d.msb, d.lsb>> \o d.buffer)

\* A conversation that writes, after one more byte.
LEMMA WriteGoesOn ==
  ASSUME NEW c \in GoodCard, c.phase # "Idle", NEW told \in ToldType, Traced(c, told), NEW tx \in Byte,
         NEW t, Longer(told, c, tx, t), NEW n, n = Len(told.sent), t.sent[2] = Write, n > 0,
         NEW d, Storing(d, t, n), Stored(told.image, t.sent) = d.bytes
  PROVE  Traced(d, t)
<1>1. c \in CardType
  BY DEF GoodCard
<1>2. Len(told.heard) = Len(told.sent) /\ told.sent[1] = Address
  BY DEF Traced
<1>3. /\ t.sent \in Seq(Byte) /\ Len(t.sent) = n + 1 /\ n \in Nat
      /\ \A k \in 1..n : t.sent[k] = told.sent[k]
      /\ Len(t.heard) = Len(t.sent)
      /\ t.image = Stored(told.image, t.sent)
  BY <1>1, <1>2, LongerIs DEF IsLonger
<1>4. Len(t.sent) > 0 /\ t.sent[1] = Address
  BY <1>2, <1>3
<1>5. TracedWrite(d, t)
  BY <1>3 DEF TracedWrite, Storing
<1>6. d.phase \notin InRead \cup InId \cup {"Idle", "GotAddr"}
  BY DEF Storing, InRead, InWrite, InId
<1> QED
  BY <1>3, <1>4, <1>5, <1>6 DEF Traced

\* What a card that writes has been sent, once another byte has come.
WriteSent(c, told, tx, t, n) ==
  /\ n = SentIn(c) /\ n \in 2..8 + FrameBytes /\ t.sent[2] = Write
  /\ t.sent \in Seq(Byte) /\ Len(t.sent) = n + 1 /\ Len(t.heard) = n + 1 /\ t.sent[1] = Address
  /\ \A k \in 1..n : t.sent[k] = told.sent[k]
  /\ n >= 5 => t.sent[5] = c.msb
  /\ n >= 6 => t.sent[6] = c.lsb
  /\ t.sent[n + 1] = tx
  /\ t.image = Stored(told.image, t.sent) /\ told.image = c.bytes
  /\ n # 6 + FrameBytes => t.image = c.bytes

\* What was sent to a card in a write when it is sent a byte more.
LEMMA WriteSentIs ==
  ASSUME NEW c \in GoodCard, c.phase \in InWrite, NEW told \in ToldType, Traced(c, told),
         NEW tx \in Byte, NEW t, Longer(told, c, tx, t)
  PROVE  WriteSent(c, told, tx, t, Len(told.sent))
<1>1. PICK n : n = Len(told.sent)
  OBVIOUS
<1>2. c \in CardType /\ Shaped(c, c.phase) /\ Len(c.buffer) \in Nat
  BY DEF GoodCard, CardType
<1>3. /\ Len(told.heard) = Len(told.sent) /\ n = SentIn(c) /\ told.sent[2] = Write
      /\ told.sent[1] = Address /\ Named(c, told) /\ told.image = c.bytes
  BY <1>1 DEF Traced, TracedWrite, InWrite
<1>4. /\ n \in Nat /\ \A k \in 1..n : t.sent[k] = told.sent[k]
      /\ t.sent[n + 1] = tx /\ t.sent \in Seq(Byte) /\ Len(t.sent) = n + 1 /\ Len(t.heard) = n + 1
      /\ t.image = Stored(told.image, t.sent)
  <2>1. IsLonger(told, tx, t)
    BY <1>2, <1>3, LongerIs
  <2> QED
    BY <1>1, <1>3, <2>1 DEF IsLonger
<1>5. n \in 2..8 + FrameBytes
  <2>1. CASE c.phase = "WriteData"
    <3>1. Len(c.buffer) < FrameBytes /\ SentIn(c) = 6 + Len(c.buffer)
      BY <1>2, <2>1 DEF Shaped, SentIn
    <3> QED
      BY <1>2, <1>3, <3>1, SizesAre
  <2>2. CASE c.phase \in {"WriteChecksum", "WriteAck1", "WriteAck2"}
    <3>1. SentIn(c) \in {6 + FrameBytes, 7 + FrameBytes, 8 + FrameBytes}
      BY <2>2 DEF SentIn
    <3> QED
      BY <1>3, <3>1, SizesAre
  <2>3. CASE c.phase \in {"WriteId1", "WriteId2", "WriteMsb", "WriteLsb"}
    <3>1. SentIn(c) \in {2, 3, 4, 5}
      BY <2>3 DEF SentIn
    <3> QED
      BY <1>3, <3>1, SizesAre
  <2> QED
    BY <2>1, <2>2, <2>3 DEF InWrite
<1>6. /\ t.sent[1] = Address /\ t.sent[2] = Write
      /\ n >= 5 => t.sent[5] = c.msb
      /\ n >= 6 => t.sent[6] = c.lsb
  <2>1. 1 \in 1..n /\ 2 \in 1..n /\ (n >= 5 => 5 \in 1..n) /\ (n >= 6 => 6 \in 1..n)
    BY <1>5
  <2>2. (n >= 5 => told.sent[5] = c.msb) /\ (n >= 6 => told.sent[6] = c.lsb)
    BY <1>1, <1>3 DEF Named
  <2> QED
    BY <1>3, <1>4, <2>1, <2>2
<1>7. n # 6 + FrameBytes => t.image = c.bytes
  <2>1. n # 6 + FrameBytes => Len(t.sent) # 7 + FrameBytes
    BY <1>4, SizesAre
  <2> QED
    BY <1>3, <1>4, <2>1, StoredIs DEF IsStored
<1> QED
  BY <1>1, <1>3, <1>4, <1>5, <1>6, <1>7 DEF WriteSent

\* A byte in a conversation that writes.
LEMMA WriteTraced ==
  ASSUME NEW c \in GoodCard, c.phase \in InWrite, NEW told \in ToldType, Traced(c, told),
         NEW tx \in Byte, NEW t, Longer(told, c, tx, t)
  PROVE  Traced(ExchangeCard(c, tx).card, t)
<1>1. PICK n : n = Len(told.sent)
  OBVIOUS
<1>2. PICK d : d = ExchangeCard(c, tx).card
  OBVIOUS
<1>3. /\ c \in CardType /\ Shaped(c, c.phase) /\ c.msb \in Byte /\ c.lsb \in Byte
      /\ c.checksum \in Byte /\ c.buffer \in Seq(Byte)
  BY DEF GoodCard, CardType
<1>4. WriteSent(c, told, tx, t, n)
  BY <1>1, WriteSentIs
<1>5. /\ n = SentIn(c) /\ n \in 2..8 + FrameBytes /\ t.sent[2] = Write
      /\ t.sent \in Seq(Byte) /\ Len(t.sent) = n + 1 /\ Len(t.heard) = n + 1 /\ t.sent[1] = Address
      /\ \A k \in 1..n : t.sent[k] = told.sent[k]
      /\ n >= 5 => t.sent[5] = c.msb
      /\ n >= 6 => t.sent[6] = c.lsb
      /\ t.sent[n + 1] = tx
      /\ t.image = Stored(told.image, t.sent) /\ told.image = c.bytes
      /\ n # 6 + FrameBytes => t.image = c.bytes
  BY <1>4 DEF WriteSent
<1>6. ASSUME Storing(d, t, n), t.image = d.bytes
      PROVE  Traced(d, t)
  <2>1. n > 0 /\ c.phase # "Idle" /\ t.sent[2] = Write /\ Stored(told.image, t.sent) = d.bytes
    BY <1>5, <1>6 DEF InWrite
  <2> QED
    BY <1>1, <1>6, <2>1, WriteGoesOn
<1>7. ASSUME d.phase = "Idle", t.image = d.bytes
      PROVE  Traced(d, t)
  <2>1. t.sent[2] # Read
    BY <1>5 DEF Read, Write
  <2> QED
    BY <1>5, <1>7, <2>1 DEF Traced, InRead, InWrite, InId
<1>8. ASSUME NEW e \in CardType, NEW to \in InWrite \ {"WriteData", "WriteChecksum"}, NEW says,
             d = Answer(e, to, says, TRUE).card, e.bytes = t.image,
             SentIn([phase |-> to]) = n + 1, n >= 4 => t.sent[5] = e.msb, n >= 5 => t.sent[6] = e.lsb
      PROVE  Traced(d, t)
  <2>1. HasBecome(e, to, says, d)
    BY <1>8, AnswerHas
  <2>2. d.phase = to /\ d.msb = e.msb /\ d.lsb = e.lsb /\ d.bytes = e.bytes
    BY <2>1 DEF HasBecome, Same
  <2>3. SentIn(d) = n + 1
    BY <1>8, <2>2 DEF SentIn, InWrite
  <2>4. Named(d, t)
    <3>1. n \in Nat /\ Len(t.sent) = n + 1
      BY <1>5, SizesAre
    <3>2. (n >= 4 => t.sent[5] = d.msb) /\ (n >= 5 => t.sent[6] = d.lsb)
      BY <1>8, <2>2
    <3> QED
      BY <3>1, <3>2 DEF Named
  <2>5. Storing(d, t, n)
    BY <1>8, <2>2, <2>3, <2>4 DEF Storing
  <2> QED
    BY <1>6, <1>8, <2>2, <2>5
<1>9. CASE c.phase = "WriteId1"
  <2>1. PICK e, says : e = c /\ says = 93
    OBVIOUS
  <2>2. /\ e \in CardType /\ e.bytes = c.bytes
        /\ e.msb = c.msb /\ e.lsb = c.lsb
    BY <1>3, <2>1 DEF CardType
  <2>3. d = Answer(e, "WriteId2", says, TRUE).card
    BY <1>2, <1>9, <2>1, ScriptIs
  <2>4. n = 2
    BY <1>5, <1>9 DEF SentIn
  <2>5. SentIn([phase |-> "WriteId2"]) = n + 1 /\ "WriteId2" \in InWrite \ {"WriteData", "WriteChecksum"}
        /\ n # 6 + FrameBytes
    BY <2>4, SizesAre DEF SentIn, InWrite
  <2>6. (n >= 4 => t.sent[5] = e.msb) /\ (n >= 5 => t.sent[6] = e.lsb) /\ e.bytes = t.image
    BY <1>5, <2>2, <2>4, <2>5, SizesAre
  <2>7. Traced(d, t)
    BY <1>8, <2>2, <2>3, <2>5, <2>6
  <2> QED
    BY <1>2, <2>7
<1>10. CASE c.phase = "WriteId2"
  <2>1. PICK e, says : e = c /\ says = 0
    OBVIOUS
  <2>2. /\ e \in CardType /\ e.bytes = c.bytes
        /\ e.msb = c.msb /\ e.lsb = c.lsb
    BY <1>3, <2>1 DEF CardType
  <2>3. d = Answer(e, "WriteMsb", says, TRUE).card
    BY <1>2, <1>10, <2>1, ScriptIs
  <2>4. n = 3
    BY <1>5, <1>10 DEF SentIn
  <2>5. SentIn([phase |-> "WriteMsb"]) = n + 1 /\ "WriteMsb" \in InWrite \ {"WriteData", "WriteChecksum"}
        /\ n # 6 + FrameBytes
    BY <2>4, SizesAre DEF SentIn, InWrite
  <2>6. (n >= 4 => t.sent[5] = e.msb) /\ (n >= 5 => t.sent[6] = e.lsb) /\ e.bytes = t.image
    BY <1>5, <2>2, <2>4, <2>5, SizesAre
  <2>7. Traced(d, t)
    BY <1>8, <2>2, <2>3, <2>5, <2>6
  <2> QED
    BY <1>2, <2>7
<1>11. CASE c.phase = "WriteMsb"
  <2>1. PICK e, says : e = [c EXCEPT !.msb = tx] /\ says = tx
    OBVIOUS
  <2>2. /\ e \in CardType /\ e.bytes = c.bytes
        /\ e.msb = tx /\ e.lsb = c.lsb
    BY <1>3, <2>1 DEF CardType
  <2>3. d = Answer(e, "WriteLsb", says, TRUE).card
    BY <1>2, <1>11, <2>1, WriteIs
  <2>4. n = 4
    BY <1>5, <1>11 DEF SentIn
  <2>5. SentIn([phase |-> "WriteLsb"]) = n + 1 /\ "WriteLsb" \in InWrite \ {"WriteData", "WriteChecksum"}
        /\ n # 6 + FrameBytes
    BY <2>4, SizesAre DEF SentIn, InWrite
  <2>6. (n >= 4 => t.sent[5] = e.msb) /\ (n >= 5 => t.sent[6] = e.lsb) /\ e.bytes = t.image
    BY <1>5, <2>2, <2>4, <2>5, SizesAre
  <2>7. Traced(d, t)
    BY <1>8, <2>2, <2>3, <2>5, <2>6
  <2> QED
    BY <1>2, <2>7
<1>12. CASE c.phase = "WriteAck1"
  <2>1. PICK e, says : e = c /\ says = 93
    OBVIOUS
  <2>2. /\ e \in CardType /\ e.bytes = c.bytes
        /\ e.msb = c.msb /\ e.lsb = c.lsb
    BY <1>3, <2>1 DEF CardType
  <2>3. d = Answer(e, "WriteAck2", says, TRUE).card
    BY <1>2, <1>12, <2>1, ScriptIs
  <2>4. n = 7 + FrameBytes
    BY <1>5, <1>12 DEF SentIn
  <2>5. SentIn([phase |-> "WriteAck2"]) = n + 1 /\ "WriteAck2" \in InWrite \ {"WriteData", "WriteChecksum"}
        /\ n # 6 + FrameBytes
    BY <2>4, SizesAre DEF SentIn, InWrite
  <2>6. (n >= 4 => t.sent[5] = e.msb) /\ (n >= 5 => t.sent[6] = e.lsb) /\ e.bytes = t.image
    BY <1>5, <2>2, <2>4, <2>5, SizesAre
  <2>7. Traced(d, t)
    BY <1>8, <2>2, <2>3, <2>5, <2>6
  <2> QED
    BY <1>2, <2>7
<1>13. CASE c.phase = "WriteLsb"
  <2>1. PICK none : none = <<>>
    OBVIOUS
  <2>2. PICK e : e = [c EXCEPT !.lsb = tx, !.checksum = Xor(c.msb, tx), !.buffer = none]
    OBVIOUS
  <2>3. /\ e \in CardType /\ e.bytes = c.bytes /\ e.msb = c.msb /\ e.lsb = tx
        /\ e.checksum = Xor(c.msb, tx) /\ e.buffer = none /\ none \in Seq(Byte) /\ Len(none) = 0
    <3>1. none \in Seq(Byte) /\ Len(none) = 0 /\ Xor(c.msb, tx) \in Byte
      BY <1>3, <2>1, XorIs
    <3> QED
      BY <1>3, <2>2, <3>1 DEF CardType
  <2>4. d = Answer(e, "WriteData", tx, TRUE).card
    BY <1>2, <1>13, <2>1, <2>2, WriteIs
  <2>5. HasBecome(e, "WriteData", tx, d)
    BY <2>3, <2>4, AnswerHas
  <2>6. /\ d.phase = "WriteData" /\ d.msb = c.msb /\ d.lsb = tx /\ d.bytes = c.bytes
        /\ d.checksum = Xor(c.msb, tx) /\ d.buffer = none
    BY <2>3, <2>5 DEF HasBecome, Same
  <2>7. n = 5
    BY <1>5, <1>13 DEF SentIn
  <2>8. SentIn(d) = n + 1 /\ n # 6 + FrameBytes /\ d.phase \in InWrite
    BY <2>3, <2>6, <2>7, SizesAre DEF SentIn, InWrite
  <2>9. Named(d, t)
    BY <1>5, <2>6, <2>7 DEF Named
  <2>10. d.checksum = Parity(<<d.msb, d.lsb>> \o d.buffer)
    <3>1. PICK two : two = <<c.msb, tx>>
      OBVIOUS
    <3>2. two \in Seq(Byte) /\ two \o none = two
      BY <1>3, <2>1, <3>1, ConcatEmptySeq
    <3>3. Parity(two) = Xor(c.msb, tx)
      BY <1>3, <3>1, ParityOfTwo
    <3> QED
      BY <2>6, <3>1, <3>2, <3>3
  <2>11. Storing(d, t, n)
    BY <2>3, <2>6, <2>8, <2>9, <2>10 DEF Storing
  <2> QED
    BY <1>2, <1>5, <1>6, <2>6, <2>8, <2>11
<1>14. CASE c.phase = "WriteData"
  <2>1. PICK more, to : /\ more = Append(c.buffer, tx)
                        /\ to = IF Len(c.buffer) + 1 < FrameBytes THEN "WriteData" ELSE "WriteChecksum"
    OBVIOUS
  <2>2. PICK e : e = [c EXCEPT !.buffer = more, !.checksum = Xor(c.checksum, tx)]
    OBVIOUS
  <2>3. /\ more \in Seq(Byte) /\ Len(more) = Len(c.buffer) + 1 /\ Len(c.buffer) \in Nat
        /\ \A k \in 1..Len(c.buffer) : more[k] = c.buffer[k]
        /\ more[Len(c.buffer) + 1] = tx
    BY <1>3, <2>1, AppendIs
  <2>4. /\ e \in CardType /\ e.bytes = c.bytes /\ e.msb = c.msb /\ e.lsb = c.lsb
        /\ e.checksum = Xor(c.checksum, tx) /\ e.buffer = more
    <3>1. Xor(c.checksum, tx) \in Byte
      BY <1>3, XorIs
    <3> QED
      BY <1>3, <2>2, <2>3, <3>1 DEF CardType
  <2>5. d = Answer(e, to, tx, TRUE).card
    BY <1>2, <1>14, <2>1, <2>2, WriteIs
  <2>6. HasBecome(e, to, tx, d)
    BY <2>4, <2>5, AnswerHas
  <2>7. /\ d.phase = to /\ d.msb = c.msb /\ d.lsb = c.lsb /\ d.bytes = c.bytes
        /\ d.checksum = Xor(c.checksum, tx) /\ d.buffer = more
    BY <2>4, <2>6 DEF HasBecome, Same
  <2>8. n = 6 + Len(c.buffer) /\ Len(c.buffer) < FrameBytes
    BY <1>3, <1>5, <1>14 DEF SentIn, Shaped
  <2>9. SentIn(d) = n + 1 /\ n # 6 + FrameBytes /\ d.phase \in InWrite
    <3>1. PICK k : k = Len(c.buffer)
      OBVIOUS
    <3>2. k \in Nat /\ k < FrameBytes /\ FrameBytes \in Nat /\ n = 6 + k
      BY <2>3, <2>8, <3>1, SizesAre
    <3>3. k + 1 < FrameBytes \/ k + 1 = FrameBytes
      BY <3>2
    <3>4. to = IF k + 1 < FrameBytes THEN "WriteData" ELSE "WriteChecksum"
      BY <2>1, <3>1
    <3>5. to = "WriteData" \/ (to = "WriteChecksum" /\ k + 1 = FrameBytes)
      BY <3>2, <3>3, <3>4
    <3>6. Len(more) = k + 1
      BY <2>3, <3>1
    <3>7. SentIn(d) = IF to = "WriteData" THEN 6 + Len(more) ELSE 6 + FrameBytes
      BY <2>7, <3>5 DEF SentIn
    <3>8. SentIn(d) = n + 1
      BY <3>2, <3>5, <3>6, <3>7
    <3> QED
      BY <2>7, <3>2, <3>5, <3>8 DEF InWrite
  <2>10. Named(d, t)
    BY <1>5, <2>3, <2>7, <2>8 DEF Named
  <2>11. /\ \A k \in 1..Len(c.buffer) : told.sent[6 + k] = c.buffer[k]
         /\ c.checksum = Parity(<<c.msb, c.lsb>> \o c.buffer)
    BY <1>14 DEF Traced, TracedWrite
  <2>12. ASSUME NEW k \in 1..Len(more) PROVE t.sent[6 + k] = more[k]
    <3>1. CASE k \in 1..Len(c.buffer)
      <4>1. 6 + k \in 1..n
        BY <2>3, <2>8, <3>1
      <4>2. t.sent[6 + k] = told.sent[6 + k]
        BY <1>5, <4>1
      <4> QED
        BY <2>3, <2>11, <3>1, <4>2
    <3>2. CASE k = Len(c.buffer) + 1
      <4>1. 6 + k = n + 1
        BY <2>3, <2>8, <3>2
      <4> QED
        BY <1>5, <2>3, <3>2, <4>1
    <3> QED
      BY <2>3, <3>1, <3>2
  <2>13. Xor(c.checksum, tx) = Parity(<<c.msb, c.lsb>> \o more)
    <3>1. PICK two, all : two = <<c.msb, c.lsb>> /\ all = two \o c.buffer
      OBVIOUS
    <3>2. two \in Seq(Byte)
      BY <1>3, <3>1
    <3>3. all \in Seq(Byte) /\ two \o more = Append(all, tx)
      BY <1>3, <2>1, <3>1, <3>2
    <3>4. Parity(Append(all, tx)) = Xor(Parity(all), tx)
      BY <3>3, ParityOfMore
    <3> QED
      BY <2>11, <3>1, <3>3, <3>4
  <2>14. Storing(d, t, n)
    BY <2>7, <2>9, <2>10, <2>12, <2>13 DEF Storing
  <2> QED
    BY <1>2, <1>5, <1>6, <2>7, <2>9, <2>14
<1>15. CASE c.phase = "WriteChecksum"
  <2>1. n = 6 + FrameBytes /\ Len(t.sent) = 7 + FrameBytes /\ Len(c.buffer) = FrameBytes /\ n >= 6
    BY <1>3, <1>5, <1>15, SizesAre DEF SentIn, Shaped
  <2>2. t.sent[5] = c.msb /\ t.sent[6] = c.lsb /\ t.sent[7 + FrameBytes] = tx
    <3>1. n + 1 = 7 + FrameBytes
      BY <2>1, SizesAre
    <3> QED
      BY <1>5, <2>1, <3>1
  <2>3. /\ \A k \in 1..FrameBytes : told.sent[6 + k] = c.buffer[k]
        /\ c.checksum = Parity(<<c.msb, c.lsb>> \o c.buffer)
    BY <1>15, <2>1 DEF Traced, TracedWrite
  <2>4. PICK frame : frame = SubSeq(t.sent, 7, 6 + FrameBytes)
    OBVIOUS
  <2>5. PICK at : at = c.msb * 256 + c.lsb
    OBVIOUS
  <2>6. /\ frame \in Seq(Byte) /\ Len(frame) = FrameBytes
        /\ \A k \in 1..FrameBytes : frame[k] = t.sent[6 + k]
        /\ Stored(told.image, t.sent) =
             IF t.sent[7 + FrameBytes] = Checksum(t.sent[5], t.sent[6], frame)
                /\ t.sent[5] * 256 + t.sent[6] < Frames
             THEN [told.image EXCEPT ![t.sent[5] * 256 + t.sent[6]] = frame] ELSE told.image
    <3>1. PICK sent, image : sent = t.sent /\ image = told.image
      OBVIOUS
    <3>2. sent \in Seq(Byte) /\ sent[1] = Address /\ sent[2] = Write /\ Len(sent) = 7 + FrameBytes
      BY <1>5, <2>1, <3>1
    <3>3. frame = SubSeq(sent, 7, 6 + FrameBytes)
      BY <2>4, <3>1
    <3>4. IsStored(image, sent, frame)
      BY <3>2, <3>3, StoredIs
    <3> QED
      BY <3>1, <3>2, <3>4 DEF IsStored
  <2>7. frame = c.buffer
    <3>1. ASSUME NEW k \in 1..FrameBytes PROVE frame[k] = c.buffer[k]
      <4>1. 6 + k \in 1..n
        BY <2>1, SizesAre
      <4>2. t.sent[6 + k] = told.sent[6 + k]
        BY <1>5, <4>1
      <4> QED
        BY <2>3, <2>6, <4>2
    <3> QED
      BY <1>3, <2>1, <2>6, <3>1, SeqEqual
  <2>8. Checksum(t.sent[5], t.sent[6], frame) = c.checksum
    BY <2>2, <2>3, <2>7 DEF Checksum
  <2>9. t.image = IF tx = c.checksum /\ at < Frames THEN [c.bytes EXCEPT ![at] = c.buffer] ELSE c.bytes
    BY <1>5, <2>2, <2>5, <2>6, <2>7, <2>8
  <2>10. PICK e : e = Commit(c)
    OBVIOUS
  <2>11. /\ e \in CardType /\ e.msb = c.msb /\ e.lsb = c.lsb
         /\ e.bytes = IF at < Frames THEN [c.bytes EXCEPT ![at] = c.buffer] ELSE c.bytes
    BY <1>3, <2>1, <2>5, <2>10, CommitIs
  <2>12. CASE tx = c.checksum
    <3>1. PICK says : says = 92
      OBVIOUS
    <3>2. d = Answer(e, "WriteAck1", says, TRUE).card
      BY <1>2, <1>15, <2>10, <2>12, <3>1, WriteIs
    <3>3. e.bytes = t.image
      BY <2>9, <2>11, <2>12
    <3>4. SentIn([phase |-> "WriteAck1"]) = n + 1 /\ "WriteAck1" \in InWrite \ {"WriteData", "WriteChecksum"}
      BY <2>1, SizesAre DEF SentIn, InWrite
    <3>5. (n >= 4 => t.sent[5] = e.msb) /\ (n >= 5 => t.sent[6] = e.lsb)
      BY <2>2, <2>11
    <3>6. Traced(d, t)
      BY <1>8, <2>11, <3>2, <3>3, <3>4, <3>5
    <3> QED
      BY <1>2, <3>6
  <2>13. CASE tx # c.checksum
    <3>1. PICK says, ack : says = Bad /\ ack = FALSE
      OBVIOUS
    <3>2. says \in Byte /\ ack \in BOOLEAN
      BY <3>1, BytesAre
    <3>3. c \in CardType /\ d = EndOf(c, says, ack).card
      BY <1>2, <1>3, <1>15, <2>13, <3>1, WriteIs
    <3>4. HasEnded(c, says, d)
      BY <3>2, <3>3, EndHas
    <3>5. d.phase = "Idle" /\ t.image = d.bytes
      BY <2>9, <2>13, <3>4 DEF HasEnded
    <3> QED
      BY <1>2, <1>7, <3>5
  <2> QED
    BY <2>12, <2>13
<1>16. CASE c.phase = "WriteAck2"
  <2>1. PICK says, ack : says = (IF c.dirty THEN Good ELSE Bad) /\ ack = TRUE
    OBVIOUS
  <2>2. says \in Byte /\ ack \in BOOLEAN
    BY <2>1, BytesAre
  <2>3. c \in CardType /\ d = EndOf(c, says, ack).card
    BY <1>2, <1>3, <1>16, <2>1, WriteIs
  <2>4. HasEnded(c, says, d)
    BY <2>2, <2>3, EndHas
  <2>5. n = 8 + FrameBytes /\ n # 6 + FrameBytes
    BY <1>5, <1>16, SizesAre DEF SentIn
  <2>6. d.phase = "Idle" /\ t.image = d.bytes
    BY <1>5, <2>4, <2>5 DEF HasEnded
  <2> QED
    BY <1>2, <1>7, <2>6
<1> QED
  BY <1>9, <1>10, <1>11, <1>12, <1>13, <1>14, <1>15, <1>16 DEF InWrite

\* A byte in a conversation that asks for the card's identity.
LEMMA IdTraced ==
  ASSUME NEW c \in GoodCard, c.phase \in InId, NEW told \in ToldType, Traced(c, told),
         NEW tx \in Byte, NEW t, Longer(told, c, tx, t)
  PROVE  Traced(ExchangeCard(c, tx).card, t)
<1>1. PICK d, n : d = ExchangeCard(c, tx).card /\ n = Len(told.sent)
  OBVIOUS
<1>2. c \in CardType
  BY DEF GoodCard
<1>3. /\ Len(told.heard) = Len(told.sent) /\ n > 1 /\ told.sent[2] = GetId
      /\ told.sent[1] = Address /\ told.image = c.bytes
  BY <1>1 DEF Traced, InId
<1>4. /\ n \in Nat /\ \A k \in 1..n : t.sent[k] = told.sent[k]
      /\ t.sent \in Seq(Byte) /\ Len(t.sent) = n + 1 /\ Len(t.heard) = n + 1
      /\ t.image = Stored(told.image, t.sent)
  <2>1. IsLonger(told, tx, t)
    BY <1>2, <1>3, LongerIs
  <2> QED
    BY <1>1, <1>3, <2>1 DEF IsLonger
<1>5. t.sent[1] = Address /\ t.sent[2] = GetId
  BY <1>3, <1>4
<1>6. t.image = c.bytes
  <2>1. Len(t.sent) >= 2 /\ t.sent[2] # Write
    BY <1>3, <1>4, <1>5 DEF GetId, Write
  <2> QED
    BY <1>3, <1>4, <2>1, StoredIs DEF IsStored
<1>7. ASSUME d.bytes = c.bytes, d.phase \in InId \cup {"Idle"} PROVE Traced(d, t)
  <2>1. t.sent[2] # Read
    BY <1>5 DEF Read, GetId
  <2> QED
    BY <1>3, <1>4, <1>5, <1>6, <1>7, <2>1 DEF Traced, InId, InRead, InWrite
<1>8. ASSUME NEW e \in CardType, NEW to \in InId, NEW says, NEW ack, d = Answer(e, to, says, ack).card,
             e.bytes = c.bytes
      PROVE  Traced(d, t)
  <2>1. HasBecome(e, to, says, d)
    BY <1>8, AnswerHas
  <2>2. d.phase = to /\ d.bytes = e.bytes
    BY <2>1 DEF HasBecome, Same
  <2> QED
    BY <1>7, <1>8, <2>2
<1>9. CASE c.phase = "IdId1"
  <2>1. PICK to, says, ack : to = "IdId2" /\ says = 93 /\ ack = TRUE
    OBVIOUS
  <2>2. d = Answer(c, to, says, ack).card /\ to \in InId
    BY <1>1, <1>9, <2>1, ScriptIs DEF InId
  <2> QED
    BY <1>1, <1>2, <1>8, <2>2
<1>10. CASE c.phase = "IdId2"
  <2>1. PICK to, says, ack : to = "IdAck1" /\ says = 0 /\ ack = TRUE
    OBVIOUS
  <2>2. d = Answer(c, to, says, ack).card /\ to \in InId
    BY <1>1, <1>10, <2>1, ScriptIs DEF InId
  <2> QED
    BY <1>1, <1>2, <1>8, <2>2
<1>11. CASE c.phase = "IdAck1"
  <2>1. PICK to, says, ack : to = "IdAck2" /\ says = 92 /\ ack = TRUE
    OBVIOUS
  <2>2. d = Answer(c, to, says, ack).card /\ to \in InId
    BY <1>1, <1>11, <2>1, ScriptIs DEF InId
  <2> QED
    BY <1>1, <1>2, <1>8, <2>2
<1>12. CASE c.phase = "IdAck2"
  <2>1. PICK to, says, ack : to = "IdInfo" /\ says = 93 /\ ack = TRUE
    OBVIOUS
  <2>2. d = Answer(c, to, says, ack).card /\ to \in InId
    BY <1>1, <1>12, <2>1, ScriptIs DEF InId
  <2> QED
    BY <1>1, <1>2, <1>8, <2>2
<1>13. CASE c.phase = "IdInfo"
  <2>1. PICK e, to, says, ack :
          /\ e = [c EXCEPT !.i = (c.i + 1) % 4] /\ to = IF c.i + 1 < 4 THEN "IdInfo" ELSE "IdEnd"
          /\ says = Info[c.i + 1] /\ ack = (c.i + 1 < 4)
    OBVIOUS
  <2>2. d = Answer(e, to, says, ack).card
    BY <1>1, <1>13, <2>1, GetIdIs
  <2>3. c.i \in 0..3
    BY <1>13 DEF GoodCard, Shaped
  <2>4. (c.i + 1) % 4 \in 0..FrameBytes + 4
    BY <2>3, SizesAre
  <2>5. e \in CardType /\ e.bytes = c.bytes /\ to \in InId
    BY <1>2, <2>1, <2>4 DEF CardType, InId
  <2> QED
    BY <1>1, <1>8, <2>2, <2>5
<1>14. CASE c.phase = "IdEnd"
  <2>1. PICK says, ack : says = 0 /\ ack = FALSE
    OBVIOUS
  <2>2. d = EndOf(c, says, ack).card /\ says \in Byte /\ ack \in BOOLEAN
    BY <1>1, <1>14, <2>1, GetIdIs, BytesAre
  <2>3. HasEnded(c, says, d)
    BY <1>2, <2>2, EndHas
  <2> QED
    BY <1>1, <1>7, <2>3 DEF HasEnded
<1> QED
  BY <1>9, <1>10, <1>11, <1>12, <1>13, <1>14, <1>14 DEF InId

\* A byte after the address: the command.
LEMMA CommandTraced ==
  ASSUME NEW c \in GoodCard, c.phase = "GotAddr", NEW told \in ToldType, Traced(c, told),
         NEW tx \in Byte, NEW t, Longer(told, c, tx, t)
  PROVE  Traced(ExchangeCard(c, tx).card, t)
<1>1. PICK d, n : d = ExchangeCard(c, tx).card /\ n = Len(told.sent)
  OBVIOUS
<1>2. c \in CardType
  BY DEF GoodCard
<1>3. /\ Len(told.heard) = Len(told.sent) /\ n = 1 /\ HearsReply(c, told)
      /\ told.sent[1] = Address /\ told.image = c.bytes
  BY <1>1 DEF Traced
<1>4. /\ t.sent \in Seq(Byte) /\ Len(t.sent) = 2 /\ Len(t.heard) = 2
      /\ t.sent[1] = Address /\ t.sent[2] = tx
      /\ t.image = Stored(told.image, t.sent)
  <2>1. IsLonger(told, tx, t)
    BY <1>2, <1>3, LongerIs
  <2>2. 1 \in 1..n /\ n + 1 = 2
    BY <1>3
  <2>3. /\ t.sent \in Seq(Byte) /\ Len(t.sent) = n + 1 /\ \A k \in 1..n : t.sent[k] = told.sent[k]
        /\ t.sent[n + 1] = tx /\ Len(t.heard) = Len(t.sent) /\ t.image = Stored(told.image, t.sent)
    BY <1>1, <2>1 DEF IsLonger
  <2> QED
    BY <1>3, <2>2, <2>3
<1>5. t.image = c.bytes /\ Stored(told.image, t.sent) = c.bytes
  <2>1. Len(t.sent) # 7 + FrameBytes
    BY <1>4, SizesAre
  <2> QED
    BY <1>3, <1>4, <2>1, StoredIs DEF IsStored
<1>6. PICK says, ack : says = 90 /\ ack = TRUE
  OBVIOUS
<1>in. Read # Write /\ Read # GetId /\ Write # GetId
  BY DEF Read, Write, GetId
<1>7. CASE tx = Read
  <2>1. d = Answer(c, "ReadId1", says, ack).card
    BY <1>1, <1>6, <1>7, StartIs
  <2>2. HasBecome(c, "ReadId1", says, d)
    BY <1>2, <2>1, AnswerHas
  <2>3. d.phase = "ReadId1" /\ d.spdr = 90 /\ d.bytes = c.bytes /\ d.new = c.new
    BY <1>6, <2>2 DEF HasBecome, Same
  <2>4. n + 1 = 2 /\ n \in 1..10 + FrameBytes
    BY <1>3, SizesAre
  <2>5. SentIn(d) = n + 1 /\ d.phase \in InRead
    BY <2>3, <2>4 DEF SentIn, InRead
  <2>6. d.spdr = ReplyAt(d, t.sent, n + 1)
    BY <2>3, <2>4, ReplyIs
  <2>7. Named(d, t)
    BY <1>4 DEF Named
  <2>8. Replying(c, d, t, n)
    BY <2>3, <2>5, <2>6, <2>7 DEF Replying
  <2>9. c.phase # "Idle" /\ t.sent[2] = Read
    BY <1>4, <1>7
  <2> QED
    BY <1>1, <1>3, <2>4, <2>8, <2>9, ReadGoesOn
<1>8. CASE tx = Write
  <2>1. d = Answer(c, "WriteId1", says, ack).card
    BY <1>1, <1>in, <1>6, <1>8, StartIs
  <2>2. HasBecome(c, "WriteId1", says, d)
    BY <1>2, <2>1, AnswerHas
  <2>3. d.phase = "WriteId1" /\ d.bytes = c.bytes
    BY <2>2 DEF HasBecome, Same
  <2>4. SentIn(d) = n + 1 /\ d.phase \in InWrite
    BY <1>3, <2>3 DEF SentIn, InWrite
  <2>5. Named(d, t)
    BY <1>4 DEF Named
  <2>6. Storing(d, t, n)
    BY <2>3, <2>4, <2>5 DEF Storing
  <2>7. c.phase # "Idle" /\ t.sent[2] = Write /\ n > 0 /\ Stored(told.image, t.sent) = d.bytes
    BY <1>3, <1>4, <1>5, <1>8, <2>3
  <2> QED
    BY <1>1, <2>6, <2>7, WriteGoesOn
<1>9. CASE tx = GetId
  <2>1. d = Answer(c, "IdId1", says, ack).card
    BY <1>1, <1>in, <1>6, <1>9, StartIs
  <2>2. HasBecome(c, "IdId1", says, d)
    BY <1>2, <2>1, AnswerHas
  <2>3. d.phase = "IdId1" /\ d.bytes = c.bytes
    BY <2>2 DEF HasBecome, Same
  <2>4. Traced(d, t)
    BY <1>4, <1>5, <1>9, <2>3 DEF Traced, InId, InRead, InWrite
  <2> QED
    BY <1>1, <2>4
<1>10. CASE tx \notin {Read, Write, GetId}
  <2>1. PICK rest, quiet : rest = 255 /\ quiet = FALSE
    OBVIOUS
  <2>2. d = EndOf(c, rest, quiet).card /\ rest \in Byte /\ quiet \in BOOLEAN
    BY <1>1, <1>10, <2>1, StartIs, BytesAre
  <2>3. HasEnded(c, rest, d)
    BY <1>2, <2>2, EndHas
  <2>4. d.phase = "Idle" /\ d.bytes = c.bytes
    BY <2>3 DEF HasEnded
  <2>5. Traced(d, t)
    BY <1>4, <1>5, <2>4 DEF Traced, InId, InRead, InWrite
  <2> QED
    BY <1>1, <2>5
<1> QED
  BY <1>7, <1>8, <1>9, <1>10

\* A conversation starts with the card's address; other bytes are forgotten.
LEMMA StartTraced ==
  ASSUME NEW c \in GoodCard, c.phase = "Idle", NEW told \in ToldType, Traced(c, told), NEW tx \in Byte,
         NEW d, d = ExchangeCard(c, tx).card
  PROVE  /\ tx = Address => d.phase = "GotAddr" /\ Traced(d, [told EXCEPT !.sent = <<tx>>, !.heard = <<c.spdr>>])
         /\ tx # Address => d.phase = "Idle" /\ Traced(d, Forget(told))
<1>1. c \in CardType /\ told.image = c.bytes
  BY DEF GoodCard, Traced
<1>2. CASE tx = Address
  <2>1. PICK says, ack, one, heard : /\ says = (IF c.new THEN 8 ELSE 0) /\ ack = TRUE
                                     /\ one = <<tx>> /\ heard = <<c.spdr>>
    OBVIOUS
  <2>2. PICK t : t = [told EXCEPT !.sent = one, !.heard = heard]
    OBVIOUS
  <2>3. /\ one \in Seq(Byte) /\ heard \in Seq(Byte) /\ Len(one) = 1 /\ Len(heard) = 1 /\ one[1] = tx
    BY <1>1, <2>1 DEF CardType
  <2>4. t.sent = one /\ t.heard = heard /\ t.image = told.image
    BY <2>2 DEF ToldType
  <2>5. d = Answer(c, "GotAddr", says, ack).card
    BY <1>2, <2>1, StartIs
  <2>6. HasBecome(c, "GotAddr", says, d)
    BY <1>1, <2>5, AnswerHas
  <2>7. d.phase = "GotAddr" /\ d.spdr = says /\ d.bytes = c.bytes /\ d.new = c.new
    BY <2>6 DEF HasBecome, Same
  <2>8. HearsReply(d, t)
    <3>1. d.spdr = ReplyAt(d, t.sent, 1)
      BY <2>1, <2>7, ReplyIs
    <3>2. Len(t.sent) = 1 /\ 2..1 = {}
      BY <2>3, <2>4
    <3> QED
      BY <3>1, <3>2 DEF HearsReply
  <2>9. Traced(d, t)
    <3>1. d.phase \notin InRead \cup InWrite \cup InId
      BY <2>7 DEF InId, InRead, InWrite
    <3>2. Len(t.heard) = 1 /\ Len(t.sent) = 1 /\ t.sent[1] = Address /\ t.image = d.bytes
      BY <1>1, <1>2, <2>3, <2>4, <2>7
    <3> QED
      BY <2>7, <2>8, <3>1, <3>2 DEF Traced
  <2> QED
    BY <1>2, <2>1, <2>2, <2>7, <2>9
<1>3. CASE tx # Address
  <2>1. PICK says, ack, none : says = 255 /\ ack = FALSE /\ none = <<>>
    OBVIOUS
  <2>2. PICK t : t = Forget(told)
    OBVIOUS
  <2>3. t.sent = none /\ t.heard = none /\ t.image = told.image /\ Len(none) = 0
    BY <2>1, <2>2 DEF Forget, ToldType
  <2>4. d = Answer(c, "Idle", says, ack).card
    BY <1>3, <2>1, StartIs
  <2>5. HasBecome(c, "Idle", says, d)
    BY <1>1, <2>4, AnswerHas
  <2>6. d.phase = "Idle" /\ d.bytes = c.bytes
    BY <2>5 DEF HasBecome, Same
  <2>7. Traced(d, t)
    <3>1. d.phase \notin InRead \cup InWrite \cup InId /\ d.phase # "GotAddr"
      BY <2>6 DEF InId, InRead, InWrite
    <3>2. Len(t.heard) = Len(t.sent) /\ t.image = d.bytes /\ ~(Len(t.sent) > 5)
      BY <1>1, <2>3, <2>6
    <3> QED
      BY <2>6, <3>1, <3>2 DEF Traced
  <2> QED
    BY <1>3, <2>2, <2>6, <2>7
<1> QED
  BY <1>2, <1>3

\* A byte keeps the trace of a card.
LEMMA TraceGrows ==
  ASSUME NEW c \in GoodCard, c.phase # "Idle", NEW told \in ToldType, Traced(c, told),
         NEW tx \in Byte, NEW t, Longer(told, c, tx, t)
  PROVE  Traced(ExchangeCard(c, tx).card, t)
<1>1. c.phase \in Phase
  BY DEF GoodCard, CardType
<1>2. c.phase \in InRead \cup InWrite \cup InId \cup {"GotAddr"}
  BY <1>1, PhasesAre DEF Scripted, Reading, Writing, Ending, InRead, InWrite, InId
<1> QED
  BY <1>2, ReadTraced, WriteTraced, IdTraced, CommandTraced

-----------------------------------------------------------------------------
(* The ports: a byte to the one selected. *)

\* What may be behind a port: the card's trace tells where it is.
GoodPort(port, told) == port.card # None => port.card \in GoodCard /\ Traced(port.card, told)

\* A byte to a port and what it has answered.
PortKeeps(port, told, tx, r) ==
  /\ r.port \in PortType /\ r.rx \in Byte /\ r.ack \in BOOLEAN
  /\ Told(told, port, r.port, tx, r.rx) \in ToldType
  /\ GoodPort(r.port, Told(told, port, r.port, tx, r.rx))

\* A pad stays in its ranges.
LEMMA PadIs ==
  ASSUME NEW p \in PadType, NEW tx \in Byte, NEW r, r = ExchangePad(p, tx)
  PROVE  r.pad \in PadType /\ r.rx \in Byte /\ r.ack \in BOOLEAN
<1>1. PICK step, last : step = p.step /\ last = p.last
  OBVIOUS
<1>2. /\ step \in 0..PollLast /\ last \in {1, PollLast} /\ PollLast \in Nat /\ PollLast > 1
      /\ p = [step |-> step, last |-> last]
  BY <1>1, PollAssumption DEF PadType
<1>3. 65 \in Byte /\ 90 \in Byte /\ 255 \in Byte
  BY DEF Byte
<1>4. CASE step = 0
  <2>1. PICK until : until = IF tx = Poll THEN PollLast ELSE 1
    OBVIOUS
  <2>2. r = [pad |-> [step |-> 1, last |-> until], rx |-> 65, ack |-> TRUE]
    BY <1>1, <1>4, <2>1 DEF ExchangePad
  <2>3. 1 \in 0..PollLast /\ until \in {1, PollLast}
    BY <1>2, <2>1
  <2> QED
    BY <1>3, <2>2, <2>3 DEF PadType
<1>5. CASE step = 1
  <2>1. r = [pad |-> [p EXCEPT !.step = 2], rx |-> 90, ack |-> TRUE]
    BY <1>1, <1>5 DEF ExchangePad
  <2>2. r.pad = [step |-> 2, last |-> last] /\ 2 \in 0..PollLast
    BY <1>2, <2>1
  <2>3. r.pad \in PadType
    BY <1>2, <2>2 DEF PadType
  <2>4. r.rx = 90 /\ r.ack = TRUE
    BY <2>1
  <2> QED
    BY <1>3, <2>3, <2>4
<1>6. CASE step > 1
  <2>1. /\ p.step \in Int /\ p.step > 1 /\ p.step # 0 /\ p.step # 1
        /\ p.last \in Int /\ p.last <= PollLast
    BY <1>1, <1>2, <1>6
  <2>2. /\ r.rx = 255 /\ r.ack = (p.step < p.last)
        /\ r.pad = IF p.step < p.last THEN [p EXCEPT !.step = p.step + 1] ELSE IdlePad
    BY <2>1 DEF ExchangePad
  <2>3. IdlePad \in PadType
    BY <1>2 DEF IdlePad, PadType
  <2>4. p.step < p.last => [p EXCEPT !.step = p.step + 1] \in PadType
    <3>1. p.step < p.last => p.step + 1 \in 0..PollLast
      BY <1>2, <2>1
    <3> QED
      BY <3>1 DEF PadType
  <2>5. r.ack \in BOOLEAN
    BY <2>2
  <2> QED
    BY <1>3, <2>2, <2>3, <2>4, <2>5
<1> QED
  BY <1>2, <1>4, <1>5, <1>6

\* None is no device.
LEMMA NothingSelected == None \notin {"pad", "card"} /\ None \notin CardType /\ None \notin PadType /\ None \notin Int
BY NoneAssumption

\* A byte that no card hears.
LEMMA UntoldIs ==
  ASSUME NEW port \in PortType, NEW told \in ToldType, GoodPort(port, told), NEW tx, NEW rx,
         NEW new \in PortType, new.card = port.card, new.selected # "card" \/ port.card = None
  PROVE  Told(told, port, new, tx, rx) = told /\ GoodPort(new, told)
BY DEF Told, GoodPort

\* A byte that the card hears.
LEMMA CardHears ==
  ASSUME NEW port \in PortType, port.card # None, NEW told \in ToldType, GoodPort(port, told), NEW tx \in Byte,
         NEW r, r = CardAnswers(port, tx)
  PROVE  PortKeeps(port, told, tx, r)
<1>1. PICK c, x, d : c = port.card /\ x = ExchangeCard(c, tx) /\ d = x.card
  OBVIOUS
<1>2. c \in GoodCard /\ Traced(c, told) /\ c # None
  BY <1>1 DEF GoodPort
<1>3. Keeps(c, x)
  BY <1>1, <1>2, CardKeeps
<1>4. d \in GoodCard /\ x.rx = c.spdr /\ x.ack \in BOOLEAN /\ c \in CardType /\ d \in CardType
  BY <1>1, <1>2, <1>3 DEF Keeps, GoodCard
<1>5. d # None
  BY <1>4, NothingSelected
<1>6. r = [port |-> [port EXCEPT !.card = d, !.selected = "card"], rx |-> x.rx, ack |-> x.ack]
  BY <1>1 DEF CardAnswers
<1>7. /\ r.port \in PortType /\ r.port.card = d /\ r.port.selected = "card"
      /\ r.rx = c.spdr /\ r.ack \in BOOLEAN
  <2>1. PICK e : e = [port EXCEPT !.card = d, !.selected = "card"]
    OBVIOUS
  <2>2. e \in PortType /\ e.card = d /\ e.selected = "card"
    BY <1>4, <2>1 DEF PortType
  <2>3. r.port = e /\ r.rx = x.rx /\ r.ack = x.ack
    BY <1>6, <2>1
  <2> QED
    BY <1>4, <2>2, <2>3
<1>8. r.rx \in Byte
  BY <1>4, <1>7 DEF CardType
<1>9. PICK t : t = Told(told, port, r.port, tx, r.rx)
  OBVIOUS
<1>10. t.image = d.bytes /\ t.sent \in Seq(Byte) /\ t.heard \in Seq(Byte) /\ t \in ToldType /\ Traced(d, t)
  <2>1. told.sent \in Seq(Byte) /\ told.heard \in Seq(Byte) /\ d.bytes \in [0..Frames - 1 -> Frame]
    BY <1>4 DEF ToldType, CardType
  <2>2. t = IF c.phase = "Idle"
            THEN IF d.phase = "Idle" THEN Forget(told)
                 ELSE [told EXCEPT !.sent = <<tx>>, !.heard = <<c.spdr>>]
            ELSE [sent |-> Append(told.sent, tx), heard |-> Append(told.heard, c.spdr),
                  image |-> Stored(told.image, Append(told.sent, tx))]
    BY <1>1, <1>2, <1>5, <1>7, <1>9 DEF Told
  <2>3. CASE c.phase = "Idle"
    <3>1. /\ tx = Address => d.phase = "GotAddr" /\ Traced(d, [told EXCEPT !.sent = <<tx>>, !.heard = <<c.spdr>>])
          /\ tx # Address => d.phase = "Idle" /\ Traced(d, Forget(told))
      BY <1>1, <1>2, <2>3, StartTraced
    <3>2. Traced(d, t)
      BY <2>2, <2>3, <3>1
    <3>3. PICK none, one, heard : none = <<>> /\ one = <<tx>> /\ heard = <<c.spdr>>
      OBVIOUS
    <3>4. none \in Seq(Byte) /\ one \in Seq(Byte) /\ heard \in Seq(Byte)
      BY <1>7, <1>8, <3>3
    <3>5. t = [told EXCEPT !.sent = none, !.heard = none] \/ t = [told EXCEPT !.sent = one, !.heard = heard]
      BY <2>2, <2>3, <3>3 DEF Forget
    <3>6. t \in ToldType
      BY <3>4, <3>5 DEF ToldType
    <3>7. t.image = d.bytes
      BY <3>2 DEF Traced
    <3> QED
      BY <3>2, <3>6, <3>7 DEF ToldType
  <2>4. CASE c.phase # "Idle"
    <3>1. PICK sent, heard : sent = Append(told.sent, tx) /\ heard = Append(told.heard, c.spdr)
      OBVIOUS
    <3>2. sent \in Seq(Byte) /\ heard \in Seq(Byte)
      BY <1>7, <1>8, <2>1, <3>1
    <3>3. t = [sent |-> sent, heard |-> heard, image |-> Stored(told.image, sent)]
      BY <2>2, <2>4, <3>1
    <3>4. Longer(told, c, tx, t)
      BY <3>1, <3>3 DEF Longer
    <3>5. Traced(d, t)
      BY <1>1, <1>2, <2>4, <3>4, TraceGrows
    <3>6. t.image = d.bytes
      BY <3>5 DEF Traced
    <3>7. t \in ToldType
      BY <2>1, <3>2, <3>3, <3>6 DEF ToldType
    <3> QED
      BY <3>2, <3>3, <3>5, <3>6, <3>7
  <2> QED
    BY <2>3, <2>4
<1> QED
  BY <1>4, <1>7, <1>8, <1>9, <1>10 DEF PortKeeps, GoodPort

\* The address selects.
LEMMA PadSelected ==
  ASSUME NEW port, NEW tx, port.selected # "pad", port.selected # "card", tx # Address,
         port.selected = None, tx = PadAddress, port.pad # None
  PROVE  ExchangeAt(port, tx) =
           [port |-> [port EXCEPT !.pad = IdlePad, !.selected = "pad"], rx |-> 255, ack |-> TRUE]
BY DEF ExchangeAt

\* The address selects the card.
LEMMA CardSelected ==
  ASSUME NEW port, NEW tx, port.selected # "pad", port.selected # "card", tx # PadAddress,
         port.selected = None, tx = Address, port.card # None
  PROVE  ExchangeAt(port, tx) = CardAnswers(port, tx)
BY DEF ExchangeAt

\* A byte to a port.
LEMMA PortAnswers ==
  ASSUME NEW port \in PortType, NEW told \in ToldType, GoodPort(port, told), NEW tx \in Byte
  PROVE  PortKeeps(port, told, tx, ExchangeAt(port, tx))
<1>1. PICK r : r = ExchangeAt(port, tx)
  OBVIOUS
<1>2. 255 \in Byte
  BY BytesAre
<1>3. CASE port.selected = "pad" /\ port.pad # None
  <2>1. PICK x : x = ExchangePad(port.pad, tx)
    OBVIOUS
  <2>2. x.pad \in PadType /\ x.rx \in Byte /\ x.ack \in BOOLEAN
    BY <1>3, <2>1, PadIs DEF PortType
  <2>3. r = [port |-> [port EXCEPT !.pad = x.pad], rx |-> x.rx, ack |-> x.ack]
    <3>1. port.selected # None /\ port.selected # "card"
      BY <1>3, NothingSelected
    <3>2. r = PadAnswers(port, tx)
      BY <1>1, <1>3, <3>1 DEF ExchangeAt
    <3> QED
      BY <2>1, <3>2 DEF PadAnswers
  <2>4. r.port \in PortType /\ r.port.card = port.card /\ r.port.selected = "pad"
    BY <1>3, <2>2, <2>3 DEF PortType
  <2>5. r.rx \in Byte /\ r.ack \in BOOLEAN
    BY <2>2, <2>3
  <2>6. Told(told, port, r.port, tx, r.rx) = told /\ GoodPort(r.port, told)
    BY <2>4, UntoldIs
  <2> QED
    BY <1>1, <2>4, <2>5, <2>6 DEF PortKeeps
<1>4. CASE port.selected = "card" /\ port.card # None
  <2>1. r = CardAnswers(port, tx)
    <3>1. port.selected # None /\ port.selected # "pad"
      BY <1>4, NothingSelected
    <3> QED
      BY <1>1, <1>4, <3>1 DEF ExchangeAt
  <2> QED
    BY <1>1, <1>4, <2>1, CardHears
<1>5. CASE port.selected = None /\ tx = PadAddress /\ port.pad # None
  <2>1. r = [port |-> [port EXCEPT !.pad = IdlePad, !.selected = "pad"], rx |-> 255, ack |-> TRUE]
    <3>1. tx # Address /\ port.selected # "pad" /\ port.selected # "card"
      BY <1>5, NothingSelected DEF Address, PadAddress
    <3> QED
      BY <1>1, <1>5, <3>1, PadSelected
  <2>2. IdlePad \in PadType
    BY PollAssumption DEF IdlePad, PadType
  <2>3. r.port \in PortType /\ r.port.card = port.card /\ r.port.selected = "pad"
    BY <2>1, <2>2 DEF PortType
  <2>4. Told(told, port, r.port, tx, r.rx) = told /\ GoodPort(r.port, told)
    BY <2>3, UntoldIs
  <2> QED
    BY <1>1, <1>2, <2>1, <2>3, <2>4 DEF PortKeeps
<1>6. CASE port.selected = None /\ tx = Address /\ port.card # None
  <2>1. r = CardAnswers(port, tx)
    <3>1. tx # PadAddress /\ port.selected # "pad" /\ port.selected # "card"
      BY <1>6, NothingSelected DEF Address, PadAddress
    <3> QED
      BY <1>1, <1>6, <3>1, CardSelected
  <2> QED
    BY <1>1, <1>6, <2>1, CardHears
<1>7. CASE ~(\/ port.selected = "pad" /\ port.pad # None
             \/ port.selected = "card" /\ port.card # None
             \/ port.selected = None /\ tx = PadAddress /\ port.pad # None
             \/ port.selected = None /\ tx = Address /\ port.card # None)
  <2>1. r = NoAnswer(port)
    BY <1>1, <1>7 DEF ExchangeAt
  <2>2. r.port = port /\ r.rx = 255 /\ r.ack = FALSE
    BY <2>1 DEF NoAnswer
  <2>3. port.selected # "card" \/ port.card = None
    BY <1>7
  <2>4. Told(told, port, r.port, tx, r.rx) = told /\ GoodPort(r.port, told)
    BY <2>2, <2>3, UntoldIs
  <2> QED
    BY <1>1, <1>2, <2>2, <2>4 DEF PortKeeps
<1> QED
  BY <1>3, <1>4, <1>5, <1>6, <1>7

\* /JOYN is released: the devices forget, the card keeps what it holds.
LEMMA DeselectIs ==
  ASSUME NEW port \in PortType, NEW told \in ToldType, GoodPort(port, told), NEW new, new = Deselect(port)
  PROVE  /\ new \in PortType /\ new.selected = None /\ Forget(told) \in ToldType
         /\ new.card # None => new.card.phase = "Idle"
         /\ GoodPort(new, Forget(told))
<1>1. PICK t, none : t = Forget(told) /\ none = <<>>
  OBVIOUS
<1>2. none \in Seq(Byte) /\ Len(none) = 0 /\ t = [told EXCEPT !.sent = none, !.heard = none]
  BY <1>1 DEF Forget
<1>3. t \in ToldType /\ t.sent = none /\ t.heard = none /\ t.image = told.image
  BY <1>2 DEF ToldType
<1>4. IdlePad \in PadType
  BY PollAssumption DEF IdlePad, PadType
<1>5. CASE port.card = None
  <2>1. new = [pad |-> IF port.pad = None THEN None ELSE IdlePad, card |-> None, selected |-> None]
    BY <1>5 DEF Deselect
  <2> QED
    BY <1>1, <1>3, <1>4, <2>1 DEF PortType, GoodPort
<1>6. CASE port.card # None
  <2>1. PICK c, d : c = port.card /\ d = ResetCard(c)
    OBVIOUS
  <2>2. c \in CardType /\ Traced(c, told)
    BY <1>6, <2>1 DEF GoodPort, GoodCard
  <2>3. d \in GoodCard /\ d.phase = "Idle" /\ d.bytes = c.bytes
    BY <2>1, <2>2, ResetCardIs
  <2>4. new = [pad |-> IF port.pad = None THEN None ELSE IdlePad, card |-> d, selected |-> None]
    BY <1>6, <2>1 DEF Deselect
  <2>5. new \in PortType /\ new.card = d /\ new.selected = None
    BY <1>4, <2>3, <2>4 DEF PortType, GoodCard
  <2>6. Traced(d, t)
    <3>1. d.phase \notin InRead \cup InWrite \cup InId /\ d.phase # "GotAddr"
      BY <2>3 DEF InId, InRead, InWrite
    <3>2. Len(t.heard) = Len(t.sent) /\ t.image = d.bytes /\ ~(Len(t.sent) > 5)
      BY <1>2, <1>3, <2>2, <2>3 DEF Traced
    <3> QED
      BY <2>3, <3>1, <3>2 DEF Traced
  <2> QED
    BY <1>1, <1>3, <2>3, <2>5, <2>6 DEF GoodPort
<1> QED
  BY <1>5, <1>6

-----------------------------------------------------------------------------
(* The shifter: what a turn of tick makes of SIO0's registers. *)

Bits  == {"joyn", "slot2", "ackIrq", "force"}
Times == Int \cup {None}

\* The registers, however late the deadlines are.
AnySio ==
  [ctrl : SUBSET Bits, rx : BOOLEAN, latched : BOOLEAN,
   ackInput : BOOLEAN, rxValid : BOOLEAN, queued : MaybeByte,
   pendingAck : BOOLEAN, transfer : Times, ack : Times, ackEnd : Times]

\* At most one deadline is pending.
Lone(x) ==
  /\ x.transfer # None => x.ack = None /\ x.ackEnd = None
  /\ x.ack # None => x.ackEnd = None

\* The deadlines are within the clocks a boundary may be late.
InTime(x) == x.transfer \in Deadline /\ x.ack \in Deadline /\ x.ackEnd \in Deadline

\* No /ACK is to come or to end.
Quiet(x) == x.ack = None /\ x.ackEnd = None /\ ~x.ackInput /\ ~x.pendingAck

\* The byte is in.
Landed(x) ==
  [x EXCEPT !.transfer = None, !.rx = x.rx \/ x.rxValid,
            !.ack = IF x.pendingAck THEN x.transfer + AckDelay ELSE x.ack]

\* The device answers.
Fired(x) ==
  [x EXCEPT !.ack = None, !.pendingAck = FALSE,
            !.ackInput = IF x.pendingAck THEN TRUE ELSE x.ackInput,
            !.ackEnd = IF x.pendingAck THEN x.ack + AckPulse ELSE x.ackEnd,
            !.latched = x.latched \/ (x.pendingAck /\ "ackIrq" \in x.ctrl)]

\* Its answer is over.
Over(x) == [x EXCEPT !.ackEnd = None, !.ackInput = FALSE]

\* A byte starts, that its device acknowledges or not.
Begun(x, acked, from) ==
  [x EXCEPT !.rxValid = "joyn" \in x.ctrl \/ "force" \in x.ctrl, !.pendingAck = acked,
            !.ctrl = x.ctrl \ {"force"}, !.ack = None, !.transfer = from + ByteTicks]

\* What a step of the shifter may make of the registers.
Follows(x, y) ==
  /\ y \in AnySio /\ Lone(y)
  /\ "joyn" \in y.ctrl <=> "joyn" \in x.ctrl
  /\ "slot2" \in y.ctrl <=> "slot2" \in x.ctrl
  /\ InTime(x) => InTime(y)

\* The delays, as numbers.
LEMMA TicksAre ==
  /\ ByteTicks \in Nat /\ ByteTicks > 0 /\ AckDelay \in Nat /\ AckDelay > 0
  /\ AckPulse \in Nat /\ AckPulse > 0 /\ MaxLate \in Nat /\ MaxUpsets \in Nat
BY TicksAssumption

\* A deadline that is due is within the range once its delay is added.
LEMMA DueIs ==
  ASSUME NEW at \in Times, Due(at), NEW delay \in {ByteTicks, AckDelay, AckPulse}
  PROVE  /\ at \in Int /\ at <= 0 /\ at # None /\ at + delay \in Times /\ at + delay # None
         /\ at \in Deadline => at + delay \in Deadline
<1>1. at \in Int /\ at <= 0 /\ at # None
  BY DEF Due, Times
<1>2. at + delay \in Int
  BY <1>1, TicksAre
<1>3. at \in Deadline => at + delay \in Deadline
  <2>1. delay \in 0..ByteTicks + AckDelay + AckPulse
    BY TicksAre
  <2>2. at \in Deadline => at \in -MaxLate..ByteTicks + AckDelay + AckPulse
    BY <1>1 DEF Deadline, Clocks
  <2>3. at \in Deadline => at + delay \in -MaxLate..ByteTicks + AckDelay + AckPulse
    BY <1>1, <2>1, <2>2, TicksAre
  <2> QED
    BY <2>3 DEF Deadline, Clocks
<1> QED
  BY <1>1, <1>2, <1>3, NothingSelected DEF Times

\* A byte that lands leaves one deadline at most, in time.
LEMMA LandedFollows ==
  ASSUME NEW x \in AnySio, Lone(x), Due(x.transfer)
  PROVE  Follows(x, Landed(x))
<1>1. PICK y, ack, rx : /\ y = Landed(x) /\ ack = (IF x.pendingAck THEN x.transfer + AckDelay ELSE x.ack)
                        /\ rx = (x.rx \/ x.rxValid)
  OBVIOUS
<1>2. /\ x.transfer # None /\ ack \in Times /\ rx \in BOOLEAN
      /\ InTime(x) => ack \in Deadline
  BY <1>1, DueIs DEF AnySio, InTime
<1>3. y = [x EXCEPT !.transfer = None, !.rx = rx, !.ack = ack]
  BY <1>1 DEF Landed
<1>4. /\ y \in AnySio /\ y.transfer = None /\ y.ack = ack /\ y.ackEnd = x.ackEnd /\ y.ctrl = x.ctrl
  BY <1>2, <1>3 DEF AnySio, Times
<1>5. Lone(y)
  BY <1>2, <1>4 DEF Lone
<1>6. InTime(x) => InTime(y)
  BY <1>2, <1>4 DEF InTime, Deadline
<1> QED
  BY <1>1, <1>4, <1>5, <1>6 DEF Follows

\* So does an /ACK that comes.
LEMMA FiredFollows ==
  ASSUME NEW x \in AnySio, Lone(x), Due(x.ack)
  PROVE  Follows(x, Fired(x))
<1>1. PICK y, in, end, latched :
         /\ y = Fired(x) /\ in = (IF x.pendingAck THEN TRUE ELSE x.ackInput)
         /\ end = (IF x.pendingAck THEN x.ack + AckPulse ELSE x.ackEnd)
         /\ latched = (x.latched \/ (x.pendingAck /\ "ackIrq" \in x.ctrl))
  OBVIOUS
<1>2. /\ x.ack # None /\ end \in Times /\ in \in BOOLEAN /\ latched \in BOOLEAN
      /\ InTime(x) => end \in Deadline
  BY <1>1, DueIs DEF AnySio, InTime
<1>3. y = [x EXCEPT !.ack = None, !.pendingAck = FALSE, !.ackInput = in, !.ackEnd = end, !.latched = latched]
  BY <1>1 DEF Fired
<1>4. /\ y \in AnySio /\ y.transfer = x.transfer /\ y.ack = None /\ y.ackEnd = end /\ y.ctrl = x.ctrl
  BY <1>2, <1>3 DEF AnySio, Times
<1>5. x.transfer = None
  BY <1>2 DEF Lone
<1>6. Lone(y)
  BY <1>4, <1>5 DEF Lone
<1>7. InTime(x) => InTime(y)
  BY <1>2, <1>4 DEF InTime, Deadline
<1> QED
  BY <1>1, <1>4, <1>6, <1>7 DEF Follows

\* So does an /ACK that ends.
LEMMA OverFollows ==
  ASSUME NEW x \in AnySio, Lone(x)
  PROVE  Follows(x, Over(x))
<1>1. PICK y : y = Over(x)
  OBVIOUS
<1>2. /\ y \in AnySio /\ y.transfer = x.transfer /\ y.ack = x.ack /\ y.ackEnd = None /\ y.ctrl = x.ctrl
  BY <1>1 DEF AnySio, Times, Over
<1>3. Lone(y)
  BY <1>2 DEF Lone
<1>4. InTime(x) => InTime(y)
  BY <1>2 DEF InTime, Deadline
<1> QED
  BY <1>1, <1>2, <1>3, <1>4 DEF Follows

\* So does a byte that starts.
LEMMA BegunFollows ==
  ASSUME NEW x \in AnySio, x.ackEnd = None, NEW acked \in BOOLEAN, NEW from \in Int
  PROVE  /\ Begun(x, acked, from) \in AnySio /\ Lone(Begun(x, acked, from))
         /\ "joyn" \in Begun(x, acked, from).ctrl <=> "joyn" \in x.ctrl
         /\ "slot2" \in Begun(x, acked, from).ctrl <=> "slot2" \in x.ctrl
         /\ from + ByteTicks \in Deadline => InTime(Begun(x, acked, from))
<1>1. PICK y, valid, at, ctrl :
         /\ y = Begun(x, acked, from) /\ valid = ("joyn" \in x.ctrl \/ "force" \in x.ctrl)
         /\ at = from + ByteTicks /\ ctrl = x.ctrl \ {"force"}
  OBVIOUS
<1>2. at \in Times /\ valid \in BOOLEAN /\ ctrl \in SUBSET Bits
  BY <1>1, TicksAre DEF Times, AnySio
<1>3. y = [x EXCEPT !.rxValid = valid, !.pendingAck = acked, !.ctrl = ctrl, !.ack = None, !.transfer = at]
  BY <1>1 DEF Begun
<1>4. /\ y \in AnySio /\ y.transfer = at /\ y.ack = None /\ y.ackEnd = None /\ y.ctrl = ctrl
  BY <1>2, <1>3 DEF AnySio, Times
<1>5. Lone(y)
  BY <1>4 DEF Lone
<1>6. at \in Deadline => InTime(y)
  BY <1>4 DEF InTime, Deadline
<1>7. ("joyn" \in y.ctrl <=> "joyn" \in x.ctrl) /\ ("slot2" \in y.ctrl <=> "slot2" \in x.ctrl)
  BY <1>1, <1>4
<1> QED
  BY <1>1, <1>4, <1>5, <1>6, <1>7

-----------------------------------------------------------------------------
(* SIO0 and its devices: a turn keeps them good. *)

State(x, ends, past) == [sio |-> x, ports |-> ends, hist |-> past]

\* /JOYN released, the devices wait for an address.
Released(x, ends) ==
  "joyn" \notin x.ctrl =>
    /\ Quiet(x)
    /\ \A p \in Ports :
         /\ ends[p].selected = None
         /\ ends[p].card # None => ends[p].card.phase = "Idle"

Devices(ends, past) ==
  /\ ends \in [Ports -> PortType] /\ past \in HistType
  /\ \A p \in Ports : GoodPort(ends[p], past.told[p])

Linked(x, ends, past) == x \in AnySio /\ Lone(x) /\ Devices(ends, past) /\ Released(x, ends)

Sound(s) == s = State(s.sio, s.ports, s.hist) /\ Linked(s.sio, s.ports, s.hist)

\* What a device answers.
Asks(x, ends, tx) ==
  IF "joyn" \in x.ctrl THEN ExchangeAt(ends[ActivePort(x.ctrl)], tx)
  ELSE NoAnswer(ends[ActivePort(x.ctrl)])
Exchanged(x, ends, tx) == [ends EXCEPT ![ActivePort(x.ctrl)] = Asks(x, ends, tx).port]
Noted(x, ends, past, tx) ==
  [past EXCEPT !.told[ActivePort(x.ctrl)] =
     Told(past.told[ActivePort(x.ctrl)], ends[ActivePort(x.ctrl)], Asks(x, ends, tx).port, tx,
          Asks(x, ends, tx).rx)]

\* start_transfer_at, by its parts.
LEMMA StartTransferIs ==
  ASSUME NEW x, NEW ends, NEW past, NEW tx, NEW from
  PROVE  StartTransfer(State(x, ends, past), tx, from) =
           State(Begun(x, Asks(x, ends, tx).ack, from), Exchanged(x, ends, tx), Noted(x, ends, past, tx))
BY DEF StartTransfer, State, Begun, Asks, Exchanged, Noted

\* The devices after a byte.
Answered(x, ends, past, new, heard, acked) ==
  /\ Devices(new, heard) /\ acked \in BOOLEAN /\ heard.upsets = past.upsets
  /\ "joyn" \notin x.ctrl => new = ends /\ acked = FALSE

\* The devices stay good, and do nothing while /JOYN is released.
LEMMA DevicesAnswer ==
  ASSUME NEW x \in AnySio, NEW ends, NEW past, Devices(ends, past), Released(x, ends), NEW tx \in Byte
  PROVE  Answered(x, ends, past, Exchanged(x, ends, tx), Noted(x, ends, past, tx), Asks(x, ends, tx).ack)
<1>1. PICK p, r : p = ActivePort(x.ctrl) /\ r = Asks(x, ends, tx)
  OBVIOUS
<1>2. p \in Ports
  BY <1>1, PortsAssumption DEF ActivePort
<1>3. PICK port, told : port = ends[p] /\ told = past.told[p]
  OBVIOUS
<1>4. /\ ends \in [Ports -> PortType] /\ port \in PortType /\ told \in ToldType /\ GoodPort(port, told)
      /\ past \in [told : [Ports -> ToldType], upsets : 0..MaxUpsets]
      /\ \A q \in Ports : GoodPort(ends[q], past.told[q])
  BY <1>2, <1>3 DEF Devices, HistType, ToldType
<1>5. PortKeeps(port, told, tx, r)
  <2>1. CASE "joyn" \in x.ctrl
    <3>1. r = ExchangeAt(port, tx)
      BY <1>1, <1>3, <2>1 DEF Asks
    <3> QED
      BY <1>4, <3>1, PortAnswers
  <2>2. CASE "joyn" \notin x.ctrl
    <3>1. r = NoAnswer(port)
      BY <1>1, <1>3, <2>2 DEF Asks
    <3>2. r.port = port /\ r.rx = 255 /\ r.ack = FALSE
      BY <3>1 DEF NoAnswer
    <3>3. port.selected # "card"
      BY <1>2, <1>3, <2>2, NothingSelected DEF Released
    <3>4. Told(told, port, r.port, tx, r.rx) = told /\ GoodPort(r.port, told)
      BY <1>4, <3>2, <3>3, UntoldIs
    <3> QED
      BY <1>4, <3>2, <3>4, BytesAre DEF PortKeeps
  <2> QED
    BY <2>1, <2>2
<1>6. PICK t : t = Told(told, port, r.port, tx, r.rx)
  OBVIOUS
<1>7. r.port \in PortType /\ r.ack \in BOOLEAN /\ t \in ToldType /\ GoodPort(r.port, t)
  BY <1>5, <1>6 DEF PortKeeps
<1>8. PICK new, heard : new = Exchanged(x, ends, tx) /\ heard = Noted(x, ends, past, tx)
  OBVIOUS
<1>9. new = [ends EXCEPT ![p] = r.port]
  BY <1>1, <1>8 DEF Exchanged
<1>10. heard = [past EXCEPT !.told = [past.told EXCEPT ![p] = t]]
  BY <1>1, <1>3, <1>6, <1>8 DEF Noted
<1>11. new \in [Ports -> PortType] /\ \A q \in Ports : new[q] = IF q = p THEN r.port ELSE ends[q]
  BY <1>2, <1>4, <1>7, <1>9
<1>12. PICK talk : talk = [past.told EXCEPT ![p] = t]
  OBVIOUS
<1>13. talk \in [Ports -> ToldType] /\ \A q \in Ports : talk[q] = IF q = p THEN t ELSE past.told[q]
  BY <1>2, <1>4, <1>7, <1>12
<1>14. heard \in HistType /\ heard.told = talk /\ heard.upsets = past.upsets
  BY <1>4, <1>10, <1>12, <1>13 DEF HistType, ToldType
<1>15. Devices(new, heard)
  BY <1>4, <1>7, <1>11, <1>13, <1>14 DEF Devices
<1>16. "joyn" \notin x.ctrl => new = ends /\ r.ack = FALSE
  <2>1. "joyn" \notin x.ctrl => r.port = port /\ r.ack = FALSE
    BY <1>1, <1>3 DEF Asks, NoAnswer
  <2> QED
    BY <1>2, <1>3, <1>4, <1>9, <2>1
<1> QED
  BY <1>1, <1>7, <1>8, <1>14, <1>15, <1>16 DEF Answered

\* A byte that starts keeps all good.
LEMMA StartMoves ==
  ASSUME NEW x \in AnySio, x.ackEnd = None, "joyn" \notin x.ctrl => ~x.ackInput, NEW ends, NEW past,
         Devices(ends, past), Released(x, ends), NEW tx \in Byte, NEW from \in Int
  PROVE  /\ Begun(x, Asks(x, ends, tx).ack, from) \in AnySio
         /\ Lone(Begun(x, Asks(x, ends, tx).ack, from))
         /\ Devices(Exchanged(x, ends, tx), Noted(x, ends, past, tx))
         /\ Released(Begun(x, Asks(x, ends, tx).ack, from), Exchanged(x, ends, tx))
         /\ "joyn" \in Begun(x, Asks(x, ends, tx).ack, from).ctrl <=> "joyn" \in x.ctrl
         /\ "slot2" \in Begun(x, Asks(x, ends, tx).ack, from).ctrl <=> "slot2" \in x.ctrl
         /\ from + ByteTicks \in Deadline => InTime(Begun(x, Asks(x, ends, tx).ack, from))
         /\ Noted(x, ends, past, tx).upsets = past.upsets
<1>1. PICK acked, new, heard : acked = Asks(x, ends, tx).ack /\ new = Exchanged(x, ends, tx)
                              /\ heard = Noted(x, ends, past, tx)
  OBVIOUS
<1>2. Answered(x, ends, past, new, heard, acked)
  BY <1>1, DevicesAnswer
<1>3. /\ Devices(new, heard) /\ acked \in BOOLEAN /\ heard.upsets = past.upsets
      /\ "joyn" \notin x.ctrl => new = ends /\ acked = FALSE
  BY <1>2 DEF Answered
<1>4. PICK y : y = Begun(x, acked, from)
  OBVIOUS
<1>5. /\ y \in AnySio /\ Lone(y)
      /\ "joyn" \in y.ctrl <=> "joyn" \in x.ctrl
      /\ "slot2" \in y.ctrl <=> "slot2" \in x.ctrl
      /\ from + ByteTicks \in Deadline => InTime(y)
  BY <1>3, <1>4, BegunFollows
<1>6. y.ack = None /\ y.ackEnd = None /\ y.ackInput = x.ackInput /\ y.pendingAck = acked
  BY <1>4 DEF Begun, AnySio
<1>7. ASSUME "joyn" \notin y.ctrl
      PROVE  /\ Quiet(y)
             /\ \A p \in Ports : /\ new[p].selected = None
                                 /\ new[p].card # None => new[p].card.phase = "Idle"
  <2>1. "joyn" \notin x.ctrl /\ new = ends /\ acked = FALSE /\ ~x.ackInput
    BY <1>3, <1>5, <1>7
  <2>2. Quiet(y)
    BY <1>6, <2>1 DEF Quiet
  <2> QED
    BY <2>1, <2>2 DEF Released
<1>8. Released(y, new)
  BY <1>7 DEF Released
<1> QED
  BY <1>1, <1>3, <1>4, <1>5, <1>8
-----------------------------------------------------------------------------
(* A turn of tick. *)

\* The port selected stays the same.
SamePort(x, y) ==
  /\ "joyn" \in y.ctrl <=> "joyn" \in x.ctrl
  /\ "slot2" \in y.ctrl <=> "slot2" \in x.ctrl

\* What a turn may do to it all.
Moves(s, t) ==
  /\ Sound(t) /\ SamePort(s.sio, t.sio) /\ t.hist.upsets = s.hist.upsets
  /\ InTime(s.sio) => InTime(t.sio)

\* The next byte is taken from the queue.
Taken(x) == [Landed(x) EXCEPT !.queued = None]

\* A state is sound if its parts are.
LEMMA GoodIs ==
  ASSUME NEW x, NEW ends, NEW past
  PROVE  /\ Sound(State(x, ends, past)) <=> Linked(x, ends, past)
         /\ State(x, ends, past).sio = x /\ State(x, ends, past).hist = past
         /\ State(x, ends, past).ports = ends
BY DEF Sound, State

\* A byte that starts keeps all good.
LEMMA StartKeeps ==
  ASSUME NEW x \in AnySio, x.ackEnd = None, "joyn" \notin x.ctrl => ~x.ackInput, NEW ends, NEW past,
         Devices(ends, past), Released(x, ends), NEW tx \in Byte, NEW from \in Int,
         NEW t, t = StartTransfer(State(x, ends, past), tx, from)
  PROVE  /\ Sound(t) /\ SamePort(x, t.sio) /\ t.hist.upsets = past.upsets
         /\ from + ByteTicks \in Deadline => InTime(t.sio)
<1>1. PICK y, new, heard : y = Begun(x, Asks(x, ends, tx).ack, from) /\ new = Exchanged(x, ends, tx)
                              /\ heard = Noted(x, ends, past, tx)
  OBVIOUS
<1>2. t = State(y, new, heard)
  BY <1>1, StartTransferIs
<1>3. /\ y \in AnySio /\ Lone(y) /\ Devices(new, heard) /\ Released(y, new)
      /\ "joyn" \in y.ctrl <=> "joyn" \in x.ctrl
      /\ "slot2" \in y.ctrl <=> "slot2" \in x.ctrl
      /\ from + ByteTicks \in Deadline => InTime(y)
      /\ heard.upsets = past.upsets
  BY <1>1, StartMoves
<1>4. Linked(y, new, heard) /\ SamePort(x, y)
  BY <1>3 DEF Linked, SamePort
<1> QED
  BY <1>2, <1>3, <1>4, GoodIs

\* A turn, by what is due.
LEMMA TurnIs ==
  ASSUME NEW x, NEW ends, NEW past
  PROVE  Turn(State(x, ends, past)) =
           IF Due(x.transfer)
           THEN IF x.queued = None THEN State(Landed(x), ends, past)
                ELSE StartTransfer(State(Taken(x), ends, past), x.queued, x.transfer)
           ELSE IF Due(x.ack) THEN State(Fired(x), ends, past)
           ELSE IF Due(x.ackEnd) THEN State(Over(x), ends, past)
           ELSE State(x, ends, past)
<1>1. ByteEnds(State(x, ends, past)) =
        IF x.queued = None THEN State(Landed(x), ends, past)
        ELSE StartTransfer(State(Taken(x), ends, past), x.queued, x.transfer)
  <2>1. PICK s, in, y, rx, ack :
          /\ s = State(x, ends, past) /\ rx = (x.rx \/ x.rxValid)
          /\ ack = (IF x.pendingAck THEN x.transfer + AckDelay ELSE x.ack)
          /\ y = [x EXCEPT !.transfer = None, !.rx = rx, !.ack = ack]
          /\ in = [s EXCEPT !.sio.transfer = None, !.sio.rx = rx, !.sio.ack = ack]
    OBVIOUS
  <2>2. y = Landed(x)
    BY <2>1 DEF Landed
  <2>3. in = State(y, ends, past)
    BY <2>1 DEF State
  <2>4. s.sio = x
    BY <2>1 DEF State
  <2>5. ByteEnds(s) = IF x.queued = None THEN in ELSE StartQueued(in, x.transfer)
    BY <2>1, <2>4 DEF ByteEnds
  <2>6. [in EXCEPT !.sio.queued = None] = State([y EXCEPT !.queued = None], ends, past)
    BY <2>3 DEF State
  <2>7. y.queued = x.queued
    BY <2>1
  <2>8. in.sio.queued = x.queued
    BY <2>3, <2>7 DEF State
  <2>9. StartQueued(in, x.transfer) = StartTransfer(State(Taken(x), ends, past), x.queued, x.transfer)
    BY <2>2, <2>6, <2>8 DEF StartQueued, Taken
  <2> QED
    BY <2>1, <2>2, <2>3, <2>5, <2>9
<1>2. AckFires(State(x, ends, past)) = State(Fired(x), ends, past)
  <2> PICK in, end, latched :
         /\ in = (IF x.pendingAck THEN TRUE ELSE x.ackInput)
         /\ end = (IF x.pendingAck THEN x.ack + AckPulse ELSE x.ackEnd)
         /\ latched = (x.latched \/ (x.pendingAck /\ "ackIrq" \in x.ctrl))
    OBVIOUS
  <2>1. PICK s, y :
         /\ s = State(x, ends, past)
         /\ y = [x EXCEPT !.ack = None, !.pendingAck = FALSE, !.ackInput = in, !.ackEnd = end, !.latched = latched]
    OBVIOUS
  <2>2. y = Fired(x)
    BY <2>1 DEF Fired
  <2>3. s.sio = x
    BY <2>1 DEF State
  <2>4. AckFires(s) = [s EXCEPT !.sio.ack = None, !.sio.pendingAck = FALSE, !.sio.ackInput = in, !.sio.ackEnd = end,
                                !.sio.latched = latched]
    BY <2>1, <2>3 DEF AckFires
  <2>5. AckFires(s) = State(y, ends, past)
    BY <2>1, <2>4 DEF State
  <2> QED
    BY <2>1, <2>2, <2>5
<1>3. [State(x, ends, past) EXCEPT !.sio.ackEnd = None, !.sio.ackInput = FALSE] = State(Over(x), ends, past)
  <2>1. ASSUME NEW off, NEW s, s = State(x, ends, past), NEW y, y = [x EXCEPT !.ackEnd = None, !.ackInput = off],
               NEW t, t = [s EXCEPT !.sio.ackEnd = None, !.sio.ackInput = off]
        PROVE  t = State(y, ends, past)
    BY <2>1 DEF State
  <2> QED
    BY <2>1 DEF Over
<1>4. State(x, ends, past).sio = x
  BY DEF State
<1> QED
  BY <1>1, <1>2, <1>3, <1>4 DEF Turn

\* A turn keeps all good.
LEMMA TurnKeeps ==
  ASSUME NEW s, Sound(s)
  PROVE  Moves(s, Turn(s))
<1>1. PICK x, ends, past, t : x = s.sio /\ ends = s.ports /\ past = s.hist /\ t = Turn(s)
  OBVIOUS
<1>2. s = State(x, ends, past) /\ x \in AnySio /\ Lone(x) /\ Devices(ends, past) /\ Released(x, ends)
  BY <1>1 DEF Sound, Linked
<1>3. SUFFICES Sound(t) /\ SamePort(x, t.sio) /\ t.hist.upsets = past.upsets /\ (InTime(x) => InTime(t.sio))
  BY <1>1 DEF Moves
<1>4. CASE Due(x.transfer) /\ x.queued = None
  <2>1. PICK y : y = Landed(x)
    OBVIOUS
  <2>2. t = State(y, ends, past)
    BY <1>1, <1>2, <1>4, <2>1, TurnIs
  <2>3. Follows(x, y)
    BY <1>2, <1>4, <2>1, LandedFollows
  <2>4. Quiet(x) => Quiet(y)
    BY <1>2, <2>1 DEF Quiet, Landed, AnySio
  <2>5. Released(y, ends)
    BY <1>2, <2>3, <2>4 DEF Released, Follows
  <2>6. Linked(y, ends, past) /\ SamePort(x, y) /\ (InTime(x) => InTime(y))
    BY <1>2, <2>3, <2>5 DEF Linked, Follows, SamePort
  <2> QED
    BY <1>3, <2>2, <2>6, GoodIs
<1>5. CASE Due(x.transfer) /\ x.queued # None
  <2>1. PICK y, z : y = Landed(x) /\ z = Taken(x)
    OBVIOUS
  <2>2. t = StartTransfer(State(z, ends, past), x.queued, x.transfer)
    BY <1>1, <1>2, <1>5, <2>1, TurnIs
  <2>3. Follows(x, y)
    BY <1>2, <1>5, <2>1, LandedFollows
  <2>4. z = [y EXCEPT !.queued = None] /\ y \in AnySio
    BY <2>1, <2>3 DEF Taken, Follows
  <2>5. z \in AnySio /\ z.ctrl = y.ctrl /\ z.ack = y.ack /\ z.ackEnd = y.ackEnd /\ z.ackInput = y.ackInput
        /\ z.pendingAck = y.pendingAck
    BY <2>4 DEF AnySio, MaybeByte
  <2>6. (Quiet(x) => Quiet(y)) /\ y.ackEnd = x.ackEnd /\ x.ackEnd = None /\ x.transfer \in Int
    BY <1>2, <1>5, <2>1, DueIs DEF Quiet, Landed, AnySio, Lone
  <2>7. Released(z, ends) /\ ("joyn" \notin z.ctrl => ~z.ackInput)
    BY <1>2, <2>3, <2>5, <2>6 DEF Released, Follows, Quiet
  <2>8. x.queued \in Byte
    BY <1>2, <1>5 DEF AnySio, MaybeByte
  <2>9. /\ Sound(t) /\ SamePort(z, t.sio) /\ t.hist.upsets = past.upsets
        /\ x.transfer + ByteTicks \in Deadline => InTime(t.sio)
    BY <1>2, <2>2, <2>5, <2>6, <2>7, <2>8, StartKeeps
  <2>10. InTime(x) => x.transfer + ByteTicks \in Deadline
    BY <1>2, <1>5, DueIs DEF InTime, AnySio
  <2>11. SamePort(x, t.sio)
    BY <2>3, <2>5, <2>9 DEF SamePort, Follows
  <2> QED
    BY <1>3, <2>9, <2>10, <2>11
<1>6. CASE ~Due(x.transfer) /\ Due(x.ack)
  <2>1. PICK y : y = Fired(x)
    OBVIOUS
  <2>2. t = State(y, ends, past)
    BY <1>1, <1>2, <1>6, <2>1, TurnIs
  <2>3. Follows(x, y)
    BY <1>2, <1>6, <2>1, FiredFollows
  <2>4. ~Quiet(x)
    BY <1>6 DEF Quiet, Due
  <2>5. Released(y, ends)
    BY <1>2, <2>3, <2>4 DEF Released, Follows
  <2>6. Linked(y, ends, past) /\ SamePort(x, y) /\ (InTime(x) => InTime(y))
    BY <1>2, <2>3, <2>5 DEF Linked, Follows, SamePort
  <2> QED
    BY <1>3, <2>2, <2>6, GoodIs
<1>7. CASE ~Due(x.transfer) /\ ~Due(x.ack) /\ Due(x.ackEnd)
  <2>1. PICK y : y = Over(x)
    OBVIOUS
  <2>2. t = State(y, ends, past)
    BY <1>1, <1>2, <1>7, <2>1, TurnIs
  <2>3. Follows(x, y)
    BY <1>2, <2>1, OverFollows
  <2>4. ~Quiet(x)
    BY <1>7 DEF Quiet, Due
  <2>5. Released(y, ends)
    BY <1>2, <2>3, <2>4 DEF Released, Follows
  <2>6. Linked(y, ends, past) /\ SamePort(x, y) /\ (InTime(x) => InTime(y))
    BY <1>2, <2>3, <2>5 DEF Linked, Follows, SamePort
  <2> QED
    BY <1>3, <2>2, <2>6, GoodIs
<1>8. CASE ~Due(x.transfer) /\ ~Due(x.ack) /\ ~Due(x.ackEnd)
  <2>1. t = s
    BY <1>1, <1>2, <1>8, TurnIs
  <2> QED
    BY <1>1, <1>2, <2>1 DEF SamePort
<1> QED
  BY <1>4, <1>5, <1>6, <1>7, <1>8
-----------------------------------------------------------------------------
(* tick: its turns, until nothing is due. *)

\* The value an operand is bound to.
LEMMA TurnOf ==
  ASSUME NEW v
  PROVE  (CHOOSE y \in {Turn(z) : z \in {v}} : TRUE) = Turn(v)
<1>1. {Turn(z) : z \in {v}} = {Turn(v)}
  OBVIOUS
<1> QED
  BY <1>1

\* tick takes four turns.
LEMMA TickedIs ==
  ASSUME NEW s
  PROVE  Ticked(s) = Turn(Turn(Turn(Turn(s))))
<1> DEFINE Run(f) == f = [k \in 0..4 |-> IF k = 0 THEN s ELSE CHOOSE y \in {Turn(z) : z \in {f[k - 1]}} : TRUE]
<1>1. PICK after : after = CHOOSE f : Run(f)
  OBVIOUS
<1>2. Ticked(s) = after[4]
  BY <1>1 DEF Ticked, Iterate
<1>3. Run(after)
  <2>1. PICK one, two, three, four : one = Turn(s) /\ two = Turn(one) /\ three = Turn(two) /\ four = Turn(three)
    OBVIOUS
  <2>2. PICK g : g = [k \in 0..4 |-> IF k = 0 THEN s ELSE IF k = 1 THEN one ELSE IF k = 2 THEN two
                                     ELSE IF k = 3 THEN three ELSE four]
    OBVIOUS
  <2>3. g[0] = s /\ g[1] = one /\ g[2] = two /\ g[3] = three /\ g[4] = four
    BY <2>2
  <2>4. ASSUME NEW k \in 0..4, k # 0
        PROVE  g[k] = Turn(g[k - 1])
    BY <2>1, <2>3, <2>4
  <2>5. ASSUME NEW k \in 0..4
        PROVE  g[k] = IF k = 0 THEN s ELSE CHOOSE y \in {Turn(z) : z \in {g[k - 1]}} : TRUE
    BY <2>3, <2>4, TurnOf
  <2>6. g = [k \in 0..4 |-> g[k]]
    BY <2>2
  <2>7. Run(g)
    BY <2>5, <2>6
  <2> HIDE DEF Run
  <2> QED
    BY <1>1, <2>7
<1>4. ASSUME NEW k \in 0..4
      PROVE  after[k] = IF k = 0 THEN s ELSE Turn(after[k - 1])
  <2>1. after[k] = IF k = 0 THEN s ELSE CHOOSE y \in {Turn(z) : z \in {after[k - 1]}} : TRUE
    BY <1>3
  <2> QED
    BY <2>1, TurnOf
<1>5. after[0] = s /\ after[1] = Turn(after[0]) /\ after[2] = Turn(after[1]) /\ after[3] = Turn(after[2])
      /\ after[4] = Turn(after[3])
  BY <1>4
<1> QED
  BY <1>2, <1>5

\* Steps that move it all in their way, one after the other.
LEMMA MovesTwice ==
  ASSUME NEW s, NEW t, NEW u, Moves(s, t), Moves(t, u)
  PROVE  Moves(s, u)
BY DEF Moves, SamePort

\* tick keeps all good.
LEMMA TickedKeeps ==
  ASSUME NEW s, Sound(s)
  PROVE  Moves(s, Ticked(s))
<1>1. PICK a, b, c, d : a = Turn(s) /\ b = Turn(a) /\ c = Turn(b) /\ d = Turn(c)
  OBVIOUS
<1>2. Moves(s, a) /\ Sound(a)
  BY <1>1, TurnKeeps DEF Moves
<1>3. Moves(a, b) /\ Sound(b)
  BY <1>1, <1>2, TurnKeeps DEF Moves
<1>4. Moves(b, c) /\ Sound(c)
  BY <1>1, <1>3, TurnKeeps DEF Moves
<1>5. Moves(c, d)
  BY <1>1, <1>4, TurnKeeps
<1>6. Moves(s, d)
  BY <1>2, <1>3, <1>4, <1>5, MovesTwice
<1> QED
  BY <1>1, <1>6, TickedIs
-----------------------------------------------------------------------------
(* After its turns nothing is due. *)

Rest(x) == ~Due(x.transfer) /\ ~Due(x.ack) /\ ~Due(x.ackEnd)

\* The registers a turn starts from and those it leaves, closer to rest.
Settles(x, y) ==
  /\ Due(x.transfer) => y.queued = None /\ (x.queued = None => ~Due(y.transfer))
  /\ ~Due(x.transfer) => ~Due(y.transfer) /\ ~Due(y.ack) /\ (~Due(x.ack) => ~Due(y.ackEnd))

\* No deadline is due that is not there.
LEMMA NotDue == ~Due(None)
BY DEF Due

\* A turn comes closer to rest, and changes nothing at rest.
LEMMA TurnSettles ==
  ASSUME NEW s, Sound(s)
  PROVE  Settles(s.sio, Turn(s).sio) /\ (Rest(s.sio) => Turn(s) = s)
<1>1. PICK x, ends, past, t, y : x = s.sio /\ ends = s.ports /\ past = s.hist /\ t = Turn(s) /\ y = t.sio
  OBVIOUS
<1>2. s = State(x, ends, past) /\ x \in AnySio /\ Lone(x)
  BY <1>1 DEF Sound, Linked
<1>3. CASE Due(x.transfer) /\ x.queued = None
  <2>1. t = State(Landed(x), ends, past)
    BY <1>1, <1>2, <1>3, TurnIs
  <2>2. y = Landed(x)
    BY <1>1, <2>1, GoodIs
  <2>3. y.transfer = None /\ y.queued = x.queued
    BY <1>2, <2>2 DEF Landed, AnySio
  <2> QED
    BY <1>1, <1>3, <2>3, NotDue DEF Settles, Rest
<1>4. CASE Due(x.transfer) /\ x.queued # None
  <2>1. PICK z : z = Taken(x)
    OBVIOUS
  <2>2. t = StartTransfer(State(z, ends, past), x.queued, x.transfer)
    BY <1>1, <1>2, <1>4, <2>1, TurnIs
  <2>3. y = Begun(z, Asks(z, ends, x.queued).ack, x.transfer)
    BY <1>1, <2>2, StartTransferIs, GoodIs
  <2>4. z.queued = None
    <3>1. Landed(x) = [Landed(x) EXCEPT !.transfer = None] /\ "queued" \in DOMAIN Landed(x)
      BY <1>2 DEF Landed, AnySio
    <3> QED
      BY <2>1, <3>1 DEF Taken
  <2>5. y.queued = None
    BY <2>3, <2>4 DEF Begun
  <2> QED
    BY <1>1, <1>4, <2>5 DEF Settles, Rest
<1>5. CASE ~Due(x.transfer) /\ Due(x.ack)
  <2>1. t = State(Fired(x), ends, past)
    BY <1>1, <1>2, <1>5, TurnIs
  <2>2. y = Fired(x)
    BY <1>1, <2>1, GoodIs
  <2>3. y.transfer = x.transfer /\ y.ack = None
    BY <1>2, <2>2 DEF Fired, AnySio
  <2> QED
    BY <1>1, <1>5, <2>3, NotDue DEF Settles, Rest
<1>6. CASE ~Due(x.transfer) /\ ~Due(x.ack) /\ Due(x.ackEnd)
  <2>1. t = State(Over(x), ends, past)
    BY <1>1, <1>2, <1>6, TurnIs
  <2>2. y = Over(x)
    BY <1>1, <2>1, GoodIs
  <2>3. y.transfer = x.transfer /\ y.ack = x.ack /\ y.ackEnd = None
    BY <1>2, <2>2 DEF Over, AnySio
  <2> QED
    BY <1>1, <1>6, <2>3, NotDue DEF Settles, Rest
<1>7. CASE ~Due(x.transfer) /\ ~Due(x.ack) /\ ~Due(x.ackEnd)
  <2>1. t = s
    BY <1>1, <1>2, <1>7, TurnIs
  <2> QED
    BY <1>1, <1>7, <2>1 DEF Settles, Rest
<1> QED
  BY <1>3, <1>4, <1>5, <1>6, <1>7

\* Four turns are enough, and a fifth would change nothing.
LEMMA TickedRests ==
  ASSUME NEW s, Sound(s)
  PROVE  Rest(Ticked(s).sio) /\ Turn(Ticked(s)) = Ticked(s)
<1>1. PICK a, b, c, d : a = Turn(s) /\ b = Turn(a) /\ c = Turn(b) /\ d = Turn(c)
  OBVIOUS
<1>2. Sound(a) /\ Sound(b) /\ Sound(c) /\ Sound(d)
  BY <1>1, TurnKeeps DEF Moves
<1>3. Settles(s.sio, a.sio) /\ Settles(a.sio, b.sio) /\ Settles(b.sio, c.sio) /\ Settles(c.sio, d.sio)
  BY <1>1, <1>2, TurnSettles
<1>4. Due(a.sio.transfer) => a.sio.queued = None
  BY <1>3 DEF Settles
<1>5. ~Due(b.sio.transfer)
  BY <1>3, <1>4 DEF Settles
<1>6. ~Due(c.sio.transfer) /\ ~Due(c.sio.ack)
  BY <1>3, <1>5 DEF Settles
<1>7. Rest(d.sio)
  BY <1>3, <1>6 DEF Settles, Rest
<1>8. Turn(d) = d
  BY <1>2, <1>7, TurnSettles
<1> QED
  BY <1>1, <1>7, <1>8, TickedIs

\* A turn before tick makes no difference to it.
LEMMA TurnTicked ==
  ASSUME NEW s, Sound(s)
  PROVE  Ticked(Turn(s)) = Ticked(s)
<1>1. PICK a, b, c, d : a = Turn(s) /\ b = Turn(a) /\ c = Turn(b) /\ d = Turn(c)
  OBVIOUS
<1>2. Ticked(s) = d /\ Ticked(a) = Turn(d)
  BY <1>1, TickedIs
<1> QED
  BY <1>1, <1>2, TickedRests
-----------------------------------------------------------------------------
(* Catching up late. *)

Sooner(deadline, n) == IF deadline = None THEN None ELSE deadline - n
Shift(x, n) ==
  [x EXCEPT !.transfer = Sooner(x.transfer, n), !.ack = Sooner(x.ack, n), !.ackEnd = Sooner(x.ackEnd, n)]

\* The system n clocks later, nothing caught up.
Shifted(s, n) == State(Shift(s.sio, n), s.ports, s.hist)

\* A deadline n clocks later.
LEMMA SoonerIs ==
  ASSUME NEW d \in Times, NEW n \in Nat
  PROVE  /\ Sooner(d, n) \in Times /\ (Sooner(d, n) = None <=> d = None)
         /\ Due(d) => Due(Sooner(d, n))
         /\ Sooner(d, 0) = d
         /\ \A k \in Int : d # None => d + k # None /\ Sooner(d + k, n) = Sooner(d, n) + k
         /\ \A k \in Nat : Sooner(Sooner(d, n), k) = Sooner(d, n + k)
<1>1. CASE d = None
  BY <1>1, NotDue DEF Sooner, Times
<1>2. CASE d # None
  <2>1. d \in Int /\ d - n \in Int /\ Sooner(d, n) = d - n /\ \A k \in Int : d + k \in Int
    BY <1>2 DEF Sooner, Times
  <2>2. \A m \in Int : m # None
    BY NothingSelected
  <2>3. /\ d - n # None /\ (Due(d) => Due(d - n))
        /\ \A k \in Int : d + k # None /\ Sooner(d + k, n) = (d + k) - n
        /\ \A k \in Nat : Sooner(d - n, k) = (d - n) - k /\ Sooner(d, n + k) = d - (n + k)
    BY <2>1, <2>2, <1>2 DEF Due, Sooner
  <2>4. Sooner(d, 0) = d - 0
    BY <1>2 DEF Sooner
  <2> QED
    BY <1>2, <2>1, <2>3, <2>4 DEF Times
<1> QED
  BY <1>1, <1>2

\* Registers that differ in their deadlines alone, all n clocks sooner.
SoonerBy(x, n, y) ==
  /\ y \in AnySio /\ (Lone(x) => Lone(y))
  /\ y.transfer = Sooner(x.transfer, n) /\ y.ack = Sooner(x.ack, n) /\ y.ackEnd = Sooner(x.ackEnd, n)
  /\ y.ctrl = x.ctrl /\ y.queued = x.queued /\ y.pendingAck = x.pendingAck /\ y.ackInput = x.ackInput
  /\ y.rx = x.rx /\ y.rxValid = x.rxValid /\ y.latched = x.latched

\* The registers n clocks later.
LEMMA ShiftIs ==
  ASSUME NEW x \in AnySio, NEW n \in Nat
  PROVE  SoonerBy(x, n, Shift(x, n))
<1>0. PICK y : y = Shift(x, n)
  OBVIOUS
<1>1. x.transfer \in Times /\ x.ack \in Times /\ x.ackEnd \in Times
  BY DEF AnySio
<1>2. PICK transfer, ack, ackEnd : transfer = Sooner(x.transfer, n) /\ ack = Sooner(x.ack, n) /\ ackEnd = Sooner(x.ackEnd, n)
  OBVIOUS
<1>3. transfer \in Times /\ ack \in Times /\ ackEnd \in Times
      /\ (transfer = None <=> x.transfer = None) /\ (ack = None <=> x.ack = None)
      /\ (ackEnd = None <=> x.ackEnd = None)
  BY <1>1, <1>2, SoonerIs
<1>4. y = [x EXCEPT !.transfer = transfer, !.ack = ack, !.ackEnd = ackEnd]
  BY <1>0, <1>2 DEF Shift
<1>5. y \in AnySio /\ y.transfer = transfer /\ y.ack = ack /\ y.ackEnd = ackEnd
      /\ y.ctrl = x.ctrl /\ y.queued = x.queued /\ y.pendingAck = x.pendingAck /\ y.ackInput = x.ackInput
      /\ y.rx = x.rx /\ y.rxValid = x.rxValid /\ y.latched = x.latched
  BY <1>3, <1>4 DEF AnySio
<1>6. Lone(x) => Lone(y)
  BY <1>3, <1>5 DEF Lone
<1> QED
  BY <1>0, <1>2, <1>5, <1>6 DEF SoonerBy

\* Registers with the same fields are the same.
LEMMA SioFields ==
  ASSUME NEW x \in AnySio, NEW y \in AnySio,
         x.ctrl = y.ctrl, x.rx = y.rx, x.latched = y.latched, x.ackInput = y.ackInput, x.rxValid = y.rxValid,
         x.queued = y.queued, x.pendingAck = y.pendingAck, x.transfer = y.transfer, x.ack = y.ack,
         x.ackEnd = y.ackEnd
  PROVE  x = y
BY DEF AnySio

\* Time that passes keeps all good but the deadlines' range.
LEMMA ShiftedIsGood ==
  ASSUME NEW s, Sound(s), NEW n \in Nat
  PROVE  Sound(Shifted(s, n))
<1>1. PICK x, ends, past, y : x = s.sio /\ ends = s.ports /\ past = s.hist /\ y = Shift(x, n)
  OBVIOUS
<1>2. x \in AnySio /\ Lone(x) /\ Devices(ends, past) /\ Released(x, ends)
  BY <1>1 DEF Sound, Linked
<1>3. y \in AnySio /\ Lone(y) /\ y.ctrl = x.ctrl /\ y.pendingAck = x.pendingAck /\ y.ackInput = x.ackInput
      /\ y.ack = Sooner(x.ack, n) /\ y.ackEnd = Sooner(x.ackEnd, n)
  BY <1>1, <1>2, ShiftIs DEF SoonerBy
<1>4. Quiet(x) => Quiet(y)
  BY <1>3 DEF Quiet, Sooner
<1>5. Linked(y, ends, past)
  BY <1>2, <1>3, <1>4 DEF Linked, Released
<1> QED
  BY <1>1, <1>5, GoodIs DEF Shifted

\* Clocks add up.
LEMMA ShiftTwice ==
  ASSUME NEW s, Sound(s), NEW n \in Nat, NEW k \in Nat
  PROVE  Shifted(Shifted(s, n), k) = Shifted(s, n + k) /\ Shifted(s, 0) = s
<1>1. PICK x, ends, past : x = s.sio /\ ends = s.ports /\ past = s.hist
  OBVIOUS
<1>2. s = State(x, ends, past) /\ x \in AnySio
  BY <1>1 DEF Sound, Linked
<1>4. PICK m \in Nat, zero \in Nat : m = n + k /\ zero = 0
  OBVIOUS
<1>3. PICK y, z, w, o : y = Shift(x, n) /\ z = Shift(y, k) /\ w = Shift(x, m) /\ o = Shift(x, zero)
  OBVIOUS
<1>5. SoonerBy(x, n, y) /\ SoonerBy(x, m, w) /\ SoonerBy(x, zero, o)
  BY <1>2, <1>3, ShiftIs
<1>6. y \in AnySio
  BY <1>5 DEF SoonerBy
<1>7. SoonerBy(y, k, z)
  BY <1>3, <1>6, ShiftIs
<1>9. x.transfer \in Times /\ x.ack \in Times /\ x.ackEnd \in Times
  BY <1>2 DEF AnySio
<1>10. z.transfer = w.transfer /\ z.ack = w.ack /\ z.ackEnd = w.ackEnd
  <2>1. ASSUME NEW d \in Times PROVE Sooner(Sooner(d, n), k) = Sooner(d, m)
    BY <1>4, SoonerIs
  <2> QED
    BY <1>5, <1>7, <1>9, <2>1 DEF SoonerBy
<1>11. o.transfer = x.transfer /\ o.ack = x.ack /\ o.ackEnd = x.ackEnd
  BY <1>4, <1>5, <1>9, SoonerIs DEF SoonerBy
<1>12. z = w
  BY <1>5, <1>7, <1>10, SioFields DEF SoonerBy
<1>13. o = x
  BY <1>2, <1>5, <1>11, SioFields DEF SoonerBy
<1>14. Shifted(s, n) = State(y, ends, past) /\ Shifted(s, m) = State(w, ends, past)
       /\ Shifted(s, zero) = State(o, ends, past)
  BY <1>1, <1>3 DEF Shifted
<1>15. Shifted(State(y, ends, past), k) = State(z, ends, past)
  BY <1>3, GoodIs DEF Shifted
<1> QED
  BY <1>2, <1>4, <1>12, <1>13, <1>14, <1>15

\* A byte that started n clocks sooner is over n clocks sooner.
LEMMA BegunSooner ==
  ASSUME NEW x \in AnySio, x.ackEnd = None, NEW acked \in BOOLEAN, NEW from \in Int, NEW n \in Nat
  PROVE  Begun(Shift(x, n), acked, from - n) = Shift(Begun(x, acked, from), n)
<1>1. PICK y, b, yb, bs : /\ y = Shift(x, n) /\ b = Begun(x, acked, from)
                          /\ yb = Begun(y, acked, from - n) /\ bs = Shift(b, n)
  OBVIOUS
<1>2. SoonerBy(x, n, y)
  BY <1>1, ShiftIs
<1>3. y \in AnySio /\ y.ackEnd = None
  BY <1>2 DEF SoonerBy, Sooner
<1>4. b \in AnySio /\ yb \in AnySio
  <2>1. PICK early \in Int : early = from - n
    OBVIOUS
  <2> QED
    BY <1>1, <1>3, <2>1, BegunFollows
<1>5. SoonerBy(b, n, bs)
  BY <1>1, <1>4, ShiftIs
<1>6. /\ b.ctrl = x.ctrl \ {"force"} /\ b.rx = x.rx /\ b.latched = x.latched /\ b.ackInput = x.ackInput
      /\ b.queued = x.queued /\ b.pendingAck = acked /\ b.transfer = from + ByteTicks /\ b.ack = None
      /\ b.ackEnd = None /\ b.rxValid = ("joyn" \in x.ctrl \/ "force" \in x.ctrl)
  BY <1>1 DEF Begun, AnySio
<1>7. /\ yb.ctrl = y.ctrl \ {"force"} /\ yb.rx = y.rx /\ yb.latched = y.latched /\ yb.ackInput = y.ackInput
      /\ yb.queued = y.queued /\ yb.pendingAck = acked /\ yb.transfer = (from - n) + ByteTicks /\ yb.ack = None
      /\ yb.ackEnd = None /\ yb.rxValid = ("joyn" \in y.ctrl \/ "force" \in y.ctrl)
  BY <1>1, <1>3 DEF Begun, AnySio
<1>8. bs.transfer = (from + ByteTicks) - n /\ bs.ack = None /\ bs.ackEnd = None
  <2>1. from + ByteTicks \in Int /\ from + ByteTicks # None
    BY TicksAre, NothingSelected
  <2> QED
    BY <1>5, <1>6, <2>1 DEF SoonerBy, Sooner
<1>9. yb.transfer = bs.transfer
  BY <1>7, <1>8, TicksAre
<1>10. bs.ctrl = yb.ctrl /\ bs.rxValid = yb.rxValid /\ bs.rx = yb.rx /\ bs.latched = yb.latched
       /\ bs.ackInput = yb.ackInput /\ bs.queued = yb.queued /\ bs.pendingAck = yb.pendingAck /\ bs \in AnySio
  BY <1>2, <1>5, <1>6, <1>7 DEF SoonerBy
<1>11. yb = bs
  BY <1>4, <1>7, <1>8, <1>9, <1>10, SioFields
<1> QED
  BY <1>1, <1>11

\* A byte lands, its /ACK comes and ends n clocks sooner.
LEMMA LandedSooner ==
  ASSUME NEW x \in AnySio, Lone(x), Due(x.transfer), NEW n \in Nat
  PROVE  Landed(Shift(x, n)) = Shift(Landed(x), n) /\ Taken(Shift(x, n)) = Shift(Taken(x), n)
<1>1. PICK y, b, yb, bs : y = Shift(x, n) /\ b = Landed(x) /\ yb = Landed(y) /\ bs = Shift(b, n)
  OBVIOUS
<1>2. SoonerBy(x, n, y)
  BY <1>1, ShiftIs
<1>3. y \in AnySio /\ Lone(y) /\ Due(y.transfer) /\ y.transfer = x.transfer - n /\ x.transfer \in Int
  BY <1>2, SoonerIs, DueIs DEF SoonerBy, AnySio, Sooner
<1>4. b \in AnySio /\ yb \in AnySio
  BY <1>1, <1>3, LandedFollows DEF Follows
<1>5. SoonerBy(b, n, bs)
  BY <1>1, <1>4, ShiftIs
<1>6. /\ b.ctrl = x.ctrl /\ b.latched = x.latched /\ b.ackInput = x.ackInput /\ b.rxValid = x.rxValid
      /\ b.queued = x.queued /\ b.pendingAck = x.pendingAck /\ b.transfer = None /\ b.ackEnd = x.ackEnd
      /\ b.rx = (x.rx \/ x.rxValid) /\ b.ack = IF x.pendingAck THEN x.transfer + AckDelay ELSE x.ack
  BY <1>1 DEF Landed, AnySio
<1>7. /\ yb.ctrl = y.ctrl /\ yb.latched = y.latched /\ yb.ackInput = y.ackInput /\ yb.rxValid = y.rxValid
      /\ yb.queued = y.queued /\ yb.pendingAck = y.pendingAck /\ yb.transfer = None /\ yb.ackEnd = y.ackEnd
      /\ yb.rx = (y.rx \/ y.rxValid) /\ yb.ack = IF y.pendingAck THEN y.transfer + AckDelay ELSE y.ack
  BY <1>1, <1>3 DEF Landed, AnySio
<1>8. bs.transfer = None /\ bs.ackEnd = y.ackEnd
  BY <1>2, <1>5, <1>6 DEF SoonerBy, Sooner
<1>9. Sooner(x.transfer + AckDelay, n) = (x.transfer - n) + AckDelay
  <2>1. x.transfer + AckDelay \in Int /\ x.transfer + AckDelay # None
    BY <1>3, TicksAre, NothingSelected
  <2> QED
    BY <1>3, <2>1, TicksAre DEF Sooner
<1>10. bs.ack = yb.ack
  <2>1. bs.ack = Sooner(b.ack, n) /\ y.ack = Sooner(x.ack, n) /\ y.pendingAck = x.pendingAck
    BY <1>2, <1>5 DEF SoonerBy
  <2>2. CASE x.pendingAck
    BY <1>3, <1>6, <1>7, <1>9, <2>1, <2>2
  <2>3. CASE ~x.pendingAck
    BY <1>6, <1>7, <2>1, <2>3
  <2> QED
    BY <2>2, <2>3
<1>11. bs.ctrl = yb.ctrl /\ bs.rxValid = yb.rxValid /\ bs.rx = yb.rx /\ bs.latched = yb.latched
       /\ bs.ackInput = yb.ackInput /\ bs.queued = yb.queued /\ bs.pendingAck = yb.pendingAck /\ bs \in AnySio
  BY <1>2, <1>5, <1>6, <1>7 DEF SoonerBy
<1>12. yb = bs
  BY <1>4, <1>7, <1>8, <1>10, <1>11, SioFields
<1>13. [bs EXCEPT !.queued = None] = Shift([b EXCEPT !.queued = None], n)
  <2>1. bs = [b EXCEPT !.transfer = bs.transfer, !.ack = bs.ack, !.ackEnd = bs.ackEnd]
        /\ bs.transfer = Sooner(b.transfer, n) /\ bs.ack = Sooner(b.ack, n) /\ bs.ackEnd = Sooner(b.ackEnd, n)
    BY <1>1, <1>5 DEF Shift, SoonerBy
  <2>2. PICK e : e = [b EXCEPT !.queued = None]
    OBVIOUS
  <2>3. e.transfer = b.transfer /\ e.ack = b.ack /\ e.ackEnd = b.ackEnd
    BY <1>4, <2>2 DEF AnySio
  <2>4. [bs EXCEPT !.queued = None] = [e EXCEPT !.transfer = bs.transfer, !.ack = bs.ack, !.ackEnd = bs.ackEnd]
    BY <1>4, <2>1, <2>2 DEF AnySio
  <2> QED
    BY <2>1, <2>2, <2>3, <2>4 DEF Shift
<1> QED
  BY <1>1, <1>12, <1>13 DEF Taken

\* So does its /ACK.
LEMMA FiredSooner ==
  ASSUME NEW x \in AnySio, Lone(x), Due(x.ack), NEW n \in Nat
  PROVE  Fired(Shift(x, n)) = Shift(Fired(x), n)
<1>1. PICK y, b, yb, bs : y = Shift(x, n) /\ b = Fired(x) /\ yb = Fired(y) /\ bs = Shift(b, n)
  OBVIOUS
<1>2. SoonerBy(x, n, y)
  BY <1>1, ShiftIs
<1>3. y \in AnySio /\ Lone(y) /\ Due(y.ack) /\ y.ack = x.ack - n /\ x.ack \in Int
  BY <1>2, SoonerIs, DueIs DEF SoonerBy, AnySio, Sooner
<1>4. b \in AnySio /\ yb \in AnySio
  BY <1>1, <1>3, FiredFollows DEF Follows
<1>5. SoonerBy(b, n, bs)
  BY <1>1, <1>4, ShiftIs
<1>6. /\ b.ctrl = x.ctrl /\ b.rx = x.rx /\ b.rxValid = x.rxValid
      /\ b.queued = x.queued /\ b.pendingAck = FALSE /\ b.transfer = x.transfer /\ b.ack = None
      /\ b.latched = (x.latched \/ (x.pendingAck /\ "ackIrq" \in x.ctrl))
      /\ b.ackInput = (IF x.pendingAck THEN TRUE ELSE x.ackInput)
      /\ b.ackEnd = IF x.pendingAck THEN x.ack + AckPulse ELSE x.ackEnd
  BY <1>1 DEF Fired, AnySio
<1>7. /\ yb.ctrl = y.ctrl /\ yb.rx = y.rx /\ yb.rxValid = y.rxValid
      /\ yb.queued = y.queued /\ yb.pendingAck = FALSE /\ yb.transfer = y.transfer /\ yb.ack = None
      /\ yb.latched = (y.latched \/ (y.pendingAck /\ "ackIrq" \in y.ctrl))
      /\ yb.ackInput = (IF y.pendingAck THEN TRUE ELSE y.ackInput)
      /\ yb.ackEnd = IF y.pendingAck THEN y.ack + AckPulse ELSE y.ackEnd
  BY <1>1, <1>3 DEF Fired, AnySio
<1>8. bs.transfer = y.transfer /\ bs.ack = None
  BY <1>2, <1>5, <1>6 DEF SoonerBy, Sooner
<1>9. Sooner(x.ack + AckPulse, n) = (x.ack - n) + AckPulse
  <2>1. x.ack + AckPulse \in Int /\ x.ack + AckPulse # None
    BY <1>3, TicksAre, NothingSelected
  <2> QED
    BY <1>3, <2>1, TicksAre DEF Sooner
<1>10. bs.ackEnd = yb.ackEnd
  <2>1. bs.ackEnd = Sooner(b.ackEnd, n) /\ y.ackEnd = Sooner(x.ackEnd, n) /\ y.pendingAck = x.pendingAck
    BY <1>2, <1>5 DEF SoonerBy
  <2>2. CASE x.pendingAck
    BY <1>3, <1>6, <1>7, <1>9, <2>1, <2>2
  <2>3. CASE ~x.pendingAck
    BY <1>6, <1>7, <2>1, <2>3
  <2> QED
    BY <2>2, <2>3
<1>11. bs.ctrl = yb.ctrl /\ bs.rxValid = yb.rxValid /\ bs.rx = yb.rx /\ bs.latched = yb.latched
       /\ bs.ackInput = yb.ackInput /\ bs.queued = yb.queued /\ bs.pendingAck = yb.pendingAck /\ bs \in AnySio
  BY <1>2, <1>5, <1>6, <1>7 DEF SoonerBy
<1>12. yb = bs
  BY <1>4, <1>7, <1>8, <1>10, <1>11, SioFields
<1> QED
  BY <1>1, <1>12

\* And the end of it.
LEMMA OverSooner ==
  ASSUME NEW x \in AnySio, Lone(x), NEW n \in Nat
  PROVE  Over(Shift(x, n)) = Shift(Over(x), n)
<1>1. PICK y, b, yb, bs : y = Shift(x, n) /\ b = Over(x) /\ yb = Over(y) /\ bs = Shift(b, n)
  OBVIOUS
<1>2. SoonerBy(x, n, y)
  BY <1>1, ShiftIs
<1>3. y \in AnySio /\ Lone(y)
  BY <1>2 DEF SoonerBy
<1>4. b \in AnySio /\ yb \in AnySio
  BY <1>1, <1>3, OverFollows DEF Follows
<1>5. SoonerBy(b, n, bs)
  BY <1>1, <1>4, ShiftIs
<1>6. /\ b.ctrl = x.ctrl /\ b.rx = x.rx /\ b.rxValid = x.rxValid /\ b.latched = x.latched
      /\ b.queued = x.queued /\ b.pendingAck = x.pendingAck /\ b.transfer = x.transfer /\ b.ack = x.ack
      /\ b.ackInput = FALSE /\ b.ackEnd = None
  BY <1>1 DEF Over, AnySio
<1>7. /\ yb.ctrl = y.ctrl /\ yb.rx = y.rx /\ yb.rxValid = y.rxValid /\ yb.latched = y.latched
      /\ yb.queued = y.queued /\ yb.pendingAck = y.pendingAck /\ yb.transfer = y.transfer /\ yb.ack = y.ack
      /\ yb.ackInput = FALSE /\ yb.ackEnd = None
  BY <1>1, <1>3 DEF Over, AnySio
<1>8. bs.transfer = y.transfer /\ bs.ack = y.ack /\ bs.ackEnd = None
  BY <1>2, <1>5, <1>6 DEF SoonerBy, Sooner
<1>9. bs.ctrl = yb.ctrl /\ bs.rxValid = yb.rxValid /\ bs.rx = yb.rx /\ bs.latched = yb.latched
       /\ bs.ackInput = yb.ackInput /\ bs.queued = yb.queued /\ bs.pendingAck = yb.pendingAck /\ bs \in AnySio
  BY <1>2, <1>5, <1>6, <1>7 DEF SoonerBy
<1>10. yb = bs
  BY <1>4, <1>7, <1>8, <1>9, SioFields
<1> QED
  BY <1>1, <1>10

\* A turn that has something to do does the same n clocks late.
LEMMA TurnShifted ==
  ASSUME NEW s, Sound(s), ~Rest(s.sio), NEW n \in Nat
  PROVE  Turn(Shifted(s, n)) = Shifted(Turn(s), n)
<1>1. PICK x, ends, past, y : x = s.sio /\ ends = s.ports /\ past = s.hist /\ y = Shift(x, n)
  OBVIOUS
<1>2. s = State(x, ends, past) /\ x \in AnySio /\ Lone(x) /\ Devices(ends, past) /\ Released(x, ends)
  BY <1>1 DEF Sound, Linked
<1>3. SoonerBy(x, n, y) /\ Shifted(s, n) = State(y, ends, past)
  BY <1>1, <1>2, ShiftIs DEF Shifted
<1>4. x.transfer \in Times /\ x.ack \in Times /\ x.ackEnd \in Times
  BY <1>2 DEF AnySio
<1>5. /\ Due(x.transfer) => Due(y.transfer)
      /\ Due(x.ack) => Due(y.ack) /\ ~Due(y.transfer)
      /\ Due(x.ackEnd) => Due(y.ackEnd) /\ ~Due(y.transfer) /\ ~Due(y.ack)
  <2>1. /\ Due(x.transfer) => Due(y.transfer)
        /\ Due(x.ack) => Due(y.ack)
        /\ Due(x.ackEnd) => Due(y.ackEnd)
    BY <1>3, <1>4, SoonerIs DEF SoonerBy
  <2>2. /\ Due(x.ack) => x.transfer = None
        /\ Due(x.ackEnd) => x.transfer = None /\ x.ack = None
    BY <1>2, NotDue DEF Lone
  <2>3. /\ x.transfer = None => y.transfer = None
        /\ x.ack = None => y.ack = None
    BY <1>3, <1>4, SoonerIs DEF SoonerBy
  <2> QED
    BY <2>1, <2>2, <2>3, NotDue
<1>6. \A b, new, heard : Shifted(State(b, new, heard), n) = State(Shift(b, n), new, heard)
  BY GoodIs DEF Shifted
<1>7. CASE Due(x.transfer) /\ x.queued = None
  <2>1. Turn(s) = State(Landed(x), ends, past)
    BY <1>2, <1>7, TurnIs
  <2>2. y.queued = None
    BY <1>3, <1>7 DEF SoonerBy
  <2>3. Turn(State(y, ends, past)) = State(Landed(y), ends, past)
    BY <1>5, <1>7, <2>2, TurnIs
  <2>4. Landed(y) = Shift(Landed(x), n)
    BY <1>1, <1>2, <1>7, LandedSooner
  <2> QED
    BY <1>3, <1>6, <2>1, <2>3, <2>4
<1>8. CASE Due(x.transfer) /\ x.queued # None
  <2>1. PICK z, tx, from : z = Taken(x) /\ tx = x.queued /\ from = x.transfer
    OBVIOUS
  <2>2. Turn(s) = StartTransfer(State(z, ends, past), tx, from)
    BY <1>2, <1>8, <2>1, TurnIs
  <2>3. y.queued = tx /\ y.transfer = from - n /\ from \in Int
    BY <1>2, <1>3, <1>8, <2>1, DueIs DEF SoonerBy, AnySio, Sooner
  <2>4. PICK zn, early : zn = Taken(y) /\ early = from - n
    OBVIOUS
  <2>5. Turn(State(y, ends, past)) = StartTransfer(State(zn, ends, past), tx, early)
    BY <1>5, <1>8, <2>1, <2>3, <2>4, TurnIs
  <2>6. zn = Shift(z, n)
    BY <1>1, <1>2, <1>8, <2>1, <2>4, LandedSooner
  <2>7. z \in AnySio /\ z.ackEnd = None /\ Released(z, ends)
    <3>1. PICK w : w = Landed(x)
      OBVIOUS
    <3>2. Follows(x, w)
      BY <1>2, <1>8, <3>1, LandedFollows
    <3>3. z = [w EXCEPT !.queued = None] /\ w \in AnySio
      BY <2>1, <3>1, <3>2 DEF Taken, Follows
    <3>4. z \in AnySio /\ z.ctrl = w.ctrl /\ z.ack = w.ack /\ z.ackEnd = w.ackEnd /\ z.ackInput = w.ackInput
          /\ z.pendingAck = w.pendingAck
      BY <3>3 DEF AnySio, MaybeByte
    <3>5. (Quiet(x) => Quiet(w)) /\ w.ackEnd = x.ackEnd /\ x.ackEnd = None
      BY <1>2, <1>8, <3>1, DueIs DEF Quiet, Landed, AnySio, Lone
    <3> QED
      BY <1>2, <3>2, <3>4, <3>5 DEF Released, Follows, Quiet
  <2>8. tx \in Byte
    BY <1>2, <1>8, <2>1 DEF AnySio, MaybeByte
  <2>9. PICK acked, new, heard :
          acked = Asks(z, ends, tx).ack /\ new = Exchanged(z, ends, tx) /\ heard = Noted(z, ends, past, tx)
    OBVIOUS
  <2>10. acked \in BOOLEAN
    <3>1. Answered(z, ends, past, new, heard, acked)
      BY <1>2, <2>7, <2>8, <2>9, DevicesAnswer
    <3> QED
      BY <3>1 DEF Answered
  <2>11. zn.ctrl = z.ctrl
    <3>1. SoonerBy(z, n, zn)
      BY <2>6, <2>7, ShiftIs
    <3> QED
      BY <3>1 DEF SoonerBy
  <2>12. Asks(zn, ends, tx) = Asks(z, ends, tx)
    BY <2>11 DEF Asks
  <2>13. acked = Asks(zn, ends, tx).ack /\ new = Exchanged(zn, ends, tx) /\ heard = Noted(zn, ends, past, tx)
    BY <2>9, <2>11, <2>12 DEF Exchanged, Noted
  <2>14. Turn(s) = State(Begun(z, acked, from), new, heard)
    BY <2>2, <2>9, StartTransferIs
  <2>15. Turn(State(y, ends, past)) = State(Begun(zn, acked, early), new, heard)
    BY <2>5, <2>13, StartTransferIs
  <2>16. Begun(zn, acked, early) = Shift(Begun(z, acked, from), n)
    BY <2>3, <2>4, <2>6, <2>7, <2>10, BegunSooner
  <2> QED
    BY <1>3, <1>6, <2>14, <2>15, <2>16
<1>9. CASE Due(x.ack)
  <2>1. Turn(State(y, ends, past)) = State(Fired(y), ends, past)
    BY <1>5, <1>9, TurnIs
  <2>2. ~Due(x.transfer)
    BY <1>2, <1>9, NotDue DEF Lone
  <2>3. Turn(s) = State(Fired(x), ends, past)
    BY <1>2, <1>9, <2>2, TurnIs
  <2>4. Fired(y) = Shift(Fired(x), n)
    BY <1>1, <1>2, <1>9, FiredSooner
  <2> QED
    BY <1>3, <1>6, <2>1, <2>3, <2>4
<1>10. CASE Due(x.ackEnd)
  <2>1. Turn(State(y, ends, past)) = State(Over(y), ends, past)
    BY <1>5, <1>10, TurnIs
  <2>2. ~Due(x.transfer) /\ ~Due(x.ack)
    BY <1>2, <1>10, NotDue DEF Lone
  <2>3. Turn(s) = State(Over(x), ends, past)
    BY <1>2, <1>10, <2>2, TurnIs
  <2>4. Over(y) = Shift(Over(x), n)
    BY <1>1, <1>2, OverSooner
  <2> QED
    BY <1>3, <1>6, <2>1, <2>3, <2>4
<1> QED
  BY <1>1, <1>7, <1>8, <1>9, <1>10 DEF Rest

\* A turn before time passes makes no difference to the tick after it.
LEMMA TurnShiftedTicked ==
  ASSUME NEW s, Sound(s), NEW n \in Nat
  PROVE  Ticked(Shifted(Turn(s), n)) = Ticked(Shifted(s, n))
<1>1. CASE Rest(s.sio)
  BY <1>1, TurnSettles
<1>2. CASE ~Rest(s.sio)
  <2>1. PICK u : u = Shifted(s, n)
    OBVIOUS
  <2>2. Sound(u) /\ Shifted(Turn(s), n) = Turn(u)
    BY <1>2, <2>1, ShiftedIsGood, TurnShifted
  <2>3. Ticked(Turn(u)) = Ticked(u)
    BY <2>2, TurnTicked
  <2> QED
    BY <2>1, <2>2, <2>3
<1> QED
  BY <1>1, <1>2

\* Nor does a tick.
LEMMA TickShiftedTicked ==
  ASSUME NEW s, Sound(s), NEW n \in Nat
  PROVE  Ticked(Shifted(Ticked(s), n)) = Ticked(Shifted(s, n))
<1>1. PICK a, b, c, d : a = Turn(s) /\ b = Turn(a) /\ c = Turn(b) /\ d = Turn(c)
  OBVIOUS
<1>2. Sound(a) /\ Sound(b) /\ Sound(c) /\ Sound(d)
  BY <1>1, TurnKeeps DEF Moves
<1>3. /\ Ticked(Shifted(a, n)) = Ticked(Shifted(s, n)) /\ Ticked(Shifted(b, n)) = Ticked(Shifted(a, n))
      /\ Ticked(Shifted(c, n)) = Ticked(Shifted(b, n)) /\ Ticked(Shifted(d, n)) = Ticked(Shifted(c, n))
  BY <1>1, <1>2, TurnShiftedTicked
<1> QED
  BY <1>1, <1>3, TickedIs

\* A clock and then a tick.
LEMMA ClockIs ==
  ASSUME NEW s, Sound(s)
  PROVE  Clock(s) = Ticked(Shifted(s, 1))
<1>1. PICK x, ends, past : x = s.sio /\ ends = s.ports /\ past = s.hist
  OBVIOUS
<1>2. s = State(x, ends, past)
  BY <1>1 DEF Sound
<1>3. PICK transfer, ack, ackEnd :
        transfer = Later(x.transfer) /\ ack = Later(x.ack) /\ ackEnd = Later(x.ackEnd)
  OBVIOUS
<1>4. transfer = Sooner(x.transfer, 1) /\ ack = Sooner(x.ack, 1) /\ ackEnd = Sooner(x.ackEnd, 1)
  BY <1>3 DEF Later, Sooner
<1>5. s.sio = x
  BY <1>1
<1>6. PICK t : t = [s EXCEPT !.sio.transfer = transfer, !.sio.ack = ack, !.sio.ackEnd = ackEnd]
  OBVIOUS
<1>7. PICK y : y = [x EXCEPT !.transfer = transfer, !.ack = ack, !.ackEnd = ackEnd]
  OBVIOUS
<1>8. t = State(y, ends, past)
  BY <1>2, <1>6, <1>7 DEF State
<1>9. y = Shift(x, 1)
  BY <1>4, <1>7 DEF Shift
<1>10. Clock(s) = Ticked(t)
  BY <1>3, <1>5, <1>6 DEF Clock
<1> QED
  BY <1>1, <1>8, <1>9, <1>10 DEF Shifted

\* The value an operand is bound to.
LEMMA ClockOf ==
  ASSUME NEW v
  PROVE  (CHOOSE y \in {Clock(z) : z \in {v}} : TRUE) = Clock(v)
<1>1. {Clock(z) : z \in {v}} = {Clock(v)}
  OBVIOUS
<1> QED
  BY <1>1

\* A set of natural numbers has a least one.
LEMMA LeastNumber ==
  ASSUME NEW T \in SUBSET Nat, T # {}
  PROVE  \E m \in T : \A t \in T : m <= t
<1>1. PICK R : R = OpToRel(<, Nat)
  OBVIOUS
<1>2. IsWellFoundedOn(R, Nat)
  BY <1>1, NatLessThanWellFounded
<1>3. PICK m \in T : \A t \in T : <<t, m>> \notin R
  BY <1>2, WFMin
<1>4. \A t \in T : <<t, m>> \in Nat \X Nat /\ (t < m => <<t, m>> \in R)
  BY <1>1 DEF OpToRel
<1>5. ASSUME NEW t \in T PROVE m <= t
  <2>1. t \in Nat /\ m \in Nat /\ ~(t < m)
    BY <1>3, <1>4
  <2> QED
    BY <2>1
<1> QED
  BY <1>5

\* Catching up at every clock, by the states it goes through.
LEMMA ClocksAre ==
  ASSUME NEW n \in Nat, NEW x, NEW g, g = [k \in 0..n |-> g[k]], g[0] = x,
         \A k \in 0..n : k # 0 => g[k] = Clock(g[k - 1])
  PROVE  Iterate(Clock, x, n) = g[n]
<1> DEFINE Run(f) == f = [k \in 0..n |-> IF k = 0 THEN x ELSE CHOOSE y \in {Clock(z) : z \in {f[k - 1]}} : TRUE]
<1>1. PICK after : after = CHOOSE f : Run(f)
  OBVIOUS
<1>2. Iterate(Clock, x, n) = after[n]
  BY <1>1 DEF Iterate
<1>3. Run(after)
  <2>1. ASSUME NEW k \in 0..n
        PROVE  g[k] = IF k = 0 THEN x ELSE CHOOSE y \in {Clock(z) : z \in {g[k - 1]}} : TRUE
    BY ClockOf
  <2>2. Run(g)
    BY <2>1
  <2> HIDE DEF Run
  <2> QED
    BY <1>1, <2>2
<1>4. ASSUME NEW k \in 0..n
      PROVE  after[k] = IF k = 0 THEN x ELSE Clock(after[k - 1])
  <2>1. after[k] = IF k = 0 THEN x ELSE CHOOSE y \in {Clock(z) : z \in {after[k - 1]}} : TRUE
    BY <1>3
  <2> QED
    BY <2>1, ClockOf
<1>5. \A k \in 0..n : after[k] = g[k]
  <2> DEFINE T == {k \in 0..n : after[k] # g[k]}
  <2> SUFFICES ASSUME T # {} PROVE FALSE
    OBVIOUS
  <2>1. PICK m \in T : \A t \in T : m <= t
    <3>1. T \in SUBSET Nat
      OBVIOUS
    <3> HIDE DEF T
    <3> QED
      BY <3>1, LeastNumber
  <2>2. m \in 0..n /\ after[m] # g[m]
    OBVIOUS
  <2>3. m # 0
    BY <1>4, <2>2
  <2>4. m - 1 \in 0..n /\ m - 1 \notin T
    BY <2>1, <2>2, <2>3
  <2>5. after[m - 1] = g[m - 1]
    BY <2>4
  <2>6. after[m] = Clock(after[m - 1]) /\ g[m] = Clock(g[m - 1])
    BY <1>4, <2>2, <2>3
  <2> QED
    BY <2>2, <2>5, <2>6
<1>6. n \in 0..n
  OBVIOUS
<1> QED
  BY <1>2, <1>5, <1>6

\* Catching up n clocks late in one go leaves it all as catching up at every clock would.
LEMMA LateIs ==
  ASSUME NEW s, Sound(s), NEW n \in Nat
  PROVE  Ticked(Shifted(s, n)) = Iterate(Clock, Ticked(s), n)
<1>1. PICK g : g = [k \in 0..n |-> Ticked(Shifted(s, k))]
  OBVIOUS
<1>2. g[0] = Ticked(s) /\ g[n] = Ticked(Shifted(s, n)) /\ g = [k \in 0..n |-> g[k]]
  <2>1. 0 \in 0..n /\ n \in 0..n /\ 0 \in Nat
    OBVIOUS
  <2>2. Shifted(s, 0) = s
    BY ShiftTwice
  <2> QED
    BY <1>1, <2>1, <2>2
<1>3. ASSUME NEW k \in 0..n, k # 0
      PROVE  g[k] = Clock(g[k - 1])
  <2>1. PICK j \in Nat : j = k - 1
    BY <1>3
  <2>2. j \in 0..n /\ j + 1 = k /\ k \in Nat
    BY <1>3, <2>1
  <2>0. PICK one \in Nat : one = 1
    OBVIOUS
  <2>3. PICK u : u = Shifted(s, j)
    OBVIOUS
  <2>4. Sound(u)
    BY <2>1, <2>3, ShiftedIsGood
  <2>5. Sound(Ticked(u))
    BY <2>4, TickedKeeps DEF Moves
  <2>6. Clock(Ticked(u)) = Ticked(Shifted(Ticked(u), one))
    BY <2>0, <2>5, ClockIs
  <2>7. Ticked(Shifted(Ticked(u), one)) = Ticked(Shifted(u, one))
    BY <2>4, TickShiftedTicked
  <2>8. Shifted(u, one) = Shifted(s, k)
    <3>1. Shifted(u, one) = Shifted(s, j + one)
      BY <2>3, ShiftTwice
    <3> QED
      BY <2>0, <2>2, <3>1
  <2>9. g[k] = Ticked(Shifted(s, k)) /\ g[k - 1] = Ticked(u)
    BY <1>1, <2>1, <2>2, <2>3
  <2> QED
    BY <2>6, <2>7, <2>8, <2>9
<1>4. Iterate(Clock, Ticked(s), n) = g[n]
  BY <1>2, <1>3, ClocksAre
<1> QED
  BY <1>2, <1>4
-----------------------------------------------------------------------------
(* The inductive invariant. *)

Inv ==
  /\ Sound(System)
  /\ InTime(sio)
  /\ EventIsArmed

\* The event of registers with one deadline at most.
ArmedFor(x, at) ==
  LET pending == {x.transfer, x.ack, x.ackEnd} \ {None}
  IN  IF pending = {} THEN at = None
      ELSE at \in pending /\ \A d \in pending : at <= d

\* next_deadline is the one deadline that is pending.
LEMMA NextDeadlineArms ==
  ASSUME NEW x \in AnySio, Lone(x)
  PROVE  ArmedFor(x, NextDeadline(x))
<1>1. PICK pending : pending = {x.transfer, x.ack, x.ackEnd} \ {None}
  OBVIOUS
<1>2. x.transfer \in Times /\ x.ack \in Times /\ x.ackEnd \in Times
  BY DEF AnySio
<1>3. CASE pending = {}
  BY <1>1, <1>3 DEF ArmedFor, NextDeadline
<1>4. ASSUME NEW d \in Int, pending = {d}
      PROVE  ArmedFor(x, NextDeadline(x))
  <2>1. (CHOOSE e \in pending : \A f \in pending : e <= f) = d
    BY <1>4
  <2>2. pending # {}
    BY <1>4
  <2>3. NextDeadline(x) = d
    BY <1>1, <2>1, <2>2 DEF NextDeadline
  <2> QED
    BY <1>1, <1>4, <2>3 DEF ArmedFor
<1>5. CASE x.transfer # None
  <2>1. x.ack = None /\ x.ackEnd = None /\ x.transfer \in Int
    BY <1>2, <1>5 DEF Lone, Times
  <2>2. pending = {x.transfer}
    BY <1>1, <1>5, <2>1
  <2> QED
    BY <1>4, <2>1, <2>2
<1>6. CASE x.transfer = None /\ x.ack # None
  <2>1. x.ackEnd = None /\ x.ack \in Int
    BY <1>2, <1>6 DEF Lone, Times
  <2>2. pending = {x.ack}
    BY <1>1, <1>6, <2>1
  <2> QED
    BY <1>4, <2>1, <2>2
<1>7. CASE x.transfer = None /\ x.ack = None /\ x.ackEnd # None
  <2>1. x.ackEnd \in Int
    BY <1>2, <1>7 DEF Times
  <2>2. pending = {x.ackEnd}
    BY <1>1, <1>7
  <2> QED
    BY <1>4, <2>1, <2>2
<1>8. CASE x.transfer = None /\ x.ack = None /\ x.ackEnd = None
  BY <1>1, <1>3, <1>8
<1> QED
  BY <1>5, <1>6, <1>7, <1>8

\* An access, whatever it does, is served and its event armed.
Kept(t) == Sound(t) /\ InTime(t.sio)

\* An access that leaves it all sound leaves the invariant once it is served.
LEMMA ServedKeeps ==
  ASSUME NEW t, Kept(t), Served(t)
  PROVE  Inv'
<1>1. PICK s : s = Ticked(t)
  OBVIOUS
<1>2. sio' = s.sio /\ ports' = s.ports /\ hist' = s.hist /\ event' = NextDeadline(s.sio)
  BY <1>1 DEF Served, Becomes
<1>3. Sound(s) /\ InTime(s.sio)
  BY <1>1, TickedKeeps DEF Kept, Moves
<1>4. System' = s
  BY <1>2, <1>3 DEF System, Sound, State
<1>5. s.sio \in AnySio /\ Lone(s.sio)
  BY <1>3 DEF Sound, Linked
<1>6. ArmedFor(s.sio, NextDeadline(s.sio))
  BY <1>5, NextDeadlineArms
<1>7. EventIsArmed'
  BY <1>2, <1>6 DEF EventIsArmed, ArmedFor
<1> QED
  BY <1>2, <1>3, <1>4, <1>7 DEF Inv

\* SIO0 as it has caught up before an access.
LEMMA CaughtUpIs ==
  ASSUME Inv
  PROVE  /\ Kept(CaughtUp) /\ SamePort(sio, CaughtUp.sio) /\ CaughtUp.hist.upsets = hist.upsets
<1>1. Sound(System) /\ InTime(System.sio) /\ System.sio = sio /\ System.hist = hist
  BY DEF Inv, System
<1>2. Moves(System, CaughtUp)
  BY <1>1, TickedKeeps DEF CaughtUp
<1> QED
  BY <1>1, <1>2 DEF Moves, Kept

\* A byte written to SIO0.
LEMMA WriteDataKeeps ==
  ASSUME NEW s, Kept(s), NEW tx \in Byte
  PROVE  Kept(WriteDataAt(s, tx))
<1>1. PICK x, ends, past : x = s.sio /\ ends = s.ports /\ past = s.hist
  OBVIOUS
<1>2. s = State(x, ends, past) /\ x \in AnySio /\ Lone(x) /\ Devices(ends, past) /\ Released(x, ends) /\ InTime(x)
  BY <1>1 DEF Kept, Sound, Linked
<1>3. CASE x.transfer # None
  <2>1. PICK y : y = [x EXCEPT !.queued = tx]
    OBVIOUS
  <2>2. WriteDataAt(s, tx) = State(y, ends, past)
    BY <1>1, <1>2, <1>3, <2>1 DEF WriteDataAt, State
  <2>3. y \in AnySio /\ y.transfer = x.transfer /\ y.ack = x.ack /\ y.ackEnd = x.ackEnd /\ y.ctrl = x.ctrl
        /\ y.ackInput = x.ackInput /\ y.pendingAck = x.pendingAck
    BY <1>2, <2>1 DEF AnySio, MaybeByte
  <2>4. Linked(y, ends, past) /\ InTime(y)
    BY <1>2, <2>3 DEF Linked, Lone, Released, Quiet, InTime
  <2> QED
    BY <2>2, <2>4, GoodIs DEF Kept
<1>4. CASE x.transfer = None
  <2>1. PICK off : off = FALSE
    OBVIOUS
  <2>8. PICK from \in Int : from = 0
    OBVIOUS
  <2>2. PICK y : y = [x EXCEPT !.ackInput = off, !.ackEnd = None]
    OBVIOUS
  <2>3. WriteDataAt(s, tx) = StartTransfer(State(y, ends, past), tx, from)
    <3>1. s.sio = x
      BY <1>1
    <3>2. PICK t : t = [s EXCEPT !.sio.ackInput = off, !.sio.ackEnd = None]
      OBVIOUS
    <3>3. s = State(x, ends, past)
      BY <1>2
    <3>4. t = State(y, ends, past)
      BY <2>2, <3>2, <3>3 DEF State
    <3> QED
      BY <1>4, <2>1, <2>8, <3>1, <3>2, <3>4 DEF WriteDataAt
  <2>4. y \in AnySio /\ y.ack = x.ack /\ y.ackEnd = None /\ y.ctrl = x.ctrl /\ y.ackInput = off
        /\ y.pendingAck = x.pendingAck
    BY <1>2, <2>1, <2>2 DEF AnySio, Times
  <2>5. Released(y, ends) /\ ~y.ackInput
    BY <1>2, <2>1, <2>4 DEF Released, Quiet
  <2>6. from + ByteTicks \in Deadline
    BY <2>8, TicksAre DEF Deadline, Clocks
  <2>7. Sound(WriteDataAt(s, tx)) /\ InTime(WriteDataAt(s, tx).sio)
    BY <1>2, <2>3, <2>4, <2>5, <2>6, StartKeeps
  <2> QED
    BY <2>7 DEF Kept
<1> QED
  BY <1>3, <1>4

\* What software sends is a byte.
LEMMA ListeningIs ==
  ASSUME NEW port \in PortType
  PROVE  Listening(port) \subseteq Byte
<1>1. {0, 1, PadAddress, Address, Poll, Read, Write, GetId} \subseteq Byte
  BY DEF Byte, PadAddress, Address, Poll, Read, Write, GetId
<1>2. port.selected \in {None, "pad", "card"}
  BY DEF PortType
<1>3. CASE port.selected = None
  <2>1. port.selected # "pad" /\ port.selected # "card"
    BY <1>3, NothingSelected
  <2>2. Listening(port) = {0} \cup (IF port.pad = None THEN {} ELSE {PadAddress})
                              \cup (IF port.card = None THEN {} ELSE {Address})
    BY <1>3, <2>1 DEF Listening
  <2> QED
    BY <1>1, <2>2
<1>4. CASE port.selected = "pad"
  <2>1. port.selected # None /\ port.selected # "card"
    BY <1>4, NothingSelected
  <2>2. Listening(port) = IF port.pad # None /\ port.pad.step = 0 THEN {Poll, 0} ELSE {0}
    BY <1>4, <2>1 DEF Listening
  <2> QED
    BY <1>1, <2>2
<1>5. CASE port.selected = "card"
  <2>1. port.selected # None /\ port.selected # "pad"
    BY <1>5, NothingSelected
  <2>2. CASE port.card = None
    <3>1. Listening(port) = {0}
      BY <1>5, <2>1, <2>2 DEF Listening
    <3> QED
      BY <1>1, <3>1
  <2>3. CASE port.card # None
    <3>1. PICK c : c = port.card
      OBVIOUS
    <3>2. c \in CardType
      BY <2>3, <3>1 DEF PortType
    <3>3. Listening(port) =
            CASE c.phase = "Idle"          -> {Address, 0}
              [] c.phase = "GotAddr"       -> {Read, Write, GetId, 0}
              [] c.phase \in {"ReadMsb", "WriteMsb"} -> {0}
              [] c.phase \in {"ReadLsb", "WriteLsb"} -> Sectors
              [] c.phase = "WriteData" -> Data
              [] c.phase = "WriteChecksum" -> {c.checksum, Xor(c.checksum, 1)}
              [] OTHER -> {0}
      BY <1>5, <2>1, <2>3, <3>1 DEF Listening
    <3>4. {c.checksum, Xor(c.checksum, 1)} \subseteq Byte
      BY <1>1, <3>2, XorIs DEF CardType
    <3>5. Sectors \subseteq Byte /\ Data \subseteq Byte
      BY DataAssumption
    <3>6. PICK both : both = {c.checksum, Xor(c.checksum, 1)}
      OBVIOUS
    <3>7. Listening(port) \in {{Address, 0}, {Read, Write, GetId, 0}, {0}, Sectors, Data, both}
      BY <3>3, <3>6
    <3> QED
      BY <1>1, <3>4, <3>5, <3>6, <3>7
  <2> QED
    BY <2>2, <2>3
<1> QED
  BY <1>2, <1>3, <1>4, <1>5

\* The devices once /JOYN is released.
Deselected(ends) == [p \in Ports |-> Deselect(ends[p])]
Forgot(past) == [past EXCEPT !.told = [p \in Ports |-> Forget(past.told[p])]]

\* Devices and history after /JOYN is released.
LEMMA DeselectAllIs ==
  ASSUME NEW x, NEW ends, NEW past
  PROVE  DeselectAll(State(x, ends, past)) = State(x, Deselected(ends), Forgot(past))
<1>1. PICK s, new, talk : /\ s = State(x, ends, past) /\ new = Deselected(ends)
                          /\ talk = [p \in Ports |-> Forget(past.told[p])]
  OBVIOUS
<1>2. s.ports = ends /\ s.hist = past
  BY <1>1, GoodIs
<1>3. PICK t : t = [s EXCEPT !.ports = new, !.hist.told = talk]
  OBVIOUS
<1>4. DeselectAll(s) = t
  BY <1>1, <1>2, <1>3 DEF DeselectAll, Deselected
<1>5. PICK heard : heard = [past EXCEPT !.told = talk]
  OBVIOUS
<1>6. t = State(x, new, heard)
  BY <1>1, <1>3, <1>5 DEF State
<1> QED
  BY <1>1, <1>4, <1>5, <1>6 DEF Forgot

\* They stay good, and none is selected.
LEMMA DeselectedAre ==
  ASSUME NEW ends, NEW past, Devices(ends, past), NEW x, Quiet(x)
  PROVE  /\ Devices(Deselected(ends), Forgot(past)) /\ Forgot(past).upsets = past.upsets
         /\ Released(x, Deselected(ends))
<1>1. PICK new, heard : new = Deselected(ends) /\ heard = Forgot(past)
  OBVIOUS
<1>2. ends \in [Ports -> PortType] /\ past \in [told : [Ports -> ToldType], upsets : 0..MaxUpsets]
  BY DEF Devices, HistType, ToldType
<1>3. ASSUME NEW p \in Ports
      PROVE  /\ new[p] \in PortType /\ new[p].selected = None /\ Forget(past.told[p]) \in ToldType
             /\ new[p].card # None => new[p].card.phase = "Idle"
             /\ GoodPort(new[p], Forget(past.told[p]))
  <2>1. PICK port, told : port = ends[p] /\ told = past.told[p]
    OBVIOUS
  <2>2. port \in PortType /\ told \in ToldType /\ GoodPort(port, told)
    BY <1>2, <2>1 DEF Devices
  <2>3. new[p] = Deselect(port)
    BY <1>1, <2>1 DEF Deselected
  <2> QED
    BY <2>1, <2>2, <2>3, DeselectIs
<1>4. PICK talk : talk = [p \in Ports |-> Forget(past.told[p])]
  OBVIOUS
<1>5. talk \in [Ports -> ToldType]
  BY <1>3, <1>4
<1>6. heard = [past EXCEPT !.told = talk]
  BY <1>1, <1>4 DEF Forgot
<1>7. heard \in [told : [Ports -> ToldType], upsets : 0..MaxUpsets] /\ heard.told = talk /\ heard.upsets = past.upsets
  BY <1>2, <1>5, <1>6
<1>8. new \in [Ports -> PortType]
  BY <1>1, <1>3 DEF Deselected
<1>9. Devices(new, heard)
  BY <1>3, <1>4, <1>7, <1>8 DEF Devices, HistType, ToldType
<1> QED
  BY <1>1, <1>3, <1>7, <1>9 DEF Released

\* A value stored in CTRL.
LEMMA WriteCtrlKeeps ==
  ASSUME NEW s, Kept(s), NEW value \in CtrlValues, NEW acks \in BOOLEAN,
         s.hist.upsets + Switches(s, value) <= MaxUpsets
  PROVE  Kept(WriteCtrlAt(s, value, acks))
<1>1. PICK x, ends, past : x = s.sio /\ ends = s.ports /\ past = s.hist
  OBVIOUS
<1>2. s = State(x, ends, past) /\ x \in AnySio /\ Lone(x) /\ Devices(ends, past) /\ Released(x, ends) /\ InTime(x)
  BY <1>1 DEF Kept, Sound, Linked
<1>3. value \in SUBSET Bits
  BY CtrlAssumption DEF Bits
<1>4. PICK n : n = past.upsets + Switches(s, value)
  OBVIOUS
<1>5. PICK noted : noted = [past EXCEPT !.upsets = n]
  OBVIOUS
<1>6. Devices(ends, noted)
  <2>1. past \in [told : [Ports -> ToldType], upsets : 0..MaxUpsets]
    BY <1>2 DEF Devices, HistType, ToldType
  <2>2. Switches(s, value) \in {0, 1}
    BY DEF Switches
  <2>3. past.upsets \in 0..MaxUpsets
    BY <2>1
  <2>4. n \in 0..MaxUpsets
    BY <1>1, <1>4, <2>2, <2>3, TicksAre
  <2>5. noted \in [told : [Ports -> ToldType], upsets : 0..MaxUpsets] /\ noted.told = past.told
    BY <1>5, <2>1, <2>4
  <2> QED
    BY <1>2, <2>5 DEF Devices, HistType, ToldType
<1>7. PICK latched : latched = (IF acks THEN FALSE ELSE x.latched)
  OBVIOUS
<1>8. latched \in BOOLEAN
  BY <1>2, <1>7 DEF AnySio
<1>9. PICK y : y = [x EXCEPT !.latched = latched]
  OBVIOUS
<1>10. y \in AnySio /\ y.transfer = x.transfer /\ y.ack = x.ack /\ y.ackEnd = x.ackEnd /\ y.ctrl = x.ctrl
       /\ y.ackInput = x.ackInput /\ y.pendingAck = x.pendingAck
  BY <1>2, <1>8, <1>9 DEF AnySio
<1>11. PICK acked : acked = State(y, ends, noted)
  OBVIOUS
<1>12. s.sio = x /\ s.hist.upsets = past.upsets
  BY <1>1
<1>13. acked = [s EXCEPT !.sio.latched = latched, !.hist.upsets = n]
  <2>1. ASSUME NEW l, NEW r, r = State(x, ends, past), NEW t, t = [r EXCEPT !.sio.latched = l, !.hist.upsets = n],
               NEW z, z = [x EXCEPT !.latched = l]
        PROVE  t = State(z, ends, noted)
    BY <1>5, <2>1 DEF State
  <2> QED
    BY <1>2, <1>9, <1>11, <2>1
<1>14. PICK released : released = ("joyn" \in x.ctrl /\ "joyn" \notin value)
  OBVIOUS
<1>15. WriteCtrlAt(s, value, acks) =
         [(IF released THEN DeselectAll([acked EXCEPT !.sio = Abandon(@)]) ELSE acked) EXCEPT !.sio.ctrl = value]
  <2> DEFINE before == [s EXCEPT !.sio.latched = IF acks THEN FALSE ELSE @, !.hist.upsets = @ + Switches(s, value)]
  <2>1. before = acked
    BY <1>4, <1>7, <1>12, <1>13
  <2>2. WriteCtrlAt(s, value, acks) =
          [(IF "joyn" \in s.sio.ctrl /\ "joyn" \notin value THEN DeselectAll([before EXCEPT !.sio = Abandon(@)])
            ELSE before) EXCEPT !.sio.ctrl = value]
    BY Zenon DEF WriteCtrlAt
  <2> HIDE DEF before
  <2> QED
    BY <1>12, <1>14, <2>1, <2>2
<1>16. ASSUME NEW z \in AnySio, Lone(z), InTime(z), NEW new, NEW heard, Devices(new, heard),
              "joyn" \notin value =>
                /\ Quiet(z)
                /\ \A p \in Ports : new[p].selected = None /\ (new[p].card # None => new[p].card.phase = "Idle"),
              NEW t, t = [State(z, new, heard) EXCEPT !.sio.ctrl = value]
       PROVE  Kept(t)
  <2>1. PICK w : w = [z EXCEPT !.ctrl = value]
    OBVIOUS
  <2>2. w \in AnySio /\ w.transfer = z.transfer /\ w.ack = z.ack /\ w.ackEnd = z.ackEnd /\ w.ctrl = value
        /\ w.ackInput = z.ackInput /\ w.pendingAck = z.pendingAck
    BY <1>3, <1>16, <2>1 DEF AnySio
  <2>3. t = State(w, new, heard)
    BY <1>16, <2>1 DEF State
  <2>4. Linked(w, new, heard) /\ InTime(w)
    BY <1>16, <2>2 DEF Linked, Lone, Released, Quiet, InTime
  <2> QED
    BY <2>3, <2>4, GoodIs DEF Kept
<1>17. CASE released
  <2>1. PICK z, off : z = Abandon(y) /\ off = FALSE
    OBVIOUS
  <2>2. z = [y EXCEPT !.ackInput = off, !.queued = None, !.pendingAck = off,
                      !.transfer = None, !.ack = None, !.ackEnd = None]
    BY <2>1 DEF Abandon
  <2>3. z \in AnySio /\ z.transfer = None /\ z.ack = None /\ z.ackEnd = None /\ z.ackInput = off /\ z.pendingAck = off
    BY <1>10, <2>1, <2>2 DEF AnySio, Times, MaybeByte
  <2>4. Quiet(z) /\ Lone(z) /\ InTime(z)
    BY <2>1, <2>3 DEF Quiet, Lone, InTime, Deadline
  <2>5. PICK new, heard : new = Deselected(ends) /\ heard = Forgot(noted)
    OBVIOUS
  <2>6. [acked EXCEPT !.sio = Abandon(@)] = State(z, ends, noted)
    BY <1>11, <2>1 DEF State
  <2>7. WriteCtrlAt(s, value, acks) = [State(z, new, heard) EXCEPT !.sio.ctrl = value]
    BY <1>15, <1>17, <2>5, <2>6, DeselectAllIs
  <2>8. Devices(new, heard)
    BY <1>6, <2>4, <2>5, DeselectedAre
  <2>9. \A p \in Ports : new[p].selected = None /\ (new[p].card # None => new[p].card.phase = "Idle")
    <3>1. PICK none : none = [z EXCEPT !.ctrl = {}]
      OBVIOUS
    <3>2. Quiet(none) /\ none.ctrl = {}
      BY <2>3, <2>4, <3>1 DEF Quiet, AnySio
    <3>3. Released(none, new)
      BY <1>6, <2>5, <3>2, DeselectedAre
    <3> QED
      BY <3>2, <3>3 DEF Released
  <2> QED
    BY <1>16, <2>3, <2>4, <2>7, <2>8, <2>9
<1>18. CASE ~released
  <2>1. WriteCtrlAt(s, value, acks) = [State(y, ends, noted) EXCEPT !.sio.ctrl = value]
    BY <1>11, <1>15, <1>18
  <2>2. Lone(y) /\ InTime(y) /\ (Quiet(x) => Quiet(y))
    BY <1>2, <1>10 DEF Lone, InTime, Quiet
  <2>3. "joyn" \notin value => "joyn" \notin x.ctrl
    BY <1>14, <1>18
  <2>4. "joyn" \notin value =>
          /\ Quiet(y)
          /\ \A p \in Ports : ends[p].selected = None /\ (ends[p].card # None => ends[p].card.phase = "Idle")
    BY <1>2, <2>2, <2>3 DEF Released
  <2> QED
    BY <1>6, <1>10, <1>16, <2>1, <2>2, <2>4
<1> QED
  BY <1>17, <1>18

\* CTRL's RESET.
LEMMA ResetKeeps ==
  ASSUME NEW s, Kept(s)
  PROVE  Kept(ResetPort(s))
<1>1. PICK x, ends, past : x = s.sio /\ ends = s.ports /\ past = s.hist
  OBVIOUS
<1>2. s = State(x, ends, past) /\ Devices(ends, past)
  BY <1>1 DEF Kept, Sound, Linked
<1>3. PICK y, off, none : y = NewSio /\ off = FALSE /\ none = {}
  OBVIOUS
<1>4. y = [ctrl |-> none, rx |-> off, latched |-> off, ackInput |-> off, rxValid |-> off,
           queued |-> None, pendingAck |-> off, transfer |-> None, ack |-> None, ackEnd |-> None]
  BY <1>3 DEF NewSio
<1>5. none \in SUBSET Bits /\ off \in BOOLEAN /\ None \in Times /\ None \in MaybeByte /\ None \in Deadline
  BY <1>3 DEF Times, MaybeByte, Deadline
<1>6. y \in AnySio /\ y.transfer = None /\ y.ack = None /\ y.ackEnd = None /\ y.ackInput = off /\ y.pendingAck = off
  BY <1>4, <1>5 DEF AnySio
<1>7. Lone(y) /\ InTime(y) /\ Quiet(y)
  BY <1>3, <1>5, <1>6 DEF Lone, InTime, Quiet
<1>8. [s EXCEPT !.sio = NewSio] = State(y, ends, past)
  BY <1>2, <1>3 DEF State
<1>9. ResetPort(s) = State(y, Deselected(ends), Forgot(past))
  BY <1>8, DeselectAllIs DEF ResetPort
<1>10. Linked(y, Deselected(ends), Forgot(past))
  BY <1>2, <1>6, <1>7, DeselectedAre DEF Linked
<1> QED
  BY <1>7, <1>9, <1>10, GoodIs DEF Kept
-----------------------------------------------------------------------------
(* The host plugs and saves. *)

\* A card just plugged in.
LEMMA PluggedCard ==
  ASSUME NEW p \in Ports, NEW card \in Cards[p]
  PROVE  /\ card \in GoodCard /\ card # None /\ card.phase = "Idle"
         /\ Untold(card) \in ToldType /\ Traced(card, Untold(card))
<1>1. PICK bytes, new : bytes = card.bytes /\ new = card.new
  OBVIOUS
<1>2. bytes \in [0..Frames - 1 -> Frame] /\ new \in BOOLEAN /\ card = Card(bytes, new)
  BY <1>1, CardsAssumption
<1>3. PICK none : none = <<>>
  OBVIOUS
<1>14. PICK off \in BOOLEAN : off = FALSE
  OBVIOUS
<1>4. none \in Seq(Byte) /\ Len(none) = 0
  BY <1>3
<1>5. card = [phase |-> "Idle", i |-> 0, msb |-> 0, lsb |-> 0, checksum |-> 0, buffer |-> none,
              spdr |-> 255, bytes |-> bytes, dirty |-> off, new |-> new]
  BY <1>2, <1>3, <1>14 DEF Card
<1>6. 0 \in Byte /\ 255 \in Byte /\ "Idle" \in Phase /\ 0 \in 0..FrameBytes + 4
  BY BytesAre, PhasesAre, SizesAre
<1>7. card \in CardType /\ card.phase = "Idle" /\ card.i = 0
  BY <1>2, <1>4, <1>5, <1>6 DEF CardType
<1>8. card \in GoodCard
  BY <1>7 DEF GoodCard, Shaped
<1>9. card # None
  BY <1>7, NothingSelected
<1>10. PICK told : told = Untold(card)
  OBVIOUS
<1>11. told = [sent |-> none, heard |-> none, image |-> bytes]
  BY <1>1, <1>3, <1>9, <1>10 DEF Untold
<1>12. told \in ToldType
  BY <1>2, <1>4, <1>11 DEF ToldType
<1>13. Traced(card, told)
  <2>1. card.phase \notin InRead \cup InWrite \cup InId /\ card.phase # "GotAddr"
    BY <1>7 DEF InId, InRead, InWrite
  <2>2. Len(told.heard) = Len(told.sent) /\ told.image = card.bytes /\ ~(Len(told.sent) > 5)
    BY <1>1, <1>4, <1>11
  <2> QED
    BY <1>7, <2>1, <2>2 DEF Traced
<1> QED
  BY <1>7, <1>8, <1>9, <1>10, <1>12, <1>13

\* No card, nothing told.
LEMMA NoCardTold == Untold(None) \in ToldType
<1>1. PICK none : none = <<>>
  OBVIOUS
<1>2. none \in Seq(Byte) /\ Untold(None) = [sent |-> none, heard |-> none, image |-> None]
  BY <1>1 DEF Untold
<1> QED
  BY <1>2 DEF ToldType

\* A card that was saved is where it was.
LEMMA SavedCard ==
  ASSUME NEW c \in GoodCard, NEW told, Traced(c, told), NEW d, d = [c EXCEPT !.dirty = FALSE]
  PROVE  d \in GoodCard /\ d.phase = c.phase /\ Traced(d, told)
<1>1. PICK off : off = FALSE
  OBVIOUS
<1>2. d = [c EXCEPT !.dirty = off] /\ off \in BOOLEAN /\ c \in CardType /\ Shaped(c, c.phase)
  BY <1>1 DEF GoodCard
<1>3. /\ d \in CardType /\ d.phase = c.phase /\ d.i = c.i /\ d.msb = c.msb /\ d.lsb = c.lsb
      /\ d.checksum = c.checksum /\ d.buffer = c.buffer /\ d.spdr = c.spdr /\ d.bytes = c.bytes /\ d.new = c.new
  BY <1>2 DEF CardType
<1>4. Shaped(d, d.phase)
  BY <1>2, <1>3 DEF Shaped
<1>5. SentIn(d) = SentIn(c)
  BY <1>3 DEF SentIn
<1>6. \A sent : Asked(d, sent) = Asked(c, sent)
  BY <1>3 DEF Asked, FrameOrNothing
<1>7. \A sent, k : ReplyAt(d, sent, k) = ReplyAt(c, sent, k)
  BY <1>3, <1>6 DEF ReplyAt
<1>8. HearsReply(d, told) <=> HearsReply(c, told)
  BY <1>3, <1>7 DEF HearsReply
<1>9. Named(d, told) <=> Named(c, told)
  BY <1>3 DEF Named
<1>10. TracedRead(c, told) => TracedRead(d, told)
  BY <1>3, <1>5, <1>6, <1>8, <1>9 DEF TracedRead
<1>11. TracedWrite(c, told) => TracedWrite(d, told)
  BY <1>3, <1>5, <1>9 DEF TracedWrite
<1>12. Traced(d, told)
  BY <1>3, <1>8, <1>10, <1>11 DEF Traced
<1> QED
  BY <1>3, <1>4, <1>12 DEF GoodCard

\* Another device behind a port.
LEMMA PortChanges ==
  ASSUME Inv, NEW p \in Ports, NEW port \in PortType, NEW told \in ToldType, GoodPort(port, told),
         ports[p].selected = None => port.selected = None,
         (ports[p].card # None => ports[p].card.phase = "Idle") => (port.card # None => port.card.phase = "Idle"),
         UNCHANGED <<sio, event>>, ports' = [ports EXCEPT ![p] = port], NEW n \in 0..MaxUpsets,
         hist' = [told |-> [hist.told EXCEPT ![p] = told], upsets |-> n]
  PROVE  Inv'
<1>1. sio \in AnySio /\ Lone(sio) /\ Devices(ports, hist) /\ Released(sio, ports) /\ InTime(sio) /\ EventIsArmed
  BY DEF Inv, Sound, Linked, System, State
<1>2. ports \in [Ports -> PortType] /\ hist \in [told : [Ports -> ToldType], upsets : 0..MaxUpsets]
      /\ \A q \in Ports : GoodPort(ports[q], hist.told[q])
  BY <1>1 DEF Devices, HistType, ToldType
<1>3. PICK new, talk, heard : new = ports' /\ talk = [hist.told EXCEPT ![p] = told] /\ heard = hist'
  OBVIOUS
<1>4. new \in [Ports -> PortType] /\ \A q \in Ports : new[q] = IF q = p THEN port ELSE ports[q]
  BY <1>2, <1>3
<1>5. talk \in [Ports -> ToldType] /\ \A q \in Ports : talk[q] = IF q = p THEN told ELSE hist.told[q]
  BY <1>2, <1>3
<1>6. heard \in [told : [Ports -> ToldType], upsets : 0..MaxUpsets] /\ heard.told = talk
  BY <1>3, <1>5
<1>7. Devices(new, heard)
  BY <1>2, <1>4, <1>5, <1>6 DEF Devices, HistType, ToldType
<1>8. Released(sio, new)
  BY <1>1, <1>4 DEF Released
<1>9. Sound(State(sio, new, heard))
  BY <1>1, <1>7, <1>8, GoodIs DEF Linked
<1>10. System' = State(sio, new, heard)
  BY <1>3 DEF System, State
<1>11. InTime(sio') /\ EventIsArmed'
  BY <1>1 DEF EventIsArmed
<1> QED
  BY <1>9, <1>10, <1>11 DEF Inv

\* The host changes what is behind a port.
LEMMA ChangesKeeps ==
  ASSUME Inv, NEW p \in Ports, NEW port \in PortType, NEW told \in ToldType, GoodPort(port, told),
         ports[p].selected = None => port.selected = None,
         (ports[p].card # None => ports[p].card.phase = "Idle") => (port.card # None => port.card.phase = "Idle"),
         Changes(p, port, told)
  PROVE  Inv'
<1>1. hist \in HistType
  BY DEF Inv, Sound, Linked, System, State, Devices
<1>2. hist.upsets \in 0..MaxUpsets
  BY <1>1 DEF HistType
<1>3. PICK n : n = hist.upsets + 1
  OBVIOUS
<1>4. n \in 0..MaxUpsets
  BY <1>2, <1>3, TicksAre DEF Changes
<1> QED
  BY <1>3, <1>4, PortChanges DEF Changes

\* What is behind a port.
LEMMA BehindPort ==
  ASSUME Inv, NEW p \in Ports
  PROVE  ports[p] \in PortType /\ hist.told[p] \in ToldType /\ GoodPort(ports[p], hist.told[p])
BY DEF Inv, Sound, Linked, System, State, Devices, HistType, ToldType

\* A pad is plugged in.
LEMMA AttachPadKeeps ==
  ASSUME Inv, NEW p \in Ports, AttachPad(p)
  PROVE  Inv'
<1>1. PICK port, told : port = [pad |-> IdlePad, card |-> ports[p].card, selected |-> None] /\ told = hist.told[p]
  OBVIOUS
<1>2. Changes(p, port, told)
  BY <1>1 DEF AttachPad
<1>3. ports[p] \in PortType /\ told \in ToldType /\ GoodPort(ports[p], told)
  BY <1>1, BehindPort
<1>4. IdlePad \in PadType
  BY PollAssumption DEF IdlePad, PadType
<1>5. port \in PortType /\ port.card = ports[p].card /\ port.selected = None
  BY <1>1, <1>3, <1>4 DEF PortType
<1> QED
  BY <1>2, <1>3, <1>5, ChangesKeeps DEF GoodPort

\* A pad is unplugged.
LEMMA DetachPadKeeps ==
  ASSUME Inv, NEW p \in Ports, DetachPad(p)
  PROVE  Inv'
<1>1. PICK at, was, port, told :
        /\ was = ports[p] /\ at = (IF was.selected = "pad" THEN None ELSE was.selected)
        /\ port = [was EXCEPT !.pad = None, !.selected = at] /\ told = hist.told[p]
  OBVIOUS
<1>2. Changes(p, port, told)
  BY <1>1 DEF DetachPad
<1>3. was \in PortType /\ told \in ToldType /\ GoodPort(was, told)
  BY <1>1, BehindPort
<1>4. at \in {None, "pad", "card"} /\ (was.selected = None => at = None)
  BY <1>1, <1>3 DEF PortType
<1>5. port \in PortType /\ port.card = was.card /\ port.selected = at
  BY <1>1, <1>3, <1>4 DEF PortType
<1> QED
  BY <1>1, <1>2, <1>3, <1>4, <1>5, ChangesKeeps DEF GoodPort

\* A card is plugged in.
LEMMA AttachCardKeeps ==
  ASSUME Inv, NEW p \in Ports, AttachCard(p)
  PROVE  Inv'
<1>1. PICK card \in Cards[p] : Changes(p, [pad |-> ports[p].pad, card |-> card, selected |-> None], Untold(card))
  BY DEF AttachCard
<1>2. PICK port, told : port = [pad |-> ports[p].pad, card |-> card, selected |-> None] /\ told = Untold(card)
  OBVIOUS
<1>3. ports[p] \in PortType
  BY BehindPort
<1>4. card \in GoodCard /\ card.phase = "Idle" /\ told \in ToldType /\ Traced(card, told)
  BY <1>2, PluggedCard
<1>5. port \in PortType /\ port.card = card /\ port.selected = None
  BY <1>2, <1>3, <1>4 DEF PortType, GoodCard
<1> QED
  BY <1>1, <1>2, <1>4, <1>5, ChangesKeeps DEF GoodPort

\* A card is unplugged.
LEMMA DetachCardKeeps ==
  ASSUME Inv, NEW p \in Ports, DetachCard(p)
  PROVE  Inv'
<1>1. PICK at, was, port, told :
        /\ was = ports[p] /\ at = (IF was.selected = "card" THEN None ELSE was.selected)
        /\ port = [was EXCEPT !.card = None, !.selected = at] /\ told = Untold(None)
  OBVIOUS
<1>2. Changes(p, port, told)
  BY <1>1 DEF DetachCard
<1>3. was \in PortType /\ told \in ToldType
  BY <1>1, BehindPort, NoCardTold
<1>4. at \in {None, "pad", "card"} /\ (was.selected = None => at = None)
  BY <1>1, <1>3 DEF PortType
<1>5. port \in PortType /\ port.card = None /\ port.selected = at
  BY <1>1, <1>3, <1>4 DEF PortType
<1> QED
  BY <1>1, <1>2, <1>3, <1>4, <1>5, ChangesKeeps DEF GoodPort

\* A card is saved.
LEMMA SnapshotKeeps ==
  ASSUME Inv, NEW p \in Ports, Snapshot(p)
  PROVE  Inv'
<1>1. PICK was, c, d, port, told :
        /\ was = ports[p] /\ c = was.card /\ d = [c EXCEPT !.dirty = FALSE]
        /\ port = [was EXCEPT !.card = d] /\ told = hist.told[p]
  OBVIOUS
<1>2. was \in PortType /\ told \in ToldType /\ GoodPort(was, told) /\ c # None
  BY <1>1, BehindPort DEF Snapshot
<1>3. d \in GoodCard /\ d.phase = c.phase /\ Traced(d, told)
  BY <1>1, <1>2, SavedCard DEF GoodPort
<1>4. port \in PortType /\ port.card = d /\ port.selected = was.selected
  BY <1>1, <1>2, <1>3 DEF PortType, GoodCard
<1>5. ports' = [ports EXCEPT ![p] = port] /\ UNCHANGED <<sio, event>> /\ hist' = hist
  BY <1>1 DEF Snapshot
<1>6. hist \in [told : [Ports -> ToldType], upsets : 0..MaxUpsets]
  BY DEF Inv, Sound, Linked, System, State, Devices, HistType, ToldType
<1>7. PICK n \in 0..MaxUpsets : n = hist.upsets
  BY <1>6
<1>8. hist' = [told |-> [hist.told EXCEPT ![p] = told], upsets |-> n]
  BY <1>1, <1>5, <1>6, <1>7
<1>9. GoodPort(port, told)
  BY <1>3, <1>4 DEF GoodPort
<1>10. /\ ports[p].selected = None => port.selected = None
       /\ (ports[p].card # None => ports[p].card.phase = "Idle") => (port.card # None => port.card.phase = "Idle")
  BY <1>1, <1>2, <1>3, <1>4
<1> QED
  BY <1>2, <1>4, <1>5, <1>8, <1>9, <1>10, PortChanges
-----------------------------------------------------------------------------
(* The specification keeps the invariant. *)

\* SIO0 as it is new.
LEMMA NewSioIs ==
  /\ NewSio \in AnySio /\ Lone(NewSio) /\ InTime(NewSio) /\ Quiet(NewSio)
  /\ NewSio.transfer = None /\ NewSio.ack = None /\ NewSio.ackEnd = None
<1>1. PICK y : y = NewSio
  OBVIOUS
<1>2. PICK off \in BOOLEAN : off = FALSE
  OBVIOUS
<1>3. PICK none \in SUBSET Bits : none = {}
  OBVIOUS
<1>4. y = [ctrl |-> none, rx |-> off, latched |-> off, ackInput |-> off, rxValid |-> off,
           queued |-> None, pendingAck |-> off, transfer |-> None, ack |-> None, ackEnd |-> None]
  BY <1>1, <1>2, <1>3 DEF NewSio
<1>5. None \in Times /\ None \in MaybeByte /\ None \in Deadline
  BY DEF Times, MaybeByte, Deadline
<1>6. y \in AnySio /\ y.transfer = None /\ y.ack = None /\ y.ackEnd = None /\ y.ackInput = off /\ y.pendingAck = off
  BY <1>4, <1>5 DEF AnySio
<1>7. Lone(y) /\ InTime(y) /\ Quiet(y)
  BY <1>2, <1>5, <1>6 DEF Lone, InTime, Quiet
<1> QED
  BY <1>1, <1>6, <1>7

\* A system just launched is sound.
LEMMA InitInv ==
  ASSUME Init
  PROVE  Inv
<1>1. PICK cards, pads :
        /\ \A p \in Ports : cards[p] \in Cards[p] \cup {None}
        /\ ports = [p \in Ports |->
                     [pad |-> IF p \in pads THEN IdlePad ELSE None, card |-> cards[p], selected |-> None]]
  BY DEF Init
<1>2. sio = NewSio /\ event = None
      /\ hist = [told |-> [p \in Ports |-> Untold(ports[p].card)], upsets |-> 0]
  BY DEF Init
<1>3. IdlePad \in PadType
  BY PollAssumption DEF IdlePad, PadType
<1>4. ASSUME NEW p \in Ports
      PROVE  /\ ports[p] \in PortType /\ ports[p].selected = None
             /\ ports[p].card # None => ports[p].card.phase = "Idle"
             /\ Untold(ports[p].card) \in ToldType /\ GoodPort(ports[p], Untold(ports[p].card))
  <2>1. PICK port, card, pad : /\ port = ports[p] /\ card = cards[p]
                               /\ pad = IF p \in pads THEN IdlePad ELSE None
    OBVIOUS
  <2>2. port = [pad |-> pad, card |-> card, selected |-> None]
    BY <1>1, <2>1
  <2>3. card \in Cards[p] => card \in GoodCard /\ card.phase = "Idle" /\ Untold(card) \in ToldType /\ Traced(card, Untold(card))
    BY PluggedCard
  <2>4. card = None \/ card \in Cards[p]
    BY <1>1, <2>1
  <2>5. pad \in PadType \cup {None}
    BY <1>3, <2>1
  <2>6. card \in CardType \cup {None} /\ Untold(card) \in ToldType /\ (card # None => card.phase = "Idle")
    BY <2>3, <2>4, NoCardTold DEF GoodCard
  <2>7. port \in PortType /\ port.card = card /\ port.selected = None
    BY <2>2, <2>5, <2>6 DEF PortType
  <2>8. GoodPort(port, Untold(card))
    BY <2>3, <2>4, <2>7 DEF GoodPort
  <2> QED
    BY <2>1, <2>6, <2>7, <2>8
<1>5. PICK talk : talk = [p \in Ports |-> Untold(ports[p].card)]
  OBVIOUS
<1>6. talk \in [Ports -> ToldType]
  BY <1>4, <1>5
<1>7. PICK zero \in 0..MaxUpsets : zero = 0
  BY TicksAre
<1>8. hist = [told |-> talk, upsets |-> zero]
  BY <1>2, <1>5, <1>7
<1>9. hist \in [told : [Ports -> ToldType], upsets : 0..MaxUpsets] /\ hist.told = talk
  BY <1>6, <1>8
<1>10. ports \in [Ports -> PortType]
  BY <1>1, <1>4
<1>11. Devices(ports, hist)
  BY <1>4, <1>5, <1>9, <1>10 DEF Devices, HistType, ToldType
<1>12. Linked(sio, ports, hist)
  BY <1>2, <1>4, <1>11, NewSioIs DEF Linked, Released
<1>13. Sound(System) /\ InTime(sio)
  BY <1>2, <1>12, NewSioIs, GoodIs DEF System, State
<1>14. EventIsArmed
  BY <1>2, NewSioIs DEF EventIsArmed
<1> QED
  BY <1>13, <1>14 DEF Inv

\* A clock passes: no deadline is later than a boundary may be.
LEMMA PassKeeps ==
  ASSUME Inv, Pass
  PROVE  Inv'
<1>1. sio \in AnySio /\ Lone(sio) /\ Devices(ports, hist) /\ Released(sio, ports) /\ InTime(sio) /\ EventIsArmed
  BY DEF Inv, Sound, Linked, System, State
<1>2. event # None /\ event > -MaxLate /\ event' = Later(event) /\ ports' = ports /\ hist' = hist
      /\ sio' = [sio EXCEPT !.transfer = Later(sio.transfer), !.ack = Later(sio.ack), !.ackEnd = Later(sio.ackEnd)]
  BY DEF Pass
<1>0. PICK one \in Nat : one = 1
  OBVIOUS
<1>3. PICK y : y = Shift(sio, one)
  OBVIOUS
<1>4. \A d : Later(d) = Sooner(d, one)
  BY <1>0 DEF Later, Sooner
<1>5. sio' = y
  BY <1>2, <1>3, <1>4 DEF Shift
<1>6. Sound(State(y, ports, hist))
  <2>1. PICK s : s = State(sio, ports, hist)
    OBVIOUS
  <2>2. Sound(s) /\ s.sio = sio /\ s.ports = ports /\ s.hist = hist
    BY <1>1, <2>1, GoodIs DEF Linked
  <2>3. Shifted(s, one) = State(y, ports, hist)
    BY <1>3, <2>2 DEF Shifted
  <2> QED
    BY <2>2, <2>3, ShiftedIsGood
<1>7. SoonerBy(sio, one, y)
  BY <1>1, <1>3, ShiftIs
<1>8. PICK pending : pending = {sio.transfer, sio.ack, sio.ackEnd} \ {None}
  OBVIOUS
<1>9. /\ event \in pending /\ \A d \in pending : event <= d
      /\ sio.transfer \in Deadline /\ sio.ack \in Deadline /\ sio.ackEnd \in Deadline
      /\ pending \subseteq Clocks
  <2>1. pending # {}
    BY <1>1, <1>2, <1>8 DEF EventIsArmed
  <2> QED
    BY <1>1, <1>8, <2>1 DEF EventIsArmed, InTime, Deadline
<1>10. event \in Int
  BY <1>9, TicksAre DEF Clocks
<1>11. ASSUME NEW d \in pending
       PROVE  Sooner(d, one) \in Clocks
  <2>1. event <= d /\ d \in -MaxLate..ByteTicks + AckDelay + AckPulse
    BY <1>9 DEF Clocks
  <2>2. d \in Int /\ d # None
    BY <2>1, TicksAre, NothingSelected
  <2>3. d - 1 \in -MaxLate..ByteTicks + AckDelay + AckPulse
    BY <1>2, <1>10, <2>1, <2>2, TicksAre
  <2>4. Sooner(d, one) = d - 1
    BY <1>0, <2>2 DEF Sooner
  <2> QED
    BY <2>3, <2>4 DEF Clocks
<1>12. ASSUME NEW d \in {sio.transfer, sio.ack, sio.ackEnd}
       PROVE  Sooner(d, one) \in Deadline
  BY <1>8, <1>11 DEF Sooner, Deadline
<1>13. InTime(y)
  BY <1>7, <1>12 DEF SoonerBy, InTime
<1>14. ArmedFor(y, Sooner(event, one))
  <2>1. \A d \in Times : Sooner(d, one) = None <=> d = None
    BY SoonerIs
  <2>2. sio.transfer \in Times /\ sio.ack \in Times /\ sio.ackEnd \in Times
    BY <1>1 DEF AnySio
  <2>3. ASSUME NEW e \in {y.transfer, y.ack, y.ackEnd} \ {None}
        PROVE  \E d \in pending : e = Sooner(d, one)
    BY <1>7, <1>8, <2>1, <2>2 DEF SoonerBy
  <2>4. ASSUME NEW d \in pending
        PROVE  Sooner(d, one) \in {y.transfer, y.ack, y.ackEnd} \ {None}
    BY <1>7, <1>8, <2>1, <2>2 DEF SoonerBy
  <2>5. ASSUME NEW d \in pending
        PROVE  Sooner(event, one) <= Sooner(d, one)
    <3>1. event <= d /\ d \in Int /\ d # None
      BY <1>9, TicksAre, NothingSelected DEF Clocks
    <3>2. Sooner(event, one) = event - 1 /\ Sooner(d, one) = d - 1
      BY <1>0, <1>2, <3>1 DEF Sooner
    <3> QED
      BY <1>10, <3>1, <3>2
  <2>6. Sooner(event, one) \in {y.transfer, y.ack, y.ackEnd} \ {None}
    BY <1>9, <2>4
  <2>7. \A e \in {y.transfer, y.ack, y.ackEnd} \ {None} : Sooner(event, one) <= e
    BY <2>3, <2>5
  <2> QED
    BY <2>6, <2>7 DEF ArmedFor
<1>15. EventIsArmed'
  BY <1>2, <1>4, <1>5, <1>14 DEF EventIsArmed, ArmedFor
<1>16. System' = State(y, ports, hist)
  BY <1>2, <1>5 DEF System, State
<1> QED
  BY <1>5, <1>6, <1>13, <1>15, <1>16 DEF Inv

\* A byte that software writes is one some device listens to.
LEMMA WriteDataStep ==
  ASSUME Inv, WriteData
  PROVE  Inv'
<1>1. PICK now : now = CaughtUp
  OBVIOUS
<1>2. PICK tx \in Listening(now.ports[ActivePort(now.sio.ctrl)]) : Served(WriteDataAt(now, tx))
  BY <1>1 DEF WriteData
<1>3. Kept(now)
  BY <1>1, CaughtUpIs
<1>4. now.ports \in [Ports -> PortType]
  BY <1>3 DEF Kept, Sound, Linked, Devices
<1>5. ActivePort(now.sio.ctrl) \in Ports
  BY PortsAssumption DEF ActivePort
<1>6. tx \in Byte
  BY <1>2, <1>4, <1>5, ListeningIs
<1> QED
  BY <1>2, <1>3, <1>6, WriteDataKeeps, ServedKeeps

\* A value is stored in CTRL.
LEMMA WriteCtrlStep ==
  ASSUME Inv, WriteCtrl
  PROVE  Inv'
<1>1. PICK now : now = CaughtUp
  OBVIOUS
<1>2. PICK value \in CtrlValues, acks \in BOOLEAN :
        hist.upsets + Switches(System, value) <= MaxUpsets /\ Served(WriteCtrlAt(now, value, acks))
  BY <1>1 DEF WriteCtrl
<1>3. Kept(now) /\ SamePort(sio, now.sio) /\ now.hist.upsets = hist.upsets
  BY <1>1, CaughtUpIs
<1>4. Switches(now, value) = Switches(System, value)
  <2>1. ActivePort(now.sio.ctrl) = ActivePort(sio.ctrl) /\ ("joyn" \in now.sio.ctrl <=> "joyn" \in sio.ctrl)
    BY <1>3 DEF SamePort, ActivePort
  <2>2. System.sio = sio
    BY DEF System
  <2> QED
    BY <2>1, <2>2 DEF Switches
<1> QED
  BY <1>2, <1>3, <1>4, WriteCtrlKeeps, ServedKeeps

\* A byte is read.
LEMMA ReadDataStep ==
  ASSUME Inv, ReadData
  PROVE  Inv'
<1>0. PICK off \in BOOLEAN : off = FALSE
  OBVIOUS
<1>1. PICK now, t : now = CaughtUp /\ t = [now EXCEPT !.sio.rx = off]
  OBVIOUS
<1>2. Served(t)
  BY <1>0, <1>1 DEF ReadData
<1>3. Kept(now)
  BY <1>1, CaughtUpIs
<1>4. PICK x, ends, past : x = now.sio /\ ends = now.ports /\ past = now.hist
  OBVIOUS
<1>5. now = State(x, ends, past) /\ x \in AnySio /\ Lone(x) /\ Devices(ends, past) /\ Released(x, ends) /\ InTime(x)
  BY <1>3, <1>4 DEF Kept, Sound, Linked
<1>6. PICK y : y = [x EXCEPT !.rx = off]
  OBVIOUS
<1>7. t = State(y, ends, past)
  BY <1>1, <1>5, <1>6 DEF State
<1>8. y \in AnySio /\ y.transfer = x.transfer /\ y.ack = x.ack /\ y.ackEnd = x.ackEnd /\ y.ctrl = x.ctrl
      /\ y.ackInput = x.ackInput /\ y.pendingAck = x.pendingAck
  BY <1>1, <1>5, <1>6 DEF AnySio
<1>9. Linked(y, ends, past) /\ InTime(y)
  BY <1>5, <1>8 DEF Linked, Lone, Released, Quiet, InTime
<1> QED
  BY <1>2, <1>7, <1>9, GoodIs, ServedKeeps DEF Kept

\* Every step keeps the invariant.
LEMMA NextInv ==
  ASSUME Inv, [Next]_vars
  PROVE  Inv'
<1>1. CASE WriteData
  BY <1>1, WriteDataStep
<1>2. CASE WriteCtrl
  BY <1>2, WriteCtrlStep
<1>3. CASE Reset
  BY <1>3, CaughtUpIs, ResetKeeps, ServedKeeps DEF Reset
<1>4. CASE ReadData
  BY <1>4, ReadDataStep
<1>5. CASE ReadStat
  BY <1>5, CaughtUpIs, ServedKeeps DEF ReadStat
<1>6. CASE BranchBoundary
  BY <1>6, CaughtUpIs, ServedKeeps DEF BranchBoundary
<1>7. CASE Pass
  BY <1>7, PassKeeps
<1>8. ASSUME NEW p \in Ports, AttachPad(p) \/ DetachPad(p) \/ AttachCard(p) \/ DetachCard(p) \/ Snapshot(p)
      PROVE  Inv'
  BY <1>8, AttachPadKeeps, DetachPadKeeps, AttachCardKeeps, DetachCardKeeps, SnapshotKeeps
<1>9. CASE UNCHANGED vars
  BY <1>9 DEF vars, Inv, System, EventIsArmed
<1> QED
  BY <1>1, <1>2, <1>3, <1>4, <1>5, <1>6, <1>7, <1>8, <1>9 DEF Next

\* The specification keeps the invariant.
LEMMA InvHolds == Spec => []Inv
<1>1. Init => Inv
  BY InitInv
<1>2. Inv /\ [Next]_vars => Inv'
  BY NextInv
<1> QED
  BY <1>1, <1>2, PTL DEF Spec

-----------------------------------------------------------------------------
(* The theorems. *)

\* The invariant keeps everything in its range.
LEMMA InvTypes ==
  ASSUME Inv
  PROVE  TypeOK
<1>1. sio \in AnySio /\ Lone(sio) /\ Devices(ports, hist) /\ Released(sio, ports) /\ InTime(sio) /\ EventIsArmed
  BY DEF Inv, Sound, Linked, System, State
<1>2. sio \in SioType
  BY <1>1 DEF AnySio, SioType, InTime, Bits
<1>3. \A p \in Ports : ports[p] \in PortType
  BY <1>1 DEF Devices
<1>4. hist \in HistType
  BY <1>1 DEF Devices
<1>5. event \in Deadline
  BY <1>1 DEF EventIsArmed, InTime, Deadline
<1>6. PICK D : D = {d \in {"transfer", "ack", "ackEnd"} : sio[d] # None}
  OBVIOUS
<1>7. D = {} \/ D = {"transfer"} \/ D = {"ack"} \/ D = {"ackEnd"}
  BY <1>1, <1>6 DEF Lone
<1>8. Cardinality(D) <= 1
  <2>1. Cardinality({}) = 0 /\ \A x : Cardinality({x}) = 1
    BY FS_EmptySet, FS_Singleton
  <2>2. Cardinality(D) \in {0, 1}
    BY <1>7, <2>1
  <2> QED
    BY <2>2
<1> QED
  BY <1>1, <1>2, <1>3, <1>4, <1>5, <1>6, <1>8 DEF TypeOK, Released, Quiet

\* SIO0 and its devices stay in their ranges, one deadline is pending at most and has its
\* event, and a port that is released has nothing under way.
THEOREM TypeCorrect == Spec => []TypeOK
<1>1. Inv => TypeOK
  BY InvTypes
<1> QED
  BY <1>1, InvHolds, PTL

\* Catching up late in one go, however late, is catching up at every clock: SIO0 need not
\* be clocked.
THEOREM LateIsSame == Spec => []LateServiceChangesNothing
<1>1. ASSUME Inv
      PROVE  LateServiceChangesNothing
  <2>1. Sound(System) /\ sio \in AnySio /\ System = State(sio, ports, hist)
    BY <1>1 DEF Inv, Sound, Linked, System, State
  <2>2. ASSUME NEW n \in Nat
        PROVE  [System EXCEPT
                 !.sio.transfer = IF @ = None THEN None ELSE @ - n,
                 !.sio.ack      = IF @ = None THEN None ELSE @ - n,
                 !.sio.ackEnd   = IF @ = None THEN None ELSE @ - n] = Shifted(System, n)
    <3>1. PICK s, y, a, b, c : /\ s = System /\ y = Shift(sio, n)
                               /\ a = Sooner(sio.transfer, n) /\ b = Sooner(sio.ack, n) /\ c = Sooner(sio.ackEnd, n)
      OBVIOUS
    <3>2. s.sio = sio /\ s.ports = ports /\ s.hist = hist
      BY <3>1 DEF System
    <3>3. PICK t : t = [s EXCEPT !.sio.transfer = a, !.sio.ack = b, !.sio.ackEnd = c]
      OBVIOUS
    <3>4. y = [sio EXCEPT !.transfer = a, !.ack = b, !.ackEnd = c]
      BY <3>1 DEF Shift
    <3>5. s = State(sio, ports, hist)
      BY <2>1, <3>1
    <3>6. t = State(y, ports, hist)
      BY <3>3, <3>4, <3>5 DEF State
    <3>7. Shifted(s, n) = State(y, ports, hist)
      BY <3>1, <3>2 DEF Shifted
    <3> QED
      BY <3>1, <3>2, <3>3, <3>6, <3>7 DEF Sooner
  <2>3. 1..ByteTicks + ByteTicks + AckDelay + AckPulse \subseteq Nat
    OBVIOUS
  <2> QED
    BY <2>1, <2>2, <2>3, LateIs DEF LateServiceChangesNothing
<1> QED
  BY <1>1, InvHolds, PTL

\* One sequence of bytes after another.
Joined(a, b, j) ==
  /\ j \in Seq(Byte) /\ Len(j) = Len(a) + Len(b)
  /\ \A k \in 1..Len(a) : j[k] = a[k]
  /\ \A k \in Len(a) + 1..Len(a) + Len(b) : j[k] = b[k - Len(a)]

\* One sequence of bytes after another.
LEMMA JoinedIs ==
  ASSUME NEW a \in Seq(Byte), NEW b \in Seq(Byte)
  PROVE  Joined(a, b, a \o b)
BY ConcatProperties DEF Joined

\* The reply to a read, byte for byte.
LEMMA WholeReply ==
  ASSUME NEW c \in CardType, NEW sent \in Seq(Byte), Len(sent) > 5,
         NEW r, r = ReadReply(IF c.new THEN 8 ELSE 0, sent[5], sent[6], Asked(c, sent))
  PROVE  /\ r \in Seq(Byte) /\ Len(r) = 11 + FrameBytes
         /\ \A k \in 1..11 + FrameBytes : r[k] = ReplyAt(c, sent, k)
<1>1. PICK m \in Byte, l \in Byte : m = sent[5] /\ l = sent[6]
  OBVIOUS
<1>2. m * 256 + l \in Nat /\ Asked(c, sent) = FrameOrNothing(c, m * 256 + l)
  BY <1>1, AddressIs DEF Asked
<1>3. PICK f : f = Asked(c, sent)
  OBVIOUS
<1>4. f \in [1..FrameBytes -> Byte]
  BY <1>2, <1>3, FrameOrNothingIs DEF CardType
<1>5. f \in Seq(Byte) /\ Len(f) = FrameBytes
  BY <1>4, SizesAre
<1>6. PICK sum : sum = Checksum(m, l, f)
  OBVIOUS
<1>7. sum \in Byte
  <2>1. PICK all : all = <<m, l>> \o f
    OBVIOUS
  <2>2. all \in Seq(Byte) /\ 0 \in Byte
    BY <1>5, <2>1, BytesAre
  <2> QED
    BY <1>6, <2>1, <2>2, ParityOfMore DEF Checksum
<1>8. PICK flag \in Byte : flag = IF c.new THEN 8 ELSE 0
  BY BytesAre
<1>9. PICK head, tail : head = <<flag, 90, 93, 0, m, 92, 93, m, l>> /\ tail = <<sum, Good>>
  OBVIOUS
<1>10. head \in Seq(Byte) /\ Len(head) = 9
  <2>1. 90 \in Byte /\ 93 \in Byte /\ 0 \in Byte /\ 92 \in Byte
    BY BytesAre
  <2> QED
    BY <1>9, <2>1
<1>11. tail \in Seq(Byte) /\ Len(tail) = 2 /\ tail[1] = sum /\ tail[2] = Good
  <2>1. Good \in Byte
    BY BytesAre
  <2> QED
    BY <1>7, <1>9, <2>1
<1>12. /\ head[1] = flag /\ head[2] = 90 /\ head[3] = 93 /\ head[4] = 0 /\ head[5] = m
       /\ head[6] = 92 /\ head[7] = 93 /\ head[8] = m /\ head[9] = l
  BY <1>9
<1>13. r = head \o f \o tail
  BY <1>1, <1>3, <1>6, <1>8, <1>9 DEF ReadReply
<1>14. PICK most : most = head \o f
  OBVIOUS
<1>15. /\ most \in Seq(Byte) /\ Len(most) = 9 + FrameBytes
       /\ \A k \in 1..9 : most[k] = head[k]
       /\ \A k \in 10..9 + FrameBytes : most[k] = f[k - 9]
  <2>1. PICK nine \in Nat, n \in Nat : nine = 9 /\ n = FrameBytes
    BY SizesAre
  <2>2. /\ most \in Seq(Byte) /\ Len(most) = nine + n
        /\ \A k \in 1..nine : most[k] = head[k]
        /\ \A k \in nine + 1..nine + n : most[k] = f[k - nine]
    <3>1. Joined(head, f, most)
      BY <1>5, <1>10, <1>14, JoinedIs
    <3> QED
      BY <1>5, <1>10, <2>1, <3>1 DEF Joined
  <2> QED
    BY <2>1, <2>2
<1>16. /\ r \in Seq(Byte) /\ Len(r) = 11 + FrameBytes
       /\ \A k \in 1..9 + FrameBytes : r[k] = most[k]
       /\ r[10 + FrameBytes] = sum /\ r[11 + FrameBytes] = Good
  <2>1. r = most \o tail
    BY <1>13, <1>14
  <2>2. PICK n \in Nat, two \in Nat : n = 9 + FrameBytes /\ two = 2
    BY SizesAre
  <2>3. /\ r \in Seq(Byte) /\ Len(r) = n + two
        /\ \A k \in 1..n : r[k] = most[k]
        /\ \A k \in n + 1..n + two : r[k] = tail[k - n]
    <3>1. Joined(most, tail, r)
      BY <1>11, <1>15, <2>1, JoinedIs
    <3> QED
      BY <1>11, <1>15, <2>2, <3>1 DEF Joined
  <2>4. r[n + 1] = tail[1] /\ r[n + 2] = tail[2]
    <3>1. n + 1 \in n + 1..n + two /\ n + 2 \in n + 1..n + two /\ (n + 1) - n = 1 /\ (n + 2) - n = 2
      BY <2>2
    <3> QED
      BY <2>3, <3>1
  <2>5. n + 1 = 10 + FrameBytes /\ n + 2 = 11 + FrameBytes
    BY <2>2, SizesAre
  <2> QED
    BY <1>11, <2>2, <2>3, <2>4, <2>5
<1>17. ASSUME NEW k \in 1..11 + FrameBytes
       PROVE  r[k] = ReplyAt(c, sent, k)
  <2>1. CASE k \in 1..9
    <3>1. r[k] = head[k]
      BY <1>15, <1>16, <2>1, SizesAre
    <3>2. /\ ReplyAt(c, sent, 1) = flag /\ ReplyAt(c, sent, 2) = 90
          /\ ReplyAt(c, sent, 3) = 93 /\ ReplyAt(c, sent, 4) = 0 /\ ReplyAt(c, sent, 5) = m
          /\ ReplyAt(c, sent, 6) = 92 /\ ReplyAt(c, sent, 7) = 93 /\ ReplyAt(c, sent, 8) = m
          /\ ReplyAt(c, sent, 9) = l
      BY <1>1, <1>8, ReplyIs
    <3>3. k \in {1, 2, 3, 4, 5, 6, 7, 8, 9}
      BY <2>1
    <3> QED
      BY <1>12, <3>1, <3>2, <3>3
  <2>2. CASE k \in 10..9 + FrameBytes
    <3>1. PICK i \in 0..FrameBytes - 1 : k = i + 10
      <4>1. k - 10 \in 0..FrameBytes - 1 /\ k = (k - 10) + 10
        BY <2>2, SizesAre
      <4> QED
        BY <4>1
    <3>2. ReplyAt(c, sent, i + 10) = f[i + 1]
      BY <1>3, ReplyOfFrame
    <3>3. r[k] = f[k - 9] /\ k - 9 = i + 1
      BY <1>15, <1>16, <2>2, <3>1, SizesAre
    <3> QED
      BY <3>1, <3>2, <3>3
  <2>3. CASE k = 10 + FrameBytes
    BY <1>1, <1>3, <1>6, <1>16, <2>3, ReplyAfterFrame
  <2>4. CASE k = 11 + FrameBytes
    BY <1>16, <2>4, ReplyAfterFrame
  <2> QED
    BY <2>1, <2>2, <2>3, <2>4, SizesAre
<1> QED
  BY <1>16, <1>17

\* How far a card is that is asked for a frame.
LEMMA ReadHears ==
  ASSUME NEW c \in GoodCard, NEW told \in ToldType, Traced(c, told), Len(told.sent) > 5, told.sent[2] = Read
  PROVE  HearsReply(c, told) /\ Len(told.sent) <= 11 + FrameBytes
<1>1. Read # Write /\ Read # GetId
  BY DEF Read, Write, GetId
<1>2. c \in CardType /\ Shaped(c, c.phase) /\ c.phase \in Phase
  BY DEF GoodCard, CardType
<1>3. c.phase \notin InWrite /\ c.phase \notin InId /\ c.phase # "GotAddr"
  BY <1>1 DEF Traced, TracedWrite
<1>4. c.phase = "Idle" \/ c.phase \in InRead
  BY <1>2, <1>3, PhasesAre DEF InWrite, InId, InRead, Scripted, Reading, Writing, Ending
<1>5. CASE c.phase = "Idle"
  BY <1>5 DEF Traced
<1>6. CASE c.phase \in InRead
  <2>1. HearsReply(c, told) /\ Len(told.sent) = SentIn(c)
    BY <1>6 DEF Traced, TracedRead
  <2>2. SentIn(c) <= 11 + FrameBytes
    <3>1. c.phase \in {"ReadId1", "ReadId2", "ReadMsb", "ReadLsb", "ReadAck1", "ReadAck2", "ReadEchoMsb", "ReadEchoLsb"}
            => SentIn(c) \in {2, 3, 4, 5, 6, 7, 8, 9}
      BY DEF SentIn
    <3>2. c.phase = "ReadData" => SentIn(c) = 9 + c.i
      BY DEF SentIn
    <3>3. c.phase = "ReadChecksum" => SentIn(c) = 9 + FrameBytes
      BY DEF SentIn
    <3>4. c.phase = "ReadEnd" => SentIn(c) = 10 + FrameBytes
      BY DEF SentIn
    <3>5. c.phase = "ReadData" => c.i \in Nat /\ c.i <= FrameBytes
      BY <1>2, SizesAre DEF Shaped
    <3> QED
      BY <1>6, <3>1, <3>2, <3>3, <3>4, <3>5, SizesAre DEF InRead
  <2> QED
    BY <2>1, <2>2
<1> QED
  BY <1>4, <1>5, <1>6

\* What was heard and the byte to come are the reply so far.
LEMMA HeardIsReply ==
  ASSUME NEW c \in GoodCard, NEW told \in ToldType, Traced(c, told), Len(told.sent) > 5, told.sent[2] = Read
  PROVE  IsPrefix(Append(Tail(told.heard), c.spdr),
                  ReadReply(IF c.new THEN 8 ELSE 0, told.sent[5], told.sent[6], Asked(c, told.sent)))
<1>1. PICK r : r = ReadReply(IF c.new THEN 8 ELSE 0, told.sent[5], told.sent[6], Asked(c, told.sent))
  OBVIOUS
<1>2. PICK sent \in Seq(Byte), heard \in Seq(Byte) : sent = told.sent /\ heard = told.heard
  BY DEF ToldType
<1>3. c \in CardType /\ c.spdr \in Byte /\ Len(heard) = Len(sent) /\ Len(sent) > 5
  BY <1>2 DEF GoodCard, CardType, Traced
<1>4. HearsReply(c, told) /\ Len(sent) <= 11 + FrameBytes
  BY <1>2, ReadHears
<1>5. r \in Seq(Byte) /\ Len(r) = 11 + FrameBytes /\ \A k \in 1..11 + FrameBytes : r[k] = ReplyAt(c, sent, k)
  BY <1>1, <1>2, <1>3, WholeReply
<1>6. PICK n \in Nat : n = Len(sent)
  BY <1>2
<1>7. PICK h : h = Append(Tail(heard), c.spdr)
  OBVIOUS
<1>8. /\ Tail(heard) \in Seq(Byte) /\ Len(Tail(heard)) = n - 1
      /\ \A k \in 1..n - 1 : Tail(heard)[k] = heard[k + 1]
  <2>1. heard # <<>>
    BY <1>3, <1>6
  <2> QED
    BY <1>3, <1>6, <2>1, HeadTailProperties
<1>9. /\ h \in Seq(Byte) /\ Len(h) = n /\ h[n] = c.spdr
      /\ \A k \in 1..n - 1 : h[k] = heard[k + 1]
  BY <1>3, <1>6, <1>7, <1>8
<1>10. ASSUME NEW k \in 1..n
       PROVE  h[k] = r[k]
  <2>1. r[k] = ReplyAt(c, sent, k)
    BY <1>4, <1>5, <1>6, SizesAre
  <2>2. CASE k = n
    BY <1>2, <1>4, <1>6, <1>9, <2>1, <2>2 DEF HearsReply
  <2>3. CASE k # n
    <3>1. PICK j \in 2..n : j = k + 1
      BY <1>6, <2>3
    <3>2. heard[j] = ReplyAt(c, sent, j - 1)
      BY <1>2, <1>4, <1>6, <3>1 DEF HearsReply
    <3> QED
      BY <1>9, <2>1, <2>3, <3>1, <3>2
  <2> QED
    BY <2>2, <2>3
<1>11. Len(h) <= Len(r)
  BY <1>4, <1>5, <1>6, <1>9
<1>12. SubSeq(h, 1, n) = SubSeq(r, 1, n)
  <2>1. 1 \in 1..Len(h) + 1 /\ 1 \in 1..Len(r) + 1 /\ n \in 0..Len(h) /\ n \in 0..Len(r)
    BY <1>3, <1>4, <1>5, <1>6, <1>9, SizesAre
  <2>2. SubSeq(h, 1, n) = [k \in 1..n |-> h[k]] /\ SubSeq(r, 1, n) = [k \in 1..n |-> r[k]]
    BY <1>5, <1>9, <2>1
  <2> QED
    BY <1>10, <2>2
<1> QED
  BY <1>1, <1>2, <1>7, <1>9, <1>11, <1>12 DEF IsPrefix

\* A card holds the frames it was sent whole and answers with the frames it holds.
THEOREM CardsAreFaithful == Spec => []CardIsFaithful
<1>1. ASSUME Inv
      PROVE  CardIsFaithful
  <2>1. ASSUME NEW p \in Ports, ports[p].card # None
        PROVE  /\ ports[p].card \in GoodCard /\ hist.told[p] \in ToldType
               /\ Traced(ports[p].card, hist.told[p])
    BY <1>1, <2>1, BehindPort DEF GoodPort
  <2>2. CardHoldsWhatWasWritten
    BY <2>1 DEF CardHoldsWhatWasWritten, Traced
  <2>3. ASSUME NEW p \in Ports, ports[p].card # None, Len(hist.told[p].sent) > 5, hist.told[p].sent[2] = Read
        PROVE  IsPrefix(Append(Tail(hist.told[p].heard), ports[p].card.spdr),
                 ReadReply(IF ports[p].card.new THEN 8 ELSE 0, hist.told[p].sent[5], hist.told[p].sent[6],
                           FrameOrNothing(ports[p].card, hist.told[p].sent[5] * 256 + hist.told[p].sent[6])))
    <3>1. PICK c, told : c = ports[p].card /\ told = hist.told[p]
      OBVIOUS
    <3>2. c \in GoodCard /\ told \in ToldType /\ Traced(c, told) /\ Len(told.sent) > 5 /\ told.sent[2] = Read
      BY <2>1, <2>3, <3>1
    <3> QED
      BY <3>1, <3>2, HeardIsReply DEF Asked
  <2>4. ReadReturnsTheFrame
    BY <2>3 DEF ReadReturnsTheFrame
  <2> QED
    BY <2>2, <2>4 DEF CardIsFaithful
<1> QED
  BY <1>1, InvHolds, PTL
=============================================================================
