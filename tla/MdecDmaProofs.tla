-------------------------- MODULE MdecDmaProofs --------------------------
(***************************************************************************)
(* What is proved of the MDEC and its channels, for streams, slices and    *)
(* macroblocks of every length.                                            *)
(*                                                                         *)
(* The methods of Bus and Mdec take and return a system, so the inductive  *)
(* invariant is stated of a system too: Sound is what is kept of a frame   *)
(* whoever runs the decoder, Timely what is kept of channel 0's transfer.  *)
(* Each method has a lemma that says what it returns, each action of Next  *)
(* one that cites its methods'.  dma_read_out's loop is met once, in       *)
(* ReadOutStays, by looking at the first word that breaks a property.      *)
(***************************************************************************)
EXTENDS MdecDma, FiniteSetTheorems, SequenceTheorems, WellFoundedInduction, TLAPS

-----------------------------------------------------------------------------
(* The least natural number, and dma_read_out's loop. *)

\* A set of natural numbers has a least one.
LEMMA LeastNat ==
  ASSUME NEW T \in SUBSET Nat, T # {}
  PROVE  \E m \in T : \A t \in T : m <= t
<1>1. PICK R : R = OpToRel(<, Nat)
  OBVIOUS
<1>2. IsWellFoundedOn(R, Nat)
  BY <1>1, NatLessThanWellFounded
<1>3. PICK m \in T : \A t \in T : <<t, m>> \notin R
  BY <1>2, WFMin
<1>4. \A t \in T : <<t, m>> \in Nat \X Nat /\ (t < m => <<t, m>> \in R)
  BY <1>1 DEF OpToRel
<1>5. ASSUME NEW t \in T PROVE m <= t
  <2>1. t \in Nat /\ m \in Nat /\ ~(t < m)
    BY <1>3, <1>4
  <2> QED
    BY <2>1
<1> QED
  BY <1>5

\* What a word read out of the decoder keeps, any number of words keep.
LEMMA ReadOutStays ==
  ASSUME NEW G, NEW s \in G, NEW n \in Nat, \A r \in G : Pop(Refill(r)) \in G
  PROVE  DmaReadOut(s, n) \in G
<1> DEFINE Run(f, m) == f = [k \in 0..m |-> IF k = 0 THEN s ELSE Pop(Refill(f[k - 1]))]
<1>1. \A m \in Nat : \E f : Run(f, m)
  <2> SUFFICES ASSUME NEW b \in {m \in Nat : ~\E f : Run(f, m)} PROVE FALSE
    OBVIOUS
  <2> DEFINE T == {m \in Nat : ~\E f : Run(f, m)}
  <2>1. PICK m \in T : \A t \in T : m <= t
    <3>1. T \in SUBSET Nat /\ T # {}
      OBVIOUS
    <3> HIDE DEF T
    <3> QED
      BY <3>1, LeastNat
  <2>2. m \in Nat /\ ~\E f : Run(f, m)
    OBVIOUS
  <2>3. CASE m = 0
    <3>1. Run([k \in 0..0 |-> s], 0)
      OBVIOUS
    <3> QED
      BY <2>2, <2>3, <3>1
  <2>4. CASE m # 0
    <3>1. m - 1 \in Nat /\ ~(m <= m - 1)
      BY <2>2, <2>4
    <3>less. m - 1 \notin T
      BY <2>1, <3>1
    <3>2. PICK f : Run(f, m - 1)
      BY <3>1, <3>less
    <3> DEFINE g == [k \in 0..m |-> IF k = m THEN Pop(Refill(f[m - 1])) ELSE f[k]]
    <3>3. Run(g, m)
      <4>1. ASSUME NEW k \in 0..m
            PROVE  g[k] = IF k = 0 THEN s ELSE Pop(Refill(g[k - 1]))
        <5>1. CASE k = m
          BY <2>2, <2>4, <5>1
        <5>2. CASE k # m
          <6>1. k \in 0..m - 1 /\ (k # 0 => k - 1 \in 0..m /\ k - 1 # m)
            BY <2>2, <5>2
          <6>2. g[k] = f[k] /\ (k # 0 => g[k - 1] = f[k - 1])
            BY <5>2, <6>1
          <6>3. f[k] = IF k = 0 THEN s ELSE Pop(Refill(f[k - 1]))
            BY <3>2, <6>1
          <6> QED
            BY <6>2, <6>3
        <5> QED
          BY <5>1, <5>2
      <4>2. g = [k \in 0..m |-> g[k]]
        OBVIOUS
      <4> HIDE DEF g
      <4> QED
        BY <4>1, <4>2
    <3> QED
      BY <2>2, <3>3
  <2> QED
    BY <2>3, <2>4
<1>2. PICK after : after = CHOOSE f : Run(f, n)
  OBVIOUS
<1>3. Run(after, n)
  BY <1>1, <1>2
<1>4. DmaReadOut(s, n) = after[n]
  BY <1>2 DEF DmaReadOut
<1>5. \A k \in 0..n : after[k] \in G
  <2> DEFINE T == {k \in 0..n : after[k] \notin G}
  <2> SUFFICES ASSUME T # {} PROVE FALSE
    OBVIOUS
  <2>1. PICK m \in T : \A t \in T : m <= t
    <3>1. T \in SUBSET Nat
      OBVIOUS
    <3> HIDE DEF T
    <3> QED
      BY <3>1, LeastNat
  <2>2. m \in 0..n /\ after[m] \notin G
    OBVIOUS
  <2>3. m # 0
    BY <1>3, <2>2
  <2>4. m - 1 \in 0..n /\ m - 1 \notin T
    BY <2>1, <2>2, <2>3
  <2>5. after[m - 1] \in G
    BY <2>4
  <2>6. after[m] = Pop(Refill(after[m - 1]))
    BY <1>3, <2>2, <2>3
  <2> QED
    BY <2>2, <2>5, <2>6
<1> QED
  BY <1>4, <1>5

-----------------------------------------------------------------------------
(* The data words of a stream. *)

\* Where the data words of a stream are.
Places(w) == {i \in DOMAIN w : w[i] = "data"}

\* They are counted by a finite set of places.
LEMMA DataIs ==
  ASSUME NEW w \in Seq(Word)
  PROVE  /\ Places(w) = {i \in 1..Len(w) : w[i] = "data"}
         /\ IsFiniteSet(Places(w)) /\ Places(w) \subseteq Nat
         /\ Data(w) = Cardinality(Places(w)) /\ Data(w) \in Nat
<1>1. Places(w) = {i \in 1..Len(w) : w[i] = "data"} /\ Len(w) \in Nat
  BY LenProperties DEF Places
<1>2. IsFiniteSet(1..Len(w))
  BY <1>1, FS_Interval
<1>3. IsFiniteSet(Places(w)) /\ Places(w) \subseteq Nat
  BY <1>1, <1>2, FS_Subset
<1>4. Data(w) = Cardinality(Places(w))
  BY DEF Data, Places
<1> QED
  BY <1>1, <1>3, <1>4, FS_CardinalityType

\* An empty stream has none.
LEMMA DataEmpty ==
  /\ <<>> \in Seq(Word) /\ Data(<<>>) = 0
  /\ \A w \in Seq(Word) : Data(w) # 0 => w # <<>>
<1>1. <<>> \in Seq(Word) /\ Len(<<>>) = 0
  BY EmptySeq
<1>2. Places(<<>>) = {}
  <2>1. Places(<<>>) = {i \in 1..Len(<<>>) : <<>>[i] = "data"}
    BY <1>1, DataIs
  <2>2. 1..Len(<<>>) = {}
    BY <1>1
  <2> QED
    BY <2>1, <2>2
<1>3. Data(<<>>) = 0
  BY <1>1, <1>2, DataIs, FS_EmptySet
<1> QED
  BY <1>1, <1>3

\* A prefix one word longer.
LEMMA DataOfPrefix ==
  ASSUME NEW w \in Seq(Word), NEW k \in 1..Len(w)
  PROVE  /\ SubSeq(w, 1, k) \in Seq(Word) /\ SubSeq(w, 1, k - 1) \in Seq(Word)
         /\ Data(SubSeq(w, 1, k)) =
              Data(SubSeq(w, 1, k - 1)) + (IF w[k] = "data" THEN 1 ELSE 0)
<1>1. Len(w) \in Nat /\ \A i \in 1..Len(w) : w[i] \in Word
  BY LenProperties
<1>2. \A m \in 0..Len(w) :
        /\ SubSeq(w, 1, m) \in Seq(Word) /\ Len(SubSeq(w, 1, m)) = m
        /\ \A i \in 1..m : SubSeq(w, 1, m)[i] = w[i]
  <2>1. ASSUME NEW m \in 0..Len(w)
        PROVE  /\ SubSeq(w, 1, m) \in Seq(Word) /\ Len(SubSeq(w, 1, m)) = m
               /\ \A i \in 1..m : SubSeq(w, 1, m)[i] = w[i]
    <3>1. 1 \in Int /\ m \in Int /\ \A i \in 1..m : w[i] \in Word
      BY <1>1
    <3>2. /\ SubSeq(w, 1, m) \in Seq(Word)
          /\ Len(SubSeq(w, 1, m)) = IF 1 <= m THEN m - 1 + 1 ELSE 0
          /\ \A i \in 1..m - 1 + 1 : SubSeq(w, 1, m)[i] = w[1 + i - 1]
      BY <3>1, SubSeqProperties
    <3> QED
      BY <1>1, <3>2
  <2> QED
    BY <2>1
<1>3. PICK p, q : p = SubSeq(w, 1, k) /\ q = SubSeq(w, 1, k - 1)
  OBVIOUS
<1>4. k \in 0..Len(w) /\ k - 1 \in 0..Len(w)
  BY <1>1
<1>5. /\ p \in Seq(Word) /\ q \in Seq(Word)
      /\ Places(p) = {i \in 1..k : w[i] = "data"}
      /\ Places(q) = {i \in 1..k - 1 : w[i] = "data"}
  <2>1. /\ p \in Seq(Word) /\ Len(p) = k /\ \A i \in 1..k : p[i] = w[i]
        /\ q \in Seq(Word) /\ Len(q) = k - 1 /\ \A i \in 1..k - 1 : q[i] = w[i]
    BY <1>2, <1>3, <1>4
  <2> QED
    BY <2>1, DataIs
<1>6. k \notin Places(q) /\ Places(p) = IF w[k] = "data" THEN Places(q) \cup {k} ELSE Places(q)
  <2>1. \A i \in 1..k : i = k \/ i \in 1..k - 1
    BY <1>1
  <2>2. k \in 1..k /\ 1..k - 1 \subseteq 1..k /\ k \notin 1..k - 1
    BY <1>1
  <2> QED
    BY <1>5, <2>1, <2>2
<1>7. IsFiniteSet(Places(q)) /\ Data(q) = Cardinality(Places(q)) /\ Data(q) \in Nat
      /\ Data(p) = Cardinality(Places(p))
  BY <1>5, DataIs
<1>8. Cardinality(Places(q) \cup {k}) = Cardinality(Places(q)) + 1
  BY <1>6, <1>7, FS_AddElement
<1> QED
  BY <1>3, <1>5, <1>6, <1>7, <1>8

\* A stream and its two parts.
LEMMA DataOfParts ==
  ASSUME NEW w \in Seq(Word), NEW k \in 0..Len(w)
  PROVE  /\ SubSeq(w, k + 1, Len(w)) \in Seq(Word)
         /\ Data(w) = Data(SubSeq(w, 1, k)) + Data(SubSeq(w, k + 1, Len(w)))
<1>parts. PICK p, q : p = SubSeq(w, 1, k) /\ q = SubSeq(w, k + 1, Len(w))
  OBVIOUS
<1>1. Len(w) \in Nat /\ \A i \in 1..Len(w) : w[i] \in Word
  BY LenProperties
<1>2. /\ p \in Seq(Word) /\ Len(p) = k
      /\ \A i \in 1..k : p[i] = w[i]
  <2>1. 1 \in Int /\ k \in Int /\ \A i \in 1..k : w[i] \in Word
    BY <1>1
  <2>2. /\ p \in Seq(Word)
        /\ Len(p) = IF 1 <= k THEN k - 1 + 1 ELSE 0
        /\ \A i \in 1..k - 1 + 1 : p[i] = w[1 + i - 1]
    BY <1>parts, <2>1, SubSeqProperties
  <2> QED
    BY <1>1, <2>2
<1>3. /\ q \in Seq(Word) /\ Len(q) = Len(w) - k
      /\ \A i \in 1..Len(w) - k : q[i] = w[k + i]
  <2>1. k + 1 \in Int /\ Len(w) \in Int /\ \A i \in k + 1..Len(w) : w[i] \in Word
    BY <1>1
  <2>2. /\ q \in Seq(Word)
        /\ Len(q) = IF k + 1 <= Len(w) THEN Len(w) - (k + 1) + 1 ELSE 0
        /\ \A i \in 1..Len(w) - (k + 1) + 1 : q[i] = w[k + 1 + i - 1]
    BY <1>parts, <2>1, SubSeqProperties
  <2>3. /\ Len(q) = Len(w) - k /\ Len(w) - (k + 1) + 1 = Len(w) - k
        /\ \A i \in 1..Len(w) - k : k + 1 + i - 1 = k + i
    BY <1>1, <2>2
  <2> QED
    BY <2>2, <2>3
<1>4. PICK Q : Q = {i \in k + 1..Len(w) : w[i] = "data"}
  OBVIOUS
<1>5. Places(w) = Places(p) \cup Q /\ Places(p) \cap Q = {}
  <2>1. Places(w) = {i \in 1..Len(w) : w[i] = "data"} /\ Places(p) = {i \in 1..k : p[i] = "data"}
    BY <1>2, DataIs
  <2>2. \A i \in 1..Len(w) : i \in 1..k \/ i \in k + 1..Len(w)
    BY <1>1
  <2>3. 1..k \subseteq 1..Len(w) /\ k + 1..Len(w) \subseteq 1..Len(w)
    BY <1>1
  <2>4. \A i \in 1..k : i \notin k + 1..Len(w)
    BY <1>1
  <2> QED
    BY <1>2, <1>4, <2>1, <2>2, <2>3, <2>4
<1>6. IsFiniteSet(Places(q)) /\ Places(q) = {i \in 1..Len(w) - k : q[i] = "data"}
      /\ Data(q) = Cardinality(Places(q))
  BY <1>3, DataIs
<1>7. IsFiniteSet(Q) /\ Cardinality(Q) = Cardinality(Places(q))
  <2> DEFINE f == [i \in Places(q) |-> k + i]
  <2>1. f \in [Places(q) -> Q]
    <3>1. ASSUME NEW i \in Places(q) PROVE k + i \in Q
      <4>1. i \in 1..Len(w) - k /\ q[i] = "data" /\ q[i] = w[k + i]
        BY <1>3, <1>6
      <4>2. k + i \in k + 1..Len(w)
        BY <1>1, <4>1
      <4> QED
        BY <1>4, <4>1, <4>2
    <3> QED
      BY <3>1
  <2>2. \A a, b \in Places(q) : f[a] = f[b] => a = b
    BY <1>1, <1>6
  <2>3. \A t \in Q : \E i \in Places(q) : f[i] = t
    <3>1. ASSUME NEW t \in Q PROVE \E i \in Places(q) : f[i] = t
      <4>1. t - k \in 1..Len(w) - k /\ k + (t - k) = t
        BY <1>1, <1>4
      <4>2. t - k \in Places(q)
        BY <1>3, <1>4, <1>6, <4>1
      <4> QED
        BY <4>1, <4>2
    <3> QED
      BY <3>1
  <2> HIDE DEF f
  <2>4. f \in Bijection(Places(q), Q)
    BY <2>1, <2>2, <2>3 DEF Bijection, Injection, Surjection, IsInjective
  <2>5. ExistsBijection(Places(q), Q)
    BY <2>4 DEF ExistsBijection
  <2> QED
    BY <1>6, <2>5, FS_Bijection
<1>8. IsFiniteSet(Places(p)) /\ Data(p) = Cardinality(Places(p)) /\ Data(p) \in Nat
      /\ Data(q) \in Nat /\ Data(w) = Cardinality(Places(w))
  BY <1>2, <1>3, DataIs
<1>9. Cardinality(Places(p) \cup Q) = Cardinality(Places(p)) + Cardinality(Q)
  <2>1. PICK P : P = Places(p)
    OBVIOUS
  <2>2. IsFiniteSet(P) /\ IsFiniteSet(Q) /\ P \cap Q = {}
    BY <1>5, <1>7, <1>8, <2>1
  <2>3. Cardinality(P \cup Q) = Cardinality(P) + Cardinality(Q) - Cardinality(P \cap Q)
    BY <2>2, FS_Union, Zenon
  <2>4. Cardinality(P \cap Q) = 0
    BY <2>2, FS_EmptySet
  <2>5. Cardinality(P) \in Nat /\ Cardinality(Q) \in Nat
    BY <2>2, FS_CardinalityType
  <2> QED
    BY <2>1, <2>3, <2>4, <2>5
<1> QED
  BY <1>parts, <1>2, <1>3, <1>5, <1>6, <1>7, <1>8, <1>9

\* Before a stream's data words run out, some prefix ends with the last of a macroblock.
LEMMA MacroblockEnds ==
  ASSUME NEW w \in Seq(Word), Data(w) >= BlockWords
  PROVE  \E i \in DOMAIN w : w[i] = "data" /\ Data(SubSeq(w, 1, i)) = BlockWords
<1>1. Len(w) \in Nat /\ DOMAIN w = 1..Len(w) /\ BlockWords \in Nat \ {0}
  BY LenProperties, BlockAssumption
<1>2. PICK T : T = {i \in 1..Len(w) : Data(SubSeq(w, 1, i)) >= BlockWords}
  OBVIOUS
<1>3. Len(w) \in T
  <2>1. Len(w) # 0
    <3>1. w # <<>>
      BY <1>1, DataEmpty
    <3> QED
      BY <3>1, EmptySeq
  <2>2. SubSeq(w, 1, Len(w)) = w
    BY SubSeqFull
  <2>3. Len(w) \in 1..Len(w)
    BY <1>1, <2>1
  <2> QED
    BY <1>2, <2>2, <2>3
<1>4. PICK m \in T : \A t \in T : m <= t
  <2>1. T \in SUBSET Nat /\ T # {}
    BY <1>2, <1>3
  <2> QED
    BY <2>1, LeastNat
<1>5. m \in 1..Len(w) /\ Data(SubSeq(w, 1, m)) >= BlockWords
  BY <1>2
<1>6. Data(SubSeq(w, 1, m - 1)) \in Nat /\ Data(SubSeq(w, 1, m - 1)) < BlockWords
  <2>1. SubSeq(w, 1, m - 1) \in Seq(Word)
    BY <1>5, DataOfPrefix
  <2>2. Data(SubSeq(w, 1, m - 1)) \in Nat
    BY <2>1, DataIs
  <2>3. CASE m = 1
    <3>1. SubSeq(w, 1, 0) = <<>>
      BY SubSeqEmpty
    <3>2. m - 1 = 0
      BY <2>3
    <3>3. Data(SubSeq(w, 1, m - 1)) = 0
      BY <3>1, <3>2, DataEmpty
    <3> QED
      BY <1>1, <3>3
  <2>4. CASE m # 1
    <3>1. m - 1 \in 1..Len(w) /\ ~(m <= m - 1)
      BY <1>1, <1>5, <2>4
    <3>2. ~(Data(SubSeq(w, 1, m - 1)) >= BlockWords)
      BY <1>2, <1>4, <3>1
    <3> QED
      BY <1>1, <2>2, <3>2
  <2> QED
    BY <2>3, <2>4
<1>7. w[m] = "data" /\ Data(SubSeq(w, 1, m)) = BlockWords
  <2>1. Data(SubSeq(w, 1, m)) = Data(SubSeq(w, 1, m - 1)) + (IF w[m] = "data" THEN 1 ELSE 0)
    BY <1>5, DataOfPrefix
  <2>2. CASE w[m] = "data"
    BY <1>1, <1>5, <1>6, <2>1, <2>2
  <2>3. CASE w[m] # "data"
    BY <1>1, <1>5, <1>6, <2>1, <2>3
  <2> QED
    BY <2>2, <2>3
<1> QED
  BY <1>1, <1>5, <1>7

\* A macroblock less, in data words and in macroblocks.
LEMMA OneBlockLess ==
  ASSUME NEW n \in Nat, NEW b \in Nat \ {0}
  PROVE  /\ n \div b \in Nat
         /\ n < b => n \div b = 0
         /\ n >= b => (n - b) \div b = (n \div b) - 1 /\ (n - b) \div b \in Nat
OBVIOUS

-----------------------------------------------------------------------------
(* The decoder's methods. *)

\* The systems the methods work on.
SystemType == [mdec : MdecType, dma : DmaType, hist : HistType]

\* A decoder that has only moved words through its queues.
SameCommand(d, e) ==
  /\ e.code = d.code /\ e.busy = d.busy /\ e.expected = d.expected
  /\ e.inEnabled = d.inEnabled /\ e.waiting = d.waiting /\ e.reset = d.reset

\* The output words a decoder holds, decoded or not.
Holds(d) == d.out + OutWords * Blocks(d.rl)

\* Macroblocks are whole, and what is left of less than one is none.
LEMMA BlocksIs ==
  ASSUME NEW w \in Seq(Word)
  PROVE  Blocks(w) \in Nat /\ OutWords * Blocks(w) \in Nat
         /\ (Data(w) < BlockWords => Blocks(w) = 0)
<1>1. Data(w) \in Nat /\ BlockWords \in Nat \ {0} /\ OutWords \in Nat
  BY DataIs, BlockAssumption
<1>2. Blocks(w) \in Nat /\ (Data(w) < BlockWords => Blocks(w) = 0)
  BY <1>1, OneBlockLess DEF Blocks
<1>3. \A a, b \in Nat : a * b \in Nat
  OBVIOUS
<1> QED
  BY <1>1, <1>2, <1>3

\* A decoded macroblock is a block less in the queue and its words more at the output.
LEMMA DecodeConserves ==
  ASSUME NEW d \in MdecType
  PROVE  /\ DecodeOne(d) \in MdecType /\ SameCommand(d, DecodeOne(d))
         /\ Holds(DecodeOne(d)) = Holds(d)
<1>1. d.rl \in Seq(Word) /\ d.out \in Nat
  BY DEF MdecType
<1>2. /\ Data(d.rl) \in Nat /\ BlockWords \in Nat \ {0} /\ OutWords \in Nat
      /\ <<>> \in Seq(Word) /\ Data(<<>>) = 0
  BY <1>1, DataIs, DataEmpty, BlockAssumption
<1>3. CASE Data(d.rl) < BlockWords
  <2>1. DecodeOne(d) = [d EXCEPT !.rl = <<>>]
    BY <1>3 DEF DecodeOne
  <2>2. /\ DecodeOne(d) \in MdecType /\ SameCommand(d, DecodeOne(d))
        /\ DecodeOne(d).rl = <<>> /\ DecodeOne(d).out = d.out
    BY <1>2, <2>1 DEF MdecType, SameCommand
  <2>3. Blocks(<<>>) = 0 /\ Blocks(d.rl) = 0
    <3>1. Data(<<>>) < BlockWords
      BY <1>2
    <3> QED
      BY <1>1, <1>2, <1>3, <3>1, BlocksIs
  <2> QED
    BY <2>2, <2>3 DEF Holds
<1>4. CASE ~(Data(d.rl) < BlockWords)
  <2> DEFINE Ends(i) == d.rl[i] = "data" /\ Data(SubSeq(d.rl, 1, i)) = BlockWords
  <2>1. PICK last : last = CHOOSE i \in DOMAIN d.rl : Ends(i)
    OBVIOUS
  <2>2. last \in DOMAIN d.rl /\ Data(SubSeq(d.rl, 1, last)) = BlockWords
    <3>1. Data(d.rl) >= BlockWords
      BY <1>2, <1>4
    <3>2. \E i \in DOMAIN d.rl : Ends(i)
      BY <1>1, <3>1, MacroblockEnds
    <3> QED
      BY <2>1, <3>2
  <2>3. PICK rest : rest = SubSeq(d.rl, last + 1, Len(d.rl))
    OBVIOUS
  <2>4. DecodeOne(d) = [d EXCEPT !.rl = rest, !.out = d.out + OutWords]
    BY <1>4, <2>1, <2>3 DEF DecodeOne
  <2>5. rest \in Seq(Word) /\ Data(d.rl) = BlockWords + Data(rest)
    <3>1. last \in 0..Len(d.rl)
      BY <1>1, <2>2, LenProperties
    <3>2. PICK w \in Seq(Word) : w = d.rl
      BY <1>1
    <3>3. last \in 0..Len(w)
      BY <3>1, <3>2
    <3>4. /\ SubSeq(w, last + 1, Len(w)) \in Seq(Word)
          /\ Data(w) = Data(SubSeq(w, 1, last)) + Data(SubSeq(w, last + 1, Len(w)))
      BY <3>3, DataOfParts
    <3> QED
      BY <2>2, <2>3, <3>2, <3>4
  <2>6. /\ DecodeOne(d) \in MdecType /\ SameCommand(d, DecodeOne(d))
        /\ DecodeOne(d).rl = rest /\ DecodeOne(d).out = d.out + OutWords
    <3>1. PICK o \in Nat : o = d.out + OutWords
      BY <1>1, <1>2
    <3>2. DecodeOne(d) = [d EXCEPT !.rl = rest, !.out = o]
      BY <2>4, <3>1
    <3> QED
      BY <2>5, <3>1, <3>2 DEF MdecType, SameCommand
  <2>7. Blocks(rest) = Blocks(d.rl) - 1 /\ Blocks(rest) \in Nat
    <3>1. Data(rest) \in Nat
      BY <2>5, DataIs
    <3>2. Data(d.rl) - BlockWords = Data(rest) /\ Data(d.rl) >= BlockWords
      BY <1>2, <2>5, <3>1
    <3> QED
      BY <1>2, <3>2, OneBlockLess DEF Blocks
  <2>8. \A a, b, c \in Nat : b = a - 1 => c + OutWords * a = c + OutWords + OutWords * b
    BY <1>2
  <2>9. d.out + OutWords + OutWords * Blocks(rest) = d.out + OutWords * Blocks(d.rl)
    BY <1>1, <2>7, <2>8, BlocksIs
  <2> QED
    BY <2>6, <2>9 DEF Holds
<1> QED
  BY <1>3, <1>4

\* What decoding and taking words leave alone.
SameFrame(s, r) ==
  /\ r \in SystemType /\ r.dma = s.dma /\ SameCommand(s.mdec, r.mdec)
  /\ r.hist.given = s.hist.given /\ r.hist.fed = s.hist.fed /\ r.hist.carries = s.hist.carries
  /\ r.hist.abandoned = s.hist.abandoned /\ r.hist.ported = s.hist.ported
  /\ r.hist.stale = s.hist.stale

\* The decoder runs only when no output is left, and its input is then not complete
\* while parameters are expected.
LEMMA RefillIs ==
  ASSUME NEW s \in SystemType
  PROVE  /\ SameFrame(s, Refill(s))
         /\ Holds(Refill(s).mdec) = Holds(s.mdec) /\ Refill(s).hist.taken = s.hist.taken
         /\ \/ Refill(s) = s /\ ~(s.mdec.out = 0 /\ CanContinue(s.mdec))
            \/ /\ s.mdec.out = 0 /\ CanContinue(s.mdec)
               /\ Refill(s).hist.early = (s.hist.early \/ s.mdec.expected # 0)
<1>1. s.mdec \in MdecType /\ s.dma \in DmaType /\ s.hist \in HistType
  BY DEF SystemType
<1>2. CASE s.mdec.out = 0 /\ CanContinue(s.mdec)
  <2>1. PICK d : d = DecodeOne(s.mdec)
    OBVIOUS
  <2>2. PICK h : h = [s.hist EXCEPT !.early = s.hist.early \/ s.mdec.expected # 0]
    OBVIOUS
  <2>3. Refill(s).mdec = d /\ Refill(s).hist = h /\ Refill(s).dma = s.dma
        /\ Refill(s) \in [mdec : {d}, dma : {s.dma}, hist : {h}]
    BY <1>2, <2>1, <2>2 DEF Refill, SystemType
  <2>4. d \in MdecType /\ SameCommand(s.mdec, d) /\ Holds(d) = Holds(s.mdec)
    BY <1>1, <2>1, DecodeConserves
  <2>5. /\ h \in HistType /\ h.early = (s.hist.early \/ s.mdec.expected # 0)
        /\ h.given = s.hist.given /\ h.fed = s.hist.fed /\ h.carries = s.hist.carries
        /\ h.abandoned = s.hist.abandoned /\ h.ported = s.hist.ported
        /\ h.stale = s.hist.stale /\ h.taken = s.hist.taken
    <3>1. PICK b \in BOOLEAN : b = (s.hist.early \/ s.mdec.expected # 0)
      <4>1. (s.hist.early \/ s.mdec.expected # 0) \in BOOLEAN
        OBVIOUS
      <4> QED
        BY <4>1
    <3>2. h = [s.hist EXCEPT !.early = b]
      BY <2>2, <3>1
    <3>3. h.early = b /\ h \in HistType
      BY <1>1, <3>2 DEF HistType
    <3> QED
      BY <1>1, <3>1, <3>2, <3>3 DEF HistType
  <2>6. Refill(s) \in SystemType
    BY <1>1, <2>3, <2>4, <2>5 DEF SystemType
  <2> QED
    BY <1>2, <2>3, <2>4, <2>5, <2>6 DEF SameFrame
<1>3. CASE ~(s.mdec.out = 0 /\ CanContinue(s.mdec))
  <2>1. Refill(s) = s
    BY <1>3 DEF Refill
  <2> QED
    BY <1>3, <2>1 DEF SameFrame, SameCommand
<1> QED
  BY <1>2, <1>3

\* A word taken is one held less.
LEMMA PopIs ==
  ASSUME NEW s \in SystemType
  PROVE  /\ SameFrame(s, Pop(s)) /\ Pop(s).mdec.rl = s.mdec.rl
         /\ Pop(s).hist.taken + Holds(Pop(s).mdec) = s.hist.taken + Holds(s.mdec)
         /\ Pop(s).hist.early = s.hist.early
         /\ s.mdec.out = 0 => Pop(s) = s
<1>1. s.mdec \in MdecType /\ s.dma \in DmaType /\ s.hist \in HistType
  BY DEF SystemType
<1>2. CASE s.mdec.out # 0
  <2>1. PICK d, h : /\ d = [s.mdec EXCEPT !.out = s.mdec.out - 1]
                    /\ h = [s.hist EXCEPT !.taken = s.hist.taken + 1]
    OBVIOUS
  <2>2. Pop(s).mdec = d /\ Pop(s).hist = h /\ Pop(s).dma = s.dma
        /\ Pop(s) \in [mdec : {d}, dma : {s.dma}, hist : {h}]
    BY <1>2, <2>1 DEF Pop, SystemType
  <2>3. s.mdec.out \in Nat /\ s.hist.taken \in Nat /\ s.mdec.out - 1 \in Nat
    BY <1>1, <1>2 DEF MdecType, HistType
  <2>4. /\ d \in MdecType /\ SameCommand(s.mdec, d) /\ d.out = s.mdec.out - 1
        /\ d.rl = s.mdec.rl /\ s.mdec.rl \in Seq(Word)
    BY <1>1, <2>1, <2>3 DEF MdecType, SameCommand
  <2>5. /\ h \in HistType /\ h.early = s.hist.early
        /\ h.given = s.hist.given /\ h.fed = s.hist.fed /\ h.carries = s.hist.carries
        /\ h.abandoned = s.hist.abandoned /\ h.ported = s.hist.ported
        /\ h.stale = s.hist.stale /\ h.taken = s.hist.taken + 1
    <3>1. PICK t \in Nat : t = s.hist.taken + 1
      BY <2>3
    <3>2. h = [s.hist EXCEPT !.taken = t]
      BY <2>1, <3>1
    <3> QED
      BY <1>1, <3>1, <3>2 DEF HistType
  <2>6. Pop(s) \in SystemType
    BY <1>1, <2>2, <2>4, <2>5 DEF SystemType
  <2>7. h.taken + Holds(d) = s.hist.taken + Holds(s.mdec)
    <3>1. PICK b \in Nat : b = OutWords * Blocks(s.mdec.rl)
      BY <2>4, BlocksIs
    <3>2. Holds(d) = d.out + b /\ Holds(s.mdec) = s.mdec.out + b
      BY <2>4, <3>1 DEF Holds
    <3> QED
      BY <2>3, <2>4, <2>5, <3>1, <3>2
  <2> QED
    BY <1>2, <2>2, <2>4, <2>5, <2>6, <2>7 DEF SameFrame
<1>3. CASE s.mdec.out = 0
  <2>1. Pop(s) = s
    BY <1>3 DEF Pop
  <2> QED
    BY <2>1 DEF SameFrame, SameCommand
<1> QED
  BY <1>2, <1>3

-----------------------------------------------------------------------------
(* What is kept of a frame, whoever runs the decoder. *)

\* Only a decode or a table command expects parameters.
Coded(s) == s.mdec.expected # 0 => s.mdec.code \in {"decode", "table"}

\* What was taken of the frame and what the decoder holds are the frame.
Kept(s) ==
  s.hist.fed = "dma" \/ ~s.hist.early =>
    s.hist.taken + Holds(s.mdec) = OutWords * Blocks(s.hist.given)

\* A frame that the CPU is still feeding is untouched until somebody runs the decoder.
Fresh(s) ==
  s.mdec.code = "decode" /\ s.mdec.expected # 0 /\ ~s.hist.early =>
    Data(s.mdec.rl) = Data(s.hist.given) /\ s.mdec.out = 0 /\ s.hist.taken = 0

\* What is kept of a frame.
Sound(s) == s \in SystemType /\ Coded(s) /\ Kept(s) /\ Fresh(s)

\* Decoding, popping and any number of both keep what Sound says.
LEMMA SameFrameTwice ==
  ASSUME NEW s, NEW r, NEW q, SameFrame(s, r), SameFrame(r, q)
  PROVE  SameFrame(s, q)
BY DEF SameFrame, SameCommand

LEMMA RefillSound ==
  ASSUME NEW s, Sound(s)
  PROVE  SameFrame(s, Refill(s)) /\ Sound(Refill(s))
<1>1. s \in SystemType /\ Coded(s) /\ Kept(s) /\ Fresh(s)
  BY DEF Sound
<1>2. PICK r : r = Refill(s)
  OBVIOUS
<1>3. /\ SameFrame(s, r) /\ Holds(r.mdec) = Holds(s.mdec) /\ r.hist.taken = s.hist.taken
      /\ \/ r = s
         \/ r.hist.early = (s.hist.early \/ s.mdec.expected # 0)
  BY <1>1, <1>2, RefillIs
<1>4. CASE r = s
  BY <1>2, <1>3, <1>4
<1>5. CASE r.hist.early = (s.hist.early \/ s.mdec.expected # 0)
  <2>1. r \in SystemType /\ Coded(r)
    BY <1>1, <1>3 DEF SameFrame, SameCommand, Coded
  <2>2. Kept(r)
    BY <1>1, <1>3, <1>5 DEF SameFrame, Kept
  <2>3. Fresh(r)
    BY <1>3, <1>5 DEF SameFrame, SameCommand, Fresh
  <2> QED
    BY <1>2, <1>3, <2>1, <2>2, <2>3 DEF Sound
<1> QED
  BY <1>3, <1>4, <1>5

LEMMA PopSound ==
  ASSUME NEW s, Sound(s)
  PROVE  SameFrame(s, Pop(s)) /\ Sound(Pop(s))
<1>1. s \in SystemType /\ Coded(s) /\ Kept(s) /\ Fresh(s)
  BY DEF Sound
<1>2. PICK r : r = Pop(s)
  OBVIOUS
<1>3. /\ SameFrame(s, r) /\ r.mdec.rl = s.mdec.rl
      /\ r.hist.taken + Holds(r.mdec) = s.hist.taken + Holds(s.mdec)
      /\ r.hist.early = s.hist.early
      /\ s.mdec.out = 0 => r = s
  BY <1>1, <1>2, PopIs
<1>4. r \in SystemType /\ Coded(r)
  BY <1>1, <1>3 DEF SameFrame, SameCommand, Coded
<1>5. Kept(r)
  BY <1>1, <1>3 DEF SameFrame, Kept
<1>6. Fresh(r)
  <2>1. CASE s.mdec.out = 0
    BY <1>1, <1>3, <2>1
  <2>2. CASE s.mdec.out # 0
    BY <1>1, <1>3, <2>2 DEF SameFrame, SameCommand, Fresh
  <2> QED
    BY <2>1, <2>2
<1> QED
  BY <1>2, <1>3, <1>4, <1>5, <1>6 DEF Sound

LEMMA DmaReadOutSound ==
  ASSUME NEW s, Sound(s), NEW n \in Nat
  PROVE  SameFrame(s, DmaReadOut(s, n)) /\ Sound(DmaReadOut(s, n))
<1>1. PICK G : G = {r \in SystemType : SameFrame(s, r) /\ Sound(r)}
  OBVIOUS
<1>2. s \in G
  BY <1>1 DEF Sound, SameFrame, SameCommand
<1>3. ASSUME NEW r \in G PROVE Pop(Refill(r)) \in G
  <2>1. SameFrame(s, r) /\ Sound(r)
    BY <1>1
  <2>2. SameFrame(r, Refill(r)) /\ Sound(Refill(r))
    BY <2>1, RefillSound
  <2>3. SameFrame(Refill(r), Pop(Refill(r))) /\ Sound(Pop(Refill(r)))
    BY <2>2, PopSound
  <2>4. SameFrame(s, Pop(Refill(r)))
    BY <2>1, <2>2, <2>3, SameFrameTwice
  <2>5. Pop(Refill(r)) \in SystemType
    BY <2>3 DEF Sound
  <2> QED
    BY <1>1, <2>3, <2>4, <2>5
<1>4. DmaReadOut(s, n) \in G
  BY <1>2, <1>3, ReadOutStays
<1> QED
  BY <1>1, <1>4
-----------------------------------------------------------------------------
(* The channels' methods. *)

\* An event of the latest kick of ch is pending, and nothing else has changed.
IsScheduled(c, h, d, g, ch) ==
  /\ d \in DmaType /\ g \in HistType
  /\ d.dpcr = c.dpcr /\ d.start = c.start /\ d.events = c.events \cup {ch}
  /\ g.given = h.given /\ g.taken = h.taken /\ g.fed = h.fed /\ g.early = h.early
  /\ g.carries = h.carries /\ g.abandoned = h.abandoned /\ g.ported = h.ported
  /\ g.stale = h.stale \ {ch}

\* schedule_dma replaces the event of an earlier kick.
LEMMA ScheduledIs ==
  ASSUME NEW s \in SystemType, NEW ch \in {In, Out}
  PROVE  /\ Scheduled(s, ch) \in SystemType /\ Scheduled(s, ch).mdec = s.mdec
         /\ IsScheduled(s.dma, s.hist, Scheduled(s, ch).dma, Scheduled(s, ch).hist, ch)
<1>1. s.mdec \in MdecType /\ s.dma \in DmaType /\ s.hist \in HistType
  BY DEF SystemType
<1>2. PICK d, h : /\ d = [s.dma EXCEPT !.events = s.dma.events \cup {ch}]
                  /\ h = [s.hist EXCEPT !.stale = s.hist.stale \ {ch}]
  OBVIOUS
<1>3. Scheduled(s, ch).mdec = s.mdec /\ Scheduled(s, ch).dma = d /\ Scheduled(s, ch).hist = h
      /\ Scheduled(s, ch) \in [mdec : {s.mdec}, dma : {d}, hist : {h}]
  BY <1>2 DEF Scheduled, SystemType
<1>4. s.dma.events \cup {ch} \in SUBSET {In, Out} /\ s.hist.stale \ {ch} \in SUBSET {In, Out}
  BY <1>1 DEF DmaType, HistType
<1>5. IsScheduled(s.dma, s.hist, d, h, ch)
  BY <1>1, <1>2, <1>4 DEF IsScheduled, DmaType, HistType
<1>6. Scheduled(s, ch) \in SystemType
  BY <1>1, <1>3, <1>5 DEF SystemType, IsScheduled
<1> QED
  BY <1>3, <1>5, <1>6

\* Channel 1 leaves a decoder that had output with an event of its own.
LEMMA TryScheduleIs ==
  ASSUME NEW s, Sound(s), NEW n \in Nat, NEW r, r = TryScheduleReadyMdecOut(s, n)
  PROVE  /\ Sound(r) /\ SameCommand(s.mdec, r.mdec)
         /\ r.dma.dpcr = s.dma.dpcr /\ r.dma.start = s.dma.start
         /\ r.hist.given = s.hist.given /\ r.hist.fed = s.hist.fed
         /\ r.hist.carries = s.hist.carries /\ r.hist.abandoned = s.hist.abandoned
         /\ r.hist.ported = s.hist.ported
         /\ \/ r = s
            \/ /\ CanDmaOut(s.mdec) /\ r.dma.events = s.dma.events \cup {Out}
               /\ r.hist.stale = s.hist.stale \ {Out}
<1>1. CASE Out \in s.dma.events \/ ~CanDmaOut(s.mdec) \/ ~Runs(s, Out)
  <2>1. r = s
    BY <1>1 DEF TryScheduleReadyMdecOut
  <2> QED
    BY <2>1 DEF SameCommand
<1>2. CASE ~(Out \in s.dma.events \/ ~CanDmaOut(s.mdec) \/ ~Runs(s, Out))
  <2>1. PICK q : q = DmaReadOut(s, n)
    OBVIOUS
  <2>2. r = Scheduled(q, Out) /\ CanDmaOut(s.mdec)
    BY <1>2, <2>1 DEF TryScheduleReadyMdecOut
  <2>3. SameFrame(s, q) /\ Sound(q)
    BY <2>1, DmaReadOutSound
  <2>4. q \in SystemType /\ Coded(q) /\ Kept(q) /\ Fresh(q)
    BY <2>3 DEF Sound
  <2>5. r \in SystemType /\ r.mdec = q.mdec /\ IsScheduled(q.dma, q.hist, r.dma, r.hist, Out)
    BY <2>2, <2>4, ScheduledIs
  <2>6. Coded(r) /\ Kept(r) /\ Fresh(r)
    BY <2>4, <2>5 DEF Coded, Kept, Fresh, IsScheduled
  <2>7. Sound(r)
    BY <2>5, <2>6 DEF Sound
  <2> QED
    BY <2>2, <2>3, <2>5, <2>7 DEF SameFrame, SameCommand, IsScheduled
<1> QED
  BY <1>1, <1>2

\* A complete frame either waits for its output or holds none.
LEMMA EndIfEmptyIs ==
  ASSUME NEW s, Sound(s), NEW r, r = EndIfEmpty(s)
  PROVE  /\ Sound(r) /\ r.dma = s.dma /\ r.hist = s.hist
         /\ r.mdec.waiting = s.mdec.waiting /\ r.mdec.code = s.mdec.code
         /\ WaitsForOutput(r.mdec) => CanDmaOut(r.mdec)
         /\ s.mdec.code = "decode" /\ s.mdec.busy /\ ~WaitsForOutput(r.mdec) =>
              r.mdec.out = 0 /\ r.mdec.rl = <<>>
<1>1. s \in SystemType /\ Coded(s) /\ Kept(s) /\ Fresh(s)
  BY DEF Sound
<1>2. s.mdec \in MdecType /\ s.dma \in DmaType /\ s.hist \in HistType
  BY <1>1 DEF SystemType
<1>3. PICK b \in BOOLEAN : b = (s.mdec.busy /\ (s.mdec.out > 0 \/ CanContinue(s.mdec)))
  <2>1. (s.mdec.busy /\ (s.mdec.out > 0 \/ CanContinue(s.mdec))) \in BOOLEAN
    OBVIOUS
  <2> QED
    BY <2>1
<1>busy. /\ b => s.mdec.out > 0 \/ CanContinue(s.mdec)
         /\ ~b /\ s.mdec.busy => ~(s.mdec.out > 0) /\ ~CanContinue(s.mdec)
  BY <1>3, Zenon
<1>4. PICK d : d = [s.mdec EXCEPT !.busy = b]
  OBVIOUS
<1>5. r.mdec = d /\ r.dma = s.dma /\ r.hist = s.hist
      /\ r \in [mdec : {d}, dma : {s.dma}, hist : {s.hist}]
  BY <1>1, <1>3, <1>4 DEF EndIfEmpty, SystemType
<1>6. /\ d \in MdecType /\ d.busy = b /\ d.code = s.mdec.code /\ d.expected = s.mdec.expected
      /\ d.waiting = s.mdec.waiting /\ d.rl = s.mdec.rl /\ d.out = s.mdec.out
  BY <1>2, <1>3, <1>4 DEF MdecType
<1>7. r \in SystemType
  BY <1>2, <1>5, <1>6 DEF SystemType
<1>8. Sound(r)
  BY <1>1, <1>5, <1>6, <1>7 DEF Sound, Coded, Kept, Holds, Fresh
<1>9. WaitsForOutput(r.mdec) => CanDmaOut(r.mdec)
  BY <1>busy, <1>5, <1>6 DEF WaitsForOutput, CanDmaOut, CanContinue
<1>10. s.mdec.code = "decode" /\ s.mdec.busy /\ ~WaitsForOutput(r.mdec) =>
         r.mdec.out = 0 /\ r.mdec.rl = <<>>
  <2>1. s.mdec.out \in Nat
    BY <1>2 DEF MdecType
  <2> QED
    BY <1>busy, <1>5, <1>6, <2>1 DEF WaitsForOutput, CanContinue
<1> QED
  BY <1>5, <1>6, <1>8, <1>9, <1>10

\* What a granted transfer leaves: a table that is over, or a frame that is either
\* waited for or over.
LEMMA DmaWriteInIs ==
  ASSUME NEW s, Sound(s), RequestsInput(s.mdec), NEW words \in Streams,
         NEW r, r = DmaWriteIn(s, words)
  PROVE  /\ Sound(r) /\ r.dma = s.dma /\ r.mdec.waiting = s.mdec.waiting
         /\ r.hist.stale = s.hist.stale
         /\ WaitsForOutput(r.mdec) => CanDmaOut(r.mdec)
         /\ r.hist.carries = "frame" /\ ~WaitsForOutput(r.mdec) =>
              r.mdec.out = 0 /\ r.mdec.rl = <<>>
<1>1. s \in SystemType /\ Coded(s) /\ Kept(s) /\ Fresh(s)
  BY DEF Sound
<1>2. s.mdec \in MdecType /\ s.dma \in DmaType /\ s.hist \in HistType
  BY <1>1 DEF SystemType
<1>3. CASE s.mdec.code = "table"
  <2>1. PICK d, h : /\ d = [s.mdec EXCEPT !.expected = 0, !.busy = FALSE]
                    /\ h = [s.hist EXCEPT !.carries = "table"]
    OBVIOUS
  <2>2. r.mdec = d /\ r.dma = s.dma /\ r.hist = h
        /\ r \in [mdec : {d}, dma : {s.dma}, hist : {h}]
    BY <1>1, <1>3, <2>1 DEF DmaWriteIn, SystemType
  <2>3. /\ d \in MdecType /\ d.busy = FALSE /\ d.expected = 0 /\ d.code = "table"
        /\ d.waiting = s.mdec.waiting /\ d.rl = s.mdec.rl /\ d.out = s.mdec.out
    BY <1>2, <1>3, <2>1 DEF MdecType
  <2>4. /\ h \in HistType /\ h.carries = "table" /\ h.given = s.hist.given
        /\ h.taken = s.hist.taken /\ h.fed = s.hist.fed /\ h.early = s.hist.early
        /\ h.stale = s.hist.stale
    BY <1>2, <2>1 DEF HistType
  <2>5. r \in SystemType
    BY <1>2, <2>2, <2>3, <2>4 DEF SystemType
  <2>6. Sound(r)
    BY <1>1, <2>2, <2>3, <2>4, <2>5 DEF Sound, Coded, Kept, Holds, Fresh
  <2> QED
    BY <2>2, <2>3, <2>4, <2>6 DEF WaitsForOutput
<1>4. CASE s.mdec.code # "table"
  <2>1. s.mdec.code = "decode" /\ s.mdec.busy
    BY <1>1, <1>4 DEF Coded, RequestsInput
  <2>2. words \in Seq(Word) /\ WordsLeft(s.mdec.expected, words) \in Nat
    <3>1. words \in Seq(Word)
      BY StreamsAssumption
    <3>2. Len(words) \in Nat /\ s.mdec.expected \in Nat
      BY <1>2, <3>1, LenProperties DEF MdecType
    <3> QED
      BY <3>1, <3>2 DEF WordsLeft
  <2>3. PICK left \in Nat : left = WordsLeft(s.mdec.expected, words)
    BY <2>2
  <2>4. PICK d, h, q :
          /\ d = [s.mdec EXCEPT !.busy = TRUE, !.expected = left, !.rl = words, !.out = 0]
          /\ h = [s.hist EXCEPT !.given = words, !.taken = 0, !.fed = "dma", !.early = FALSE,
                                !.ported = FALSE, !.carries = "frame"]
          /\ q = [s EXCEPT !.mdec = d, !.hist = h]
    OBVIOUS
  <2>5. r = EndIfEmpty(Refill(q))
    <3>1. d = Accept(s.mdec, words)
      BY <2>3, <2>4 DEF Accept
    <3>2. q = [s EXCEPT !.mdec = Accept(@, words), !.hist.given = words, !.hist.taken = 0,
                        !.hist.fed = "dma", !.hist.early = FALSE, !.hist.ported = FALSE,
                        !.hist.carries = "frame"]
      BY <1>1, <2>4, <3>1 DEF SystemType
    <3> QED
      BY <1>4, <3>2 DEF DmaWriteIn
  <2>6. /\ d \in MdecType /\ d.busy = TRUE /\ d.code = "decode"
        /\ d.waiting = s.mdec.waiting /\ d.rl = words /\ d.out = 0
    BY <1>2, <2>1, <2>2, <2>4 DEF MdecType
  <2>7. /\ h \in HistType /\ h.carries = "frame" /\ h.given = words /\ h.taken = 0
        /\ h.stale = s.hist.stale
    BY <1>2, <2>2, <2>4 DEF HistType
  <2>8. q \in SystemType /\ q.mdec = d /\ q.hist = h /\ q.dma = s.dma
    BY <1>1, <1>2, <2>4, <2>6, <2>7 DEF SystemType
  <2>9. Sound(q)
    <3>1. Holds(d) \in Nat /\ Holds(d) = OutWords * Blocks(words)
      <4>1. PICK b \in Nat : b = OutWords * Blocks(words)
        BY <2>2, BlocksIs
      <4> QED
        BY <2>6, <4>1 DEF Holds
    <3>2. Kept(q)
      BY <2>7, <2>8, <3>1 DEF Kept
    <3> QED
      BY <2>6, <2>7, <2>8, <3>2 DEF Sound, Coded, Fresh
  <2>10. PICK f : f = Refill(q)
    OBVIOUS
  <2>11. Sound(f) /\ SameFrame(q, f)
    BY <2>9, <2>10, RefillSound
  <2>12. r = EndIfEmpty(f)
    BY <2>5, <2>10
  <2>13. /\ Sound(r) /\ r.dma = f.dma /\ r.hist = f.hist
         /\ r.mdec.waiting = f.mdec.waiting
         /\ WaitsForOutput(r.mdec) => CanDmaOut(r.mdec)
         /\ f.mdec.code = "decode" /\ f.mdec.busy /\ ~WaitsForOutput(r.mdec) =>
              r.mdec.out = 0 /\ r.mdec.rl = <<>>
    BY <2>11, <2>12, EndIfEmptyIs
  <2> QED
    BY <2>6, <2>7, <2>8, <2>11, <2>13 DEF SameFrame, SameCommand
<1> QED
  BY <1>3, <1>4

-----------------------------------------------------------------------------
(* What is kept of channel 0's transfer. *)

\* A busy channel 0 whose words have moved has an end (InputBusyHasAnEnd).
Ends(s) ==
  /\ In \in s.dma.start /\ s.hist.carries # "none"
  /\ ~s.hist.abandoned /\ ~s.hist.ported
  => \/ In \in s.dma.events
     \/ WaitsForOutput(s.mdec) /\ (Out \in s.dma.events \/ CanDmaOut(s.mdec))

\* An event of channel 0's own, while it carries a frame, is of a frame without output.
Emptied(s) ==
  /\ s.hist.carries = "frame" /\ s.hist.fed = "dma"
  /\ In \in s.dma.events /\ In \notin s.hist.stale
  => s.mdec.out = 0 /\ s.mdec.rl = <<>>

\* A parked kick has no event of its own.
Parked(s) == s.mdec.waiting /\ In \in s.dma.events => In \in s.hist.stale

\* What is kept of channel 0's transfer.
Timely(s) == Ends(s) /\ Emptied(s) /\ Parked(s)

\* The decoder's parked kick, set or dropped.
Waits(s, b) == [s EXCEPT !.mdec.waiting = b]

\* That changes nothing else.
LEMMA WaitingIs ==
  ASSUME NEW s, Sound(s), NEW b \in BOOLEAN, NEW r, r = Waits(s, b)
  PROVE  /\ Sound(r) /\ r.dma = s.dma /\ r.hist = s.hist /\ r.mdec.waiting = b
         /\ r.mdec.code = s.mdec.code /\ r.mdec.busy = s.mdec.busy
         /\ r.mdec.expected = s.mdec.expected /\ r.mdec.inEnabled = s.mdec.inEnabled
         /\ r.mdec.rl = s.mdec.rl /\ r.mdec.out = s.mdec.out
<1>1. s \in SystemType /\ Coded(s) /\ Kept(s) /\ Fresh(s)
  BY DEF Sound
<1>2. s.mdec \in MdecType /\ s.dma \in DmaType /\ s.hist \in HistType
  BY <1>1 DEF SystemType
<1>3. PICK d : d = [s.mdec EXCEPT !.waiting = b]
  OBVIOUS
<1>4. r.mdec = d /\ r.dma = s.dma /\ r.hist = s.hist
      /\ r \in [mdec : {d}, dma : {s.dma}, hist : {s.hist}]
  BY <1>1, <1>3 DEF SystemType, Waits
<1>5. /\ d \in MdecType /\ d.waiting = b /\ d.code = s.mdec.code /\ d.busy = s.mdec.busy
      /\ d.expected = s.mdec.expected /\ d.inEnabled = s.mdec.inEnabled
      /\ d.rl = s.mdec.rl /\ d.out = s.mdec.out
  BY <1>2, <1>3 DEF MdecType
<1>6. r \in SystemType
  BY <1>2, <1>4, <1>5 DEF SystemType
<1>7. Sound(r)
  BY <1>1, <1>4, <1>5, <1>6 DEF Sound, Coded, Kept, Holds, Fresh
<1> QED
  BY <1>4, <1>5, <1>7

\* A kick that is granted its words ends by its own event or waits for its output.
LEMMA GrantedIs ==
  ASSUME NEW s, Sound(s), RequestsInput(s.mdec), In \in s.dma.events => In \in s.hist.stale,
         NEW words \in Streams, NEW n \in Nat, NEW r,
         Runs(s, In), r = StartMdecIn(s, words, n)
  PROVE  /\ Sound(r) /\ Timely(r) /\ ~r.mdec.waiting
         /\ r.dma.start = s.dma.start /\ r.dma.dpcr = s.dma.dpcr
<1>1. s \in SystemType /\ Coded(s) /\ Kept(s) /\ Fresh(s)
  BY DEF Sound
<1>2. s.mdec \in MdecType /\ s.dma \in DmaType /\ s.hist \in HistType
  BY <1>1 DEF SystemType
<1>3. PICK d, h, q : /\ d = [s.mdec EXCEPT !.waiting = FALSE]
                     /\ h = [s.hist EXCEPT !.abandoned = FALSE]
                     /\ q = [s EXCEPT !.mdec = d, !.hist = h]
  OBVIOUS
<1>4. q.mdec = d /\ q.dma = s.dma /\ q.hist = h
      /\ q = [s EXCEPT !.mdec.waiting = FALSE, !.hist.abandoned = FALSE]
      /\ q \in [mdec : {d}, dma : {s.dma}, hist : {h}]
  BY <1>1, <1>3 DEF SystemType
<1>5. /\ d \in MdecType /\ d.waiting = FALSE /\ d.code = s.mdec.code /\ d.busy = s.mdec.busy
      /\ d.expected = s.mdec.expected /\ d.inEnabled = s.mdec.inEnabled
      /\ d.rl = s.mdec.rl /\ d.out = s.mdec.out
  BY <1>2, <1>3 DEF MdecType
<1>6. /\ h \in HistType /\ h.given = s.hist.given /\ h.taken = s.hist.taken
      /\ h.fed = s.hist.fed /\ h.early = s.hist.early /\ h.stale = s.hist.stale
  BY <1>2, <1>3 DEF HistType
<1>7. Sound(q) /\ RequestsInput(q.mdec)
  <2>1. q \in SystemType
    BY <1>2, <1>4, <1>5, <1>6 DEF SystemType
  <2> QED
    BY <1>1, <1>4, <1>5, <1>6, <2>1 DEF Sound, Coded, Kept, Holds, Fresh, RequestsInput
<1>8. PICK a : a = DmaWriteIn(q, words)
  OBVIOUS
<1>9. /\ Sound(a) /\ a.dma = s.dma /\ a.mdec.waiting = FALSE /\ a.hist.stale = s.hist.stale
      /\ WaitsForOutput(a.mdec) => CanDmaOut(a.mdec)
      /\ a.hist.carries = "frame" /\ ~WaitsForOutput(a.mdec) =>
           a.mdec.out = 0 /\ a.mdec.rl = <<>>
  <2>1. /\ Sound(a) /\ a.dma = q.dma /\ a.mdec.waiting = q.mdec.waiting
        /\ a.hist.stale = q.hist.stale
        /\ WaitsForOutput(a.mdec) => CanDmaOut(a.mdec)
        /\ a.hist.carries = "frame" /\ ~WaitsForOutput(a.mdec) =>
             a.mdec.out = 0 /\ a.mdec.rl = <<>>
    BY <1>7, <1>8, DmaWriteInIs
  <2> QED
    BY <1>4, <1>5, <1>6, <2>1
<1>10. a.mdec \in MdecType /\ a \in SystemType
  BY <1>9 DEF Sound, SystemType
<1>11. r = IF WaitsForOutput(a.mdec) THEN TryScheduleReadyMdecOut(a, n) ELSE Scheduled(a, In)
  BY <1>4, <1>8 DEF StartMdecIn
<1>12. CASE WaitsForOutput(a.mdec)
  <2>1. r = TryScheduleReadyMdecOut(a, n)
    BY <1>11, <1>12
  <2>2. /\ Sound(r) /\ SameCommand(a.mdec, r.mdec)
        /\ r.dma.dpcr = a.dma.dpcr /\ r.dma.start = a.dma.start
        /\ \/ r = a
           \/ /\ CanDmaOut(a.mdec) /\ r.dma.events = a.dma.events \cup {Out}
              /\ r.hist.stale = a.hist.stale \ {Out}
    BY <1>9, <2>1, TryScheduleIs
  <2>3. Ends(r)
    BY <1>9, <1>12, <2>2 DEF Ends, WaitsForOutput, SameCommand
  <2>4. In \in r.dma.events => In \in r.hist.stale
    BY <1>9, <2>2 DEF In, Out
  <2>5. Emptied(r) /\ Parked(r)
    BY <2>4 DEF Emptied, Parked
  <2> QED
    BY <1>9, <2>2, <2>3, <2>5 DEF Timely, SameCommand
<1>13. CASE ~WaitsForOutput(a.mdec)
  <2>1. r = Scheduled(a, In)
    BY <1>11, <1>13
  <2>2. r \in SystemType /\ r.mdec = a.mdec /\ IsScheduled(a.dma, a.hist, r.dma, r.hist, In)
    BY <1>10, <2>1, ScheduledIs
  <2>3. Sound(r)
    BY <1>9, <2>2 DEF Sound, Coded, Kept, Fresh, IsScheduled
  <2>4. Ends(r) /\ Emptied(r) /\ Parked(r)
    BY <1>9, <1>13, <2>2 DEF Ends, Emptied, Parked, IsScheduled
  <2> QED
    BY <1>9, <2>2, <2>3, <2>4 DEF Timely, IsScheduled
<1> QED
  BY <1>12, <1>13

\* A kick of channel 0 parks, is dropped, or is granted its words.
LEMMA KickIs ==
  ASSUME NEW s, Sound(s), In \in s.dma.events => In \in s.hist.stale,
         s.hist.carries = "none",
         NEW words \in Streams, NEW n \in Nat, NEW r, r = StartMdecIn(s, words, n)
  PROVE  /\ Sound(r) /\ Timely(r) /\ ~Stranded(r.mdec, r.dma)
         /\ r.dma.start = s.dma.start /\ r.dma.dpcr = s.dma.dpcr
<1>1. CASE Runs(s, In) /\ RequestsInput(s.mdec)
  BY <1>1, GrantedIs DEF Stranded
<1>2. CASE Runs(s, In) /\ ~RequestsInput(s.mdec)
  <2>1. r = Waits(s, TRUE)
    BY <1>2 DEF StartMdecIn, Waits
  <2>2. /\ Sound(r) /\ r.dma = s.dma /\ r.hist = s.hist
        /\ r.mdec.busy = s.mdec.busy /\ r.mdec.expected = s.mdec.expected
        /\ r.mdec.inEnabled = s.mdec.inEnabled
    <3>1. PICK b \in BOOLEAN : b = TRUE
      OBVIOUS
    <3>2. r = Waits(s, b)
      BY <2>1, <3>1
    <3> QED
      BY <3>2, WaitingIs
  <2> QED
    BY <1>2, <2>2 DEF Timely, Ends, Emptied, Parked, Stranded, RequestsInput
<1>3. CASE ~Runs(s, In)
  <2>1. r = Waits(s, FALSE)
    BY <1>3 DEF StartMdecIn, Waits
  <2>2. Sound(r) /\ r.dma = s.dma /\ r.hist = s.hist /\ r.mdec.waiting = FALSE
    <3>1. PICK b \in BOOLEAN : b = FALSE
      OBVIOUS
    <3>2. r = Waits(s, b)
      BY <2>1, <3>1
    <3> QED
      BY <3>1, <3>2, WaitingIs
  <2> QED
    BY <2>2 DEF Timely, Ends, Emptied, Parked, Stranded
<1> QED
  BY <1>1, <1>2, <1>3

\* Every store to a register of the decoder looks after a parked kick.
LEMMA ServiceIs ==
  ASSUME NEW s, Sound(s), Timely(s), NEW words \in Streams, NEW n \in Nat,
         NEW r, r = ServiceMdecDmaRequest(s, words, n)
  PROVE  /\ Sound(r) /\ Timely(r) /\ ~Stranded(r.mdec, r.dma)
         /\ r.dma.start = s.dma.start /\ r.dma.dpcr = s.dma.dpcr
<1>1. CASE ~s.mdec.waiting
  <2>1. r = s
    BY <1>1 DEF ServiceMdecDmaRequest
  <2> QED
    BY <1>1, <2>1 DEF Stranded
<1>2. CASE s.mdec.waiting /\ In \notin s.dma.start
  <2>1. r = Waits(s, FALSE)
    BY <1>2 DEF ServiceMdecDmaRequest, Waits
  <2>2. /\ Sound(r) /\ r.dma = s.dma /\ r.hist = s.hist /\ r.mdec.waiting = FALSE
        /\ r.mdec.rl = s.mdec.rl /\ r.mdec.out = s.mdec.out
    <3>1. PICK b \in BOOLEAN : b = FALSE
      OBVIOUS
    <3>2. r = Waits(s, b)
      BY <2>1, <3>1
    <3> QED
      BY <3>1, <3>2, WaitingIs
  <2> QED
    BY <1>2, <2>2 DEF Timely, Ends, Emptied, Parked, Stranded
<1>3. CASE /\ s.mdec.waiting /\ In \in s.dma.start
           /\ RequestsInput(s.mdec) /\ In \in s.dma.dpcr
  <2>1. r = StartMdecIn(s, words, n) /\ Runs(s, In)
    BY <1>3 DEF ServiceMdecDmaRequest, Runs
  <2>2. In \in s.dma.events => In \in s.hist.stale
    BY <1>3 DEF Timely, Parked
  <2> QED
    BY <1>3, <2>1, <2>2, GrantedIs DEF Stranded
<1>4. CASE /\ s.mdec.waiting /\ In \in s.dma.start
           /\ ~(RequestsInput(s.mdec) /\ In \in s.dma.dpcr)
  <2>1. r = s
    BY <1>4 DEF ServiceMdecDmaRequest
  <2> QED
    BY <1>4, <2>1 DEF Stranded
<1> QED
  BY <1>1, <1>2, <1>3, <1>4

-----------------------------------------------------------------------------
(* The stores to the decoder's registers. *)

\* A word more.
LEMMA DataOfAppend ==
  ASSUME NEW w \in Seq(Word), NEW x \in Word
  PROVE  /\ Append(w, x) \in Seq(Word)
         /\ Data(Append(w, x)) = Data(w) + (IF x = "data" THEN 1 ELSE 0)
<1>1. PICK v : v = Append(w, x)
  OBVIOUS
<1>2. /\ v \in Seq(Word) /\ Len(v) = Len(w) + 1 /\ Len(w) \in Nat
      /\ \A i \in 1..Len(w) : v[i] = w[i]
      /\ v[Len(w) + 1] = x
  BY <1>1, AppendProperties, LenProperties
<1>3. /\ Places(w) = {i \in 1..Len(w) : w[i] = "data"} /\ IsFiniteSet(Places(w))
      /\ Data(w) = Cardinality(Places(w)) /\ Data(w) \in Nat
      /\ Places(v) = {i \in 1..Len(w) + 1 : v[i] = "data"}
      /\ Data(v) = Cardinality(Places(v))
  BY <1>2, DataIs
<1>4. /\ Len(w) + 1 \notin 1..Len(w)
      /\ \A i \in 1..Len(w) + 1 : i = Len(w) + 1 \/ i \in 1..Len(w)
      /\ \A i \in 1..Len(w) : i \in 1..Len(w) + 1
      /\ Len(w) + 1 \in 1..Len(w) + 1
  BY <1>2
<1>5. Places(v) = IF x = "data" THEN Places(w) \cup {Len(w) + 1} ELSE Places(w)
  BY <1>2, <1>3, <1>4
<1>6. Cardinality(Places(w) \cup {Len(w) + 1}) = Cardinality(Places(w)) + 1
  BY <1>3, <1>4, FS_AddElement
<1>7. CASE x = "data"
  BY <1>1, <1>2, <1>3, <1>5, <1>6, <1>7
<1>8. CASE x # "data"
  <2>1. Places(v) = Places(w)
    BY <1>5, <1>8
  <2>2. Data(v) = Data(w)
    BY <1>3, <2>1
  <2>3. (IF x = "data" THEN 1 ELSE 0) = 0
    BY <1>8
  <2>4. Data(w) + 0 = Data(w)
    BY <1>3
  <2> QED
    BY <1>1, <1>2, <2>2, <2>3, <2>4
<1> QED
  BY <1>7, <1>8

\* The last parameter word of a frame starts the decoder on it.
LEMMA FedIs ==
  ASSUME NEW s, Sound(s), Timely(s), s.hist.fed # "dma", s.hist.abandoned,
         NEW r, r = EndIfEmpty(Refill(s))
  PROVE  Sound(r) /\ Timely(r) /\ r.dma = s.dma
<1>1. PICK f : f = Refill(s)
  OBVIOUS
<1>2. Sound(f) /\ SameFrame(s, f)
  BY <1>1, RefillSound
<1>3. Sound(r) /\ r.dma = f.dma /\ r.hist = f.hist /\ r.mdec.waiting = f.mdec.waiting
  BY <1>1, <1>2, EndIfEmptyIs
<1> QED
  BY <1>2, <1>3 DEF SameFrame, SameCommand, Timely, Ends, Emptied, Parked

\* A parameter word of a frame is one word more given and one more held.
LEMMA ParameterIs ==
  ASSUME NEW s, Sound(s), Timely(s), s.mdec.expected # 0, NEW word \in Word,
         NEW r, r = Parameter(s, word)
  PROVE  Sound(r) /\ Timely(r) /\ r.dma = s.dma
<1>1. s \in SystemType /\ Coded(s) /\ Kept(s) /\ Fresh(s)
  BY DEF Sound
<1>2. s.mdec \in MdecType /\ s.dma \in DmaType /\ s.hist \in HistType
  BY <1>1 DEF SystemType
<1>3. PICK left \in Nat : left = s.mdec.expected - 1
  <2>1. s.mdec.expected \in Nat
    BY <1>2 DEF MdecType
  <2> QED
    BY <2>1
<1>4. CASE s.mdec.code = "decode"
  <2>1. PICK rl, given : rl = Append(s.mdec.rl, word) /\ given = Append(s.hist.given, word)
    OBVIOUS
  <2>2. PICK d, h, q :
          /\ d = [s.mdec EXCEPT !.rl = rl, !.expected = left]
          /\ h = [s.hist EXCEPT !.given = given, !.fed = "cpu", !.abandoned = TRUE]
          /\ q = [s EXCEPT !.mdec = d, !.hist = h]
    OBVIOUS
  <2>3. r = IF left # 0 THEN q ELSE EndIfEmpty(Refill(q))
    <3>1. PICK k : k = [s EXCEPT !.mdec.rl = Append(@, word), !.hist.given = Append(@, word),
                                 !.hist.fed = "cpu", !.hist.abandoned = TRUE]
      OBVIOUS
    <3>2. k.mdec = [s.mdec EXCEPT !.rl = rl] /\ k.hist = h /\ k.dma = s.dma
          /\ k \in [mdec : {k.mdec}, dma : {k.dma}, hist : {k.hist}]
      BY <1>1, <2>1, <2>2, <3>1 DEF SystemType
    <3>3. PICK x : x = [k EXCEPT !.mdec.expected = @ - 1]
      OBVIOUS
    <3>4. k.mdec.expected = s.mdec.expected
      BY <1>2, <3>2 DEF MdecType
    <3>5. x.mdec = d /\ x.hist = h /\ x.dma = s.dma
          /\ x \in [mdec : {x.mdec}, dma : {x.dma}, hist : {x.hist}]
      BY <1>2, <1>3, <2>2, <3>2, <3>3, <3>4 DEF MdecType
    <3>6. x = q
      BY <1>1, <2>2, <3>5 DEF SystemType
    <3>7. d.expected = left /\ d.code = "decode" /\ q.mdec = d
      BY <1>1, <1>2, <1>4, <2>2 DEF MdecType, SystemType
    <3>8. r = IF x.mdec.expected # 0 THEN x
              ELSE IF x.mdec.code = "decode" THEN EndIfEmpty(Refill(x))
              ELSE [x EXCEPT !.mdec.busy = FALSE]
      BY <1>4, <3>1, <3>3 DEF Parameter
    <3> QED
      BY <3>6, <3>7, <3>8
  <2>4. s.mdec.rl \in Seq(Word) /\ s.hist.given \in Seq(Word)
    BY <1>2 DEF MdecType, HistType
  <2>5. /\ rl \in Seq(Word) /\ Data(rl) = Data(s.mdec.rl) + (IF word = "data" THEN 1 ELSE 0)
        /\ given \in Seq(Word)
        /\ Data(given) = Data(s.hist.given) + (IF word = "data" THEN 1 ELSE 0)
    BY <2>1, <2>4, DataOfAppend
  <2>6. /\ d \in MdecType /\ d.code = "decode" /\ d.waiting = s.mdec.waiting
        /\ d.rl = rl /\ d.out = s.mdec.out
    BY <1>2, <1>4, <2>2, <2>5 DEF MdecType
  <2>7. /\ h \in HistType /\ h.given = given /\ h.fed = "cpu" /\ h.abandoned = TRUE
        /\ h.taken = s.hist.taken /\ h.early = s.hist.early /\ h.stale = s.hist.stale
    BY <1>2, <2>2, <2>5 DEF HistType
  <2>8. q \in SystemType /\ q.mdec = d /\ q.hist = h /\ q.dma = s.dma
    BY <1>1, <1>2, <2>2, <2>6, <2>7 DEF SystemType
  <2>9. ~s.hist.early => Data(rl) = Data(given) /\ s.mdec.out = 0 /\ s.hist.taken = 0
    BY <1>1, <1>4, <2>5 DEF Fresh
  <2>10. Sound(q)
    <3>1. Kept(q)
      <4>1. PICK b \in Nat : b = OutWords * Blocks(rl)
        BY <2>5, BlocksIs
      <4>2. Data(rl) = Data(given) => b = OutWords * Blocks(given)
        BY <4>1 DEF Blocks
      <4> QED
        BY <2>6, <2>7, <2>8, <2>9, <4>1, <4>2 DEF Kept, Holds
    <3>2. Fresh(q)
      BY <2>6, <2>7, <2>8, <2>9 DEF Fresh
    <3> QED
      BY <2>6, <2>8, <3>1, <3>2 DEF Sound, Coded
  <2>11. Timely(q)
    BY <2>6, <2>7, <2>8 DEF Timely, Ends, Emptied, Parked
  <2> QED
    BY <2>3, <2>7, <2>8, <2>10, <2>11, FedIs
<1>5. CASE s.mdec.code # "decode"
  <2>1. s.mdec.code = "table"
    BY <1>1, <1>5 DEF Coded
  <2>2. PICK b \in BOOLEAN : b = IF left # 0 THEN s.mdec.busy ELSE FALSE
    BY <1>2 DEF MdecType
  <2>3. PICK d : d = [s.mdec EXCEPT !.expected = left, !.busy = b]
    OBVIOUS
  <2>4. r.mdec = d /\ r.hist = s.hist /\ r.dma = s.dma
        /\ r \in [mdec : {d}, dma : {s.dma}, hist : {s.hist}]
    <3>1. PICK x : x = [s EXCEPT !.mdec.expected = @ - 1]
      OBVIOUS
    <3>2. r = IF x.mdec.expected # 0 THEN x
              ELSE IF x.mdec.code = "decode" THEN EndIfEmpty(Refill(x))
              ELSE [x EXCEPT !.mdec.busy = FALSE]
      BY <1>5, <3>1 DEF Parameter
    <3>3. x.mdec = [s.mdec EXCEPT !.expected = left] /\ x.hist = s.hist /\ x.dma = s.dma
          /\ x \in [mdec : {x.mdec}, dma : {s.dma}, hist : {s.hist}]
      BY <1>1, <1>3, <3>1 DEF SystemType
    <3>4. x.mdec.expected = left /\ x.mdec.code = "table" /\ x.mdec.busy = s.mdec.busy
      BY <1>2, <2>1, <3>3 DEF MdecType
    <3>5. CASE left # 0
      <4>1. r = x
        BY <3>2, <3>4, <3>5
      <4>2. d = x.mdec
        BY <1>2, <2>2, <2>3, <3>3, <3>5 DEF MdecType
      <4> QED
        BY <3>3, <4>1, <4>2
    <3>6. CASE left = 0
      <4>1. r = [x EXCEPT !.mdec.busy = FALSE]
        BY <3>2, <3>4, <3>6
      <4>2. d = [x.mdec EXCEPT !.busy = FALSE]
        BY <1>2, <2>2, <2>3, <3>3, <3>6 DEF MdecType
      <4> QED
        BY <3>3, <4>1, <4>2
    <3> QED
      BY <3>5, <3>6
  <2>5. /\ d \in MdecType /\ d.code = "table" /\ d.waiting = s.mdec.waiting
        /\ d.rl = s.mdec.rl /\ d.out = s.mdec.out
    BY <1>2, <2>1, <2>3 DEF MdecType
  <2>6. r \in SystemType
    BY <1>2, <2>4, <2>5 DEF SystemType
  <2>7. Sound(r)
    BY <1>1, <2>4, <2>5, <2>6 DEF Sound, Coded, Kept, Holds, Fresh
  <2>8. Timely(r)
    BY <2>1, <2>4, <2>5 DEF Timely, Ends, Emptied, Parked, WaitsForOutput
  <2> QED
    BY <2>4, <2>7, <2>8
<1> QED
  BY <1>4, <1>5

\* A new frame has nothing given, taken or held.
LEMMA ForgetIs ==
  ASSUME NEW s \in SystemType, Coded(s), s.hist.abandoned,
         s.mdec.waiting /\ In \in s.dma.events => In \in s.hist.stale,
         NEW r, r = Forget(s)
  PROVE  Sound(r) /\ Timely(r) /\ r.dma = s.dma
<1>1. s.mdec \in MdecType /\ s.dma \in DmaType /\ s.hist \in HistType
  BY DEF SystemType
<1>2. PICK d, h : /\ d = [s.mdec EXCEPT !.rl = <<>>, !.out = 0]
                  /\ h = [s.hist EXCEPT !.given = <<>>, !.taken = 0, !.fed = "none",
                                        !.early = FALSE, !.ported = FALSE]
  OBVIOUS
<1>3. r.mdec = d /\ r.dma = s.dma /\ r.hist = h
      /\ r \in [mdec : {d}, dma : {s.dma}, hist : {h}]
  BY <1>2 DEF Forget, SystemType
<1>4. <<>> \in Seq(Word)
  BY DataEmpty
<1>5. /\ d \in MdecType /\ d.code = s.mdec.code /\ d.expected = s.mdec.expected
      /\ d.waiting = s.mdec.waiting /\ d.rl = <<>> /\ d.out = 0
  BY <1>1, <1>2, <1>4 DEF MdecType
<1>6. /\ h \in HistType /\ h.given = <<>> /\ h.taken = 0 /\ h.fed = "none"
      /\ h.abandoned = s.hist.abandoned /\ h.stale = s.hist.stale
  BY <1>1, <1>2, <1>4 DEF HistType
<1>7. r \in SystemType /\ Coded(r)
  BY <1>1, <1>3, <1>5, <1>6 DEF SystemType, Coded
<1>8. Kept(r)
  <2>1. PICK b \in Nat : b = OutWords * Blocks(<<>>)
    BY <1>4, BlocksIs
  <2> QED
    BY <1>3, <1>5, <1>6, <2>1 DEF Kept, Holds
<1>9. Fresh(r)
  BY <1>3, <1>5, <1>6 DEF Fresh
<1>10. Timely(r)
  BY <1>3, <1>5, <1>6 DEF Timely, Ends, Emptied, Parked
<1> QED
  BY <1>3, <1>7, <1>8, <1>9, <1>10 DEF Sound

\* A command word either starts a new frame or leaves the queues as they are.
LEMMA CommandIs ==
  ASSUME NEW s, Sound(s), Timely(s), NEW code \in {"none", "decode", "table"},
         NEW count \in Nat, NEW r, r = Command(s, code, count)
  PROVE  Sound(r) /\ Timely(r) /\ r.dma = s.dma
<1>1. s \in SystemType /\ Coded(s) /\ Kept(s) /\ Fresh(s)
  BY DEF Sound
<1>2. s.mdec \in MdecType /\ s.dma \in DmaType /\ s.hist \in HistType
  BY <1>1 DEF SystemType
<1> DEFINE expected ==
      CASE code = "decode" -> count [] code = "table" -> TableWords [] OTHER -> 0
<1>3. PICK e \in Nat : e = expected /\ (e # 0 => code \in {"decode", "table"})
  <2>1. CASE code = "decode"
    BY <2>1
  <2>2. CASE code = "table"
    BY <2>2, TableAssumption
  <2>3. CASE code = "none"
    BY <2>3
  <2> QED
    BY <2>1, <2>2, <2>3
<1>4. PICK b \in BOOLEAN : b = (s.mdec.busy \/ e # 0)
  <2>1. (s.mdec.busy \/ e # 0) \in BOOLEAN
    OBVIOUS
  <2> QED
    BY <2>1
<1>5. PICK d, h, q : /\ d = [s.mdec EXCEPT !.code = code, !.expected = e, !.busy = b]
                     /\ h = [s.hist EXCEPT !.abandoned = TRUE]
                     /\ q = [s EXCEPT !.mdec = d, !.hist = h]
  OBVIOUS
<1>6. /\ d \in MdecType /\ d.code = code /\ d.expected = e
      /\ d.waiting = s.mdec.waiting /\ d.rl = s.mdec.rl /\ d.out = s.mdec.out
  BY <1>2, <1>5 DEF MdecType
<1>7. /\ h \in HistType /\ h.given = s.hist.given /\ h.taken = s.hist.taken
      /\ h.fed = s.hist.fed /\ h.early = s.hist.early /\ h.stale = s.hist.stale
      /\ h.carries = s.hist.carries /\ h.abandoned
  BY <1>2, <1>5 DEF HistType
<1>8. q \in SystemType /\ q.mdec = d /\ q.hist = h /\ q.dma = s.dma
  BY <1>1, <1>2, <1>5, <1>6, <1>7 DEF SystemType
<1>9. r = IF code = "decode" /\ e # 0 THEN Forget(q) ELSE q
  <2>1. PICK x : x = [s EXCEPT !.mdec.code = code, !.mdec.expected = expected,
                               !.mdec.busy = @ \/ expected # 0, !.hist.abandoned = TRUE]
    OBVIOUS
  <2>new. r = IF code = "decode" /\ expected # 0 THEN Forget(x) ELSE x
    BY <2>1 DEF Command
  <2> HIDE DEF expected
  <2>2. x.mdec = [s.mdec EXCEPT !.code = code, !.expected = e,
                                !.busy = s.mdec.busy \/ e # 0]
        /\ x.hist = h /\ x.dma = s.dma /\ x \in [mdec : {x.mdec}, dma : {s.dma}, hist : {h}]
    BY <1>1, <1>3, <1>5, <2>1 DEF SystemType
  <2>3. x.mdec = d
    BY <1>4, <1>5, <2>2
  <2>4. x = q
    BY <1>1, <1>5, <2>2, <2>3 DEF SystemType
  <2> QED
    BY <1>3, <2>new, <2>4
<1>10. Coded(q) /\ q.hist.abandoned /\ Parked(q)
  BY <1>3, <1>6, <1>7, <1>8 DEF Coded, Timely, Parked
<1>11. CASE code = "decode" /\ e # 0
  BY <1>8, <1>9, <1>10, <1>11, ForgetIs DEF Parked
<1>12. CASE ~(code = "decode" /\ e # 0)
  <2>1. r = q
    BY <1>9, <1>12
  <2>2. Kept(q)
    BY <1>1, <1>6, <1>7, <1>8 DEF Kept, Holds
  <2>3. Fresh(q)
    BY <1>6, <1>8, <1>12 DEF Fresh
  <2>4. Timely(q)
    BY <1>6, <1>7, <1>8, <1>10 DEF Timely, Ends, Emptied
  <2> QED
    BY <1>8, <1>10, <2>1, <2>2, <2>3, <2>4 DEF Sound
<1> QED
  BY <1>11, <1>12

\* A reset forgets the frame with the command.
LEMMA ResetIs ==
  ASSUME NEW s, Sound(s), Timely(s), NEW r, r = Reset(s)
  PROVE  Sound(r) /\ Timely(r) /\ r.dma = s.dma
<1>1. s \in SystemType
  BY DEF Sound
<1>2. s.mdec \in MdecType /\ s.dma \in DmaType /\ s.hist \in HistType
  BY <1>1 DEF SystemType
<1>3. PICK d, h, q : /\ d = [s.mdec EXCEPT !.code = "none", !.busy = FALSE, !.expected = 0,
                                           !.inEnabled = FALSE, !.reset = "capturing"]
                     /\ h = [s.hist EXCEPT !.abandoned = TRUE]
                     /\ q = [s EXCEPT !.mdec = d, !.hist = h]
  OBVIOUS
<1>4. r = Forget(q)
  <2>1. q = [s EXCEPT !.mdec.code = "none", !.mdec.busy = FALSE, !.mdec.expected = 0,
                      !.mdec.inEnabled = FALSE, !.mdec.reset = "capturing",
                      !.hist.abandoned = TRUE]
    BY <1>1, <1>3 DEF SystemType
  <2> QED
    BY <2>1 DEF Reset
<1>5. d \in MdecType /\ d.expected = 0 /\ d.waiting = s.mdec.waiting
  BY <1>2, <1>3 DEF MdecType
<1>6. h \in HistType /\ h.stale = s.hist.stale /\ h.abandoned
  BY <1>2, <1>3 DEF HistType
<1>7. q \in SystemType /\ q.mdec = d /\ q.hist = h /\ q.dma = s.dma
  BY <1>1, <1>2, <1>3, <1>5, <1>6 DEF SystemType
<1>8. Coded(q) /\ q.hist.abandoned /\ (q.mdec.waiting /\ In \in q.dma.events => In \in q.hist.stale)
  BY <1>5, <1>6, <1>7 DEF Coded, Timely, Parked
<1> QED
  BY <1>4, <1>7, <1>8, ForgetIs

-----------------------------------------------------------------------------
(* The steps. *)

\* The inductive invariant.
Inv == Sound(System) /\ Timely(System)

\* The action that InputKeepsItsTime allows.
OnTime ==
  /\ Stranded(mdec', dma') => dma'.dpcr # dma.dpcr \/ Stranded(mdec, dma)
  /\ FrameEnds => mdec.out = 0 /\ Data(mdec.rl) = 0

\* The three variables are the parts of the system.
LEMMA SystemIs ==
  ASSUME Inv
  PROVE  /\ System \in SystemType /\ Sound(System) /\ Timely(System)
         /\ Coded(System) /\ Kept(System) /\ Fresh(System)
         /\ System.mdec = mdec /\ System.dma = dma /\ System.hist = hist
         /\ mdec \in MdecType /\ dma \in DmaType /\ hist \in HistType
<1>1. System \in SystemType /\ Sound(System) /\ Timely(System)
      /\ Coded(System) /\ Kept(System) /\ Fresh(System)
  BY DEF Inv, Sound
<1>2. System.mdec = mdec /\ System.dma = dma /\ System.hist = hist
  BY DEF System
<1> QED
  BY <1>1, <1>2 DEF SystemType

\* A step to a system that is kept keeps the invariant.
LEMMA InvNext ==
  ASSUME NEW r, Sound(r), Timely(r), mdec' = r.mdec, dma' = r.dma, hist' = r.hist
  PROVE  Inv'
<1>1. r \in SystemType
  BY DEF Sound
<1>2. System' = r
  BY <1>1 DEF System, SystemType
<1>3. Sound(System') /\ Timely(System')
  BY <1>2
<1> QED
  BY <1>3 DEF Inv

\* A store to a register of the decoder.
LEMMA StoreStep ==
  ASSUME NEW s, Sound(s), Timely(s), s.dma = dma,
         NEW words \in Streams, NEW n \in OutSizes,
         Becomes(ServiceMdecDmaRequest(s, words, n))
  PROVE  Inv' /\ OnTime
<1>1. n \in Nat
  BY SizesAssumption
<1>2. PICK r : r = ServiceMdecDmaRequest(s, words, n)
  OBVIOUS
<1>3. Sound(r) /\ Timely(r) /\ ~Stranded(r.mdec, r.dma)
      /\ r.dma.start = s.dma.start /\ r.dma.dpcr = s.dma.dpcr
  BY <1>1, <1>2, ServiceIs
<1>4. mdec' = r.mdec /\ dma' = r.dma /\ hist' = r.hist
  BY <1>2 DEF Becomes
<1>5. Inv'
  BY <1>3, <1>4, InvNext
<1>6. OnTime
  BY <1>3, <1>4 DEF OnTime, FrameEnds
<1> QED
  BY <1>5, <1>6

\* A parameter word.
LEMMA WriteParameterStep ==
  ASSUME Inv, NEW word \in CpuWords, NEW words \in Streams, NEW n \in OutSizes,
         WriteParameter(word, words, n)
  PROVE  Inv' /\ OnTime
<1>1. word \in Word /\ Sound(System) /\ Timely(System) /\ System.dma = dma
      /\ System.mdec.expected # 0
  BY SystemIs, PortAssumption DEF WriteParameter
<1>2. PICK s : s = Parameter(System, word)
  OBVIOUS
<1>3. Sound(s) /\ Timely(s) /\ s.dma = dma
  BY <1>1, <1>2, ParameterIs
<1>4. Becomes(ServiceMdecDmaRequest(s, words, n))
  BY <1>2 DEF WriteParameter
<1> QED
  BY <1>3, <1>4, StoreStep

\* A command word.
LEMMA WriteCommandStep ==
  ASSUME Inv, NEW code \in {"none", "decode", "table"}, NEW count \in Counts,
         NEW words \in Streams, NEW n \in OutSizes, WriteCommand(code, count, words, n)
  PROVE  Inv' /\ OnTime
<1>1. count \in Nat /\ Sound(System) /\ Timely(System) /\ System.dma = dma
  BY SystemIs, SizesAssumption
<1>2. PICK s : s = Command(System, code, count)
  OBVIOUS
<1>3. Sound(s) /\ Timely(s) /\ s.dma = dma
  BY <1>1, <1>2, CommandIs
<1>4. Becomes(ServiceMdecDmaRequest(s, words, n))
  BY <1>2 DEF WriteCommand
<1> QED
  BY <1>3, <1>4, StoreStep

\* A reset.
LEMMA WriteResetStep ==
  ASSUME Inv, NEW words \in Streams, NEW n \in OutSizes, WriteReset(words, n)
  PROVE  Inv' /\ OnTime
<1>1. Sound(System) /\ Timely(System) /\ System.dma = dma
  BY SystemIs
<1>2. PICK s : s = Reset(System)
  OBVIOUS
<1>3. Sound(s) /\ Timely(s) /\ s.dma = dma
  BY <1>1, <1>2, ResetIs
<1>4. Becomes(ServiceMdecDmaRequest(s, words, n))
  BY <1>2 DEF WriteReset
<1> QED
  BY <1>3, <1>4, StoreStep

\* A control word.
LEMMA WriteControlStep ==
  ASSUME Inv, NEW enable \in BOOLEAN, NEW words \in Streams, NEW n \in OutSizes,
         WriteControl(enable, words, n)
  PROVE  Inv' /\ OnTime
<1>1. PICK s : s = IF mdec.reset = "capturing"
                   THEN [System EXCEPT !.mdec.reset = "completing"]
                   ELSE [System EXCEPT !.mdec.inEnabled = enable]
  OBVIOUS
<1>2. Becomes(ServiceMdecDmaRequest(s, words, n))
  BY <1>1 DEF WriteControl
<1>3. PICK d : d = IF mdec.reset = "capturing" THEN [mdec EXCEPT !.reset = "completing"]
                   ELSE [mdec EXCEPT !.inEnabled = enable]
  OBVIOUS
<1>4. s.mdec = d /\ s.dma = dma /\ s.hist = hist /\ s \in [mdec : {d}, dma : {dma}, hist : {hist}]
  BY <1>1, <1>3 DEF System
<1>5. /\ d \in MdecType /\ d.code = mdec.code /\ d.busy = mdec.busy
      /\ d.expected = mdec.expected /\ d.waiting = mdec.waiting /\ d.rl = mdec.rl
      /\ d.out = mdec.out
  BY <1>3, SystemIs DEF MdecType
<1>6. s \in SystemType
  BY <1>4, <1>5, SystemIs DEF SystemType
<1>7. Sound(s)
  BY <1>4, <1>5, <1>6, SystemIs DEF Sound, Coded, Kept, Holds, Fresh
<1>8. Timely(s)
  BY <1>4, <1>5, SystemIs
     DEF Timely, Ends, Emptied, Parked, WaitsForOutput, CanDmaOut, CanContinue
<1> QED
  BY <1>2, <1>4, <1>7, <1>8, StoreStep

\* A store to CHCR of channel 0 starts it anew, of channel 1 feeds it if it can.
LEMMA WriteChcrStep ==
  ASSUME Inv, NEW ch \in {In, Out}, NEW on \in BOOLEAN,
         NEW words \in Streams, NEW n \in OutSizes, WriteChcr(ch, on, words, n)
  PROVE  Inv' /\ OnTime
<1> DEFINE carries == IF ch = In THEN "none" ELSE hist.carries
           start   == IF on THEN dma.start \cup {ch} ELSE dma.start \ {ch}
<1>1. PICK c, h, w : /\ c = [dma EXCEPT !.start = start]
                     /\ h = [hist EXCEPT !.carries = carries,
                                         !.stale = hist.stale \cup (dma.events \cap {ch})]
                     /\ w = [System EXCEPT !.dma = c, !.hist = h]
  OBVIOUS
<1>2. /\ mdec \in MdecType /\ dma \in DmaType /\ hist \in HistType /\ n \in Nat
      /\ System.mdec = mdec /\ System.dma = dma /\ System.hist = hist
      /\ Timely(System) /\ Sound(System)
  BY SystemIs, SizesAssumption
<1>3. Becomes(IF ~on THEN w ELSE IF ch = In THEN StartMdecIn(w, words, n)
              ELSE TryScheduleReadyMdecOut(w, n))
  <2>1. PICK x : x = [System EXCEPT !.dma.start = IF on THEN @ \cup {ch} ELSE @ \ {ch},
                                    !.hist.carries = IF ch = In THEN "none" ELSE @,
                                    !.hist.stale = @ \cup (dma.events \cap {ch})]
    OBVIOUS
  <2>2. x = w
    BY <1>1, <2>1 DEF System
  <2> QED
    BY <2>1, <2>2 DEF WriteChcr
<1>4. start \in SUBSET {In, Out} /\ (hist.stale \cup (dma.events \cap {ch})) \in SUBSET {In, Out}
      /\ carries \in {"none", "frame", "table"}
  BY <1>2 DEF DmaType, HistType
<1>5. /\ c \in DmaType /\ c.start = start /\ c.events = dma.events /\ c.dpcr = dma.dpcr
  BY <1>1, <1>2, <1>4 DEF DmaType
<1>6. /\ h \in HistType /\ h.given = hist.given /\ h.taken = hist.taken
      /\ h.fed = hist.fed /\ h.early = hist.early /\ h.carries = carries
      /\ h.abandoned = hist.abandoned /\ h.ported = hist.ported
      /\ h.stale = hist.stale \cup (dma.events \cap {ch})
  BY <1>1, <1>2, <1>4 DEF HistType
<1>7. w.mdec = mdec /\ w.dma = c /\ w.hist = h
  BY <1>1, <1>2 DEF System
<1>8. Sound(w)
  <2>1. w \in SystemType
    BY <1>1, <1>2, <1>5, <1>6, SystemIs DEF SystemType
  <2> QED
    BY <1>6, <1>7, <2>1, SystemIs DEF Sound, Coded, Kept, Fresh
<1>9. CASE ch = In
  <2>1. carries = "none" /\ (w.dma.events = dma.events)
        /\ (In \in w.dma.events => In \in w.hist.stale)
    BY <1>5, <1>6, <1>7, <1>9
  <2>2. w.hist.carries = "none"
    BY <1>6, <1>7, <2>1
  <2>3. CASE on
    <3>1. PICK r : r = StartMdecIn(w, words, n)
      OBVIOUS
    <3>2. /\ Sound(r) /\ Timely(r) /\ ~Stranded(r.mdec, r.dma)
          /\ r.dma.start = w.dma.start
      BY <1>2, <1>8, <2>1, <2>2, <3>1, KickIs
    <3>3. mdec' = r.mdec /\ dma' = r.dma /\ hist' = r.hist
      BY <1>3, <1>9, <2>3, <3>1 DEF Becomes
    <3>4. dma.start \subseteq dma'.start
      BY <1>5, <1>7, <2>3, <3>2, <3>3
    <3>5. OnTime
      BY <3>2, <3>3, <3>4 DEF OnTime, FrameEnds
    <3> QED
      BY <3>2, <3>3, <3>5, InvNext
  <2>4. CASE ~on
    <3>1. mdec' = w.mdec /\ dma' = w.dma /\ hist' = w.hist
      BY <1>3, <2>4 DEF Becomes
    <3>2. Timely(w)
      BY <2>1, <2>2, <1>7 DEF Timely, Ends, Emptied, Parked
    <3>3. OnTime
      BY <1>5, <1>7, <1>9, <2>4, <3>1 DEF OnTime, FrameEnds, Stranded
    <3> QED
      BY <1>8, <3>1, <3>2, <3>3, InvNext
  <2> QED
    BY <2>3, <2>4
<1>10. CASE ch = Out
  <2>1. In # Out
    BY DEF In, Out
  <2>2. /\ carries = hist.carries /\ (In \in c.start <=> In \in dma.start)
        /\ (In \in h.stale <=> In \in hist.stale)
    BY <1>5, <1>6, <1>10, <2>1
  <2>3. Timely(w)
    BY <1>2, <1>5, <1>6, <1>7, <2>2 DEF Timely, Ends, Emptied, Parked
  <2>4. PICK r : r = IF on THEN TryScheduleReadyMdecOut(w, n) ELSE w
    OBVIOUS
  <2>5. mdec' = r.mdec /\ dma' = r.dma /\ hist' = r.hist
    BY <1>3, <1>10, <2>1, <2>4 DEF Becomes
  <2>6. /\ Sound(r) /\ SameCommand(w.mdec, r.mdec)
        /\ r.dma.dpcr = w.dma.dpcr /\ r.dma.start = w.dma.start
        /\ r.hist.fed = w.hist.fed
        /\ r.hist.carries = w.hist.carries /\ r.hist.abandoned = w.hist.abandoned
        /\ r.hist.ported = w.hist.ported
        /\ \/ r = w
           \/ /\ CanDmaOut(w.mdec) /\ r.dma.events = w.dma.events \cup {Out}
              /\ r.hist.stale = w.hist.stale \ {Out}
    <3>1. CASE on
      <4>1. r = TryScheduleReadyMdecOut(w, n)
        BY <2>4, <3>1
      <4> QED
        BY <1>2, <1>8, <4>1, TryScheduleIs
    <3>2. CASE ~on
      BY <1>8, <2>4, <3>2 DEF SameCommand
    <3> QED
      BY <3>1, <3>2
  <2>7. Timely(r)
    <3>1. CASE r = w
      BY <2>3, <3>1
    <3>2. CASE /\ CanDmaOut(w.mdec) /\ r.dma.events = w.dma.events \cup {Out}
               /\ r.hist.stale = w.hist.stale \ {Out}
      <4>1. Ends(r)
        BY <2>3, <2>6, <3>2 DEF Timely, Ends, WaitsForOutput, SameCommand
      <4>2. Parked(r)
        BY <2>1, <2>3, <2>6, <3>2 DEF Timely, Parked, SameCommand
      <4>3. w.mdec.out > 0 \/ w.mdec.rl # <<>>
        BY <3>2 DEF CanDmaOut, CanContinue
      <4>4. ~(w.mdec.out = 0 /\ w.mdec.rl = <<>>)
        BY <1>2, <1>7, <4>3 DEF MdecType
      <4>5. Emptied(r)
        BY <2>1, <2>3, <2>6, <3>2, <4>4 DEF Timely, Emptied
      <4> QED
        BY <4>1, <4>2, <4>5 DEF Timely
    <3> QED
      BY <2>6, <3>1, <3>2
  <2>8. OnTime
    <3>1. dma'.start = c.start /\ dma'.dpcr = dma.dpcr /\ SameCommand(mdec, mdec')
      BY <1>5, <1>7, <2>5, <2>6
    <3>2. Stranded(mdec', dma') => Stranded(mdec, dma)
      BY <2>2, <3>1 DEF Stranded, RequestsInput, SameCommand
    <3>3. ~FrameEnds
      BY <2>2, <3>1 DEF FrameEnds
    <3> QED
      BY <3>2, <3>3 DEF OnTime
  <2> QED
    BY <2>5, <2>6, <2>7, <2>8, InvNext
<1> QED
  BY <1>9, <1>10

\* Only a store to DPCR can leave a parked kick behind.
LEMMA WriteDpcrStep ==
  ASSUME Inv, NEW enabled \in SUBSET {In, Out}, WriteDpcr(enabled)
  PROVE  Inv' /\ OnTime
<1>1. PICK c : c = [dma EXCEPT !.dpcr = enabled]
  OBVIOUS
<1>2. /\ c \in DmaType /\ c.start = dma.start /\ c.events = dma.events /\ c.dpcr = enabled
  BY <1>1, SystemIs DEF DmaType
<1>3. PICK r : r = [System EXCEPT !.dma = c]
  OBVIOUS
<1>4. r.mdec = mdec /\ r.dma = c /\ r.hist = hist /\ r \in [mdec : {mdec}, dma : {c}, hist : {hist}]
  BY <1>3 DEF System
<1>5. Sound(r)
  <2>1. r \in SystemType
    BY <1>2, <1>4, SystemIs DEF SystemType
  <2> QED
    BY <1>4, <2>1, SystemIs DEF Sound, Coded, Kept, Fresh
<1>6. Timely(r)
  BY <1>2, <1>4, SystemIs DEF Timely, Ends, Emptied, Parked
<1>7. mdec' = mdec /\ dma' = c /\ hist' = hist
  BY <1>1 DEF WriteDpcr
<1>8. OnTime
  <2>1. dma' = dma \/ dma'.dpcr # dma.dpcr
    <3>1. CASE enabled = dma.dpcr
      BY <1>1, <1>7, <3>1, SystemIs DEF DmaType
    <3>2. CASE enabled # dma.dpcr
      BY <1>2, <1>7, <3>2
    <3> QED
      BY <3>1, <3>2
  <2>2. ~FrameEnds
    BY <1>2, <1>7 DEF FrameEnds
  <2> QED
    BY <1>7, <2>1, <2>2 DEF OnTime
<1> QED
  BY <1>4, <1>5, <1>6, <1>7, <1>8, InvNext

\* A read of the data port takes a word, and the decoder goes on at once.
LEMMA ReadDataPortStep ==
  ASSUME Inv, ReadDataPort
  PROVE  Inv' /\ OnTime
<1>1. PICK b \in BOOLEAN : b = (hist.ported \/ CanDmaOut(mdec))
  <2>1. (hist.ported \/ CanDmaOut(mdec)) \in BOOLEAN
    OBVIOUS
  <2> QED
    BY <2>1
<1>2. PICK h, s : h = [hist EXCEPT !.ported = b] /\ s = [System EXCEPT !.hist = h]
  OBVIOUS
<1>3. /\ mdec \in MdecType /\ dma \in DmaType /\ hist \in HistType
      /\ System.mdec = mdec /\ System.dma = dma /\ System.hist = hist
      /\ Timely(System)
  BY SystemIs
<1>4. /\ h \in HistType /\ h.given = hist.given /\ h.taken = hist.taken
      /\ h.fed = hist.fed /\ h.early = hist.early /\ h.carries = hist.carries
      /\ h.abandoned = hist.abandoned /\ h.stale = hist.stale
  BY <1>2, <1>3 DEF HistType
<1>5. (CanDmaOut(mdec) => h.ported) /\ (hist.ported => h.ported)
  <2>1. h.ported = (hist.ported \/ CanDmaOut(mdec))
    BY <1>1, <1>2, <1>3 DEF HistType
  <2> QED
    BY <2>1, Zenon
<1>6. s.mdec = mdec /\ s.dma = dma /\ s.hist = h /\ s \in [mdec : {mdec}, dma : {dma}, hist : {h}]
  BY <1>2 DEF System
<1>7. Sound(s)
  <2>1. s \in SystemType
    BY <1>3, <1>4, <1>6 DEF SystemType
  <2> QED
    BY <1>4, <1>6, <2>1, SystemIs DEF Sound, Coded, Kept, Fresh
<1>8. PICK f : f = Refill(s)
  OBVIOUS
<1>9. PICK r : r = IF f.mdec.out = 0 THEN f ELSE Refill(Pop(f))
  OBVIOUS
<1>10. mdec' = r.mdec /\ dma' = r.dma /\ hist' = r.hist
  <2>1. s = [System EXCEPT !.hist.ported = @ \/ CanDmaOut(mdec)]
    BY <1>1, <1>2 DEF System
  <2> QED
    BY <1>8, <1>9, <2>1 DEF ReadDataPort, Becomes
<1>11. Sound(f) /\ SameFrame(s, f)
  BY <1>7, <1>8, RefillSound
<1>12. Sound(r) /\ SameFrame(s, r)
  <2>1. CASE f.mdec.out = 0
    BY <1>9, <1>11, <2>1
  <2>2. CASE f.mdec.out # 0
    <3>1. Sound(Pop(f)) /\ SameFrame(f, Pop(f))
      BY <1>11, PopSound
    <3>2. Sound(Refill(Pop(f))) /\ SameFrame(Pop(f), Refill(Pop(f)))
      BY <3>1, RefillSound
    <3>3. SameFrame(s, Refill(Pop(f)))
      BY <1>11, <3>1, <3>2, SameFrameTwice
    <3> QED
      BY <1>9, <2>2, <3>2, <3>3
  <2> QED
    BY <2>1, <2>2
<1>13. Timely(r)
  <2>1. CASE CanDmaOut(mdec)
    <3>1. ~(mdec.out = 0 /\ mdec.rl = <<>>)
      BY <1>3, <2>1 DEF CanDmaOut, CanContinue, MdecType
    <3>2. Ends(r)
      BY <1>5, <1>6, <1>12, <2>1 DEF Ends, SameFrame
    <3>3. Emptied(r) /\ Parked(r)
      BY <1>3, <1>4, <1>6, <1>12, <3>1 DEF Timely, Emptied, Parked, SameFrame, SameCommand
    <3> QED
      BY <3>2, <3>3 DEF Timely
  <2>2. CASE ~CanDmaOut(mdec)
    <3>1. mdec.out = 0 /\ ~CanContinue(mdec)
      BY <1>3, <2>2 DEF CanDmaOut, MdecType
    <3>2. f = s
      BY <1>6, <1>8, <3>1 DEF Refill
    <3>3. r = s
      BY <1>6, <1>9, <3>1, <3>2
    <3> QED
      BY <1>3, <1>4, <1>5, <1>6, <3>3 DEF Timely, Ends, Emptied, Parked
  <2> QED
    BY <2>1, <2>2
<1>14. OnTime
  BY <1>6, <1>10, <1>12 DEF OnTime, FrameEnds, Stranded, RequestsInput, SameFrame, SameCommand
<1> QED
  BY <1>10, <1>12, <1>13, <1>14, InvNext

\* The reset runs on its own.
LEMMA ResetAdvancesStep ==
  ASSUME Inv, ResetAdvances
  PROVE  Inv' /\ OnTime
<1>1. PICK d : d = [mdec EXCEPT !.reset = IF mdec.reset = "capturing" THEN "completing" ELSE "over"]
  OBVIOUS
<1>2. /\ d \in MdecType /\ d.code = mdec.code /\ d.busy = mdec.busy
      /\ d.expected = mdec.expected /\ d.inEnabled = mdec.inEnabled
      /\ d.waiting = mdec.waiting /\ d.rl = mdec.rl /\ d.out = mdec.out
  BY <1>1, SystemIs DEF MdecType
<1>3. PICK r : r = [System EXCEPT !.mdec = d]
  OBVIOUS
<1>4. r.mdec = d /\ r.dma = dma /\ r.hist = hist /\ r \in [mdec : {d}, dma : {dma}, hist : {hist}]
  BY <1>3 DEF System
<1>5. Sound(r)
  <2>1. r \in SystemType
    BY <1>2, <1>4, SystemIs DEF SystemType
  <2> QED
    BY <1>2, <1>4, <2>1, SystemIs DEF Sound, Coded, Kept, Holds, Fresh
<1>6. Timely(r)
  BY <1>2, <1>4, SystemIs
     DEF Timely, Ends, Emptied, Parked, WaitsForOutput, CanDmaOut, CanContinue
<1>7. mdec' = d /\ dma' = dma /\ hist' = hist
  BY <1>1 DEF ResetAdvances
<1>8. OnTime
  BY <1>2, <1>7 DEF OnTime, FrameEnds, Stranded, RequestsInput
<1> QED
  BY <1>4, <1>5, <1>6, <1>7, <1>8, InvNext

\* Channel 0's own event ends a transfer whose frame has no output left.
LEMMA MdecInDueStep ==
  ASSUME Inv, MdecInDue
  PROVE  Inv' /\ OnTime
<1>1. PICK c, h : /\ c = [dma EXCEPT !.events = dma.events \ {In}, !.start = dma.start \ {In}]
                  /\ h = [hist EXCEPT !.stale = hist.stale \ {In}, !.carries = "none"]
  OBVIOUS
<1>2. /\ mdec \in MdecType /\ dma \in DmaType /\ hist \in HistType
      /\ System.mdec = mdec /\ System.dma = dma /\ System.hist = hist /\ Timely(System)
  BY SystemIs
<1>3. PICK r : r = Complete(Taken(In), In)
  OBVIOUS
<1>4. r.mdec = mdec /\ r.dma = c /\ r.hist = h /\ r \in [mdec : {mdec}, dma : {c}, hist : {h}]
  BY <1>1, <1>2, <1>3 DEF Complete, Taken, System, DmaType, HistType
<1>5. /\ c \in DmaType /\ c.start = dma.start \ {In} /\ c.events = dma.events \ {In}
      /\ c.dpcr = dma.dpcr
  BY <1>1, <1>2 DEF DmaType
<1>6. /\ h \in HistType /\ h.given = hist.given /\ h.taken = hist.taken
      /\ h.fed = hist.fed /\ h.early = hist.early
  BY <1>1, <1>2 DEF HistType
<1>7. Sound(r)
  <2>1. r \in SystemType
    BY <1>2, <1>4, <1>5, <1>6 DEF SystemType
  <2> QED
    BY <1>4, <1>6, <2>1, SystemIs DEF Sound, Coded, Kept, Fresh
<1>8. Timely(r)
  BY <1>4, <1>5 DEF Timely, Ends, Emptied, Parked
<1>9. mdec' = r.mdec /\ dma' = r.dma /\ hist' = r.hist
  BY <1>3 DEF MdecInDue, Becomes
<1>10. OnTime
  <2>1. FrameEnds => mdec.out = 0 /\ mdec.rl = <<>>
    BY <1>2 DEF MdecInDue, FrameEnds, Timely, Emptied
  <2>2. ~Stranded(mdec', dma')
    BY <1>4, <1>5, <1>9 DEF Stranded
  <2> QED
    BY <2>1, <2>2, DataEmpty DEF OnTime
<1> QED
  BY <1>7, <1>8, <1>9, <1>10, InvNext

\* Channel 1's event ends channel 0's transfer with the last output of its frame.
LEMMA MdecOutDueStep ==
  ASSUME Inv, MdecOutDue
  PROVE  Inv' /\ OnTime
<1>1. /\ mdec \in MdecType /\ dma \in DmaType /\ hist \in HistType
      /\ System.mdec = mdec /\ System.dma = dma /\ System.hist = hist /\ Timely(System)
      /\ In # Out
  BY SystemIs DEF In, Out
<1>2. CASE FrameIsOver(mdec)
  <2>1. PICK d, c, h :
          /\ d = [mdec EXCEPT !.busy = FALSE, !.rl = <<>>]
          /\ c = [dma EXCEPT !.events = dma.events \ {Out}, !.start = (dma.start \ {In}) \ {Out}]
          /\ h = [hist EXCEPT !.stale = hist.stale \ {Out}, !.carries = "none"]
    OBVIOUS
  <2>2. PICK r : r = Complete(Complete([Taken(Out) EXCEPT !.mdec.busy = FALSE,
                                                          !.mdec.rl = <<>>], In), Out)
    OBVIOUS
  <2>3. r.mdec = d /\ r.dma = c /\ r.hist = h /\ r \in [mdec : {d}, dma : {c}, hist : {h}]
    <3>1. PICK x : x = [Taken(Out) EXCEPT !.mdec.busy = FALSE, !.mdec.rl = <<>>]
      OBVIOUS
    <3>2. x.mdec = d /\ x.dma = [dma EXCEPT !.events = dma.events \ {Out}]
          /\ x.hist = [hist EXCEPT !.stale = hist.stale \ {Out}]
          /\ x \in [mdec : {d}, dma : {x.dma}, hist : {x.hist}]
      BY <1>1, <2>1, <3>1 DEF Taken, System
    <3>3. PICK y : y = Complete(x, In)
      OBVIOUS
    <3>4. y.mdec = d
          /\ y.dma = [dma EXCEPT !.events = dma.events \ {Out}, !.start = dma.start \ {In}]
          /\ y.hist = h /\ y \in [mdec : {d}, dma : {y.dma}, hist : {h}]
      BY <1>1, <2>1, <3>2, <3>3 DEF Complete, DmaType, HistType
    <3>5. r = Complete(y, Out)
      BY <2>2, <3>1, <3>3
    <3>6. y.dma.start = dma.start \ {In}
      BY <1>1, <3>4 DEF DmaType
    <3>7. r.mdec = d /\ r.dma = [y.dma EXCEPT !.start = (dma.start \ {In}) \ {Out}]
          /\ r.hist = [h EXCEPT !.carries = h.carries]
          /\ r \in [mdec : {d}, dma : {r.dma}, hist : {r.hist}]
      BY <1>1, <3>4, <3>5, <3>6 DEF Complete
    <3>8. r.dma = c
      BY <1>1, <2>1, <3>4, <3>7 DEF DmaType
    <3>9. r.hist = h
      BY <1>1, <2>1, <3>7 DEF HistType
    <3> QED
      BY <3>7, <3>8, <3>9
  <2>4. mdec.out = 0 /\ mdec.rl \in Seq(Word) /\ Data(mdec.rl) = 0
    BY <1>1, <1>2 DEF FrameIsOver, MdecType
  <2>5. <<>> \in Seq(Word) /\ Data(<<>>) = 0
    BY DataEmpty
  <2>6. /\ d \in MdecType /\ d.code = mdec.code /\ d.expected = mdec.expected
        /\ d.waiting = mdec.waiting /\ d.rl = <<>> /\ d.out = mdec.out
    BY <1>1, <2>1, <2>5 DEF MdecType
  <2>7. c \in DmaType /\ In \notin c.start /\ (In \in c.events <=> In \in dma.events)
    <3>1. dma.events \ {Out} \in SUBSET {In, Out} /\ (dma.start \ {In}) \ {Out} \in SUBSET {In, Out}
      BY <1>1 DEF DmaType
    <3>2. /\ c \in DmaType /\ c.events = dma.events \ {Out}
          /\ c.start = (dma.start \ {In}) \ {Out}
      BY <1>1, <2>1, <3>1 DEF DmaType
    <3> QED
      BY <1>1, <3>2
  <2>8. /\ h \in HistType /\ h.given = hist.given /\ h.taken = hist.taken
        /\ h.fed = hist.fed /\ h.early = hist.early /\ h.carries = "none"
        /\ (In \in h.stale <=> In \in hist.stale)
    <3>1. hist.stale \ {Out} \in SUBSET {In, Out}
      BY <1>1 DEF HistType
    <3>2. /\ h \in HistType /\ h.given = hist.given /\ h.taken = hist.taken
          /\ h.fed = hist.fed /\ h.early = hist.early /\ h.carries = "none"
          /\ h.stale = hist.stale \ {Out}
      BY <1>1, <2>1, <3>1 DEF HistType
    <3> QED
      BY <1>1, <3>2
  <2>9. Sound(r)
    <3>1. r \in SystemType
      BY <2>3, <2>6, <2>7, <2>8 DEF SystemType
    <3>2. Holds(d) = Holds(mdec)
      BY <2>4, <2>5, <2>6 DEF Holds, Blocks
    <3> QED
      BY <2>3, <2>4, <2>5, <2>6, <2>8, <3>1, <3>2, SystemIs DEF Sound, Coded, Kept, Fresh
  <2>10. Timely(r)
    BY <1>1, <2>3, <2>6, <2>7, <2>8 DEF Timely, Ends, Emptied, Parked
  <2>11. mdec' = r.mdec /\ dma' = r.dma /\ hist' = r.hist
    BY <1>2, <2>2 DEF MdecOutDue, Becomes
  <2>12. OnTime
    BY <2>3, <2>4, <2>7, <2>11 DEF OnTime, Stranded
  <2> QED
    BY <2>9, <2>10, <2>11, <2>12, InvNext
<1>3. CASE ~FrameIsOver(mdec)
  <2>1. PICK c, h :
          /\ c = [dma EXCEPT !.events = dma.events \ {Out}, !.start = dma.start \ {Out}]
          /\ h = [hist EXCEPT !.stale = hist.stale \ {Out}]
    OBVIOUS
  <2>2. PICK r : r = Complete(Taken(Out), Out)
    OBVIOUS
  <2>3. r.mdec = mdec /\ r.dma = c /\ r.hist = h /\ r \in [mdec : {mdec}, dma : {c}, hist : {h}]
    <3>1. PICK x : x = Taken(Out)
      OBVIOUS
    <3>2. x.mdec = mdec /\ x.dma = [dma EXCEPT !.events = dma.events \ {Out}]
          /\ x.hist = h /\ x \in [mdec : {mdec}, dma : {x.dma}, hist : {h}]
      BY <1>1, <2>1, <3>1 DEF Taken, System
    <3>3. x.dma.start = dma.start
      BY <1>1, <3>2 DEF DmaType
    <3>4. r.mdec = mdec /\ r.dma = [x.dma EXCEPT !.start = dma.start \ {Out}]
          /\ r.hist = [h EXCEPT !.carries = h.carries]
          /\ r \in [mdec : {mdec}, dma : {r.dma}, hist : {r.hist}]
      BY <1>1, <2>2, <3>1, <3>2, <3>3 DEF Complete
    <3>5. r.dma = c
      BY <1>1, <2>1, <3>2, <3>4 DEF DmaType
    <3>6. r.hist = h
      BY <1>1, <2>1, <3>4 DEF HistType
    <3> QED
      BY <3>4, <3>5, <3>6
  <2>4. /\ c \in DmaType /\ c.dpcr = dma.dpcr /\ (In \in c.start <=> In \in dma.start)
        /\ (In \in c.events <=> In \in dma.events)
    <3>1. dma.events \ {Out} \in SUBSET {In, Out} /\ dma.start \ {Out} \in SUBSET {In, Out}
      BY <1>1 DEF DmaType
    <3>2. /\ c \in DmaType /\ c.events = dma.events \ {Out} /\ c.dpcr = dma.dpcr
          /\ c.start = dma.start \ {Out}
      BY <1>1, <2>1, <3>1 DEF DmaType
    <3> QED
      BY <1>1, <3>2
  <2>5. /\ h \in HistType /\ h.given = hist.given /\ h.taken = hist.taken
        /\ h.fed = hist.fed /\ h.early = hist.early /\ h.carries = hist.carries
        /\ h.abandoned = hist.abandoned /\ h.ported = hist.ported
        /\ (In \in h.stale <=> In \in hist.stale)
    <3>1. hist.stale \ {Out} \in SUBSET {In, Out}
      BY <1>1 DEF HistType
    <3>2. /\ h \in HistType /\ h.given = hist.given /\ h.taken = hist.taken
          /\ h.fed = hist.fed /\ h.early = hist.early /\ h.carries = hist.carries
          /\ h.abandoned = hist.abandoned /\ h.ported = hist.ported
          /\ h.stale = hist.stale \ {Out}
      BY <1>1, <2>1, <3>1 DEF HistType
    <3> QED
      BY <1>1, <3>2
  <2>6. Sound(r)
    <3>1. r \in SystemType
      BY <1>1, <2>3, <2>4, <2>5 DEF SystemType
    <3> QED
      BY <2>3, <2>5, <3>1, SystemIs DEF Sound, Coded, Kept, Fresh
  <2>7. WaitsForOutput(mdec) => CanDmaOut(mdec)
    <3>1. mdec.out \in Nat
      BY <1>1 DEF MdecType
    <3>2. mdec.rl = <<>> => Data(mdec.rl) = 0
      BY DataEmpty
    <3> QED
      BY <1>3, <3>1, <3>2 DEF FrameIsOver, CanDmaOut, CanContinue
  <2>8. Timely(r)
    BY <1>1, <2>3, <2>4, <2>5, <2>7 DEF Timely, Ends, Emptied, Parked
  <2>9. mdec' = r.mdec /\ dma' = r.dma /\ hist' = r.hist
    BY <1>3, <2>2 DEF MdecOutDue, Becomes
  <2>10. OnTime
    BY <2>3, <2>4, <2>9 DEF OnTime, FrameEnds, Stranded
  <2> QED
    BY <2>6, <2>8, <2>9, <2>10, InvNext
<1> QED
  BY <1>2, <1>3

-----------------------------------------------------------------------------
(* The theorems. *)

LEMMA InitInv == Init => Inv
<1> SUFFICES ASSUME Init PROVE Inv
  OBVIOUS
<1>1. <<>> \in Seq(Word) /\ {} \in SUBSET {In, Out}
  BY DataEmpty
<1>2. mdec \in MdecType
  BY <1>1 DEF Init, MdecType
<1>3. dma \in DmaType
  BY <1>1 DEF Init, DmaType
<1>4. hist \in HistType
  BY <1>1 DEF Init, HistType
<1>5. /\ System.mdec = mdec /\ System.dma = dma /\ System.hist = hist
      /\ System \in SystemType
  BY <1>2, <1>3, <1>4 DEF System, SystemType
<1>6. Kept(System)
  <2>1. PICK b \in Nat : b = OutWords * Blocks(<<>>)
    BY <1>1, BlocksIs
  <2>2. mdec.out = 0 /\ mdec.rl = <<>> /\ hist.taken = 0 /\ hist.given = <<>>
    BY DEF Init
  <2> QED
    BY <1>5, <2>1, <2>2 DEF Kept, Holds
<1>7. Coded(System) /\ Fresh(System) /\ Timely(System)
  BY <1>5 DEF Init, Coded, Fresh, Timely, Ends, Emptied, Parked
<1> QED
  BY <1>5, <1>6, <1>7 DEF Inv, Sound

LEMMA NextInv == Inv /\ [Next]_vars => Inv' /\ [OnTime]_vars
<1> SUFFICES ASSUME Inv, [Next]_vars PROVE Inv' /\ [OnTime]_vars
  OBVIOUS
<1>1. CASE UNCHANGED vars
  <2>1. System' = System
    BY <1>1 DEF vars, System
  <2>2. Sound(System') /\ Timely(System')
    BY <2>1 DEF Inv
  <2> QED
    BY <1>1, <2>2 DEF Inv
<1>2. CASE Next
  <2>1. Inv' /\ OnTime
    <3>1. ASSUME NEW words \in Streams, NEW n \in OutSizes,
                 \/ \E ch \in {In, Out}, on \in BOOLEAN : WriteChcr(ch, on, words, n)
                 \/ \E word \in CpuWords : WriteParameter(word, words, n)
                 \/ \E code \in {"none", "decode", "table"}, count \in Counts :
                      WriteCommand(code, count, words, n)
                 \/ WriteReset(words, n)
                 \/ \E enable \in BOOLEAN : WriteControl(enable, words, n)
          PROVE  Inv' /\ OnTime
      BY <3>1, WriteChcrStep, WriteParameterStep, WriteCommandStep, WriteResetStep,
         WriteControlStep
    <3>2. CASE \E enabled \in SUBSET {In, Out} : WriteDpcr(enabled)
      BY <3>2, WriteDpcrStep
    <3> QED
      BY <1>2, <3>1, <3>2, ReadDataPortStep, ResetAdvancesStep, MdecInDueStep, MdecOutDueStep
         DEF Next
  <2> QED
    BY <2>1
<1> QED
  BY <1>1, <1>2

LEMMA Invariance == Spec => []Inv
<1>1. Inv /\ [Next]_vars => Inv'
  BY NextInv
<1> QED
  BY InitInv, <1>1, PTL DEF Spec

\* The decoder, the channels and the history keep their types.
THEOREM TypeCorrect == Spec => []TypeOK
<1>1. Inv => TypeOK
  BY SystemIs DEF TypeOK
<1> QED
  BY <1>1, Invariance, PTL

\* Every macroblock that channel 0 moved is taken once, still queued as output or still
\* in the input queue, however long the frame, wherever the padding falls and whatever
\* slices channel 1 and the data port take (decode_one_macroblock, dma_read_out).  A
\* frame the CPU feeds is kept as long as nobody asks for output before its last word.
THEOREM FrameConserved == Spec => []FrameIsConserved
<1>1. ASSUME Inv PROVE FrameIsConserved
  <2>1. /\ Kept(System) /\ System.mdec = mdec /\ System.hist = hist
        /\ mdec \in MdecType /\ hist \in HistType
    BY <1>1, SystemIs
  <2>2. /\ mdec.rl \in Seq(Word) /\ mdec.out \in Nat /\ hist.taken \in Nat
    BY <2>1 DEF MdecType, HistType
  <2>3. PICK b \in Nat : b = OutWords * Blocks(mdec.rl)
    BY <2>2, BlocksIs
  <2>4. hist.taken + mdec.out + b = hist.taken + Holds(mdec)
    BY <2>2, <2>3 DEF Holds
  <2> QED
    BY <2>1, <2>3, <2>4 DEF FrameIsConserved, Conserved, Kept
<1> QED
  BY <1>1, Invariance, PTL

\* A channel 0 whose words have moved is never left busy for good: its own event is
\* pending, or channel 1's, or there is output that a kick of channel 1 will take and
\* end it with (start_mdec_in_dma, complete_dma_out).
THEOREM InputEnds == Spec => []InputBusyHasAnEnd
<1>1. ASSUME Inv PROVE InputBusyHasAnEnd
  BY <1>1, SystemIs DEF InputBusyHasAnEnd, HasAnEnd, Timely, Ends
<1> QED
  BY <1>1, Invariance, PTL

\* A parked kick starts with the store that gives it what it waits for, and a frame's
\* transfer ends with its last output and not before (service_mdec_dma_request,
\* complete_dma_out).
THEOREM InputOnTime == Spec => InputKeepsItsTime
<1>1. Inv /\ [Next]_vars => [OnTime]_vars
  BY NextInv
<1> QED
  BY <1>1, Invariance, PTL DEF Spec, InputKeepsItsTime, OnTime
=============================================================================
