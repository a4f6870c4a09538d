------------------------- MODULE GpuListWalkProofs -------------------------
(***************************************************************************)
(* Theorems about GpuListWalk, for every FIFO, packet, upload and setup    *)
(* size and every set of programs: the types, that the batches with which  *)
(* bus.rs runs many clocks at once end where the clocks one by one do, and *)
(* that lists reach the GPU whole.  A batch is compared with a run of      *)
(* clocks, a function from 0..n whose every value is the clock of the one  *)
(* before; the drain, the loops and the push of a whole node are such runs *)
(* too, and what one step of a run keeps the run keeps (RunStays).  That   *)
(* lists arrive whole is shown one clock at a time and holds of the        *)
(* batches because they are clocks.                                        *)
(***************************************************************************)
EXTENDS GpuListWalk, SequenceTheorems, WellFoundedInduction, TLAPS
-----------------------------------------------------------------------------
(* Numbers, induction over a bounded range, and Iterate. *)

\* A set of natural numbers has a least one.
LEMMA LeastNat ==
  ASSUME NEW T \in SUBSET Nat, T # {}
  PROVE  \E m \in T : \A t \in T : m <= t
<1>1. PICK R : R = OpToRel(<, Nat)
  OBVIOUS
<1>2. IsWellFoundedOn(R, Nat)
  BY <1>1, NatLessThanWellFounded
<1>3. PICK m \in T : \A t \in T : <<t, m>> \notin R
  BY <1>2, WFMin
<1>4. \A t \in T : <<t, m>> \in Nat \X Nat /\ (t < m => <<t, m>> \in R)
  BY <1>1 DEF OpToRel
<1>5. ASSUME NEW t \in T PROVE m <= t
  <2>1. t \in Nat /\ m \in Nat /\ ~(t < m)
    BY <1>3, <1>4
  <2> QED
    BY <2>1
<1> QED
  BY <1>5

\* What holds at 0 and of k + 1 when it holds of k holds up to n.
LEMMA UpTo ==
  ASSUME NEW n \in Nat, NEW S, 0 \in S,
         \A k \in 0..n : k \in S /\ k < n => k + 1 \in S
  PROVE  \A k \in 0..n : k \in S
<1> DEFINE T == {k \in 0..n : k \notin S}
<1> SUFFICES ASSUME T # {} PROVE FALSE
  OBVIOUS
<1>1. PICK m \in T : \A t \in T : m <= t
  <2>1. T \in SUBSET Nat
    OBVIOUS
  <2> HIDE DEF T
  <2> QED
    BY <2>1, LeastNat
<1>2. m \in 0..n /\ m \notin S /\ m # 0
  OBVIOUS
<1>3. m - 1 \in 0..n /\ m - 1 \notin T /\ m - 1 < n
  BY <1>1, <1>2
<1>4. m - 1 \in S
  BY <1>3
<1>5. (m - 1) + 1 \in S
  BY <1>3, <1>4
<1> QED
  BY <1>2, <1>5

\* A sequence of states that starts at x and goes on by step.
Run(f, step, x, n) ==
  /\ f = [k \in 0..n |-> f[k]]
  /\ f[0] = x
  /\ \A k \in 0..n : k # 0 => f[k] = step[f[k - 1]]

\* There is a run of every length, and it stays where its step does.
LEMMA RunExists ==
  ASSUME NEW D, NEW step \in [D -> D], NEW x \in D, NEW n \in Nat
  PROVE  \E f \in [0..n -> D] : Run(f, step, x, n)
<1> DEFINE S == {m \in Nat : \E f \in [0..m -> D] : Run(f, step, x, m)}
<1>1. 0 \in S
  <2>1. PICK f : f = [k \in 0..0 |-> x]
    OBVIOUS
  <2>2. f \in [0..0 -> D] /\ Run(f, step, x, 0)
    BY <2>1 DEF Run
  <2> QED
    BY <2>2
<1>2. ASSUME NEW m \in 0..n, m \in S, m < n PROVE m + 1 \in S
  <2>1. PICK f \in [0..m -> D] : Run(f, step, x, m)
    BY <1>2
  <2>2. PICK g : g = [k \in 0..m + 1 |-> IF k = m + 1 THEN step[f[m]] ELSE f[k]]
    OBVIOUS
  <2>3. ASSUME NEW k \in 0..m + 1 PROVE g[k] \in D /\ (k # 0 => g[k] = step[g[k - 1]])
    <3>1. CASE k = m + 1
      BY <2>1, <2>2, <3>1
    <3>2. CASE k # m + 1
      <4>1. k \in 0..m /\ (k # 0 => k - 1 \in 0..m /\ k - 1 # m + 1)
        BY <3>2
      <4>2. g[k] = f[k] /\ (k # 0 => g[k - 1] = f[k - 1])
        BY <2>2, <3>2, <4>1
      <4> QED
        BY <2>1, <4>1, <4>2 DEF Run
    <3> QED
      BY <3>1, <3>2
  <2>4. g[0] = x
    BY <2>1, <2>2 DEF Run
  <2>5. g = [k \in 0..m + 1 |-> g[k]] /\ g \in [0..m + 1 -> D]
    BY <2>2, <2>3
  <2>6. Run(g, step, x, m + 1)
    BY <2>3, <2>4, <2>5 DEF Run
  <2> QED
    BY <2>5, <2>6
<1>3. \A k \in 0..n : k \in S
  <2> HIDE DEF S
  <2> QED
    BY <1>1, <1>2, UpTo
<1> QED
  BY <1>3

\* Two sequences that start alike and go on alike end alike.
LEMMA RunsAgree ==
  ASSUME NEW n \in Nat, NEW f, NEW g, f[0] = g[0],
         \A k \in 0..n : k # 0 /\ f[k - 1] = g[k - 1] => f[k] = g[k]
  PROVE  f[n] = g[n]
<1> DEFINE S == {k \in 0..n : f[k] = g[k]}
<1>1. 0 \in S
  OBVIOUS
<1>2. ASSUME NEW k \in 0..n, k \in S, k < n PROVE k + 1 \in S
  <2>1. k + 1 \in 0..n /\ k + 1 # 0 /\ (k + 1) - 1 = k
    BY <1>2
  <2> QED
    BY <1>2, <2>1
<1>3. \A k \in 0..n : k \in S
  <2> HIDE DEF S
  <2> QED
    BY <1>1, <1>2, UpTo
<1> QED
  BY <1>3

\* What a step keeps, a run keeps.
LEMMA RunStays ==
  ASSUME NEW n \in Nat, NEW f, NEW G, f[0] \in G,
         \A k \in 0..n : k # 0 /\ f[k - 1] \in G => f[k] \in G
  PROVE  \A k \in 0..n : f[k] \in G
<1> DEFINE S == {k \in 0..n : f[k] \in G}
<1>1. 0 \in S
  OBVIOUS
<1>2. ASSUME NEW k \in 0..n, k \in S, k < n PROVE k + 1 \in S
  <2>1. k + 1 \in 0..n /\ k + 1 # 0 /\ (k + 1) - 1 = k
    BY <1>2
  <2> QED
    BY <1>2, <2>1
<1>3. \A k \in 0..n : k \in S
  <2> HIDE DEF S
  <2> QED
    BY <1>1, <1>2, UpTo
<1> QED
  BY <1>3

LEMMA TheOnly ==
  ASSUME NEW x
  PROVE  (CHOOSE y \in {x} : TRUE) = x
OBVIOUS

-----------------------------------------------------------------------------
(* Sequences cut in two and joined. *)

LEMMA CutIs ==
  ASSUME NEW T, NEW q \in Seq(T), NEW n \in Nat, n <= Len(q)
  PROVE  /\ SubSeq(q, 1, n) \in Seq(T) /\ Len(SubSeq(q, 1, n)) = n
         /\ \A i \in 1..n : SubSeq(q, 1, n)[i] = q[i]
         /\ SubSeq(q, n + 1, Len(q)) \in Seq(T) /\ Len(SubSeq(q, n + 1, Len(q))) = Len(q) - n
         /\ \A i \in 1..Len(q) - n : SubSeq(q, n + 1, Len(q))[i] = q[i + n]
<1>1. PICK len \in Nat : len = Len(q)
  BY LenProperties
<1>2. PICK one \in Int : one = 1
  OBVIOUS
<1>3. PICK m \in Int : m = n + 1
  OBVIOUS
<1>4. n \in Int /\ len \in Int
  OBVIOUS
<1>5. (\A i \in one..n : q[i] \in T) /\ (\A i \in m..len : q[i] \in T)
  BY <1>1, <1>2, <1>3, ElementOfSeq
<1>6. /\ SubSeq(q, one, n) \in Seq(T)
      /\ Len(SubSeq(q, one, n)) = IF one <= n THEN n - one + 1 ELSE 0
      /\ \A i \in 1..n - one + 1 : SubSeq(q, one, n)[i] = q[one + i - 1]
  BY <1>4, <1>5, SubSeqProperties
<1>7. /\ SubSeq(q, m, len) \in Seq(T)
      /\ Len(SubSeq(q, m, len)) = IF m <= len THEN len - m + 1 ELSE 0
      /\ \A i \in 1..len - m + 1 : SubSeq(q, m, len)[i] = q[m + i - 1]
  BY <1>4, <1>5, SubSeqProperties
<1>8. /\ SubSeq(q, 1, n) \in Seq(T) /\ Len(SubSeq(q, 1, n)) = n
      /\ \A i \in 1..n : SubSeq(q, 1, n)[i] = q[i]
  <2>1. n - one + 1 = n /\ \A i \in 1..n : one + i - 1 = i
    BY <1>2
  <2>2. Len(SubSeq(q, one, n)) = n
    BY <1>2, <1>6
  <2>3. \A i \in 1..n : SubSeq(q, one, n)[i] = q[i]
    BY <1>6, <2>1
  <2> QED
    BY <1>2, <1>6, <2>2, <2>3
<1>9. /\ SubSeq(q, n + 1, Len(q)) \in Seq(T) /\ Len(SubSeq(q, n + 1, Len(q))) = Len(q) - n
      /\ \A i \in 1..Len(q) - n : SubSeq(q, n + 1, Len(q))[i] = q[i + n]
  <2>1. len - m + 1 = len - n /\ \A i \in 1..len - n : m + i - 1 = i + n
    BY <1>3
  <2>2. Len(SubSeq(q, m, len)) = len - n
    BY <1>1, <1>3, <1>7
  <2>3. \A i \in 1..len - n : SubSeq(q, m, len)[i] = q[i + n]
    BY <1>7, <2>1
  <2> QED
    BY <1>1, <1>3, <1>7, <2>2, <2>3
<1> QED
  BY <1>8, <1>9

LEMMA CutNone ==
  ASSUME NEW T, NEW q \in Seq(T)
  PROVE  SubSeq(q, 1, 0) = <<>> /\ SubSeq(q, 0 + 1, Len(q)) = q
<1>1. SubSeq(q, 1, 0) = <<>>
  BY SubSeqEmpty
<1>2. SubSeq(q, 1, Len(q)) = q
  BY SubSeqFull
<1>3. 0 + 1 = 1
  OBVIOUS
<1> QED
  BY <1>1, <1>2, <1>3

\* The cut one element further.
LEMMA CutNext ==
  ASSUME NEW T, NEW q \in Seq(T), NEW n \in Nat, n < Len(q), NEW m \in Nat, m = n + 1
  PROVE  /\ q[m] \in T
         /\ Append(SubSeq(q, 1, n), q[m]) = SubSeq(q, 1, m)
         /\ SubSeq(q, n + 1, Len(q)) # <<>>
         /\ Head(SubSeq(q, n + 1, Len(q))) = q[m]
         /\ Tail(SubSeq(q, n + 1, Len(q))) = SubSeq(q, m + 1, Len(q))
<1>1. Len(q) \in Nat /\ n <= Len(q) /\ m <= Len(q)
  BY LenProperties
<1>2. q[m] \in T
  BY <1>1, ElementOfSeq
<1>3a. PICK a \in Seq(T) : a = SubSeq(q, 1, n)
  BY <1>1, CutIs
<1>3. Len(a) = n /\ \A i \in 1..n : a[i] = q[i]
  BY <1>1, <1>3a, CutIs
<1>4a. PICK b \in Seq(T) : b = SubSeq(q, 1, m)
  BY <1>1, CutIs
<1>4. Len(b) = m /\ \A i \in 1..m : b[i] = q[i]
  BY <1>1, <1>4a, CutIs
<1>5a. PICK c \in Seq(T) : c = SubSeq(q, n + 1, Len(q))
  BY <1>1, CutIs
<1>5. Len(c) = Len(q) - n /\ \A i \in 1..Len(q) - n : c[i] = q[i + n]
  BY <1>1, <1>5a, CutIs
<1>6a. PICK d \in Seq(T) : d = SubSeq(q, m + 1, Len(q))
  BY <1>1, CutIs
<1>6. Len(d) = Len(q) - m /\ \A i \in 1..Len(q) - m : d[i] = q[i + m]
  BY <1>1, <1>6a, CutIs
<1>7. Append(a, q[m]) = b
  <2>0. PICK e \in Seq(T) : e = Append(a, q[m])
    BY <1>2, AppendProperties
  <2>1. /\ Len(e) = n + 1
        /\ \A i \in 1..n : e[i] = a[i]
        /\ e[n + 1] = q[m]
    BY <1>2, <1>3, <2>0, AppendProperties
  <2>2. \A i \in 1..Len(e) : e[i] = b[i]
    BY <1>3, <1>4, <2>1, SMTT(30)
  <2>3. Len(e) = Len(b)
    BY <1>4, <2>1
  <2>4. e = b
    BY <2>2, <2>3, SeqEqual
  <2> QED
    BY <2>0, <2>4
<1>8. c # <<>> /\ Head(c) = c[1] /\ c[1] = q[m]
  <2>1. Len(c) # 0 /\ 1 \in 1..Len(q) - n /\ 1 + n = m
    BY <1>1, <1>5
  <2>2. c[1] = q[1 + n]
    BY <1>5, <2>1
  <2> QED
    BY <2>1, <2>2
<1>9. Tail(c) = d
  <2>0. PICK e \in Seq(T) : e = Tail(c)
    BY <1>8, HeadTailProperties
  <2>1. Len(e) = Len(c) - 1 /\ \A i \in 1..Len(e) : e[i] = c[i + 1]
    BY <1>8, <2>0, HeadTailProperties
  <2>2. ASSUME NEW i \in 1..Len(e) PROVE e[i] = d[i]
    <3>1. i + 1 \in 1..Len(q) - n /\ (i + 1) + n = i + m /\ i \in 1..Len(q) - m
      BY <1>1, <1>5, <2>1
    <3>2. e[i] = c[i + 1]
      BY <2>1
    <3>3. c[i + 1] = q[(i + 1) + n]
      BY <1>5, <3>1
    <3>4. d[i] = q[i + m]
      BY <1>6, <3>1
    <3> QED
      BY <3>1, <3>2, <3>3, <3>4
  <2>3. Len(e) = Len(d)
    BY <1>1, <1>5, <1>6, <2>1
  <2>4. e = d
    BY <2>2, <2>3, SeqEqual
  <2> QED
    BY <2>0, <2>4
<1> QED
  BY <1>2, <1>3a, <1>4a, <1>5a, <1>6a, <1>7, <1>8, <1>9

First(q, n) == SubSeq(q, 1, n)
Rest(q, n)  == SubSeq(q, n + 1, Len(q))

LEMMA FirstIs ==
  ASSUME NEW T, NEW q \in Seq(T), NEW n \in Nat, n <= Len(q)
  PROVE  /\ First(q, n) \in Seq(T) /\ Len(First(q, n)) = n
         /\ \A i \in 1..n : First(q, n)[i] = q[i]
BY CutIs DEF First

LEMMA RestIs ==
  ASSUME NEW T, NEW q \in Seq(T), NEW n \in Nat, n <= Len(q)
  PROVE  /\ Rest(q, n) \in Seq(T) /\ Len(Rest(q, n)) = Len(q) - n
         /\ \A i \in 1..Len(q) - n : Rest(q, n)[i] = q[i + n]
BY CutIs DEF Rest

LEMMA FirstNone ==
  ASSUME NEW T, NEW q \in Seq(T), NEW n \in Nat, n = 0
  PROVE  First(q, n) = <<>> /\ Rest(q, n) = q
BY CutNone DEF First, Rest

LEMMA FirstNext ==
  ASSUME NEW T, NEW q \in Seq(T), NEW n \in Nat, n < Len(q), NEW m \in Nat, m = n + 1
  PROVE  /\ q[m] \in T
         /\ Append(First(q, n), q[m]) = First(q, m)
         /\ Rest(q, n) # <<>>
         /\ Head(Rest(q, n)) = q[m]
         /\ Tail(Rest(q, n)) = Rest(q, m)
BY CutNext DEF First, Rest

Join(q, r) == q \o r

LEMMA JoinIs ==
  ASSUME NEW T, NEW q \in Seq(T), NEW r \in Seq(T)
  PROVE  /\ Join(q, r) \in Seq(T) /\ Len(Join(q, r)) = Len(q) + Len(r)
         /\ \A i \in 1..Len(q) : Join(q, r)[i] = q[i]
         /\ \A i \in 1..Len(r) : Join(q, r)[i + Len(q)] = r[i]
         /\ q # <<>> => Join(q, r) # <<>> /\ Head(Join(q, r)) = Head(q)
<1>0. PICK j \in Seq(T) : j = q \o r
  BY ConcatProperties
<1>1. /\ Len(j) = Len(q) + Len(r)
      /\ \A i \in 1..Len(q) + Len(r) :
           j[i] = IF i <= Len(q) THEN q[i] ELSE r[i - Len(q)]
  BY <1>0, ConcatProperties
<1>2. Len(q) \in Nat /\ Len(r) \in Nat
  BY LenProperties
<1>3. \A i \in 1..Len(q) : j[i] = q[i]
  BY <1>1, <1>2
<1>4. ASSUME NEW i \in 1..Len(r) PROVE j[i + Len(q)] = r[i]
  <2>1. i + Len(q) \in 1..Len(q) + Len(r) /\ ~(i + Len(q) <= Len(q)) /\ (i + Len(q)) - Len(q) = i
    BY <1>2
  <2> QED
    BY <1>1, <2>1
<1>5. ASSUME q # <<>> PROVE j # <<>> /\ Head(j) = Head(q)
  <2>1. Len(q) # 0
    BY <1>5, EmptySeq
  <2>2. Len(j) # 0 /\ j[1] = q[1]
    BY <1>1, <1>2, <1>3, <2>1
  <2> QED
    BY <1>5, <2>2
<1> QED
  BY <1>0, <1>1, <1>3, <1>4, <1>5 DEF Join

LEMMA JoinNone ==
  ASSUME NEW T, NEW q \in Seq(T)
  PROVE  Join(q, <<>>) = q /\ Join(<<>>, q) = q
BY ConcatEmptySeq DEF Join

LEMMA JoinTwice ==
  ASSUME NEW T, NEW q \in Seq(T), NEW r \in Seq(T), NEW t \in Seq(T)
  PROVE  Join(Join(q, r), t) = Join(q, Join(r, t))
BY ConcatAssociative DEF Join

LEMMA JoinAppend ==
  ASSUME NEW T, NEW q \in Seq(T), NEW r \in Seq(T), NEW e \in T
  PROVE  Append(Join(q, r), e) = Join(q, Append(r, e))
<1>1. q \o r \in Seq(T) /\ <<e>> \in Seq(T)
  BY JoinIs DEF Join
<1>2. Append(q \o r, e) = (q \o r) \o <<e>> /\ Append(r, e) = r \o <<e>>
  BY <1>1, AppendIsConcat
<1>3. (q \o r) \o <<e>> = q \o (r \o <<e>>)
  BY <1>1, ConcatAssociative
<1> QED
  BY <1>2, <1>3 DEF Join

TakeOneRun(f, x, n) ==
  /\ f[0] = x /\ f[n] = Iterate(TakeOne, x, n)
  /\ \A k \in 0..n : k # 0 => f[k] = TakeOne(f[k - 1])

\* The run of TakeOne is what Iterate computes.
LEMMA TakeOneRuns ==
  ASSUME NEW D, \A r \in D : TakeOne(r) \in D, NEW x \in D, NEW n \in Nat
  PROVE  \E f \in [0..n -> D] : TakeOneRun(f, x, n)
<1> DEFINE Is(f) ==
      f = [k \in 0..n |-> IF k = 0 THEN x
                          ELSE CHOOSE y \in {TakeOne(z) : z \in {f[k - 1]}} : TRUE]
<1>1. PICK f \in [0..n -> D] : Run(f, [r \in D |-> TakeOne(r)], x, n)
  <2>1. [r \in D |-> TakeOne(r)] \in [D -> D]
    OBVIOUS
  <2> QED
    BY <2>1, RunExists
<1>2. ASSUME NEW k \in 0..n, k # 0 PROVE f[k] = TakeOne(f[k - 1])
  <2>1. f[k] = [r \in D |-> TakeOne(r)][f[k - 1]]
    BY <1>1, <1>2 DEF Run
  <2>2. f[k - 1] \in D
    BY <1>1, <1>2
  <2> QED
    BY <2>1, <2>2
<1>3. Is(f)
  <2>1. ASSUME NEW k \in 0..n
        PROVE  f[k] = IF k = 0 THEN x
                      ELSE CHOOSE y \in {TakeOne(z) : z \in {f[k - 1]}} : TRUE
    <3>1. CASE k = 0
      BY <1>1, <3>1 DEF Run
    <3>2. CASE k # 0
      <4>1. {TakeOne(z) : z \in {f[k - 1]}} = {f[k]}
        BY <1>2, <3>2
      <4> QED
        BY <3>2, <4>1, TheOnly
    <3> QED
      BY <3>1, <3>2
  <2>2. f = [k \in 0..n |-> f[k]]
    BY <1>1 DEF Run
  <2> QED
    BY <2>1, <2>2
<1>4. PICK after : after = CHOOSE g : Is(g)
  OBVIOUS
<1>5. Is(after)
  <2> HIDE DEF Is
  <2> QED
    BY <1>3, <1>4
<1>6. Iterate(TakeOne, x, n) = after[n]
  BY <1>4 DEF Iterate
<1>7. after[0] = f[0]
  BY <1>1, <1>5 DEF Run
<1>8. ASSUME NEW k \in 0..n, k # 0, after[k - 1] = f[k - 1] PROVE after[k] = f[k]
  <2>1. after[k] = CHOOSE y \in {TakeOne(z) : z \in {after[k - 1]}} : TRUE
    BY <1>5, <1>8
  <2>2. {TakeOne(z) : z \in {after[k - 1]}} = {f[k]}
    BY <1>2, <1>8
  <2> QED
    BY <2>1, <2>2, TheOnly
<1>9. after[n] = f[n]
  <2> HIDE DEF Is
  <2> QED
    BY <1>7, <1>8, RunsAgree
<1> QED
  BY <1>1, <1>2, <1>6, <1>9 DEF Run, TakeOneRun

DrainRoundRun(f, x, n) ==
  /\ f[0] = x /\ f[n] = Iterate(DrainRound, x, n)
  /\ \A k \in 0..n : k # 0 => f[k] = DrainRound(f[k - 1])

\* The run of DrainRound is what Iterate computes.
LEMMA DrainRoundRuns ==
  ASSUME NEW D, \A r \in D : DrainRound(r) \in D, NEW x \in D, NEW n \in Nat
  PROVE  \E f \in [0..n -> D] : DrainRoundRun(f, x, n)
<1> DEFINE Is(f) ==
      f = [k \in 0..n |-> IF k = 0 THEN x
                          ELSE CHOOSE y \in {DrainRound(z) : z \in {f[k - 1]}} : TRUE]
<1>1. PICK f \in [0..n -> D] : Run(f, [r \in D |-> DrainRound(r)], x, n)
  <2>1. [r \in D |-> DrainRound(r)] \in [D -> D]
    OBVIOUS
  <2> QED
    BY <2>1, RunExists
<1>2. ASSUME NEW k \in 0..n, k # 0 PROVE f[k] = DrainRound(f[k - 1])
  <2>1. f[k] = [r \in D |-> DrainRound(r)][f[k - 1]]
    BY <1>1, <1>2 DEF Run
  <2>2. f[k - 1] \in D
    BY <1>1, <1>2
  <2> QED
    BY <2>1, <2>2
<1>3. Is(f)
  <2>1. ASSUME NEW k \in 0..n
        PROVE  f[k] = IF k = 0 THEN x
                      ELSE CHOOSE y \in {DrainRound(z) : z \in {f[k - 1]}} : TRUE
    <3>1. CASE k = 0
      BY <1>1, <3>1 DEF Run
    <3>2. CASE k # 0
      <4>1. {DrainRound(z) : z \in {f[k - 1]}} = {f[k]}
        BY <1>2, <3>2
      <4> QED
        BY <3>2, <4>1, TheOnly
    <3> QED
      BY <3>1, <3>2
  <2>2. f = [k \in 0..n |-> f[k]]
    BY <1>1 DEF Run
  <2> QED
    BY <2>1, <2>2
<1>4. PICK after : after = CHOOSE g : Is(g)
  OBVIOUS
<1>5. Is(after)
  <2> HIDE DEF Is
  <2> QED
    BY <1>3, <1>4
<1>6. Iterate(DrainRound, x, n) = after[n]
  BY <1>4 DEF Iterate
<1>7. after[0] = f[0]
  BY <1>1, <1>5 DEF Run
<1>8. ASSUME NEW k \in 0..n, k # 0, after[k - 1] = f[k - 1] PROVE after[k] = f[k]
  <2>1. after[k] = CHOOSE y \in {DrainRound(z) : z \in {after[k - 1]}} : TRUE
    BY <1>5, <1>8
  <2>2. {DrainRound(z) : z \in {after[k - 1]}} = {f[k]}
    BY <1>2, <1>8
  <2> QED
    BY <2>1, <2>2, TheOnly
<1>9. after[n] = f[n]
  <2> HIDE DEF Is
  <2> QED
    BY <1>7, <1>8, RunsAgree
<1> QED
  BY <1>1, <1>2, <1>6, <1>9 DEF Run, DrainRoundRun

\* A run of PushWord is what Iterate computes.
LEMMA PushWordIterates ==
  ASSUME NEW n \in Nat, NEW D, NEW f \in [0..n -> D],
         \A k \in 0..n : k # 0 => f[k] = PushWord(f[k - 1])
  PROVE  Iterate(PushWord, f[0], n) = f[n]
<1> DEFINE x == f[0]
           Is(g) ==
      g = [k \in 0..n |-> IF k = 0 THEN x
                          ELSE CHOOSE y \in {PushWord(z) : z \in {g[k - 1]}} : TRUE]
<1>3. Is(f)
  <2>1. ASSUME NEW k \in 0..n
        PROVE  f[k] = IF k = 0 THEN x
                      ELSE CHOOSE y \in {PushWord(z) : z \in {f[k - 1]}} : TRUE
    <3>1. CASE k = 0
      BY <3>1
    <3>2. CASE k # 0
      <4>1. {PushWord(z) : z \in {f[k - 1]}} = {f[k]}
        BY <3>2
      <4> QED
        BY <3>2, <4>1, TheOnly
    <3> QED
      BY <3>1, <3>2
  <2>2. f = [k \in 0..n |-> f[k]]
    OBVIOUS
  <2> QED
    BY <2>1, <2>2
<1>4. PICK after : after = CHOOSE g : Is(g)
  OBVIOUS
<1>5. Is(after)
  <2> HIDE DEF Is
  <2> QED
    BY <1>3, <1>4
<1>6. Iterate(PushWord, x, n) = after[n]
  BY <1>4 DEF Iterate
<1>7. after[0] = f[0]
  BY <1>5
<1>8. ASSUME NEW k \in 0..n, k # 0, after[k - 1] = f[k - 1] PROVE after[k] = f[k]
  <2>1. after[k] = CHOOSE y \in {PushWord(z) : z \in {after[k - 1]}} : TRUE
    BY <1>5, <1>8
  <2>2. {PushWord(z) : z \in {after[k - 1]}} = {f[k]}
    BY <1>8
  <2> QED
    BY <2>1, <2>2, TheOnly
<1>9. after[n] = f[n]
  <2> HIDE DEF Is
  <2> QED
    BY <1>7, <1>8, RunsAgree
<1> QED
  BY <1>6, <1>9

StepCycleRun(f, x, n) ==
  /\ f[0] = x /\ f[n] = Iterate(StepCycle, x, n)
  /\ \A k \in 0..n : k # 0 => f[k] = StepCycle(f[k - 1])

\* The run of StepCycle is what Iterate computes.
LEMMA StepCycleRuns ==
  ASSUME NEW D, \A r \in D : StepCycle(r) \in D, NEW x \in D, NEW n \in Nat
  PROVE  \E f \in [0..n -> D] : StepCycleRun(f, x, n)
<1> DEFINE Is(f) ==
      f = [k \in 0..n |-> IF k = 0 THEN x
                          ELSE CHOOSE y \in {StepCycle(z) : z \in {f[k - 1]}} : TRUE]
<1>1. PICK f \in [0..n -> D] : Run(f, [r \in D |-> StepCycle(r)], x, n)
  <2>1. [r \in D |-> StepCycle(r)] \in [D -> D]
    OBVIOUS
  <2> QED
    BY <2>1, RunExists
<1>2. ASSUME NEW k \in 0..n, k # 0 PROVE f[k] = StepCycle(f[k - 1])
  <2>1. f[k] = [r \in D |-> StepCycle(r)][f[k - 1]]
    BY <1>1, <1>2 DEF Run
  <2>2. f[k - 1] \in D
    BY <1>1, <1>2
  <2> QED
    BY <2>1, <2>2
<1>3. Is(f)
  <2>1. ASSUME NEW k \in 0..n
        PROVE  f[k] = IF k = 0 THEN x
                      ELSE CHOOSE y \in {StepCycle(z) : z \in {f[k - 1]}} : TRUE
    <3>1. CASE k = 0
      BY <1>1, <3>1 DEF Run
    <3>2. CASE k # 0
      <4>1. {StepCycle(z) : z \in {f[k - 1]}} = {f[k]}
        BY <1>2, <3>2
      <4> QED
        BY <3>2, <4>1, TheOnly
    <3> QED
      BY <3>1, <3>2
  <2>2. f = [k \in 0..n |-> f[k]]
    BY <1>1 DEF Run
  <2> QED
    BY <2>1, <2>2
<1>4. PICK after : after = CHOOSE g : Is(g)
  OBVIOUS
<1>5. Is(after)
  <2> HIDE DEF Is
  <2> QED
    BY <1>3, <1>4
<1>6. Iterate(StepCycle, x, n) = after[n]
  BY <1>4 DEF Iterate
<1>7. after[0] = f[0]
  BY <1>1, <1>5 DEF Run
<1>8. ASSUME NEW k \in 0..n, k # 0, after[k - 1] = f[k - 1] PROVE after[k] = f[k]
  <2>1. after[k] = CHOOSE y \in {StepCycle(z) : z \in {after[k - 1]}} : TRUE
    BY <1>5, <1>8
  <2>2. {StepCycle(z) : z \in {after[k - 1]}} = {f[k]}
    BY <1>2, <1>8
  <2> QED
    BY <2>1, <2>2, TheOnly
<1>9. after[n] = f[n]
  <2> HIDE DEF Is
  <2> QED
    BY <1>7, <1>8, RunsAgree
<1> QED
  BY <1>1, <1>2, <1>6, <1>9 DEF Run, StepCycleRun

RoundRun(f, x, n) ==
  /\ f[0] = x /\ f[n] = Iterate(Round, x, n)
  /\ \A k \in 0..n : k # 0 => f[k] = Round(f[k - 1])

\* The run of Round is what Iterate computes.
LEMMA RoundRuns ==
  ASSUME NEW D, \A r \in D : Round(r) \in D, NEW x \in D, NEW n \in Nat
  PROVE  \E f \in [0..n -> D] : RoundRun(f, x, n)
<1> DEFINE Is(f) ==
      f = [k \in 0..n |-> IF k = 0 THEN x
                          ELSE CHOOSE y \in {Round(z) : z \in {f[k - 1]}} : TRUE]
<1>1. PICK f \in [0..n -> D] : Run(f, [r \in D |-> Round(r)], x, n)
  <2>1. [r \in D |-> Round(r)] \in [D -> D]
    OBVIOUS
  <2> QED
    BY <2>1, RunExists
<1>2. ASSUME NEW k \in 0..n, k # 0 PROVE f[k] = Round(f[k - 1])
  <2>1. f[k] = [r \in D |-> Round(r)][f[k - 1]]
    BY <1>1, <1>2 DEF Run
  <2>2. f[k - 1] \in D
    BY <1>1, <1>2
  <2> QED
    BY <2>1, <2>2
<1>3. Is(f)
  <2>1. ASSUME NEW k \in 0..n
        PROVE  f[k] = IF k = 0 THEN x
                      ELSE CHOOSE y \in {Round(z) : z \in {f[k - 1]}} : TRUE
    <3>1. CASE k = 0
      BY <1>1, <3>1 DEF Run
    <3>2. CASE k # 0
      <4>1. {Round(z) : z \in {f[k - 1]}} = {f[k]}
        BY <1>2, <3>2
      <4> QED
        BY <3>2, <4>1, TheOnly
    <3> QED
      BY <3>1, <3>2
  <2>2. f = [k \in 0..n |-> f[k]]
    BY <1>1 DEF Run
  <2> QED
    BY <2>1, <2>2
<1>4. PICK after : after = CHOOSE g : Is(g)
  OBVIOUS
<1>5. Is(after)
  <2> HIDE DEF Is
  <2> QED
    BY <1>3, <1>4
<1>6. Iterate(Round, x, n) = after[n]
  BY <1>4 DEF Iterate
<1>7. after[0] = f[0]
  BY <1>1, <1>5 DEF Run
<1>8. ASSUME NEW k \in 0..n, k # 0, after[k - 1] = f[k - 1] PROVE after[k] = f[k]
  <2>1. after[k] = CHOOSE y \in {Round(z) : z \in {after[k - 1]}} : TRUE
    BY <1>5, <1>8
  <2>2. {Round(z) : z \in {after[k - 1]}} = {f[k]}
    BY <1>2, <1>8
  <2> QED
    BY <2>1, <2>2, TheOnly
<1>9. after[n] = f[n]
  <2> HIDE DEF Is
  <2> QED
    BY <1>7, <1>8, RunsAgree
<1> QED
  BY <1>1, <1>2, <1>6, <1>9 DEF Run, RoundRun

-----------------------------------------------------------------------------
(* The states of the walk, for software with the lists of L. *)

\* MADR points to a list while one is to be walked.
Chans(L) ==
  {c \in [enabled : BOOLEAN, start : BOOLEAN, mode : {"list", "manual"}, list : L \cup {<<>>},
          waiting : BOOLEAN, event : BOOLEAN] :
     c.start /\ c.mode = "list" => c.list # <<>>}

\* A header is awaited between nodes, and only where there is one.
Walks ==
  {w \in [nodes : Seq(Node), words : Node, setup : 0..Forever - 1,
          header : BOOLEAN, live : BOOLEAN] :
     w.header => w.nodes # <<>> /\ w.words = <<>>}

Gpus  == [fifo : Seq(Word), busy : 0..DrawCost, upload : 0..UploadWords]
Hists == [torn : BOOLEAN, dropped : BOOLEAN, stale : BOOLEAN, late : BOOLEAN]

States(L) == [chan : Chans(L), walk : Walks, gpu : Gpus, quiet : Nat, hist : Hists]

\* The sizes are numbers, and every allowance is room for a word at least.
LEMMA SizesAreNumbers ==
  ASSUME NEW w \in Word
  PROVE  PacketSize(w) \in Nat \ {0} /\ Allowance(w) \in Nat \ {0}
BY FifoAssumption DEF Word, Heads, PacketSize, Allowance

LEMMA CapacityIsNumber ==
  ASSUME NEW g \in Gpus
  PROVE  /\ Capacity(g) \in Nat /\ Capacity(g) >= Depth
         /\ g.fifo # <<>> => Head(g.fifo) \in Word
         /\ g.upload = 0 /\ g.fifo # <<>> =>
              /\ Capacity(g) = Depth + Allowance(Head(g.fifo))
              /\ Capacity(g) > Depth
<1>1. g.fifo # <<>> => Head(g.fifo) \in Word
  BY DEF Gpus
<1>2. g.upload \in Nat /\ Depth \in Nat
  BY FifoAssumption DEF Gpus
<1> QED
  BY <1>1, <1>2, SizesAreNumbers DEF Capacity

\* What the drain takes of the head.
Count(g) == IF g.upload > 0 THEN 1 ELSE PacketSize(Head(g.fifo))

\* The packet the drain may take, and the FIFO it leaves.
LEMMA CountIsThere ==
  ASSUME NEW g \in Gpus, Ready(g)
  PROVE  /\ Count(g) \in 1..Len(g.fifo)
         /\ Head(g.fifo) \in Word /\ g.fifo # <<>>
         /\ SubSeq(g.fifo, 1, Count(g)) \in Seq(Word)
         /\ Len(SubSeq(g.fifo, 1, Count(g))) = Count(g)
         /\ SubSeq(g.fifo, 1, Count(g))[1] = Head(g.fifo)
         /\ SubSeq(g.fifo, Count(g) + 1, Len(g.fifo)) \in Seq(Word)
         /\ Len(SubSeq(g.fifo, Count(g) + 1, Len(g.fifo))) = Len(g.fifo) - Count(g)
         /\ \A i \in 1..Len(g.fifo) - Count(g) :
              SubSeq(g.fifo, Count(g) + 1, Len(g.fifo))[i] = g.fifo[i + Count(g)]
<1>1. g.fifo \in Seq(Word) /\ g.fifo # <<>> /\ g.upload \in Nat /\ Len(g.fifo) \in Nat
  BY DEF Gpus, Ready
<1>2. Head(g.fifo) \in Word /\ Len(g.fifo) # 0 /\ Head(g.fifo) = g.fifo[1]
  BY <1>1
<1>3. Count(g) \in 1..Len(g.fifo)
  BY <1>1, <1>2, SizesAreNumbers DEF Count, Ready
<1>4. PICK n \in 1..Len(g.fifo) : n = Count(g)
  BY <1>3
<1>5. /\ SubSeq(g.fifo, 1, n) \in Seq(Word) /\ Len(SubSeq(g.fifo, 1, n)) = n
      /\ SubSeq(g.fifo, 1, n)[1] = g.fifo[1]
  BY <1>1, <1>2
<1>6. /\ SubSeq(g.fifo, n + 1, Len(g.fifo)) \in Seq(Word)
      /\ Len(SubSeq(g.fifo, n + 1, Len(g.fifo))) = Len(g.fifo) - n
      /\ \A i \in 1..Len(g.fifo) - n : SubSeq(g.fifo, n + 1, Len(g.fifo))[i] = g.fifo[i + n]
  BY <1>1, <1>2
<1> QED
  BY <1>1, <1>2, <1>3, <1>4, <1>5, <1>6

\* Whether the packet taken is one.
Fine(g) ==
  LET packet == SubSeq(g.fifo, 1, Count(g))
  IN  IF g.upload > 0 THEN packet = <<"pixel">> ELSE IsPacket(packet)

\* What taking a packet does.
LEMMA TakeOneIs ==
  ASSUME NEW L, NEW s \in States(L), Ready(s.gpu)
  PROVE  LET g == s.gpu
             t == TakeOne(s)
         IN  /\ t \in States(L)
             /\ t.chan = s.chan /\ t.walk = s.walk /\ t.quiet = s.quiet
             /\ t.gpu.fifo = SubSeq(g.fifo, Count(g) + 1, Len(g.fifo))
             /\ t.gpu.upload = IF g.upload > 0 THEN g.upload - 1
                               ELSE IF Head(g.fifo) = "image" THEN UploadWords ELSE 0
             /\ t.hist = [s.hist EXCEPT !.torn = @ \/ ~Fine(g)]
<1> DEFINE g == s.gpu
           packet == SubSeq(g.fifo, 1, Count(g))
           left == SubSeq(g.fifo, Count(g) + 1, Len(g.fifo))
<1>1. /\ g \in Gpus /\ s.hist \in Hists /\ g.upload \in Nat /\ g.fifo \in Seq(Word)
      /\ g.busy \in 0..DrawCost /\ g.upload \in 0..UploadWords /\ Ready(g)
  BY DEF States, Gpus
<1>2. /\ Count(g) \in 1..Len(g.fifo) /\ packet[1] = Head(g.fifo) /\ Head(g.fifo) \in Word
      /\ left \in Seq(Word)
  BY <1>1, CountIsThere
<1>3. (IF g.upload > 0 THEN 1 ELSE Lesser(Len(g.fifo), PacketSize(Head(g.fifo)))) = Count(g)
  BY <1>1, <1>2 DEF Count, Lesser
<1>4. PICK u : u = [s EXCEPT !.gpu.fifo = left]
  OBVIOUS
<1>5. TakeOne(s) = Execute(u, packet)
  BY <1>3, <1>4 DEF TakeOne
<1>6. /\ u \in States(L) /\ u.chan = s.chan /\ u.walk = s.walk /\ u.quiet = s.quiet
      /\ u.hist = s.hist /\ u.gpu.fifo = left /\ u.gpu.busy = g.busy /\ u.gpu.upload = g.upload
      /\ u.gpu = [g EXCEPT !.fifo = left]
  BY <1>1, <1>2, <1>4 DEF States, Gpus
<1>7. PICK h : h = IF g.upload > 0 THEN [u.gpu EXCEPT !.upload = @ - 1]
                   ELSE CASE packet[1] = "draw"  -> [u.gpu EXCEPT !.busy = @ + DrawCost]
                          [] packet[1] = "image" -> [u.gpu EXCEPT !.upload = UploadWords]
                          [] OTHER               -> u.gpu
  OBVIOUS
<1>8. Execute(u, packet) = [u EXCEPT !.gpu = h, !.hist.torn = @ \/ ~Fine(g)]
  BY <1>6, <1>7 DEF Execute, Fine
<1> HIDE DEF g, packet, left
<1>9. /\ h \in Gpus /\ h.fifo = left
      /\ h.upload = IF g.upload > 0 THEN g.upload - 1
                    ELSE IF Head(g.fifo) = "image" THEN UploadWords ELSE 0
  <2>0. u.gpu \in Gpus /\ u.gpu.fifo = left /\ u.gpu.busy = g.busy /\ u.gpu.upload = g.upload
    BY <1>6 DEF States
  <2>1. CASE g.upload > 0
    <3>1. h = [u.gpu EXCEPT !.upload = g.upload - 1] /\ g.upload - 1 \in 0..UploadWords
      BY <1>1, <1>7, <2>0, <2>1, FifoAssumption
    <3> QED
      BY <2>0, <2>1, <3>1 DEF Gpus
  <2>2. CASE g.upload = 0 /\ Head(g.fifo) = "draw"
    <3>1. g.busy = 0
      <4>1. g.upload > 0 \/ Head(g.fifo) = "state" \/ g.busy = 0
        BY <1>1 DEF Ready
      <4> QED
        BY <1>1, <2>2, <4>1
    <3>2. h = [u.gpu EXCEPT !.busy = DrawCost] /\ DrawCost \in 0..DrawCost
      BY <1>2, <1>7, <2>0, <2>2, <3>1, TimesAssumption
    <3> QED
      BY <2>0, <2>2, <3>2 DEF Gpus
  <2>3. CASE g.upload = 0 /\ Head(g.fifo) = "image"
    <3>1. h = [u.gpu EXCEPT !.upload = UploadWords] /\ UploadWords \in 0..UploadWords
      BY <1>2, <1>7, <2>3, FifoAssumption
    <3> QED
      BY <2>0, <2>3, <3>1 DEF Gpus
  <2>4. CASE g.upload = 0 /\ Head(g.fifo) \notin {"draw", "image"}
    <3>1. h = u.gpu
      BY <1>2, <1>7, <2>4
    <3> QED
      BY <2>0, <2>4, <3>1
  <2> QED
    BY <1>1, <2>1, <2>2, <2>3, <2>4
<1>10. Fine(g) \in BOOLEAN
  BY DEF Fine, IsPacket
<1>11. [s.hist EXCEPT !.torn = @ \/ ~Fine(g)] \in Hists
  BY <1>1, <1>10 DEF Hists
<1>12. TakeOne(s) = [u EXCEPT !.gpu = h, !.hist = [s.hist EXCEPT !.torn = @ \/ ~Fine(g)]]
  <2>1. [u EXCEPT !.hist.torn = @ \/ ~Fine(g)] = [u EXCEPT !.hist = [s.hist EXCEPT !.torn = @ \/ ~Fine(g)]]
    BY <1>6 DEF States
  <2> QED
    BY <1>5, <1>6, <1>8 DEF States
<1>13. /\ TakeOne(s) \in States(L)
       /\ TakeOne(s).chan = s.chan /\ TakeOne(s).walk = s.walk /\ TakeOne(s).quiet = s.quiet
       /\ TakeOne(s).gpu = h /\ TakeOne(s).hist = [s.hist EXCEPT !.torn = @ \/ ~Fine(g)]
  BY <1>6, <1>9, <1>11, <1>12 DEF States
<1> QED
  BY <1>9, <1>13 DEF g, left

-----------------------------------------------------------------------------
(* The drain. *)

\* Taking a packet, or finding none to take, leaves all but the GPU alone.
LEMMA TakeOneKeeps ==
  ASSUME NEW L, NEW s \in States(L)
  PROVE  LET t == TakeOne(s)
         IN  /\ t \in States(L)
             /\ t.chan = s.chan /\ t.walk = s.walk /\ t.quiet = s.quiet
             /\ t.hist.dropped = s.hist.dropped /\ t.hist.stale = s.hist.stale
             /\ t.hist.late = s.hist.late
<1>1. CASE Ready(s.gpu)
  <2>1. s.hist \in Hists
    BY DEF States
  <2> QED
    BY <1>1, <2>1, TakeOneIs DEF Hists
<1>2. CASE ~Ready(s.gpu)
  BY <1>2 DEF TakeOne
<1> QED
  BY <1>1, <1>2

\* The drain as a run of TakeOne.
DrainRun(f, s, n) ==
  /\ f[0] = s /\ f[n] = Drain(s)
  /\ \A k \in 0..n : k # 0 => f[k] = TakeOne(f[k - 1])

LEMMA DrainRuns ==
  ASSUME NEW L, NEW s \in States(L)
  PROVE  LET n == Len(s.gpu.fifo)
         IN  /\ n \in Nat
             /\ \E f \in [0..n -> States(L)] : DrainRun(f, s, n)
<1>1. PICK n \in Nat : n = Len(s.gpu.fifo)
  BY DEF States, Gpus
<1>2. \A r \in States(L) : TakeOne(r) \in States(L)
  BY TakeOneKeeps
<1>3. PICK f \in [0..n -> States(L)] : TakeOneRun(f, s, n)
  BY <1>2, TakeOneRuns
<1>4. Drain(s) = Iterate(TakeOne, s, n)
  BY <1>1 DEF Drain
<1>5. f[n] = Drain(s)
  BY <1>3, <1>4 DEF TakeOneRun
<1>6. f[0] = s /\ \A k \in 0..n : k # 0 => f[k] = TakeOne(f[k - 1])
  BY <1>3 DEF TakeOneRun
<1>7. DrainRun(f, s, n)
  BY <1>5, <1>6 DEF DrainRun
<1> QED
  BY <1>1, <1>7

\* What a packet taken keeps, the drain keeps.
LEMMA DrainStays ==
  ASSUME NEW L, NEW G \in SUBSET States(L), NEW s \in G,
         \A r \in G : Ready(r.gpu) => TakeOne(r) \in G
  PROVE  Drain(s) \in G
<1>1. PICK n \in Nat : n = Len(s.gpu.fifo)
  BY DrainRuns
<1>pick. PICK f \in [0..n -> States(L)] : DrainRun(f, s, n)
  BY <1>1, DrainRuns
<1>2. /\ f[0] = s /\ f[n] = Drain(s)
      /\ \A k \in 0..n : k # 0 => f[k] = TakeOne(f[k - 1])
  BY <1>pick DEF DrainRun
<1>3. \A r \in G : TakeOne(r) \in G
  BY DEF TakeOne
<1>4. \A k \in 0..n : k # 0 /\ f[k - 1] \in G => f[k] \in G
  BY <1>2, <1>3
<1>5. \A k \in 0..n : f[k] \in G
  BY <1>2, <1>4, RunStays
<1> QED
  BY <1>2, <1>5

\* The drain leaves all but the GPU alone.
LEMMA DrainKeeps ==
  ASSUME NEW L, NEW s \in States(L)
  PROVE  LET t == Drain(s)
         IN  /\ t \in States(L)
             /\ t.chan = s.chan /\ t.walk = s.walk /\ t.quiet = s.quiet
             /\ t.hist.dropped = s.hist.dropped /\ t.hist.stale = s.hist.stale
             /\ t.hist.late = s.hist.late
<1> DEFINE G == {r \in States(L) :
                   /\ r.chan = s.chan /\ r.walk = s.walk /\ r.quiet = s.quiet
                   /\ r.hist.dropped = s.hist.dropped /\ r.hist.stale = s.hist.stale
                   /\ r.hist.late = s.hist.late}
<1>1. s \in G /\ G \in SUBSET States(L)
  OBVIOUS
<1>2. \A r \in G : TakeOne(r) \in G
  BY TakeOneKeeps
<1>3. Drain(s) \in G
  <2> HIDE DEF G
  <2> QED
    BY <1>1, <1>2, DrainStays
<1> QED
  BY <1>3

\* Where nothing can be taken the drain does nothing.
LEMMA DrainIdle ==
  ASSUME NEW L, NEW s \in States(L), ~Ready(s.gpu)
  PROVE  Drain(s) = s
<1>1. {s} \in SUBSET States(L) /\ TakeOne(s) = s
  BY DEF TakeOne
<1>2. Drain(s) \in {s}
  BY <1>1, DrainStays
<1> QED
  BY <1>2

\* After the drain nothing can be taken.
LEMMA DrainRests ==
  ASSUME NEW L, NEW s \in States(L)
  PROVE  ~Ready(Drain(s).gpu)
<1>1. PICK n \in Nat : n = Len(s.gpu.fifo)
  BY DrainRuns
<1>pick. PICK f \in [0..n -> States(L)] : DrainRun(f, s, n)
  BY <1>1, DrainRuns
<1>2. /\ f[0] = s /\ f[n] = Drain(s)
      /\ \A k \in 0..n : k # 0 => f[k] = TakeOne(f[k - 1])
  BY <1>pick DEF DrainRun
<1> DEFINE S == {k \in 0..n : ~Ready(f[k].gpu) \/ Len(f[k].gpu.fifo) <= n - k}
<1>3. 0 \in S
  BY <1>1, <1>2
<1>4. ASSUME NEW k \in 0..n, k \in S, k < n PROVE k + 1 \in S
  <2>1. k + 1 \in 0..n /\ k + 1 # 0 /\ (k + 1) - 1 = k
    BY <1>4
  <2>2. f[k + 1] = TakeOne(f[k]) /\ f[k] \in States(L) /\ f[k].gpu \in Gpus
    BY <1>2, <2>1 DEF States
  <2>3. CASE Ready(f[k].gpu)
    <3>1. Len(f[k + 1].gpu.fifo) = Len(f[k].gpu.fifo) - Count(f[k].gpu)
      <4>1. PICK r \in States(L) : r = f[k] /\ r.gpu \in Gpus /\ Ready(r.gpu)
        BY <2>2, <2>3
      <4>2. TakeOne(r).gpu.fifo = SubSeq(r.gpu.fifo, Count(r.gpu) + 1, Len(r.gpu.fifo))
        BY <4>1, TakeOneIs
      <4>3. Len(TakeOne(r).gpu.fifo) = Len(r.gpu.fifo) - Count(r.gpu)
        BY <4>1, <4>2, CountIsThere
      <4> QED
        BY <2>2, <4>1, <4>3
    <3>2. Count(f[k].gpu) \in 1..Len(f[k].gpu.fifo)
      BY <2>2, <2>3, CountIsThere
    <3>3. Len(f[k].gpu.fifo) \in Nat
      BY <2>2 DEF Gpus
    <3>4. Len(f[k].gpu.fifo) <= n - k
      BY <1>4, <2>3
    <3>5. Len(f[k + 1].gpu.fifo) <= n - (k + 1)
      BY <3>1, <3>2, <3>3, <3>4
    <3> QED
      BY <2>1, <3>5
  <2>4. CASE ~Ready(f[k].gpu)
    <3>1. f[k + 1] = f[k]
      BY <2>2, <2>4 DEF TakeOne
    <3> QED
      BY <2>1, <2>4, <3>1
  <2> QED
    BY <2>3, <2>4
<1>5. n \in S
  <2>1. \A k \in 0..n : k \in S
    <3> HIDE DEF S
    <3> QED
      BY <1>3, <1>4, UpTo
  <2> HIDE DEF S
  <2> QED
    BY <2>1
<1>6. CASE Ready(Drain(s).gpu)
  <2>1. Len(Drain(s).gpu.fifo) <= 0
    BY <1>2, <1>5, <1>6
  <2>2. Drain(s).gpu \in Gpus
    BY DrainKeeps DEF States
  <2> QED
    BY <1>6, <2>1, <2>2 DEF Gpus, Ready
<1> QED
  BY <1>6

-----------------------------------------------------------------------------
(* The clocks of drawing. *)

LEMMA SpendIs ==
  ASSUME NEW L, NEW s \in States(L), NEW n \in Nat
  PROVE  /\ Spend(s, n) \in States(L)
         /\ Spend(s, n).chan = s.chan /\ Spend(s, n).walk = s.walk
         /\ Spend(s, n).quiet = s.quiet /\ Spend(s, n).hist = s.hist
         /\ Spend(s, n).gpu.fifo = s.gpu.fifo /\ Spend(s, n).gpu.upload = s.gpu.upload
         /\ Spend(s, n).gpu.busy = Less(s.gpu.busy, n)
<1>1. s.gpu.busy \in 0..DrawCost /\ DrawCost \in Nat
  BY TimesAssumption DEF States, Gpus
<1>2. Less(s.gpu.busy, n) \in 0..DrawCost
  BY <1>1 DEF Less
<1> QED
  BY <1>2 DEF Spend, States, Gpus

\* Two states are the same when their parts are.
LEMMA SameState ==
  ASSUME NEW L, NEW s \in States(L), NEW t \in States(L),
         s.chan = t.chan, s.walk = t.walk, s.quiet = t.quiet, s.hist = t.hist,
         s.gpu.fifo = t.gpu.fifo, s.gpu.upload = t.gpu.upload, s.gpu.busy = t.gpu.busy
  PROVE  s = t
<1>1. s.gpu = t.gpu
  BY DEF States, Gpus
<1> QED
  BY <1>1 DEF States

\* Clocks add up.
LEMMA SpendTwice ==
  ASSUME NEW L, NEW s \in States(L), NEW m \in Nat, NEW n \in Nat
  PROVE  Spend(Spend(s, m), n) = Spend(s, m + n)
<1>1. PICK k \in Nat : k = m + n
  OBVIOUS
<1>2. Less(Less(s.gpu.busy, m), n) = Less(s.gpu.busy, k)
  <2>1. s.gpu.busy \in Nat
    BY DEF States, Gpus
  <2> QED
    BY <1>1, <2>1 DEF Less
<1>3. PICK u \in States(L) : u = Spend(s, m)
  BY SpendIs
<1>4. PICK v \in States(L) : v = Spend(u, n)
  BY SpendIs
<1>5. PICK w \in States(L) : w = Spend(s, k)
  BY SpendIs
<1>6. v.gpu.busy = w.gpu.busy
  BY SMTT(30), <1>2, <1>3, <1>4, <1>5, SpendIs
<1>7. /\ v.chan = w.chan /\ v.walk = w.walk /\ v.quiet = w.quiet /\ v.hist = w.hist
      /\ v.gpu.fifo = w.gpu.fifo /\ v.gpu.upload = w.gpu.upload
  BY SMTT(30), <1>3, <1>4, <1>5, SpendIs
<1>8. v = w
  BY <1>6, <1>7, SameState
<1> QED
  BY <1>1, <1>3, <1>4, <1>5, <1>8

LEMMA SpendNothing ==
  ASSUME NEW L, NEW s \in States(L)
  PROVE  Spend(s, 0) = s
<1>1. PICK k \in Nat : k = 0
  OBVIOUS
<1>2. Less(s.gpu.busy, k) = s.gpu.busy
  <2>1. s.gpu.busy \in Nat
    BY DEF States, Gpus
  <2> QED
    BY <1>1, <2>1 DEF Less
<1>3. PICK u \in States(L) : u = Spend(s, k)
  BY SpendIs
<1>4. u = s
  BY <1>2, <1>3, SpendIs, SameState
<1> QED
  BY <1>1, <1>3, <1>4

\* One clock of a GPU that has drained.
Clock(s) == Drain(Spend(s, 1))

\* With an empty FIFO, or while the drawing goes on, time only counts down.
LEMMA SpendIdle ==
  ASSUME NEW L, NEW s \in States(L), ~Ready(s.gpu), NEW n \in Nat,
         s.gpu.fifo = <<>> \/ s.gpu.busy > n
  PROVE  ~Ready(Spend(s, n).gpu) /\ Drain(Spend(s, n)) = Spend(s, n)
<1>1. PICK t \in States(L) : t = Spend(s, n)
  BY SpendIs
<1>2. t.gpu.fifo = s.gpu.fifo /\ t.gpu.upload = s.gpu.upload /\ t.gpu.busy = Less(s.gpu.busy, n)
  BY <1>1, SpendIs
<1>3. s.gpu.busy \in Nat /\ (s.gpu.busy > n => s.gpu.busy # 0 /\ t.gpu.busy # 0)
  BY <1>2 DEF States, Gpus, Less
<1>4. ~Ready(t.gpu)
  BY <1>2, <1>3 DEF Ready
<1> QED
  BY <1>1, <1>4, DrainIdle

LEMMA ClockIs ==
  ASSUME NEW L, NEW s \in States(L)
  PROVE  Clock(s) \in States(L) /\ ~Ready(Clock(s).gpu)
<1>1. PICK one \in Nat : one = 1
  OBVIOUS
<1>2. PICK t \in States(L) : t = Spend(s, one)
  BY SpendIs
<1>3. Clock(s) = Drain(t)
  BY <1>1, <1>2 DEF Clock
<1> QED
  BY <1>3, DrainKeeps, DrainRests

\* A run of Clock.
Clocked(c, n) == \A k \in 0..n : k # 0 => c[k] = Clock(c[k - 1])

LEMMA ClockedExists ==
  ASSUME NEW L, NEW s \in States(L), NEW n \in Nat
  PROVE  \E c \in [0..n -> States(L)] : c[0] = s /\ Clocked(c, n)
<1>1. [r \in States(L) |-> Clock(r)] \in [States(L) -> States(L)]
  BY ClockIs
<1>2. PICK c \in [0..n -> States(L)] : Run(c, [r \in States(L) |-> Clock(r)], s, n)
  BY <1>1, RunExists
<1>3. ASSUME NEW k \in 0..n, k # 0 PROVE c[k] = Clock(c[k - 1])
  <2>1. c[k] = [r \in States(L) |-> Clock(r)][c[k - 1]]
    BY <1>2, <1>3 DEF Run
  <2>2. c[k - 1] \in States(L)
    BY <1>3
  <2> QED
    BY <2>1, <2>2
<1>4. c[0] = s /\ Clocked(c, n)
  BY <1>2, <1>3 DEF Run, Clocked
<1> QED
  BY <1>4

LEMMA ClockedRests ==
  ASSUME NEW L, NEW n \in Nat, NEW c \in [0..n -> States(L)], Clocked(c, n), ~Ready(c[0].gpu)
  PROVE  \A k \in 0..n : c[k] \in States(L) /\ ~Ready(c[k].gpu)
<1>1. ASSUME NEW k \in 0..n PROVE c[k] \in States(L) /\ ~Ready(c[k].gpu)
  <2>1. CASE k = 0
    BY <2>1
  <2>2. CASE k # 0
    <3>1. k - 1 \in 0..n /\ c[k] = Clock(c[k - 1])
      BY <2>2 DEF Clocked
    <3>2. c[k - 1] \in States(L)
      BY <3>1
    <3> QED
      BY <3>1, <3>2, ClockIs
  <2> QED
    BY <2>1, <2>2
<1> QED
  BY <1>1

\* Clocks that only count down, and the one that ends the drawing, in one go.
LEMMA ClocksInOne ==
  ASSUME NEW L, NEW n \in Nat, NEW c \in [0..n -> States(L)], Clocked(c, n), ~Ready(c[0].gpu),
         NEW j \in 0..n, NEW e \in 1..n, j + e <= n,
         c[j].gpu.fifo = <<>> \/ e <= Greater(c[j].gpu.busy, 1)
  PROVE  c[j + e] = Drain(Spend(c[j], e))
<1>1. PICK s \in States(L) : s = c[j] /\ ~Ready(s.gpu)
  BY ClockedRests
<1>2. PICK m \in Nat : m = e - 1
  OBVIOUS
<1>3. PICK one \in Nat : one = 1
  OBVIOUS
<1>4. s.gpu.busy \in Nat /\ (s.gpu.fifo = <<>> \/ m = 0 \/ m < s.gpu.busy)
  <2>1. s.gpu.busy \in Nat
    BY DEF States, Gpus
  <2>2. s.gpu.fifo = <<>> \/ e <= 1 \/ e <= s.gpu.busy
    BY <1>1, <2>1 DEF Greater
  <2> QED
    BY <1>2, <2>1, <2>2
<1>5. \A i \in 0..m : i \in {k \in 0..m : c[j + k] = Spend(s, k)}
  <2> DEFINE S == {k \in 0..m : c[j + k] = Spend(s, k)}
  <2>1. 0 \in S
    <3>1. Spend(s, 0) = s
      BY SpendNothing
    <3>2. 0 \in 0..m /\ j + 0 = j
      OBVIOUS
    <3>3. c[j + 0] = Spend(s, 0)
      BY <1>1, <3>1, <3>2
    <3> QED
      BY <3>2, <3>3
  <2>2. ASSUME NEW k \in 0..m, k \in S, k < m PROVE k + 1 \in S
    <3>1. PICK i \in Nat : i = k + 1
      OBVIOUS
    <3>2. j + i \in 0..n /\ j + i # 0 /\ (j + i) - 1 = j + k /\ k \in Nat /\ j + k \in 0..n
      BY <1>2, <2>2, <3>1
    <3>3. c[j + i] = Clock(c[(j + i) - 1])
      BY <3>2 DEF Clocked
    <3>4. c[j + i] = Clock(c[j + k])
      BY <3>2, <3>3
    <3>5. c[j + k] = Spend(s, k)
      BY <2>2
    <3>6. c[j + i] = Drain(Spend(Spend(s, k), one))
      BY <1>3, <3>4, <3>5 DEF Clock
    <3>7. Spend(Spend(s, k), one) = Spend(s, i)
      BY <1>3, <3>1, <3>2, SpendTwice
    <3>8. s.gpu.fifo = <<>> \/ s.gpu.busy > i
      BY <1>4, <2>2, <3>1
    <3>9. Drain(Spend(s, i)) = Spend(s, i)
      BY <1>1, <3>8, SpendIdle
    <3>10. c[j + i] = Spend(s, i)
      BY <3>6, <3>7, <3>9
    <3> QED
      BY <2>2, <3>1, <3>10
  <2> HIDE DEF S
  <2>3. \A i \in 0..m : i \in S
    BY <2>1, <2>2, UpTo
  <2> QED
    BY <2>3 DEF S
<1>6. c[j + m] = Spend(s, m)
  <2>1. m \in 0..m
    OBVIOUS
  <2> QED
    BY <1>5, <2>1
<1>7. j + e \in 0..n /\ j + e # 0 /\ (j + e) - 1 = j + m /\ e = m + one /\ e \in Nat
  BY <1>2, <1>3
<1>8. c[j + e] = Clock(c[(j + e) - 1])
  BY <1>7 DEF Clocked
<1>9. c[j + e] = Drain(Spend(Spend(s, m), one))
  BY <1>3, <1>6, <1>7, <1>8 DEF Clock
<1>10. Spend(Spend(s, m), one) = Spend(s, e)
  BY <1>7, SpendTwice
<1> QED
  BY <1>1, <1>9, <1>10

\* A FIFO that stays quiet for a while has nothing to take.
LEMMA QuietIs ==
  ASSUME NEW L, NEW s \in States(L)
  PROVE  /\ FifoQuiet(s.gpu) \in Nat /\ s.gpu.busy \in Nat /\ s.gpu.busy <= DrawCost
         /\ DrawCost \in Nat /\ DrawCost < Forever /\ Forever \in Nat
         /\ s.gpu.fifo = <<>> => FifoQuiet(s.gpu) = Forever /\ ~Ready(s.gpu)
         /\ s.gpu.fifo # <<>> /\ FifoQuiet(s.gpu) > 0 =>
              /\ FifoQuiet(s.gpu) = s.gpu.busy - 1 /\ s.gpu.busy >= 2 /\ ~Ready(s.gpu)
              /\ s.gpu.upload = 0 /\ Head(s.gpu.fifo) # "state"
<1>0. Forever \in Nat
  BY SMT DEF Forever
<1>1. /\ s.gpu.busy \in Nat /\ s.gpu.busy <= DrawCost /\ DrawCost \in Nat /\ DrawCost < Forever
      /\ Forever \in Nat /\ s.gpu.upload \in Nat
  BY <1>0, TimesAssumption DEF States, Gpus
<1>2. CASE s.gpu.fifo = <<>>
  BY <1>1, <1>2 DEF FifoQuiet, Ready
<1>3. CASE s.gpu.fifo # <<>>
  BY <1>1, <1>3 DEF FifoQuiet, Ready
<1> QED
  BY <1>1, <1>2, <1>3

\* A round of the loop is the clocks it lets pass.
RoundTo(c, n, left, j) ==
  DrainRound([s |-> c[n - left], left |-> left]) = [s |-> c[n - j], left |-> j]

LEMMA RoundIs ==
  ASSUME NEW L, NEW n \in Nat, NEW c \in [0..n -> States(L)], Clocked(c, n), ~Ready(c[0].gpu),
         NEW left \in 0..n, left # 0, c[n - left].gpu.fifo # <<>>
  PROVE  \E j \in 0..left - 1 : RoundTo(c, n, left, j)
<1>1. PICK s \in States(L) : s = c[n - left]
  OBVIOUS
<1>2. s.gpu.busy \in Nat
  BY DEF States, Gpus
<1>3. PICK e \in 1..n : e = Lesser(Greater(s.gpu.busy, 1), left)
  BY <1>2 DEF Lesser, Greater
<1>4. e <= left /\ e <= Greater(s.gpu.busy, 1)
  BY <1>2, <1>3 DEF Lesser, Greater
<1>5. PICK at \in 0..n : at = n - left
  OBVIOUS
<1>6. at + e <= n /\ at + e = n - (left - e) /\ left - e \in 0..left - 1
  BY <1>4, <1>5
<1>7. c[at + e] = Drain(Spend(c[at], e))
  BY <1>1, <1>4, <1>5, <1>6, ClocksInOne
<1>8. DrainRound([s |-> s, left |-> left]) = [s |-> Drain(Spend(s, e)), left |-> left - e]
  BY <1>1, <1>3 DEF DrainRound
<1>9. DrainRound([s |-> s, left |-> left]) = [s |-> c[n - (left - e)], left |-> left - e]
  BY <1>1, <1>5, <1>6, <1>7, <1>8
<1>10. RoundTo(c, n, left, left - e)
  BY <1>1, <1>9 DEF RoundTo
<1> QED
  BY <1>6, <1>10

\* decay_busy_fifo_draining is its clocks.
LEMMA DrainingIs ==
  ASSUME NEW L, NEW s \in States(L), NEW n \in Nat, NEW c \in [0..n -> States(L)],
         Clocked(c, n), c[0] = Drain(s)
  PROVE  DecayDraining(s, n) = c[n]
<1> DEFINE D == {r \in [s : States(L), left : 0..n] : r.s = c[n - r.left]}
           x == [s |-> Drain(s), left |-> n]
<1>1. ~Ready(c[0].gpu) /\ Drain(s) \in States(L)
  BY DrainRests, DrainKeeps
<1>2. x \in D
  BY <1>1
<1>3. ASSUME NEW r \in D
      PROVE  /\ DrainRound(r) \in D
             /\ r.left = 0 \/ r.s.gpu.fifo = <<>> \/ DrainRound(r).left < r.left
             /\ r.left = 0 \/ r.s.gpu.fifo = <<>> => DrainRound(r) = r
  <2>1. CASE r.left = 0 \/ r.s.gpu.fifo = <<>>
    BY <2>1 DEF DrainRound
  <2>2. CASE r.left # 0 /\ r.s.gpu.fifo # <<>>
    <3>1. PICK left \in 0..n : left = r.left
      OBVIOUS
    <3>2. r = [s |-> c[n - left], left |-> left] /\ left # 0 /\ c[n - left].gpu.fifo # <<>>
      BY <2>2, <3>1
    <3>0. PICK j \in 0..left - 1 : RoundTo(c, n, left, j)
      BY <1>1, <3>2, RoundIs
    <3>3. DrainRound([s |-> c[n - left], left |-> left]) = [s |-> c[n - j], left |-> j]
      BY <3>0 DEF RoundTo
    <3>4. j \in 0..n /\ n - j \in 0..n /\ j < left
      BY <3>1, <3>0
    <3>5. DrainRound(r) = [s |-> c[n - j], left |-> j] /\ c[n - j] \in States(L)
      BY <3>2, <3>3, <3>4
    <3>6. DrainRound(r) \in D /\ DrainRound(r).left < r.left
      BY <3>1, <3>4, <3>5
    <3> QED
      BY <2>2, <3>6
  <2> QED
    BY <2>1, <2>2
<1>4. PICK f \in [0..n -> D] : DrainRoundRun(f, x, n)
  <2> HIDE DEF D, x
  <2> QED
    BY <1>2, <1>3, DrainRoundRuns
<1>5. /\ f[0] = x
      /\ \A k \in 0..n : k # 0 => f[k] = DrainRound(f[k - 1])
  BY <1>4 DEF DrainRoundRun
<1> DEFINE S == {k \in 0..n : f[k].s.gpu.fifo = <<>> \/ f[k].left <= n - k}
<1>6. 0 \in S
  BY <1>5
<1>7. ASSUME NEW k \in 0..n, k \in S, k < n PROVE k + 1 \in S
  <2>1. k + 1 \in 0..n /\ k + 1 # 0 /\ (k + 1) - 1 = k
    BY <1>7
  <2>2. f[k + 1] = DrainRound(f[k]) /\ f[k] \in D /\ f[k].left \in 0..n
    BY <1>5, <2>1
  <2>3. CASE f[k].left = 0 \/ f[k].s.gpu.fifo = <<>>
    <3>1. f[k + 1] = f[k]
      BY <1>3, <2>2, <2>3
    <3> QED
      BY <2>1, <2>2, <2>3, <3>1
  <2>4. CASE f[k].left # 0 /\ f[k].s.gpu.fifo # <<>>
    <3>1. f[k + 1].left < f[k].left /\ f[k + 1] \in D /\ f[k + 1].left \in 0..n
      <4>1. DrainRound(f[k]) \in D /\ DrainRound(f[k]).left < f[k].left
        BY <1>3, <2>2, <2>4
      <4> QED
        BY <2>2, <4>1
    <3>2. f[k].left <= n - k
      BY <1>7, <2>4
    <3>3. f[k + 1].left <= n - (k + 1)
      BY <2>2, <3>1, <3>2
    <3> QED
      BY <2>1, <3>3
  <2> QED
    BY <2>3, <2>4
<1>8. n \in S
  <2>1. \A k \in 0..n : k \in S
    <3> HIDE DEF S
    <3> QED
      BY <1>6, <1>7, UpTo
  <2> HIDE DEF S
  <2> QED
    BY <2>1
<1>9. PICK end \in D : end = f[n]
  BY <1>4
<1>10. DecayDraining(s, n) = Spend(end.s, end.left)
  <2>1. f[n] = Iterate(DrainRound, x, n)
    BY <1>4 DEF DrainRoundRun
  <2> HIDE DEF D
  <2> QED
    BY <1>9, <2>1 DEF DecayDraining
<1>11. PICK left \in 0..n : left = end.left /\ end.s = c[n - left] /\ end.s \in States(L)
  OBVIOUS
<1>12. CASE left = 0
  <2>1. Spend(end.s, left) = end.s
    BY <1>11, <1>12, SpendNothing
  <2>2. n - left = n
    BY <1>12
  <2> QED
    BY <1>10, <1>11, <2>1, <2>2
<1>13. CASE left # 0
  <2>1. end.s.gpu.fifo = <<>>
    BY SMTT(30), <1>8, <1>9, <1>11, <1>13
  <2>2. PICK e \in 1..n : e = left
    BY <1>13
  <2>3. PICK at \in 0..n : at = n - left
    OBVIOUS
  <2>4. at + e <= n /\ at + e = n /\ c[at].gpu.fifo = <<>>
    <3>1. c[at] = end.s
      BY <1>11, <2>3
    <3> QED
      BY <2>1, <2>2, <2>3, <3>1
  <2>5. c[at + e] = Drain(Spend(c[at], e))
    <3> HIDE DEF D, x, S
    <3>1. ~Ready(c[0].gpu) /\ at + e <= n
      BY <1>1, <2>4
    <3>2. c[at].gpu.fifo = <<>> \/ e <= Greater(c[at].gpu.busy, 1)
      BY <2>4
    <3> QED
      BY <3>1, <3>2, ClocksInOne
  <2>6. ~Ready(end.s.gpu) /\ left \in Nat
    BY <2>1 DEF Ready
  <2>7. Drain(Spend(end.s, left)) = Spend(end.s, left)
    BY <1>11, <2>1, <2>6, SpendIdle
  <2> QED
    BY <1>10, <1>11, <2>2, <2>3, <2>4, <2>5, <2>7
<1> QED
  BY <1>12, <1>13

\* decay_busy of n clocks is n clocks of the GPU the drain left.
LEMMA DecayIs ==
  ASSUME NEW L, NEW s \in States(L), NEW n \in Nat, n # 0, NEW c \in [0..n -> States(L)],
         Clocked(c, n), c[0] = Drain(s)
  PROVE  DecayBusy(s, n) = c[n]
<1>1. CASE s.gpu.fifo # <<>> /\ FifoQuiet(s.gpu) < n
  <2>1. DecayBusy(s, n) = DecayDraining(s, n)
    BY <1>1 DEF DecayBusy
  <2> QED
    BY <2>1, DrainingIs
<1>2. CASE ~(s.gpu.fifo # <<>> /\ FifoQuiet(s.gpu) < n)
  <2>1. DecayBusy(s, n) = Spend(s, n)
    BY <1>2 DEF DecayBusy
  <2>2. /\ FifoQuiet(s.gpu) \in Nat /\ s.gpu.busy \in Nat
        /\ s.gpu.fifo = <<>> => ~Ready(s.gpu)
        /\ s.gpu.fifo # <<>> /\ FifoQuiet(s.gpu) > 0 =>
             FifoQuiet(s.gpu) = s.gpu.busy - 1 /\ ~Ready(s.gpu)
    BY QuietIs
  <2>3. ~Ready(s.gpu) /\ (s.gpu.fifo = <<>> \/ s.gpu.busy > n)
    BY <1>2, <2>2
  <2>4. Drain(s) = s /\ Drain(Spend(s, n)) = Spend(s, n)
    BY <2>3, DrainIdle, SpendIdle
  <2>5. PICK j \in 0..n : j = 0
    OBVIOUS
  <2>6. PICK e \in 1..n : e = n
    OBVIOUS
  <2>7. c[j] = s /\ j + e <= n /\ j + e = n
    BY <2>4, <2>5, <2>6
  <2>8. e <= Greater(s.gpu.busy, 1) \/ s.gpu.fifo = <<>>
    BY <2>2, <2>3, <2>6 DEF Greater
  <2>9. ~Ready(c[0].gpu)
    BY <2>3, <2>4, SMTT(30)
  <2>10. c[j + e] = Drain(Spend(c[j], e))
    BY <2>7, <2>8, <2>9, ClocksInOne
  <2> QED
    BY <2>1, <2>4, <2>6, <2>7, <2>10
<1> QED
  BY <1>1, <1>2

\* One clock of decay_busy.
LEMMA DecayOneIs ==
  ASSUME NEW L, NEW s \in States(L)
  PROVE  DecayBusy(s, 1) = Clock(Drain(s)) /\ DecayBusy(s, 1) \in States(L)
<1>1. PICK n \in Nat : n = 1 /\ n # 0
  OBVIOUS
<1>2. Drain(s) \in States(L)
  BY DrainKeeps
<1>3. PICK c \in [0..n -> States(L)] : c[0] = Drain(s) /\ Clocked(c, n)
  BY <1>2, ClockedExists
<1>4. DecayBusy(s, n) = c[n]
  BY <1>1, <1>3, DecayIs
<1>5. n \in 0..n /\ n - 1 = 0
  BY <1>1
<1>6. c[n] = Clock(c[n - 1])
  BY <1>1, <1>3, <1>5 DEF Clocked
<1>7. c[n] = Clock(Drain(s))
  BY <1>3, <1>5, <1>6
<1> QED
  BY <1>1, <1>2, <1>4, <1>7, ClockIs

\* decay_busy of n clocks is decay_busy of one clock n times.
LEMMA DecayIsClocks ==
  ASSUME NEW L, NEW n \in Nat, NEW f \in [0..n -> States(L)],
         \A k \in 0..n : k # 0 => f[k] = DecayBusy(f[k - 1], 1)
  PROVE  DecayBusy(f[0], n) = f[n]
<1>1. PICK s \in States(L) : s = f[0]
  OBVIOUS
<1>2. CASE n = 0
  <2>1. FifoQuiet(s.gpu) \in Nat
    BY QuietIs
  <2>2. DecayBusy(s, n) = Spend(s, 0)
    BY <1>2, <2>1 DEF DecayBusy
  <2> QED
    BY <1>1, <1>2, <2>2, SpendNothing
<1>3. CASE n # 0
  <2>1. Drain(s) \in States(L) /\ ~Ready(Drain(s).gpu)
    BY DrainKeeps, DrainRests
  <2>2. PICK c \in [0..n -> States(L)] : c[0] = Drain(s) /\ Clocked(c, n)
    BY <2>1, ClockedExists
  <2>3. \A k \in 0..n : c[k] \in States(L) /\ ~Ready(c[k].gpu)
    BY <2>1, <2>2, ClockedRests
  <2>4. ASSUME NEW k \in 0..n, k # 0, Drain(f[k - 1]) = c[k - 1] PROVE f[k] = c[k] /\ Drain(f[k]) = c[k]
    <3>1. k - 1 \in 0..n /\ f[k - 1] \in States(L)
      BY <2>4
    <3>2. f[k] = Clock(c[k - 1])
      BY <2>4, <3>1, DecayOneIs
    <3>3. c[k] = Clock(c[k - 1])
      BY <2>2, <2>4 DEF Clocked
    <3>4. Drain(c[k]) = c[k]
      BY <2>3, DrainIdle
    <3> QED
      BY <3>2, <3>3, <3>4
  <2> DEFINE S == {k \in 0..n : Drain(f[k]) = c[k] /\ (k # 0 => f[k] = c[k])}
  <2>5. 0 \in S
    BY <1>1, <2>2
  <2>6. ASSUME NEW k \in 0..n, k \in S, k < n PROVE k + 1 \in S
    <3>1. k + 1 \in 0..n /\ k + 1 # 0 /\ (k + 1) - 1 = k
      BY <2>6
    <3>2. f[k + 1] = c[k + 1] /\ Drain(f[k + 1]) = c[k + 1]
      BY <2>4, <2>6, <3>1
    <3> QED
      BY <3>1, <3>2
  <2>7. n \in S
    <3>1. \A k \in 0..n : k \in S
      <4> HIDE DEF S
      <4> QED
        BY <2>5, <2>6, UpTo
    <3> HIDE DEF S
    <3> QED
      BY <3>1
  <2>8. DecayBusy(s, n) = c[n]
    BY <1>3, <2>2, DecayIs
  <2> QED
    BY <1>1, <1>3, <2>7, <2>8
<1> QED
  BY <1>2, <1>3

\* What the draining and the counting down keep, decay_busy keeps.
LEMMA DecayStays ==
  ASSUME NEW L, NEW G \in SUBSET States(L), NEW s \in G, NEW n \in Nat, n # 0,
         \A r \in G : Drain(r) \in G, \A r \in G : Spend(r, 1) \in G
  PROVE  DecayBusy(s, n) \in G
<1>1. Drain(s) \in G
  OBVIOUS
<1>2. PICK c \in [0..n -> States(L)] : c[0] = Drain(s) /\ Clocked(c, n)
  BY <1>1, ClockedExists
<1>3. \A k \in 0..n : k # 0 /\ c[k - 1] \in G => c[k] \in G
  BY <1>2 DEF Clocked, Clock
<1>4. \A k \in 0..n : c[k] \in G
  BY <1>1, <1>2, <1>3, RunStays
<1>5. DecayBusy(s, n) = c[n]
  BY <1>2, DecayIs
<1> QED
  BY <1>4, <1>5

\* decay_busy leaves all but the GPU alone.
LEMMA DecayKeeps ==
  ASSUME NEW L, NEW s \in States(L), NEW n \in Nat, n # 0
  PROVE  LET t == DecayBusy(s, n)
         IN  /\ t \in States(L)
             /\ t.chan = s.chan /\ t.walk = s.walk /\ t.quiet = s.quiet
             /\ t.hist.dropped = s.hist.dropped /\ t.hist.stale = s.hist.stale
             /\ t.hist.late = s.hist.late
<1> DEFINE G == {r \in States(L) :
                   /\ r.chan = s.chan /\ r.walk = s.walk /\ r.quiet = s.quiet
                   /\ r.hist.dropped = s.hist.dropped /\ r.hist.stale = s.hist.stale
                   /\ r.hist.late = s.hist.late}
<1>1. s \in G /\ G \in SUBSET States(L)
  OBVIOUS
<1>2. \A r \in G : Drain(r) \in G
  BY DrainKeeps
<1>3. ASSUME NEW r \in G PROVE Spend(r, 1) \in G
  <2>1. PICK one \in Nat : one = 1
    OBVIOUS
  <2>2. Spend(r, one) \in G
    BY SpendIs
  <2> QED
    BY <2>1, <2>2
<1>4. DecayBusy(s, n) \in G
  <2> HIDE DEF G
  <2> QED
    BY <1>1, <1>2, <1>3, DecayStays
<1> QED
  BY <1>4

\* After a clock nothing can be taken.
LEMMA DecayRests ==
  ASSUME NEW L, NEW s \in States(L), NEW n \in Nat, n # 0
  PROVE  ~Ready(DecayBusy(s, n).gpu)
<1>1. Drain(s) \in States(L) /\ ~Ready(Drain(s).gpu)
  BY DrainKeeps, DrainRests
<1>2. PICK c \in [0..n -> States(L)] : c[0] = Drain(s) /\ Clocked(c, n)
  BY <1>1, ClockedExists
<1>3. DecayBusy(s, n) = c[n]
  BY <1>2, DecayIs
<1> QED
  BY <1>1, <1>2, <1>3, ClockedRests

-----------------------------------------------------------------------------
(* The walker. *)

\* A word queued.
Queued(s, word) == [s EXCEPT !.gpu.fifo = Append(@, word)]

LEMMA QueuedIs ==
  ASSUME NEW L, NEW s \in States(L), NEW word \in Word
  PROVE  LET t == Queued(s, word)
         IN  /\ t \in States(L)
             /\ t.chan = s.chan /\ t.walk = s.walk /\ t.quiet = s.quiet /\ t.hist = s.hist
             /\ t.gpu.fifo = Append(s.gpu.fifo, word)
             /\ t.gpu.upload = s.gpu.upload /\ t.gpu.busy = s.gpu.busy
<1>1. s.gpu \in Gpus /\ Append(s.gpu.fifo, word) \in Seq(Word)
  BY DEF States, Gpus
<1>2. [s.gpu EXCEPT !.fifo = Append(@, word)] \in Gpus
  BY <1>1 DEF Gpus
<1> QED
  BY <1>1, <1>2 DEF Queued, States, Gpus

\* gp0_push_dma.
LEMMA PushIs ==
  ASSUME NEW L, NEW s \in States(L), NEW word \in Word
  PROVE  LET t == Push(s, word)
         IN  /\ t \in States(L)
             /\ t.chan = s.chan /\ t.walk = s.walk /\ t.quiet = s.quiet
             /\ t.hist.stale = s.hist.stale /\ t.hist.late = s.hist.late
             /\ HasRoom(s.gpu) => /\ t = Drain(Queued(s, word))
                                  /\ t.hist.dropped = s.hist.dropped
                                  /\ ~Ready(t.gpu)
             /\ ~HasRoom(s.gpu) => t.gpu = s.gpu /\ t.hist.torn = s.hist.torn
<1>1. CASE HasRoom(s.gpu)
  <2>1. PICK u \in States(L) : u = Queued(s, word)
    BY QueuedIs
  <2>2. Push(s, word) = Drain(u)
    BY <1>1, <2>1 DEF Push, Queued
  <2>3. u.chan = s.chan /\ u.walk = s.walk /\ u.quiet = s.quiet /\ u.hist = s.hist
    BY <2>1, QueuedIs
  <2>4. ~Ready(Drain(u).gpu)
    BY DrainRests
  <2> QED
    BY <1>1, <2>1, <2>2, <2>3, <2>4, DrainKeeps
<1>2. CASE ~HasRoom(s.gpu)
  BY <1>2 DEF Push, States, Hists
<1> QED
  BY <1>1, <1>2

\* The walk with its next word gone.
WordGone(s) == [s EXCEPT !.walk.words = Tail(@)]

LEMMA WordGoneIs ==
  ASSUME NEW L, NEW s \in States(L), s.walk.words # <<>>
  PROVE  LET t == WordGone(s)
         IN  /\ t \in States(L) /\ Head(s.walk.words) \in Word
             /\ t.chan = s.chan /\ t.gpu = s.gpu /\ t.quiet = s.quiet /\ t.hist = s.hist
             /\ t.walk = [s.walk EXCEPT !.words = Tail(@)]
             /\ t.walk.words = Tail(s.walk.words) /\ t.walk.nodes = s.walk.nodes
             /\ t.walk.live = s.walk.live /\ t.walk.header = s.walk.header
             /\ t.walk.setup = s.walk.setup
<1>1. s.walk \in Walks /\ s.walk.words \in Seq(Word)
  BY DEF States, Walks, Node
<1>2. Tail(s.walk.words) \in Seq(Word) /\ Head(s.walk.words) \in Word
  BY <1>1
<1>3. ~s.walk.header
  BY <1>1 DEF Walks
<1>4. [s.walk EXCEPT !.words = Tail(@)] \in Walks
  BY <1>1, <1>2, <1>3 DEF Walks, Node
<1> QED
  BY <1>1, <1>2, <1>4 DEF WordGone, States, Walks

LEMMA PushWordIs ==
  ASSUME NEW L, NEW s \in States(L), s.walk.words # <<>>
  PROVE  LET t == PushWord(s)
         IN  /\ t \in States(L)
             /\ t.chan = s.chan /\ t.quiet = s.quiet
             /\ t.walk = [s.walk EXCEPT !.words = Tail(@)]
             /\ t.hist.stale = s.hist.stale /\ t.hist.late = s.hist.late
             /\ HasRoom(s.gpu) =>
                  /\ t = Drain(Queued(WordGone(s), Head(s.walk.words)))
                  /\ t.hist.dropped = s.hist.dropped
                  /\ ~Ready(t.gpu)
<1>1. PICK u \in States(L) : u = WordGone(s)
  BY WordGoneIs
<1>2. PICK word \in Word : word = Head(s.walk.words)
  BY WordGoneIs
<1>3. PushWord(s) = Push(u, word)
  BY <1>1, <1>2 DEF PushWord, WordGone
<1>4. /\ u.chan = s.chan /\ u.gpu = s.gpu /\ u.quiet = s.quiet /\ u.hist = s.hist
      /\ u.walk = [s.walk EXCEPT !.words = Tail(@)]
  BY <1>1, WordGoneIs
<1> QED
  BY <1>1, <1>2, <1>3, <1>4, PushIs

LEMMA AdmitIs ==
  ASSUME NEW L, NEW s \in States(L), s.walk.header
  PROVE  LET t == Admit(s)
         IN  /\ t \in States(L)
             /\ t.chan = s.chan /\ t.gpu = s.gpu /\ t.quiet = s.quiet /\ t.hist = s.hist
             /\ s.walk.nodes # <<>> /\ s.walk.words = <<>>
             /\ t.walk.words = Head(s.walk.nodes) /\ t.walk.nodes = Tail(s.walk.nodes)
             /\ ~t.walk.header /\ t.walk.live = s.walk.live
<1>1. s.walk \in Walks /\ s.walk.nodes \in Seq(Node) /\ s.walk.nodes # <<>> /\ s.walk.words = <<>>
  BY DEF States, Walks
<1>2. Head(s.walk.nodes) \in Node /\ Tail(s.walk.nodes) \in Seq(Node)
  BY <1>1
<1>3. PICK setup \in 0..Forever - 1 :
        setup = IF Head(s.walk.nodes) = <<>> THEN EmptySetup ELSE NodeSetup
  BY TimesAssumption
<1>4. PICK w : w = [s.walk EXCEPT !.nodes = Tail(@), !.words = Head(s.walk.nodes),
                                  !.header = FALSE, !.setup = setup]
  OBVIOUS
<1>5. /\ w \in Walks /\ w.words = Head(s.walk.nodes) /\ w.nodes = Tail(s.walk.nodes)
      /\ w.header = FALSE /\ w.live = s.walk.live
  BY <1>1, <1>2, <1>4 DEF Walks
<1>6. Admit(s) = [s EXCEPT !.walk = w]
  BY <1>1, <1>3, <1>4 DEF Admit, States
<1> QED
  BY <1>1, <1>5, <1>6 DEF States

LEMMA NoWalkIs ==
  NoWalk \in Walks
<1>0. Forever \in Nat /\ Forever > 0
  BY SMT DEF Forever
<1>1. 0 \in 0..Forever - 1
  BY <1>0
<1> QED
  BY <1>1 DEF NoWalk, Walks, Node

LEMMA EndWalkIs ==
  ASSUME NEW L, NEW s \in States(L)
  PROVE  LET t == EndWalk(s)
         IN  /\ t \in States(L)
             /\ t.chan = [s.chan EXCEPT !.event = TRUE] /\ t.gpu = s.gpu /\ t.quiet = s.quiet
             /\ t.walk = NoWalk
             /\ t.hist = [s.hist EXCEPT !.stale = FALSE]
<1>1. [s.chan EXCEPT !.event = TRUE] \in Chans(L)
  BY DEF States, Chans
<1>2. [s.hist EXCEPT !.stale = FALSE] \in Hists
  BY DEF States, Hists
<1>3. EndWalk(s) = [s EXCEPT !.walk = NoWalk, !.chan = [s.chan EXCEPT !.event = TRUE],
                             !.hist = [s.hist EXCEPT !.stale = FALSE]]
  BY DEF EndWalk, States
<1> QED
  BY <1>1, <1>2, <1>3, NoWalkIs DEF States

\* What advance_experimental_gpu_list does, by what the walk is at.
LEMMA WalkStepCases ==
  ASSUME NEW L, NEW s \in States(L)
  PROVE  \/ ~s.walk.live /\ WalkStep(s) = s
         \/ s.walk.live /\ ~s.chan.start /\ WalkStep(s) = [s EXCEPT !.walk = NoWalk]
         \/ s.walk.live /\ s.chan.start /\ ~s.chan.enabled /\ WalkStep(s) = s
         \/ /\ s.walk.live /\ s.chan.start /\ s.chan.enabled /\ s.walk.setup > 0
            /\ WalkStep(s) = [s EXCEPT !.walk = [s.walk EXCEPT !.setup = @ - 1]]
         \/ /\ s.walk.live /\ s.chan.start /\ s.chan.enabled /\ s.walk.setup = 0 /\ s.walk.header
            /\ RequestsNode(s.gpu) /\ WalkStep(s) = Admit(s)
         \/ /\ s.walk.live /\ s.chan.start /\ s.chan.enabled /\ s.walk.setup = 0 /\ s.walk.header
            /\ ~RequestsNode(s.gpu) /\ WalkStep(s) = s
         \/ /\ s.walk.live /\ s.chan.start /\ s.chan.enabled /\ s.walk.setup = 0 /\ ~s.walk.header
            /\ s.walk.words # <<>> /\ HasRoom(s.gpu) /\ WalkStep(s) = PushWord(s)
         \/ /\ s.walk.live /\ s.chan.start /\ s.chan.enabled /\ s.walk.setup = 0 /\ ~s.walk.header
            /\ s.walk.words # <<>> /\ ~HasRoom(s.gpu) /\ WalkStep(s) = s
         \/ /\ s.walk.live /\ s.chan.start /\ s.chan.enabled /\ s.walk.setup = 0 /\ ~s.walk.header
            /\ s.walk.words = <<>> /\ s.walk.nodes = <<>> /\ WalkStep(s) = EndWalk(s)
         \/ /\ s.walk.live /\ s.chan.start /\ s.chan.enabled /\ s.walk.setup = 0 /\ ~s.walk.header
            /\ s.walk.words = <<>> /\ s.walk.nodes # <<>>
            /\ WalkStep(s) = [s EXCEPT !.walk = [s.walk EXCEPT !.header = TRUE]]
<1>1. s.walk.setup \in Nat
  BY TimesAssumption DEF States, Walks
<1>2. /\ [s EXCEPT !.walk.setup = @ - 1] = [s EXCEPT !.walk = [s.walk EXCEPT !.setup = @ - 1]]
      /\ [s EXCEPT !.walk.header = TRUE] = [s EXCEPT !.walk = [s.walk EXCEPT !.header = TRUE]]
  BY DEF States
<1>3. CASE s.walk.live /\ s.chan.start /\ s.chan.enabled /\ s.walk.setup = 0
  BY <1>3 , <1>2 DEF WalkStep, FetchWord
<1>4. CASE s.walk.live /\ s.chan.start /\ s.chan.enabled /\ s.walk.setup > 0
  BY <1>4, <1>2 DEF WalkStep
<1>5. CASE ~(s.walk.live /\ s.chan.start /\ s.chan.enabled)
  BY <1>5 DEF WalkStep
<1> QED
  BY <1>1, <1>3, <1>4, <1>5

\* A step of the walker keeps the types.
LEMMA WalkStepKeeps ==
  ASSUME NEW L, NEW s \in States(L)
  PROVE  LET t == WalkStep(s)
         IN  /\ t \in States(L) /\ t.quiet = s.quiet
             /\ t.chan = [s.chan EXCEPT !.event = t.chan.event]
             /\ t.hist.late = s.hist.late /\ t.hist.dropped = s.hist.dropped
             /\ ~Ready(s.gpu) => ~Ready(t.gpu)
             /\ t.walk.live => s.walk.live
<1>0. s.chan = [s.chan EXCEPT !.event = s.chan.event] /\ s.walk \in Walks /\ s.hist \in Hists
  BY DEF States, Chans
<1>1. CASE WalkStep(s) = s
  BY <1>0, <1>1
<1>2. CASE WalkStep(s) = [s EXCEPT !.walk = NoWalk]
  <2>1. NoWalk.live = FALSE
    BY DEF NoWalk
  <2> QED
    BY <1>0, <1>2, <2>1, NoWalkIs DEF States
<1>3. CASE s.walk.setup > 0 /\ WalkStep(s) = [s EXCEPT !.walk = [s.walk EXCEPT !.setup = @ - 1]]
  <2>1. Forever \in Nat
    BY SMT DEF Forever
  <2>2. s.walk.setup - 1 \in 0..Forever - 1
    BY <1>0, <1>3, <2>1 DEF Walks
  <2>3. PICK w : w = [s.walk EXCEPT !.setup = @ - 1]
    OBVIOUS
  <2>4. w \in Walks /\ w.live = s.walk.live
    BY <1>0, <2>2, <2>3 DEF Walks
  <2> QED
    BY <1>0, <1>3, <2>3, <2>4 DEF States
<1>4. CASE s.walk.header /\ WalkStep(s) = Admit(s)
  BY <1>0, <1>4, AdmitIs
<1>5. CASE s.walk.words # <<>> /\ HasRoom(s.gpu) /\ WalkStep(s) = PushWord(s)
  <2>1. PushWord(s).walk.live = s.walk.live
    BY <1>0, <1>5, PushWordIs DEF Walks
  <2>2. PICK t \in States(L) : t = WalkStep(s) /\ t = PushWord(s)
    BY <1>5, PushWordIs
  <2>3. /\ t.chan = s.chan /\ t.quiet = s.quiet /\ t.hist.late = s.hist.late
        /\ t.hist.dropped = s.hist.dropped /\ ~Ready(t.gpu)
    BY <1>5, <2>2, PushWordIs
  <2> QED
    BY <1>0, <2>1, <2>2, <2>3
<1>6. CASE WalkStep(s) = EndWalk(s)
  <2>1. PICK t \in States(L) : t = EndWalk(s)
    BY EndWalkIs
  <2>2. /\ t.chan = [s.chan EXCEPT !.event = TRUE] /\ t.gpu = s.gpu /\ t.quiet = s.quiet
        /\ t.walk = NoWalk
        /\ t.hist = [s.hist EXCEPT !.stale = FALSE]
    BY <2>1, EndWalkIs
  <2>3. t.chan.event = TRUE /\ t.hist.late = s.hist.late /\ t.hist.dropped = s.hist.dropped
    BY <1>0, <2>2 DEF States, Chans, Hists
  <2>4. ~t.walk.live
    BY <2>2 DEF NoWalk
  <2> QED
    BY <1>6, <2>1, <2>2, <2>3, <2>4
<1>7. CASE /\ s.walk.words = <<>> /\ s.walk.nodes # <<>>
           /\ WalkStep(s) = [s EXCEPT !.walk = [s.walk EXCEPT !.header = TRUE]]
  <2>1. PICK w : w = [s.walk EXCEPT !.header = TRUE]
    OBVIOUS
  <2>2. w \in Walks /\ w.live = s.walk.live
    BY <1>0, <1>7, <2>1 DEF Walks
  <2> QED
    BY <1>0, <1>7, <2>1, <2>2 DEF States
<1> QED
  BY <1>1, <1>2, <1>3, <1>4, <1>5, <1>6, <1>7, WalkStepCases

\* A clock of the walk keeps the types.
LEMMA StepCycleKeeps ==
  ASSUME NEW L, NEW s \in States(L)
  PROVE  LET t == StepCycle(s)
         IN  /\ t \in States(L) /\ t.quiet = s.quiet
             /\ t.chan = [s.chan EXCEPT !.event = t.chan.event]
             /\ t.hist.late = s.hist.late /\ t.hist.dropped = s.hist.dropped
             /\ ~Ready(t.gpu)
             /\ t.walk.live => s.walk.live
<1>1. PICK n \in Nat : n = 1 /\ n # 0
  OBVIOUS
<1>2. PICK u \in States(L) : u = DecayBusy(s, n)
  BY <1>1, DecayKeeps
<1>3. /\ u.chan = s.chan /\ u.walk = s.walk /\ u.quiet = s.quiet
      /\ u.hist.dropped = s.hist.dropped /\ u.hist.late = s.hist.late /\ ~Ready(u.gpu)
  BY <1>1, <1>2, DecayKeeps, DecayRests
<1>4. StepCycle(s) = WalkStep(u)
  BY <1>1, <1>2 DEF StepCycle
<1> QED
  BY SMTT(30), <1>2, <1>3, <1>4, WalkStepKeeps

-----------------------------------------------------------------------------
(* Many clocks at once. *)

LEMMA QuietBatchIs ==
  ASSUME NEW L, NEW s \in States(L), NEW n \in Nat
  PROVE  LET t == QuietBatch(s, n)
         IN  /\ t \in States(L)
             /\ t.chan = s.chan /\ t.quiet = s.quiet /\ t.hist = s.hist
             /\ t.gpu.fifo = s.gpu.fifo /\ t.gpu.upload = s.gpu.upload
             /\ t.gpu.busy = Less(s.gpu.busy, n)
             /\ t.walk.nodes = s.walk.nodes /\ t.walk.words = s.walk.words
             /\ t.walk.header = s.walk.header /\ t.walk.live = s.walk.live
             /\ t.walk.setup = IF s.chan.enabled THEN Less(s.walk.setup, n) ELSE s.walk.setup
<1>1. PICK u \in States(L) : u = Spend(s, n)
  BY SpendIs
<1>2. /\ u.chan = s.chan /\ u.walk = s.walk /\ u.quiet = s.quiet /\ u.hist = s.hist
      /\ u.gpu.fifo = s.gpu.fifo /\ u.gpu.upload = s.gpu.upload
      /\ u.gpu.busy = Less(s.gpu.busy, n)
  BY <1>1, SpendIs
<1>3. PICK setup : setup = IF s.chan.enabled THEN Less(s.walk.setup, n) ELSE s.walk.setup
  OBVIOUS
<1>4. s.walk \in Walks /\ setup \in 0..Forever - 1
  <2>1. s.walk \in Walks /\ s.walk.setup \in 0..Forever - 1
    BY DEF States, Walks
  <2>2. Forever \in Nat
    BY SMT DEF Forever
  <2> QED
    BY <1>3, <2>1, <2>2 DEF Less
<1>5. PICK w : w = [s.walk EXCEPT !.setup = setup]
  OBVIOUS
<1>6. /\ w \in Walks /\ w.nodes = s.walk.nodes /\ w.words = s.walk.words
      /\ w.header = s.walk.header /\ w.live = s.walk.live /\ w.setup = setup
  BY <1>4, <1>5 DEF Walks
<1>7. QuietBatch(s, n) = [u EXCEPT !.walk = w]
  BY <1>1, <1>2, <1>3, <1>5 DEF QuietBatch, States
<1> QED
  BY <1>1, <1>2, <1>3, <1>6, <1>7 DEF States

\* Two states are the same when their parts are, the walk's too.
LEMMA SameParts ==
  ASSUME NEW L, NEW s \in States(L), NEW t \in States(L),
         s.chan = t.chan, s.quiet = t.quiet, s.hist = t.hist,
         s.gpu.fifo = t.gpu.fifo, s.gpu.upload = t.gpu.upload, s.gpu.busy = t.gpu.busy,
         s.walk.nodes = t.walk.nodes, s.walk.words = t.walk.words,
         s.walk.header = t.walk.header, s.walk.live = t.walk.live, s.walk.setup = t.walk.setup
  PROVE  s = t
<1>1. s.walk = t.walk
  BY DEF States, Walks
<1> QED
  BY <1>1, SameState

LEMMA QuietBatchNone ==
  ASSUME NEW L, NEW s \in States(L)
  PROVE  QuietBatch(s, 0) = s
<1>1. PICK n \in Nat : n = 0
  OBVIOUS
<1>2. s.gpu.busy \in Nat /\ s.walk.setup \in Nat
  BY DEF States, Gpus, Walks
<1>3. Less(s.gpu.busy, n) = s.gpu.busy /\ Less(s.walk.setup, n) = s.walk.setup
  BY <1>1, <1>2 DEF Less
<1>4. PICK t \in States(L) : t = QuietBatch(s, n)
  BY QuietBatchIs
<1>5. /\ t.chan = s.chan /\ t.quiet = s.quiet /\ t.hist = s.hist
      /\ t.gpu.fifo = s.gpu.fifo /\ t.gpu.upload = s.gpu.upload
      /\ t.gpu.busy = s.gpu.busy
      /\ t.walk.nodes = s.walk.nodes /\ t.walk.words = s.walk.words
      /\ t.walk.header = s.walk.header /\ t.walk.live = s.walk.live
      /\ t.walk.setup = s.walk.setup
  BY <1>3, <1>4, QuietBatchIs
<1>6. t = s
  BY <1>5, SameParts
<1> QED
  BY <1>1, <1>4, <1>6

\* What a quiet span says of the state.
LEMMA QuietSpanIs ==
  ASSUME NEW L, NEW s \in States(L)
  PROVE  /\ QuietCycles(s) \in Nat /\ ListQuiet(s) \in Nat
         /\ QuietCycles(s) > 0 =>
              /\ QuietCycles(s) <= ListQuiet(s) /\ QuietCycles(s) <= FifoQuiet(s.gpu)
              /\ QuietCycles(s) = ListQuiet(s) \/ QuietCycles(s) = FifoQuiet(s.gpu)
              /\ s.walk.live /\ s.chan.start
              /\ \/ ~s.chan.enabled /\ ListQuiet(s) = Forever
                 \/ s.chan.enabled /\ s.walk.setup > 0 /\ ListQuiet(s) = s.walk.setup
                 \/ /\ s.chan.enabled /\ s.walk.setup = 0 /\ ListQuiet(s) = Forever
                    /\ s.walk.header /\ ~RequestsNode(s.gpu)
                 \/ /\ s.chan.enabled /\ s.walk.setup = 0 /\ ListQuiet(s) = Forever
                    /\ ~s.walk.header /\ s.walk.words # <<>> /\ ~HasRoom(s.gpu)
<1>1. Forever \in Nat /\ FifoQuiet(s.gpu) \in Nat
  BY QuietIs
<1>2. s.walk.setup \in Nat
  BY <1>1 DEF States, Walks
<1>3. ListQuiet(s) \in Nat
  BY <1>1, <1>2 DEF ListQuiet
<1>4. QuietCycles(s) \in Nat
  BY <1>1, <1>3 DEF QuietCycles, Lesser
<1>5. ASSUME QuietCycles(s) > 0
      PROVE  /\ QuietCycles(s) <= ListQuiet(s) /\ QuietCycles(s) <= FifoQuiet(s.gpu)
             /\ QuietCycles(s) = ListQuiet(s) \/ QuietCycles(s) = FifoQuiet(s.gpu)
             /\ ListQuiet(s) > 0
  BY <1>1, <1>3, <1>5 DEF QuietCycles, Lesser
<1>6. ASSUME ListQuiet(s) > 0
      PROVE  /\ s.walk.live /\ s.chan.start
             /\ \/ ~s.chan.enabled /\ ListQuiet(s) = Forever
                \/ s.chan.enabled /\ s.walk.setup > 0 /\ ListQuiet(s) = s.walk.setup
                \/ /\ s.chan.enabled /\ s.walk.setup = 0 /\ ListQuiet(s) = Forever
                   /\ s.walk.header /\ ~RequestsNode(s.gpu)
                \/ /\ s.chan.enabled /\ s.walk.setup = 0 /\ ListQuiet(s) = Forever
                   /\ ~s.walk.header /\ s.walk.words # <<>> /\ ~HasRoom(s.gpu)
  <2>1. s.walk.live /\ s.chan.start
    BY <1>6 DEF ListQuiet
  <2> QED
    BY <1>1, <1>2, <1>6, <2>1 DEF ListQuiet
<1> QED
  BY <1>3, <1>4, <1>5, <1>6

\* One more clock of a quiet span.
LEMMA StepInQuiet ==
  ASSUME NEW L, NEW s \in States(L), NEW k \in Nat, k < QuietCycles(s)
  PROVE  StepCycle(QuietBatch(s, k)) = QuietBatch(s, k + 1)
<1>1. PICK one \in Nat : one = 1
  OBVIOUS
<1>2. PICK m \in Nat : m = k + 1
  OBVIOUS
<1>3. PICK t \in States(L) : t = QuietBatch(s, k)
  BY QuietBatchIs
<1>4. /\ t.chan = s.chan /\ t.quiet = s.quiet /\ t.hist = s.hist
      /\ t.gpu.fifo = s.gpu.fifo /\ t.gpu.upload = s.gpu.upload
      /\ t.gpu.busy = Less(s.gpu.busy, k)
      /\ t.walk.nodes = s.walk.nodes /\ t.walk.words = s.walk.words
      /\ t.walk.header = s.walk.header /\ t.walk.live = s.walk.live
      /\ t.walk.setup = IF s.chan.enabled THEN Less(s.walk.setup, k) ELSE s.walk.setup
  BY <1>3, QuietBatchIs
<1>5. PICK v \in States(L) : v = QuietBatch(s, m)
  BY QuietBatchIs
<1>6. /\ v.chan = s.chan /\ v.quiet = s.quiet /\ v.hist = s.hist
      /\ v.gpu.fifo = s.gpu.fifo /\ v.gpu.upload = s.gpu.upload
      /\ v.gpu.busy = Less(s.gpu.busy, m)
      /\ v.walk.nodes = s.walk.nodes /\ v.walk.words = s.walk.words
      /\ v.walk.header = s.walk.header /\ v.walk.live = s.walk.live
      /\ v.walk.setup = IF s.chan.enabled THEN Less(s.walk.setup, m) ELSE s.walk.setup
  BY <1>5, QuietBatchIs
<1>7. /\ QuietCycles(s) \in Nat /\ QuietCycles(s) > 0
      /\ QuietCycles(s) <= ListQuiet(s) /\ QuietCycles(s) <= FifoQuiet(s.gpu)
      /\ s.walk.live /\ s.chan.start
      /\ \/ ~s.chan.enabled
         \/ s.chan.enabled /\ s.walk.setup > 0 /\ ListQuiet(s) = s.walk.setup
         \/ /\ s.chan.enabled /\ s.walk.setup = 0
            /\ s.walk.header /\ ~RequestsNode(s.gpu)
         \/ /\ s.chan.enabled /\ s.walk.setup = 0
            /\ ~s.walk.header /\ s.walk.words # <<>> /\ ~HasRoom(s.gpu)
  BY QuietSpanIs
<1>8. /\ FifoQuiet(s.gpu) \in Nat /\ s.gpu.busy \in Nat /\ ListQuiet(s) \in Nat
      /\ s.walk.setup \in Nat
      /\ s.gpu.fifo # <<>> /\ FifoQuiet(s.gpu) > 0 =>
           /\ FifoQuiet(s.gpu) = s.gpu.busy - 1
           /\ s.gpu.upload = 0 /\ Head(s.gpu.fifo) # "state"
  <2>1. s.walk.setup \in Nat
    BY DEF States, Walks
  <2>2. ListQuiet(s) \in Nat
    BY QuietSpanIs
  <2> QED
    BY <2>1, <2>2, QuietIs
<1>9. DecayBusy(t, one) = Spend(t, one)
  <2>1. CASE s.gpu.fifo = <<>>
    BY <1>4, <2>1 DEF DecayBusy
  <2>2. CASE s.gpu.fifo # <<>>
    <3>1. s.gpu.busy - 1 > k /\ s.gpu.upload = 0 /\ Head(s.gpu.fifo) # "state"
      BY <1>7, <1>8, <2>2
    <3>2. t.gpu.busy \in Nat /\ t.gpu.busy >= 2
      BY <1>4, <1>8, <3>1 DEF Less
    <3>3. FifoQuiet(t.gpu) = t.gpu.busy - 1
      BY <1>4, <2>2, <3>1, <3>2 DEF FifoQuiet
    <3>4. ~(FifoQuiet(t.gpu) < one)
      BY <1>1, <3>2, <3>3
    <3> QED
      BY <3>4 DEF DecayBusy
  <2> QED
    BY <2>1, <2>2
<1>10. PICK u \in States(L) : u = Spend(t, one)
  BY SpendIs
<1>11. /\ u.chan = s.chan /\ u.quiet = s.quiet /\ u.hist = s.hist
       /\ u.gpu.fifo = s.gpu.fifo /\ u.gpu.upload = s.gpu.upload
       /\ u.gpu.busy = v.gpu.busy
       /\ u.walk = t.walk
  <2>1. Less(Less(s.gpu.busy, k), one) = Less(s.gpu.busy, m)
    BY <1>1, <1>2, <1>8 DEF Less
  <2>2. /\ u.chan = t.chan /\ u.quiet = t.quiet /\ u.hist = t.hist
        /\ u.gpu.fifo = t.gpu.fifo /\ u.gpu.upload = t.gpu.upload
        /\ u.gpu.busy = Less(t.gpu.busy, one) /\ u.walk = t.walk
    BY <1>10, SpendIs
  <2> QED
    BY <1>4, <1>6, <2>1, <2>2
<1>12. StepCycle(t) = WalkStep(u)
  BY <1>1, <1>9, <1>10 DEF StepCycle
<1>13. u.walk.live /\ u.chan.start
  BY <1>4, <1>7, <1>11
<1>14. CASE ~s.chan.enabled
  <2>1. WalkStep(u) = u
    BY <1>11, <1>13, <1>14 DEF WalkStep
  <2>2. u = v
    BY <1>4, <1>6, <1>11, <1>14, SameParts
  <2> QED
    BY <1>2, <1>3, <1>5, <1>12, <2>1, <2>2
<1>15. CASE s.chan.enabled /\ s.walk.setup > 0 /\ ListQuiet(s) = s.walk.setup
  <2>1. u.walk.setup = s.walk.setup - k /\ u.walk.setup > 0
    BY <1>4, <1>7, <1>8, <1>11, <1>15 DEF Less
  <2>2. v.walk.setup = u.walk.setup - 1
    BY <1>2, <1>6, <1>7, <1>8, <1>15, <2>1 DEF Less
  <2>3. WalkStep(u) = [u EXCEPT !.walk.setup = @ - 1]
    BY <1>11, <1>13, <1>15, <2>1 DEF WalkStep
  <2>4. PICK x : x = WalkStep(u)
    OBVIOUS
  <2>5. x \in States(L)
    BY <2>4, WalkStepKeeps
  <2>6. /\ x.chan = u.chan /\ x.quiet = u.quiet /\ x.hist = u.hist /\ x.gpu = u.gpu
        /\ x.walk = [u.walk EXCEPT !.setup = @ - 1]
    BY <2>3, <2>4 DEF States
  <2>7. /\ x.walk.nodes = u.walk.nodes /\ x.walk.words = u.walk.words
        /\ x.walk.header = u.walk.header /\ x.walk.live = u.walk.live
        /\ x.walk.setup = u.walk.setup - 1
    <3>1. u.walk \in Walks
      BY DEF States
    <3> QED
      BY <2>6, <3>1 DEF Walks
  <2>8. x = v
    <3>1. /\ x.chan = v.chan /\ x.quiet = v.quiet /\ x.hist = v.hist
          /\ x.gpu.fifo = v.gpu.fifo /\ x.gpu.upload = v.gpu.upload /\ x.gpu.busy = v.gpu.busy
          /\ x.walk.nodes = v.walk.nodes /\ x.walk.words = v.walk.words
          /\ x.walk.header = v.walk.header /\ x.walk.live = v.walk.live
          /\ x.walk.setup = v.walk.setup
      BY <1>4, <1>6, <1>11, <2>2, <2>6, <2>7
    <3> QED
      BY <2>5, <3>1, SameParts
  <2> QED
    BY <1>2, <1>3, <1>5, <1>12, <2>4, <2>8
<1>16. CASE /\ s.chan.enabled /\ s.walk.setup = 0
            /\ \/ s.walk.header /\ ~RequestsNode(s.gpu)
               \/ ~s.walk.header /\ s.walk.words # <<>> /\ ~HasRoom(s.gpu)
  <2>1. u.walk.setup = 0 /\ v.walk.setup = 0
    BY <1>2, <1>4, <1>6, <1>11, <1>16 DEF Less
  <2>2. (RequestsNode(u.gpu) <=> RequestsNode(s.gpu)) /\ (HasRoom(u.gpu) <=> HasRoom(s.gpu))
    BY <1>11 DEF RequestsNode, HasRoom, Capacity
  <2>3. WalkStep(u) = u
    BY <1>4, <1>11, <1>13, <1>16, <2>1, <2>2 DEF WalkStep, FetchWord
  <2>4. u = v
    BY <1>4, <1>6, <1>11, <2>1, SameParts
  <2> QED
    BY <1>2, <1>3, <1>5, <1>12, <2>3, <2>4
<1> QED
  BY <1>7, <1>14, <1>15, <1>16

\* A run of StepCycle.
Cycled(p, n) == \A k \in 0..n : k # 0 => p[k] = StepCycle(p[k - 1])

\* The quiet batch is its clocks.
LEMMA QuietBatchIsClocks ==
  ASSUME NEW L, NEW n \in Nat, NEW p \in [0..n -> States(L)], Cycled(p, n),
         NEW j \in 0..n, NEW b \in 0..n, j + b <= n, b <= QuietCycles(p[j])
  PROVE  p[j + b] = QuietBatch(p[j], b)
<1>1. PICK s \in States(L) : s = p[j]
  OBVIOUS
<1>2. QuietCycles(s) \in Nat /\ b \in Nat
  BY QuietSpanIs
<1> DEFINE S == {k \in 0..b : p[j + k] = QuietBatch(s, k)}
<1>3. 0 \in S
  <2>1. QuietBatch(s, 0) = s
    BY QuietBatchNone
  <2>2. 0 \in 0..b /\ j + 0 = j
    OBVIOUS
  <2>3. p[j + 0] = QuietBatch(s, 0)
    BY <1>1, <2>1, <2>2
  <2> QED
    BY <2>2, <2>3
<1>4. ASSUME NEW k \in 0..b, k \in S, k < b PROVE k + 1 \in S
  <2>1. PICK i \in Nat : i = k + 1
    OBVIOUS
  <2>2. /\ j + i \in 0..n /\ j + i # 0 /\ (j + i) - 1 = j + k /\ k \in Nat
        /\ k < QuietCycles(s)
    BY <1>1, <1>2, <1>4, <2>1
  <2>3. p[j + i] = StepCycle(p[(j + i) - 1])
    BY <2>2 DEF Cycled
  <2>4. p[j + k] = QuietBatch(s, k)
    BY <1>4
  <2>5. StepCycle(QuietBatch(s, k)) = QuietBatch(s, k + 1)
    BY <2>2, StepInQuiet
  <2>6. p[j + i] = QuietBatch(s, i)
    BY <2>1, <2>2, <2>3, <2>4, <2>5
  <2> QED
    BY <1>4, <2>1, <2>6
<1>5. b \in S
  <2>1. \A k \in 0..b : k \in S
    <3> HIDE DEF S
    <3> QED
      BY <1>2, <1>3, <1>4, UpTo
  <2>2. b \in 0..b
    OBVIOUS
  <2> HIDE DEF S
  <2> QED
    BY <2>1, <2>2
<1> QED
  BY <1>1, <1>5

\* A batch shortens the span by its clocks.
LEMMA QuietShortens ==
  ASSUME NEW L, NEW s \in States(L), NEW b \in Nat, b <= QuietCycles(s), QuietCycles(s) > 0
  PROVE  /\ Shorten(QuietCycles(s), b) \in Nat
         /\ \/ Shorten(QuietCycles(s), b) = 0
            \/ Shorten(QuietCycles(s), b) = QuietCycles(QuietBatch(s, b))
<1>1. PICK t \in States(L) : t = QuietBatch(s, b)
  BY QuietBatchIs
<1>2. /\ t.chan = s.chan
      /\ t.gpu.fifo = s.gpu.fifo /\ t.gpu.upload = s.gpu.upload
      /\ t.gpu.busy = Less(s.gpu.busy, b)
      /\ t.walk.words = s.walk.words
      /\ t.walk.header = s.walk.header /\ t.walk.live = s.walk.live
      /\ t.walk.setup = IF s.chan.enabled THEN Less(s.walk.setup, b) ELSE s.walk.setup
  BY <1>1, QuietBatchIs
<1>3. PICK span \in Nat : span = QuietCycles(s)
  BY QuietSpanIs
<1>4. PICK list \in Nat : list = ListQuiet(s)
  BY QuietSpanIs
<1>5. PICK fifo \in Nat : fifo = FifoQuiet(s.gpu)
  BY QuietIs
<1>6. /\ span > 0 /\ b <= span /\ span <= list /\ span <= fifo
      /\ span = list \/ span = fifo
      /\ s.walk.live /\ s.chan.start
      /\ \/ ~s.chan.enabled /\ list = Forever
         \/ s.chan.enabled /\ s.walk.setup > 0 /\ list = s.walk.setup
         \/ /\ s.chan.enabled /\ s.walk.setup = 0 /\ list = Forever
            /\ s.walk.header /\ ~RequestsNode(s.gpu)
         \/ /\ s.chan.enabled /\ s.walk.setup = 0 /\ list = Forever
            /\ ~s.walk.header /\ s.walk.words # <<>> /\ ~HasRoom(s.gpu)
  BY <1>3, <1>4, <1>5, QuietSpanIs
<1>7. /\ s.gpu.busy \in Nat /\ s.gpu.busy < Forever /\ Forever \in Nat
      /\ s.gpu.fifo = <<>> => fifo = Forever
      /\ s.gpu.fifo # <<>> => fifo = s.gpu.busy - 1 /\ s.gpu.busy >= 2
                              /\ s.gpu.upload = 0 /\ Head(s.gpu.fifo) # "state"
  BY <1>5, <1>6, QuietIs
<1>8. s.walk.setup \in Nat /\ s.walk.setup < Forever
  BY <1>7 DEF States, Walks
<1>9. PICK short : short = Shorten(span, b)
  OBVIOUS
<1>10. short \in Nat /\ short = (IF span = Forever THEN Forever ELSE span - b)
  BY <1>6, <1>7, <1>9 DEF Shorten, Less
<1>11. ASSUME short # 0 PROVE FifoQuiet(t.gpu) = IF fifo = Forever THEN Forever ELSE fifo - b
  <2>1. CASE s.gpu.fifo = <<>>
    BY <1>2, <1>7, <2>1 DEF FifoQuiet
  <2>2. CASE s.gpu.fifo # <<>>
    <3>1. fifo = s.gpu.busy - 1 /\ span # Forever /\ b < fifo /\ fifo # Forever
      BY <1>6, <1>7, <1>10, <1>11, <2>2
    <3>2. t.gpu.busy = s.gpu.busy - b /\ t.gpu.busy >= 2
      BY <1>2, <1>7, <3>1 DEF Less
    <3>3. FifoQuiet(t.gpu) = t.gpu.busy - 1
      BY <1>2, <1>7, <2>2, <3>2 DEF FifoQuiet
    <3> QED
      BY <1>7, <3>1, <3>2, <3>3
  <2> QED
    BY <2>1, <2>2
<1>12. ASSUME short # 0 PROVE ListQuiet(t) = IF list = Forever THEN Forever ELSE list - b
  <2>0. (RequestsNode(t.gpu) <=> RequestsNode(s.gpu)) /\ (HasRoom(t.gpu) <=> HasRoom(s.gpu))
    BY <1>2 DEF RequestsNode, HasRoom, Capacity
  <2>1. CASE ~s.chan.enabled /\ list = Forever
    BY <1>2, <1>6, <2>1 DEF ListQuiet
  <2>2. CASE s.chan.enabled /\ s.walk.setup > 0 /\ list = s.walk.setup
    <3>1. list # Forever /\ b < list
      BY <1>6, <1>8, <1>10, <1>12, <2>2
    <3>2. t.walk.setup = list - b /\ t.walk.setup > 0
      BY <1>2, <2>2, <3>1 DEF Less
    <3> QED
      BY <1>2, <1>6, <2>2, <3>1, <3>2 DEF ListQuiet
  <2>3. CASE /\ s.chan.enabled /\ s.walk.setup = 0 /\ list = Forever
             /\ \/ s.walk.header /\ ~RequestsNode(s.gpu)
                \/ ~s.walk.header /\ s.walk.words # <<>> /\ ~HasRoom(s.gpu)
    <3>1. t.walk.setup = 0
      BY <1>2, <2>3 DEF Less
    <3> QED
      BY <1>2, <1>6, <2>0, <2>3, <3>1 DEF ListQuiet
  <2> QED
    BY <1>6, <2>1, <2>2, <2>3
<1>13. ASSUME short # 0 PROVE QuietCycles(t) = short
  <2>1. FifoQuiet(t.gpu) = IF fifo = Forever THEN Forever ELSE fifo - b
    BY <1>11, <1>13
  <2>2. ListQuiet(t) = IF list = Forever THEN Forever ELSE list - b
    BY <1>12, <1>13
  <2>3. list <= Forever /\ fifo <= Forever
    BY <1>6, <1>7, <1>8
  <2>4. PICK tl \in Nat : tl = ListQuiet(t)
    BY QuietSpanIs
  <2>5. PICK tf \in Nat : tf = FifoQuiet(t.gpu)
    BY QuietIs
  <2>6. QuietCycles(t) = IF tl = 0 THEN 0 ELSE IF tl <= tf THEN tl ELSE tf
    BY <2>4, <2>5 DEF QuietCycles, Lesser
  <2> QED
    BY <1>6, <1>7, <1>10, <1>13, <2>1, <2>2, <2>3, <2>4, <2>5, <2>6
<1> QED
  BY <1>1, <1>3, <1>9, <1>10, <1>13

\* A run of words that finds the head waiting and the FIFO with room.
Runs(s, run) ==
  /\ s.walk.live /\ ~s.walk.header /\ s.walk.setup = 0 /\ s.chan.start /\ s.chan.enabled
  /\ s.gpu.upload = 0 /\ s.gpu.fifo # <<>> /\ Head(s.gpu.fifo) # "state"
  /\ s.gpu.busy > run
  /\ run <= Len(s.walk.words) /\ Len(s.gpu.fifo) + run <= Capacity(s.gpu)

LEMMA PushRunIs ==
  ASSUME NEW L, NEW s \in States(L), NEW left \in Nat
  PROVE  /\ PushRun(s, left) \in 0..left
         /\ PushRun(s, left) > 0 => Runs(s, PushRun(s, left))
<1>1. FifoQuiet(s.gpu) \in Nat /\ s.gpu.busy \in Nat
  BY QuietIs
<1>2. Len(s.walk.words) \in Nat /\ Len(s.gpu.fifo) \in Nat /\ s.gpu \in Gpus /\ s.gpu.upload \in Nat
  BY DEF States, Walks, Gpus, Node
<1>3. PICK max \in Nat : max = Lesser(Len(s.walk.words), left)
  BY <1>2 DEF Lesser
<1>4. max <= left /\ max <= Len(s.walk.words)
  BY <1>2, <1>3 DEF Lesser
<1>5. PICK room \in Nat : room = Less(Capacity(s.gpu), Len(s.gpu.fifo))
  BY <1>2, CapacityIsNumber DEF Less
<1>6. room > 0 => Len(s.gpu.fifo) + room = Capacity(s.gpu)
  BY <1>2, <1>5, CapacityIsNumber DEF Less
<1>7. PICK r : r = PushRunLen(s.gpu, max)
  OBVIOUS
<1>8. r \in 0..max
  BY <1>1, <1>5, <1>7 DEF PushRunLen, Lesser
<1>9. ASSUME r > 0
      PROVE  /\ s.gpu.upload = 0 /\ s.gpu.fifo # <<>> /\ r <= FifoQuiet(s.gpu) /\ r <= room
  BY <1>1, <1>2, <1>5, <1>7, <1>9 DEF PushRunLen, Lesser
<1>10. PushRun(s, left) \in {0, r} /\ (PushRun(s, left) # 0 =>
          /\ s.walk.live /\ ~s.walk.header /\ s.walk.setup = 0
          /\ s.chan.start /\ s.chan.enabled /\ PushRun(s, left) = r)
  BY <1>3, <1>7 DEF PushRun
<1>11. r > 0 => s.gpu.busy > r /\ Head(s.gpu.fifo) # "state" /\ Len(s.gpu.fifo) + r <= Capacity(s.gpu)
  <2>1. SUFFICES ASSUME r > 0
        PROVE  s.gpu.busy > r /\ Head(s.gpu.fifo) # "state" /\ Len(s.gpu.fifo) + r <= Capacity(s.gpu)
    OBVIOUS
  <2>2. FifoQuiet(s.gpu) > 0 /\ s.gpu.fifo # <<>> /\ r <= FifoQuiet(s.gpu) /\ r <= room
    BY <1>1, <1>8, <1>9, <2>1
  <2>3. FifoQuiet(s.gpu) = s.gpu.busy - 1 /\ Head(s.gpu.fifo) # "state"
    BY <2>2, QuietIs
  <2>4. Capacity(s.gpu) \in Nat
    BY <1>2, CapacityIsNumber
  <2> QED
    BY <1>1, <1>2, <1>5, <1>6, <1>8, <2>1, <2>2, <2>3, <2>4
<1> QED
  BY <1>4, <1>8, <1>9, <1>10, <1>11 DEF Runs

LEMMA TakeRunIs ==
  ASSUME NEW L, NEW s \in States(L), NEW n \in Nat, n <= Len(s.walk.words), ~s.walk.header
  PROVE  LET t == TakeRun(s, n)
         IN  /\ t \in States(L)
             /\ t.chan = s.chan /\ t.quiet = s.quiet /\ t.hist = s.hist
             /\ t.gpu.fifo = Join(s.gpu.fifo, First(s.walk.words, n))
             /\ t.gpu.upload = s.gpu.upload
             /\ t.gpu.busy = Less(s.gpu.busy, n)
             /\ t.walk.words = Rest(s.walk.words, n)
             /\ t.walk.nodes = s.walk.nodes /\ t.walk.header = s.walk.header
             /\ t.walk.live = s.walk.live /\ t.walk.setup = s.walk.setup
<1>1. PICK u \in States(L) : u = Spend(s, n)
  BY SpendIs
<1>2. /\ u.chan = s.chan /\ u.walk = s.walk /\ u.quiet = s.quiet /\ u.hist = s.hist
      /\ u.gpu.fifo = s.gpu.fifo /\ u.gpu.upload = s.gpu.upload
      /\ u.gpu.busy = Less(s.gpu.busy, n)
  BY <1>1, SpendIs
<1>3. s.walk.words \in Seq(Word) /\ s.gpu.fifo \in Seq(Word) /\ s.walk \in Walks /\ u.gpu \in Gpus
  BY DEF States, Walks, Gpus, Node
<1>4. PICK fifo \in Seq(Word) : fifo = Join(s.gpu.fifo, First(s.walk.words, n))
  <2>1. First(s.walk.words, n) \in Seq(Word)
    BY <1>3, FirstIs
  <2> QED
    BY <1>3, <2>1, JoinIs
<1>5. PICK words \in Seq(Word) : words = Rest(s.walk.words, n)
  BY <1>3, RestIs
<1>6. PICK g : g = [u.gpu EXCEPT !.fifo = fifo]
  OBVIOUS
<1>7. g \in Gpus /\ g.fifo = fifo /\ g.upload = u.gpu.upload /\ g.busy = u.gpu.busy
  BY <1>3, <1>4, <1>6 DEF Gpus
<1>8. PICK w : w = [s.walk EXCEPT !.words = words]
  OBVIOUS
<1>9. /\ w \in Walks /\ w.words = words /\ w.nodes = s.walk.nodes /\ w.header = s.walk.header
      /\ w.live = s.walk.live /\ w.setup = s.walk.setup
  BY <1>3, <1>5, <1>8 DEF Walks, Node
<1>10. TakeRun(s, n) = [u EXCEPT !.gpu = g, !.walk = w]
  BY <1>1, <1>2, <1>4, <1>5, <1>6, <1>8 DEF TakeRun, States, First, Rest, Join
<1> QED
  BY <1>1, <1>2, <1>4, <1>5, <1>7, <1>9, <1>10 DEF States

LEMMA TakeRunNone ==
  ASSUME NEW L, NEW s \in States(L), ~s.walk.header
  PROVE  TakeRun(s, 0) = s
<1>1. PICK n \in Nat : n = 0
  OBVIOUS
<1>2. s.gpu.busy \in Nat /\ s.walk.words \in Seq(Word) /\ s.gpu.fifo \in Seq(Word)
  BY DEF States, Gpus, Walks, Node
<1>3. Less(s.gpu.busy, n) = s.gpu.busy
  BY <1>1, <1>2 DEF Less
<1>4. /\ Join(s.gpu.fifo, First(s.walk.words, n)) = s.gpu.fifo
      /\ Rest(s.walk.words, n) = s.walk.words
      /\ n <= Len(s.walk.words)
  <2>1. Join(s.gpu.fifo, <<>>) = s.gpu.fifo
    BY <1>2, JoinNone
  <2>2. First(s.walk.words, n) = <<>> /\ Rest(s.walk.words, n) = s.walk.words
    BY <1>1, <1>2, FirstNone
  <2>3. Len(s.walk.words) \in Nat
    BY <1>2
  <2> QED
    BY <1>1, <2>1, <2>2, <2>3
<1>5. PICK t \in States(L) : t = TakeRun(s, n)
  BY <1>4, TakeRunIs
<1>6. /\ t.chan = s.chan /\ t.quiet = s.quiet /\ t.hist = s.hist
      /\ t.gpu.fifo = s.gpu.fifo /\ t.gpu.upload = s.gpu.upload
      /\ t.gpu.busy = s.gpu.busy
      /\ t.walk.nodes = s.walk.nodes /\ t.walk.words = s.walk.words
      /\ t.walk.header = s.walk.header /\ t.walk.live = s.walk.live
      /\ t.walk.setup = s.walk.setup
  BY <1>3, <1>4, <1>5, TakeRunIs
<1>7. t = s
  BY <1>6, SameParts
<1> QED
  BY <1>1, <1>5, <1>7

\* One more word of a run.
LEMMA StepInRun ==
  ASSUME NEW L, NEW s \in States(L), NEW run \in Nat, Runs(s, run), NEW k \in Nat, k < run
  PROVE  StepCycle(TakeRun(s, k)) = TakeRun(s, k + 1)
<1>0. /\ s.walk.words \in Seq(Word) /\ s.gpu.fifo \in Seq(Word) /\ s.gpu.busy \in Nat
      /\ Len(s.walk.words) \in Nat /\ Len(s.gpu.fifo) \in Nat
      /\ s.gpu \in Gpus /\ Capacity(s.gpu) \in Nat
  BY CapacityIsNumber DEF States, Gpus, Walks, Node
<1>1. PICK one \in Nat : one = 1
  OBVIOUS
<1>2. PICK m \in Nat : m = k + 1
  OBVIOUS
<1>8. /\ s.gpu.upload = 0 /\ Head(s.gpu.fifo) # "state" /\ s.gpu.busy > run
      /\ s.walk.live /\ ~s.walk.header /\ s.walk.setup = 0 /\ s.chan.start /\ s.chan.enabled
      /\ Len(s.gpu.fifo) + run <= Capacity(s.gpu) /\ s.gpu.fifo # <<>>
      /\ run <= Len(s.walk.words)
  BY DEF Runs
<1>fit. k < Len(s.walk.words) /\ k <= Len(s.walk.words) /\ m <= Len(s.walk.words)
  BY <1>0, <1>2, <1>8
<1>hdr. ~s.walk.header /\ k <= Len(s.walk.words) /\ m <= Len(s.walk.words)
  BY <1>8, <1>fit
<1>3. PICK t \in States(L) : t = TakeRun(s, k)
  BY <1>hdr, TakeRunIs
<1>4. /\ t.chan = s.chan /\ t.quiet = s.quiet /\ t.hist = s.hist
      /\ t.gpu.fifo = Join(s.gpu.fifo, First(s.walk.words, k)) /\ t.gpu.upload = s.gpu.upload
      /\ t.gpu.busy = Less(s.gpu.busy, k)
      /\ t.walk.words = Rest(s.walk.words, k)
      /\ t.walk.nodes = s.walk.nodes /\ t.walk.header = s.walk.header
      /\ t.walk.live = s.walk.live /\ t.walk.setup = s.walk.setup
  BY <1>3, <1>hdr, TakeRunIs
<1>5. PICK v \in States(L) : v = TakeRun(s, m)
  BY <1>hdr, TakeRunIs
<1>6. /\ v.chan = s.chan /\ v.quiet = s.quiet /\ v.hist = s.hist
      /\ v.gpu.fifo = Join(s.gpu.fifo, First(s.walk.words, m)) /\ v.gpu.upload = s.gpu.upload
      /\ v.gpu.busy = Less(s.gpu.busy, m)
      /\ v.walk.words = Rest(s.walk.words, m)
      /\ v.walk.nodes = s.walk.nodes /\ v.walk.header = s.walk.header
      /\ v.walk.live = s.walk.live /\ v.walk.setup = s.walk.setup
  BY <1>5, <1>hdr, TakeRunIs
<1>7. /\ t.gpu.fifo # <<>> /\ Head(t.gpu.fifo) = Head(s.gpu.fifo) /\ t.gpu.fifo \in Seq(Word)
      /\ Len(t.gpu.fifo) = Len(s.gpu.fifo) + k
      /\ t.walk.words # <<>> /\ Head(t.walk.words) = s.walk.words[m]
      /\ Tail(t.walk.words) = v.walk.words
      /\ Append(t.gpu.fifo, s.walk.words[m]) = v.gpu.fifo
  <2>1. PICK a \in Seq(Word) : a = First(s.walk.words, k)
    BY <1>0, <1>fit, FirstIs
  <2>len. Len(a) = k
    BY <1>0, <1>fit, <2>1, FirstIs
  <2>2. /\ s.walk.words[m] \in Word
        /\ Append(a, s.walk.words[m]) = First(s.walk.words, m)
        /\ Rest(s.walk.words, k) # <<>>
        /\ Head(Rest(s.walk.words, k)) = s.walk.words[m]
        /\ Tail(Rest(s.walk.words, k)) = Rest(s.walk.words, m)
    BY SMTT(30), <1>0, <1>2, <1>fit, <2>1, FirstNext
  <2>3. Append(Join(s.gpu.fifo, a), s.walk.words[m]) = Join(s.gpu.fifo, Append(a, s.walk.words[m]))
    <3>1. PICK fifo \in Seq(Word) : fifo = s.gpu.fifo
      BY <1>0
    <3>2. PICK word \in Word : word = s.walk.words[m]
      BY <2>2
    <3>3. Append(Join(fifo, a), word) = Join(fifo, Append(a, word))
      BY JoinAppend
    <3> QED
      BY <3>1, <3>2, <3>3
  <2>4. /\ Join(s.gpu.fifo, a) \in Seq(Word) /\ Len(Join(s.gpu.fifo, a)) = Len(s.gpu.fifo) + k
        /\ Join(s.gpu.fifo, a) # <<>> /\ Head(Join(s.gpu.fifo, a)) = Head(s.gpu.fifo)
    <3>1. PICK fifo \in Seq(Word) : fifo = s.gpu.fifo
      BY <1>0
    <3>2. /\ Join(fifo, a) \in Seq(Word) /\ Len(Join(fifo, a)) = Len(fifo) + Len(a)
          /\ fifo # <<>> => Join(fifo, a) # <<>> /\ Head(Join(fifo, a)) = Head(fifo)
      BY JoinIs
    <3> QED
      BY <1>8, <2>len, <3>1, <3>2
  <2> QED
    BY <1>4, <1>6, <2>1, <2>2, <2>3, <2>4
<1>9. DecayBusy(t, one) = Spend(t, one)
  <2>1. t.gpu.busy \in Nat /\ t.gpu.busy >= 2
    BY <1>0, <1>4, <1>8 DEF Less
  <2>2. FifoQuiet(t.gpu) = t.gpu.busy - 1
    <3>1. t.gpu.upload = 0 /\ ~(t.gpu.busy < 2) /\ Head(t.gpu.fifo) # "state" /\ t.gpu.fifo # <<>>
      BY <1>4, <1>7, <1>8, <2>1
    <3> QED
      BY <3>1 DEF FifoQuiet
  <2>3. ~(FifoQuiet(t.gpu) < one)
    BY <1>1, <2>1, <2>2
  <2> QED
    BY <2>3 DEF DecayBusy
<1>10. PICK u \in States(L) : u = Spend(t, one)
  BY SpendIs
<1>11. /\ u.chan = t.chan /\ u.quiet = t.quiet /\ u.hist = t.hist
       /\ u.gpu.fifo = t.gpu.fifo /\ u.gpu.upload = t.gpu.upload
       /\ u.gpu.busy = Less(t.gpu.busy, one)
       /\ u.walk = t.walk
  BY <1>10, SpendIs
<1>12. u.gpu.busy = v.gpu.busy /\ u.gpu.busy # 0 /\ u.gpu.busy \in Nat
  <2>1. Less(Less(s.gpu.busy, k), one) = Less(s.gpu.busy, m) /\ Less(s.gpu.busy, m) > 0
        /\ Less(s.gpu.busy, m) \in Nat
    <3>1. PICK b \in Nat : b = s.gpu.busy /\ b > m
      BY <1>0, <1>2, <1>8
    <3>2. PICK c \in Nat : c = Less(b, k)
      BY <3>1 DEF Less
    <3>3. c = b - k /\ c > 1
      BY <1>2, <3>1, <3>2 DEF Less
    <3>4. Less(c, one) = b - m
      BY <1>1, <1>2, <3>1, <3>3 DEF Less
    <3>5. Less(b, m) = b - m
      BY <3>1 DEF Less
    <3> QED
      BY <3>1, <3>2, <3>4, <3>5
  <2> QED
    BY <1>4, <1>6, <1>11, <2>1
<1>13. StepCycle(t) = WalkStep(u)
  BY <1>1, <1>9, <1>10 DEF StepCycle
<1>14. HasRoom(u.gpu)
  <2>1. Capacity(u.gpu) = Capacity(s.gpu)
    BY <1>4, <1>7, <1>8, <1>11 DEF Capacity
  <2> QED
    BY <1>0, <1>7, <1>8, <1>11, <2>1 DEF HasRoom
<1>15. WalkStep(u) = PushWord(u) /\ u.walk.words # <<>>
  <2>1. /\ u.walk.live /\ u.chan.start /\ u.chan.enabled /\ u.walk.setup = 0 /\ ~u.walk.header
        /\ u.walk.words # <<>>
    BY <1>4, <1>7, <1>8, <1>11
  <2> QED
    BY <1>14, <2>1 DEF WalkStep, FetchWord
<1>16. PICK word \in Word : word = Head(u.walk.words)
  BY <1>15, WordGoneIs
<1>17. PICK x \in States(L) : x = WordGone(u)
  BY <1>15, WordGoneIs
<1>18. /\ x.chan = u.chan /\ x.gpu = u.gpu /\ x.quiet = u.quiet /\ x.hist = u.hist
       /\ x.walk.words = Tail(u.walk.words) /\ x.walk.nodes = u.walk.nodes
       /\ x.walk.live = u.walk.live /\ x.walk.header = u.walk.header
       /\ x.walk.setup = u.walk.setup
  BY <1>15, <1>17, WordGoneIs
<1>19. PICK y \in States(L) : y = Queued(x, word)
  BY QueuedIs
<1>20. /\ y.chan = x.chan /\ y.walk = x.walk /\ y.quiet = x.quiet /\ y.hist = x.hist
       /\ y.gpu.fifo = Append(x.gpu.fifo, word)
       /\ y.gpu.upload = x.gpu.upload /\ y.gpu.busy = x.gpu.busy
  BY <1>19, QueuedIs
<1>21. PushWord(u) = Drain(y)
  BY <1>14, <1>15, <1>16, <1>17, <1>19, PushWordIs
<1>22. /\ y.gpu.fifo = v.gpu.fifo /\ y.walk.words = v.walk.words
  BY <1>7, <1>11, <1>16, <1>18, <1>20
<1>23. ~Ready(y.gpu)
  <2>1. Head(y.gpu.fifo) = Head(s.gpu.fifo)
    <3>1. Head(Append(t.gpu.fifo, word)) = Head(t.gpu.fifo)
      BY <1>7, HeadTailAppend
    <3> QED
      BY <1>7, <1>11, <1>18, <1>20, <3>1
  <2>2. y.gpu.upload = 0 /\ y.gpu.busy # 0
    BY <1>4, <1>8, <1>11, <1>12, <1>18, <1>20
  <2> QED
    BY <1>8, <2>1, <2>2 DEF Ready
<1>24. Drain(y) = y
  BY <1>23, DrainIdle
<1>25. /\ y.chan = v.chan /\ y.quiet = v.quiet /\ y.hist = v.hist
       /\ y.gpu.fifo = v.gpu.fifo /\ y.gpu.upload = v.gpu.upload /\ y.gpu.busy = v.gpu.busy
       /\ y.walk.nodes = v.walk.nodes /\ y.walk.words = v.walk.words
       /\ y.walk.header = v.walk.header /\ y.walk.live = v.walk.live
       /\ y.walk.setup = v.walk.setup
  <2>1. /\ y.chan = v.chan /\ y.quiet = v.quiet /\ y.hist = v.hist
        /\ y.gpu.upload = v.gpu.upload /\ y.gpu.busy = v.gpu.busy
    BY <1>4, <1>6, <1>11, <1>12, <1>18, <1>20
  <2>2. /\ y.walk.nodes = v.walk.nodes /\ y.walk.header = v.walk.header
        /\ y.walk.live = v.walk.live /\ y.walk.setup = v.walk.setup
    BY <1>4, <1>6, <1>11, <1>18, <1>20
  <2> QED
    BY <1>22, <2>1, <2>2
<1>26. y = v
  BY <1>25, SameParts
<1> QED
  BY <1>2, <1>3, <1>5, <1>13, <1>15, <1>21, <1>24, <1>26

\* The push run is its clocks.
LEMMA TakeRunIsClocks ==
  ASSUME NEW L, NEW n \in Nat, NEW p \in [0..n -> States(L)], Cycled(p, n),
         NEW j \in 0..n, NEW b \in 0..n, j + b <= n, Runs(p[j], b)
  PROVE  p[j + b] = TakeRun(p[j], b)
<1>1. PICK s \in States(L) : s = p[j]
  OBVIOUS
<1>2. b \in Nat /\ ~s.walk.header
  BY <1>1 DEF Runs
<1> DEFINE S == {k \in 0..b : p[j + k] = TakeRun(s, k)}
<1>3. 0 \in S
  <2>1. TakeRun(s, 0) = s
    BY <1>2, TakeRunNone
  <2>2. 0 \in 0..b /\ j + 0 = j
    OBVIOUS
  <2>3. p[j + 0] = TakeRun(s, 0)
    BY <1>1, <2>1, <2>2
  <2> QED
    BY <2>2, <2>3
<1>4. ASSUME NEW k \in 0..b, k \in S, k < b PROVE k + 1 \in S
  <2>1. PICK i \in Nat : i = k + 1
    OBVIOUS
  <2>2. j + i \in 0..n /\ j + i # 0 /\ (j + i) - 1 = j + k /\ k \in Nat
    BY <1>4, <2>1
  <2>3. p[j + i] = StepCycle(p[(j + i) - 1])
    BY <2>2 DEF Cycled
  <2>4. p[j + k] = TakeRun(s, k)
    BY <1>4
  <2>5. StepCycle(TakeRun(s, k)) = TakeRun(s, k + 1)
    BY <1>1, <1>2, <1>4, <2>2, StepInRun
  <2>6. p[j + i] = TakeRun(s, i)
    BY <2>1, <2>2, <2>3, <2>4, <2>5
  <2> QED
    BY <1>4, <2>1, <2>6
<1>5. b \in S
  <2>1. \A k \in 0..b : k \in S
    <3> HIDE DEF S
    <3> QED
      BY <1>2, <1>3, <1>4, UpTo
  <2>2. b \in 0..b
    OBVIOUS
  <2> HIDE DEF S
  <2> QED
    BY <2>1, <2>2
<1> QED
  BY <1>1, <1>5

-----------------------------------------------------------------------------
(* advance_cycles_slow's loop. *)

\* A span left over is unknown, or of the state, or nothing.
AheadFine(ahead, s) ==
  /\ ahead \in {<<>>} \cup {<<a>> : a \in Nat}
  /\ ahead # <<>> => ahead[1] \in Nat /\ (ahead[1] = 0 \/ ahead[1] = QuietCycles(s))

\* The loop at a state of the run of clocks.
Looping(r, p, n, L) ==
  /\ r \in [s : States(L), left : 0..n, ahead : {<<>>} \cup {<<a>> : a \in Nat}]
  /\ r.s = p[n - r.left] /\ AheadFine(r.ahead, r.s)

\* A round takes the loop to a later state of the run.
LEMMA LoopRound ==
  ASSUME NEW L, NEW n \in Nat, NEW p \in [0..n -> States(L)], Cycled(p, n),
         NEW r, Looping(r, p, n, L)
  PROVE  /\ Looping(Round(r), p, n, L)
         /\ r.left = 0 => Round(r) = r
         /\ r.left # 0 => Round(r).left < r.left
<1>1. PICK left \in 0..n : left = r.left
  BY DEF Looping
<1>2. PICK s \in States(L) : s = r.s
  BY DEF Looping
<1>3. PICK at \in 0..n : at = n - left
  OBVIOUS
<1>4. p[at] = s
  BY <1>1, <1>2, <1>3 DEF Looping
<1>5. CASE left = 0
  BY <1>1, <1>5 DEF Round
<1>6. ASSUME NEW b \in 1..left, NEW t, t = p[at + b],
             NEW ahead, AheadFine(ahead, t), Round(r) = [s |-> t, left |-> left - b, ahead |-> ahead]
      PROVE  Looping(Round(r), p, n, L) /\ Round(r).left < r.left
  <2>1. left - b \in 0..n /\ left - b < left /\ n - (left - b) = at + b /\ at + b \in 0..n
    BY <1>3, <1>6
  <2>2. t \in States(L) /\ ahead \in {<<>>} \cup {<<a>> : a \in Nat} /\ t = p[n - (left - b)]
    BY <1>6, <2>1 DEF AheadFine
  <2> QED
    BY <1>1, <1>6, <2>1, <2>2 DEF Looping
<1>7. AheadFine(<<>>, p[at]) /\ \A t : AheadFine(<<>>, t)
  BY DEF AheadFine
<1>8. PICK run \in 0..left : run = PushRun(s, left) /\ (run > 0 => Runs(s, run))
  BY PushRunIs
<1>9. PICK span \in Nat : span = QuietCycles(s)
  BY QuietSpanIs
<1>10. PICK batch \in 0..left : batch = Lesser(span, left)
  BY DEF Lesser
<1>11. CASE left # 0 /\ run > 0
  <2>1. Round(r) = [s |-> TakeRun(s, run), left |-> left - run, ahead |-> <<>>]
    BY <1>1, <1>2, <1>8, <1>11 DEF Round
  <2>2. at + run <= n /\ run \in 0..n /\ run \in 1..left
    BY <1>3, <1>11
  <2>3. p[at + run] = TakeRun(p[at], run)
    BY <1>4, <1>8, <1>11, <2>2, TakeRunIsClocks
  <2>4. Looping(Round(r), p, n, L) /\ Round(r).left < r.left
    BY <1>4, <1>6, <1>7, <2>1, <2>2, <2>3
  <2> QED
    BY <1>1, <1>11, <2>4
<1>12. CASE left # 0 /\ run = 0 /\ batch > 0
  <2>1. PICK ahead : ahead = AheadOf(span, batch)
    OBVIOUS
  <2>2. Round(r) = [s |-> QuietBatch(s, batch), left |-> left - batch, ahead |-> ahead]
    BY <1>1, <1>2, <1>8, <1>9, <1>10, <1>12, <2>1 DEF Round
  <2>3. /\ at + batch <= n /\ batch \in 0..n /\ batch \in 1..left /\ batch <= span /\ span > 0
        /\ batch \in Nat
    BY <1>3, <1>10, <1>12 DEF Lesser
  <2>4. p[at + batch] = QuietBatch(p[at], batch)
    BY <1>4, <1>9, <2>3, QuietBatchIsClocks
  <2>5. Shorten(span, batch) \in Nat /\ (Shorten(span, batch) = 0 \/ Shorten(span, batch) = QuietCycles(QuietBatch(s, batch)))
    BY <1>9, <2>3, QuietShortens
  <2>6. AheadFine(ahead, QuietBatch(s, batch))
    <3>1. ahead = <<Shorten(span, batch)>>
      BY <2>1 DEF AheadOf
    <3>2. PICK a \in Nat : a = Shorten(span, batch)
      BY <2>5
    <3>3. ahead = <<a>> /\ ahead[1] = a /\ ahead \in {<<c>> : c \in Nat}
      BY <3>1, <3>2
    <3> QED
      BY <2>5, <3>2, <3>3 DEF AheadFine
  <2>7. Looping(Round(r), p, n, L) /\ Round(r).left < r.left
    BY <1>4, <1>6, <2>2, <2>3, <2>4, <2>6
  <2> QED
    BY <1>1, <1>12, <2>7
<1>13. CASE left # 0 /\ run = 0 /\ batch = 0
  <2>1. Round(r) = [s |-> StepCycle(s), left |-> left - 1, ahead |-> <<>>]
    BY <1>1, <1>2, <1>8, <1>9, <1>10, <1>13 DEF Round
  <2>2. PICK one \in 1..left : one = 1
    BY <1>13
  <2>3. PICK next \in 0..n : next = at + one /\ next # 0 /\ next - 1 = at
    BY <1>3, <2>2
  <2>4. p[next] = StepCycle(p[next - 1])
    BY <2>3 DEF Cycled
  <2>5. StepCycle(s) = p[at + one]
    BY <1>4, <2>3, <2>4
  <2>6. Looping(Round(r), p, n, L) /\ Round(r).left < r.left
    BY <1>6, <1>7, <2>1, <2>2, <2>5
  <2> QED
    BY <1>1, <1>13, <2>6
<1> QED
  BY <1>1, <1>2, <1>5, <1>8, <1>10, <1>11, <1>12, <1>13

\* The loop is its clocks.
LEMMA LoopIsClocks ==
  ASSUME NEW L, NEW n \in Nat, NEW p \in [0..n -> States(L)], Cycled(p, n)
  PROVE  /\ WalkCycles(p[0], n).s = p[n]
         /\ AheadFine(WalkCycles(p[0], n).ahead, p[n])
<1> DEFINE D == {r \in [s : States(L), left : 0..n, ahead : {<<>>} \cup {<<a>> : a \in Nat}] :
                   Looping(r, p, n, L)}
           x == [s |-> p[0], left |-> n, ahead |-> <<>>]
<1>1. x \in D
  <2>1. AheadFine(<<>>, p[0])
    BY DEF AheadFine
  <2>2. n - n = 0 /\ n \in 0..n /\ 0 \in 0..n
    OBVIOUS
  <2> QED
    BY <2>1, <2>2 DEF Looping
<1>2. ASSUME NEW r \in D
      PROVE  /\ Round(r) \in D
             /\ r.left = 0 => Round(r) = r
             /\ r.left # 0 => Round(r).left < r.left
  <2>1. Looping(Round(r), p, n, L)
    BY LoopRound
  <2>2. Round(r) \in D
    BY <2>1 DEF Looping
  <2> QED
    BY <2>2, LoopRound
<1>3. PICK f \in [0..n -> D] : RoundRun(f, x, n)
  <2> HIDE DEF D, x
  <2> QED
    BY <1>1, <1>2, RoundRuns
<1>4. /\ f[0] = x
      /\ \A k \in 0..n : k # 0 => f[k] = Round(f[k - 1])
  BY <1>3 DEF RoundRun
<1> DEFINE S == {k \in 0..n : f[k].left <= n - k}
<1>5. 0 \in S
  BY <1>4
<1>6. ASSUME NEW k \in 0..n, k \in S, k < n PROVE k + 1 \in S
  <2>1. k + 1 \in 0..n /\ k + 1 # 0 /\ (k + 1) - 1 = k
    BY <1>6
  <2>2. f[k + 1] = Round(f[k]) /\ f[k] \in D /\ f[k].left \in 0..n
    BY <1>4, <2>1
  <2>3. CASE f[k].left = 0
    <3>1. f[k + 1] = f[k]
      BY <1>2, <2>2, <2>3
    <3> QED
      BY <2>1, <2>3, <3>1
  <2>4. CASE f[k].left # 0
    <3>1. Round(f[k]).left < f[k].left /\ Round(f[k]) \in D
      BY <1>2, <2>2, <2>4
    <3>2. f[k + 1].left < f[k].left /\ f[k + 1].left \in 0..n
      BY <2>2, <3>1
    <3>3. f[k].left <= n - k
      BY <1>6
    <3>4. f[k + 1].left <= n - (k + 1)
      BY <2>2, <3>2, <3>3
    <3> QED
      BY <2>1, <3>4
  <2> QED
    BY <2>3, <2>4
<1>7. n \in S
  <2>1. \A k \in 0..n : k \in S
    <3> HIDE DEF S
    <3> QED
      BY <1>5, <1>6, UpTo
  <2> HIDE DEF S
  <2> QED
    BY <2>1
<1>8. PICK end \in D : end = f[n]
  BY <1>3
<1>9. WalkCycles(p[0], n) = end
  <2>1. f[n] = Iterate(Round, x, n)
    BY <1>3 DEF RoundRun
  <2> HIDE DEF D
  <2> QED
    BY <1>8, <2>1 DEF WalkCycles
<1>10. end.left = 0
  <2>1. end.left \in 0..n /\ end.left <= n - n
    BY <1>7, <1>8
  <2> QED
    BY <2>1
<1>11. end.s = p[n - end.left] /\ AheadFine(end.ahead, end.s)
  BY <1>8 DEF Looping
<1>12. n - end.left = n
  BY <1>10
<1> QED
  BY <1>9, <1>11, <1>12

-----------------------------------------------------------------------------
(* advance_cycles, whole. *)

\* The lists software may link up.
ListSets == SUBSET (Seq(Node) \ {<<>>})

\* The span remembered is that of the state.
Sound(s) == s.quiet > 0 => s.quiet = QuietCycles(s)

\* The span depends on the walk, the FIFO, the start bit and the enable.
LEMMA QuietIgnores ==
  ASSUME NEW s, NEW t, s.walk = t.walk, s.gpu = t.gpu,
         s.chan.start = t.chan.start, s.chan.enabled = t.chan.enabled
  PROVE  QuietCycles(s) = QuietCycles(t)
BY DEF QuietCycles, ListQuiet

\* A walk of the list, before its first header.
NewWalk(list) ==
  [nodes |-> list, words |-> <<>>, setup |-> 0, header |-> TRUE, live |-> TRUE]

\* What run_dma_channel does, by what it finds.
LEMMA RunChannelCases ==
  ASSUME NEW L, NEW s \in States(L)
  PROVE  \/ /\ ~s.chan.start
            /\ RunChannel(s) = [s EXCEPT !.quiet = 0, !.chan = [s.chan EXCEPT !.waiting = FALSE]]
         \/ /\ s.chan.start /\ MustWait(s)
            /\ RunChannel(s) = [s EXCEPT !.quiet = 0, !.chan = [s.chan EXCEPT !.waiting = TRUE]]
         \/ /\ s.chan.start /\ ~MustWait(s) /\ s.chan.mode = "list"
            /\ RunChannel(s) = [s EXCEPT !.quiet = 0, !.chan = [s.chan EXCEPT !.waiting = FALSE],
                                         !.walk = NewWalk(s.chan.list)]
         \/ /\ s.chan.start /\ ~MustWait(s) /\ s.chan.mode # "list"
            /\ RunChannel(s) = [s EXCEPT !.quiet = 0, !.hist = [s.hist EXCEPT !.stale = FALSE],
                                         !.chan = [s.chan EXCEPT !.waiting = FALSE, !.event = TRUE]]
<1>1. PICK t : t = [s EXCEPT !.quiet = 0]
  OBVIOUS
<1>2. t \in States(L) /\ t.chan = s.chan /\ t.gpu = s.gpu /\ t.walk = s.walk /\ t.hist = s.hist
  BY <1>1 DEF States
<1>3. MustWait(t) <=> MustWait(s)
  BY <1>2 DEF MustWait
<1>4. RunChannel(s) =
        IF ~t.chan.start THEN [t EXCEPT !.chan.waiting = FALSE]
        ELSE IF MustWait(t) THEN [t EXCEPT !.chan.waiting = TRUE]
        ELSE IF t.chan.mode = "list" THEN StartWalk(t)
        ELSE [t EXCEPT !.chan.waiting = FALSE, !.chan.event = TRUE, !.hist.stale = FALSE]
  BY <1>1 DEF RunChannel
<1>5. [t EXCEPT !.chan.waiting = FALSE] = [s EXCEPT !.quiet = 0, !.chan = [s.chan EXCEPT !.waiting = FALSE]]
  BY <1>1, <1>2 DEF States
<1>6. [t EXCEPT !.chan.waiting = TRUE] = [s EXCEPT !.quiet = 0, !.chan = [s.chan EXCEPT !.waiting = TRUE]]
  BY <1>1, <1>2 DEF States
<1>7. StartWalk(t) = [s EXCEPT !.quiet = 0, !.chan = [s.chan EXCEPT !.waiting = FALSE],
                               !.walk = NewWalk(s.chan.list)]
  BY <1>1, <1>2 DEF States, StartWalk, NewWalk
<1>8. [t EXCEPT !.chan.waiting = FALSE, !.chan.event = TRUE, !.hist.stale = FALSE]
        = [s EXCEPT !.quiet = 0, !.hist = [s.hist EXCEPT !.stale = FALSE],
                    !.chan = [s.chan EXCEPT !.waiting = FALSE, !.event = TRUE]]
  BY <1>1, <1>2 DEF States
<1> QED
  BY <1>2, <1>3, <1>4, <1>5, <1>6, <1>7, <1>8

LEMMA RunChannelKeeps ==
  ASSUME NEW L \in ListSets, NEW s \in States(L)
  PROVE  LET t == RunChannel(s)
         IN  /\ t \in States(L) /\ t.quiet = 0 /\ t.gpu = s.gpu
             /\ t.hist.torn = s.hist.torn /\ t.hist.dropped = s.hist.dropped
             /\ t.hist.late = s.hist.late
<1>1. /\ s.chan \in Chans(L) /\ s.hist \in Hists /\ s.walk \in Walks
  BY DEF States
<1>2. ASSUME NEW b \in BOOLEAN PROVE [s.chan EXCEPT !.waiting = b] \in Chans(L)
  BY <1>1 DEF Chans
<1>3. [s.chan EXCEPT !.waiting = FALSE, !.event = TRUE] \in Chans(L)
  BY <1>1 DEF Chans
<1>4. PICK h : h = [s.hist EXCEPT !.stale = FALSE]
  OBVIOUS
<1>5. /\ h \in Hists /\ h.torn = s.hist.torn /\ h.dropped = s.hist.dropped /\ h.late = s.hist.late
  BY <1>1, <1>4 DEF Hists
<1>6. s.chan.start /\ s.chan.mode = "list" => NewWalk(s.chan.list) \in Walks
  <2>1. SUFFICES ASSUME s.chan.start, s.chan.mode = "list" PROVE NewWalk(s.chan.list) \in Walks
    OBVIOUS
  <2>2. s.chan.list # <<>> /\ s.chan.list \in L
    BY <1>1, <2>1 DEF Chans
  <2>3. s.chan.list \in Seq(Node)
    BY <2>2 DEF ListSets
  <2>4. 0 \in 0..Forever - 1
    BY NoWalkIs DEF NoWalk, Walks
  <2>5. <<>> \in Node
    BY DEF Node
  <2> QED
    BY <2>2, <2>3, <2>4, <2>5 DEF NewWalk, Walks
<1>7. PICK t : t = RunChannel(s)
  OBVIOUS
<1>8. PICK c1 \in Chans(L) : c1 = [s.chan EXCEPT !.waiting = FALSE]
  BY <1>2
<1>9. PICK c2 \in Chans(L) : c2 = [s.chan EXCEPT !.waiting = TRUE]
  BY <1>2
<1>10. PICK c3 \in Chans(L) : c3 = [s.chan EXCEPT !.waiting = FALSE, !.event = TRUE]
  BY <1>3
<1> DEFINE Kept == /\ t \in States(L) /\ t.quiet = 0 /\ t.gpu = s.gpu
                   /\ t.hist.torn = s.hist.torn /\ t.hist.dropped = s.hist.dropped
                   /\ t.hist.late = s.hist.late
<1>zero. 0 \in Nat
  OBVIOUS
<1>11. ASSUME NEW c \in Chans(L), t = [s EXCEPT !.quiet = 0, !.chan = c] PROVE Kept
  BY <1>11, <1>zero DEF States
<1>13. ASSUME /\ s.chan.start /\ s.chan.mode = "list"
              /\ t = [s EXCEPT !.quiet = 0, !.chan = c1, !.walk = NewWalk(s.chan.list)]
       PROVE  Kept
  <2>1. PICK w \in Walks : w = NewWalk(s.chan.list)
    BY <1>6, <1>13
  <2>2. t = [s EXCEPT !.quiet = 0, !.chan = c1, !.walk = w]
    BY <1>13, <2>1
  <2> QED
    BY <1>zero, <2>2 DEF States
<1>14. ASSUME t = [s EXCEPT !.quiet = 0, !.hist = h, !.chan = c3] PROVE Kept
  BY <1>5, <1>14, <1>zero DEF States
<1>15. Kept
  BY <1>4, <1>7, <1>8, <1>9, <1>10, <1>11, <1>13, <1>14, RunChannelCases
<1> QED
  BY <1>7, <1>15

LEMMA RetryKeeps ==
  ASSUME NEW L \in ListSets, NEW s \in States(L)
  PROVE  LET t == RetryWaiting(s)
         IN  /\ t \in States(L) /\ t.gpu = s.gpu
             /\ t.hist.torn = s.hist.torn /\ t.hist.dropped = s.hist.dropped
             /\ t.hist.late = s.hist.late
<1>1. CASE s.chan.event
  <2>1. [s.chan EXCEPT !.waiting = FALSE] \in Chans(L)
    BY DEF States, Chans
  <2>2. RetryWaiting(s) = [s EXCEPT !.chan = [s.chan EXCEPT !.waiting = FALSE]]
    BY <1>1 DEF RetryWaiting, States
  <2> QED
    BY <2>1, <2>2 DEF States
<1>2. CASE ~s.chan.event
  BY <1>2, RunChannelKeeps DEF RetryWaiting
<1> QED
  BY <1>1, <1>2

LEMMA RefreshIs ==
  ASSUME NEW L, NEW s \in States(L), NEW ahead, AheadFine(ahead, s)
  PROVE  LET t == Refresh(s, ahead)
         IN  /\ t \in States(L) /\ Sound(t)
             /\ t.chan = s.chan /\ t.walk = s.walk /\ t.gpu = s.gpu /\ t.hist = s.hist
<1>1. PICK q : q = IF ~s.walk.live \/ s.chan.waiting THEN 0
                   ELSE IF ahead = <<>> THEN QuietCycles(s) ELSE ahead[1]
  OBVIOUS
<1>2. q \in Nat /\ (q = 0 \/ q = QuietCycles(s))
  BY <1>1, QuietSpanIs DEF AheadFine
<1>3. PICK t : t = Refresh(s, ahead)
  OBVIOUS
<1>4. t = [s EXCEPT !.quiet = q]
  BY <1>1, <1>3 DEF Refresh
<1>5. /\ t \in States(L) /\ t.quiet = q
      /\ t.chan = s.chan /\ t.walk = s.walk /\ t.gpu = s.gpu /\ t.hist = s.hist
  BY <1>2, <1>4 DEF States
<1>6. QuietCycles(t) = QuietCycles(s)
  BY <1>5, QuietIgnores
<1>7. Sound(t)
  BY <1>2, <1>5, <1>6 DEF Sound
<1> QED
  BY <1>3, <1>5, <1>7

\* The plain clocks.
Stepped(s, n) == Iterate(StepCycle, s, n)

LEMMA SteppedIs ==
  ASSUME NEW L, NEW s \in States(L), NEW n \in Nat
  PROVE  \E p \in [0..n -> States(L)] : p[0] = s /\ p[n] = Stepped(s, n) /\ Cycled(p, n)
<1>1. \A r \in States(L) : StepCycle(r) \in States(L)
  BY StepCycleKeeps
<1>2. PICK p \in [0..n -> States(L)] : StepCycleRun(p, s, n)
  BY <1>1, StepCycleRuns
<1>3. p[n] = Stepped(s, n)
  BY <1>2 DEF StepCycleRun, Stepped
<1>4. p[0] = s /\ Cycled(p, n)
  BY <1>2 DEF StepCycleRun, Cycled
<1> QED
  BY <1>3, <1>4

\* Without a walk a clock is a clock of the GPU.
LEMMA ClocksWithoutWalk ==
  ASSUME NEW L, NEW s \in States(L), NEW n \in Nat, ~s.walk.live
  PROVE  Stepped(s, n) = DecayBusy(s, n)
<1>1. PICK p \in [0..n -> States(L)] : p[0] = s /\ p[n] = Stepped(s, n) /\ Cycled(p, n)
  BY SteppedIs
<1>2. \A k \in 0..n : k # 0 => p[k] = StepCycle(p[k - 1])
  BY <1>1 DEF Cycled
<1> DEFINE G == {r \in States(L) : ~r.walk.live}
<1>3. ASSUME NEW r \in G PROVE StepCycle(r) = DecayBusy(r, 1) /\ StepCycle(r) \in G
  <2>1. PICK one \in Nat : one = 1 /\ one # 0
    OBVIOUS
  <2>2. DecayBusy(r, one) \in States(L) /\ DecayBusy(r, one).walk = r.walk
    BY <2>1, DecayKeeps
  <2>3. StepCycle(r) = DecayBusy(r, one)
    BY <2>1, <2>2 DEF StepCycle, WalkStep
  <2> QED
    BY <2>1, <2>2, <2>3
<1>4. \A k \in 0..n : p[k] \in G
  <2>1. \A k \in 0..n : k # 0 /\ p[k - 1] \in G => p[k] \in G
    BY <1>2, <1>3
  <2>2. p[0] \in G
    BY <1>1
  <2> HIDE DEF G
  <2> QED
    BY <2>1, <2>2, RunStays
<1>5. ASSUME NEW k \in 0..n, k # 0 PROVE p[k] = DecayBusy(p[k - 1], 1)
  <2>1. k - 1 \in 0..n
    BY <1>5
  <2>2. p[k - 1] \in G
    BY <1>4, <2>1
  <2> QED
    BY <1>2, <1>3, <1>5, <2>2
<1>6. DecayBusy(p[0], n) = p[n]
  BY <1>5, DecayIsClocks
<1> QED
  BY <1>1, <1>6

\* Two states that differ in the span alone.
LEMMA SameButQuiet ==
  ASSUME NEW L, NEW s \in States(L), NEW t \in States(L),
         s.chan = t.chan, s.walk = t.walk, s.gpu = t.gpu, s.hist = t.hist
  PROVE  [s EXCEPT !.quiet = 0] = [t EXCEPT !.quiet = 0]
BY DEF States

\* The batches of advance_cycles end where the plain clocks do, and leave a span that
\* is that of the state.
LEMMA AdvanceIs ==
  ASSUME NEW L \in ListSets, NEW s \in States(L), NEW n \in Nat \ {0}, Sound(s)
  PROVE  /\ Advance(s, n) \in States(L) /\ Sound(Advance(s, n))
         /\ PlainAdvance(s, n) \in States(L)
         /\ Advance(s, n).chan = PlainAdvance(s, n).chan
         /\ Advance(s, n).walk = PlainAdvance(s, n).walk
         /\ Advance(s, n).gpu = PlainAdvance(s, n).gpu
         /\ Advance(s, n).hist = PlainAdvance(s, n).hist
<1>1. PICK p \in [0..n -> States(L)] : p[0] = s /\ p[n] = Stepped(s, n) /\ Cycled(p, n)
  BY SteppedIs
<1>2. PICK t \in States(L) : t = Stepped(s, n) /\ t = p[n]
  BY <1>1
<1>3. PlainAdvance(s, n) = IF t.chan.waiting THEN RetryWaiting(t) ELSE t
  BY <1>2 DEF PlainAdvance, Stepped
<1>4. PlainAdvance(s, n) \in States(L)
  BY <1>3, RetryKeeps
<1>5. CASE ~s.walk.live /\ ~s.chan.waiting
  <2>1. PICK u \in States(L) : u = DecayBusy(s, n)
    BY DecayKeeps
  <2>2. u.chan = s.chan /\ u.walk = s.walk /\ u.quiet = s.quiet
    BY <2>1, DecayKeeps
  <2>3. t = u
    BY <1>2, <1>5, <2>1, ClocksWithoutWalk
  <2>4. Advance(s, n) = u /\ PlainAdvance(s, n) = u
    BY <1>3, <1>5, <2>1, <2>2, <2>3 DEF Advance
  <2>5. u.quiet \in Nat /\ s.quiet \in Nat
    BY DEF States
  <2>6. QuietCycles(s) = 0
    BY <1>5 DEF QuietCycles, ListQuiet
  <2>7. s.quiet = 0
    BY <2>5, <2>6 DEF Sound
  <2>8. Sound(u)
    BY <2>2, <2>7 DEF Sound
  <2> QED
    BY <2>4, <2>8
<1>6. CASE (s.walk.live \/ s.chan.waiting) /\ ~s.chan.waiting /\ n <= s.quiet
  <2>1. PICK u \in States(L) : u = QuietBatch(s, n)
    BY QuietBatchIs
  <2>2. u.chan = s.chan /\ u.quiet = s.quiet
    BY <2>1, QuietBatchIs
  <2>3. PICK span \in Nat : span = s.quiet /\ span > 0 /\ n <= span
    BY <1>6 DEF States
  <2>4. span = QuietCycles(s)
    BY <2>3 DEF Sound
  <2>5. u = p[n]
    <3>1. PICK j \in 0..n : j = 0
      OBVIOUS
    <3>2. PICK b \in 0..n : b = n /\ j + b <= n /\ j + b = n
      BY <3>1
    <3>3. p[j + b] = QuietBatch(p[j], b)
      BY <1>1, <2>3, <2>4, <3>1, <3>2, QuietBatchIsClocks
    <3> QED
      BY <1>1, <2>1, <3>1, <3>2, <3>3
  <2>6. PlainAdvance(s, n) = u
    BY <1>2, <1>3, <1>6, <2>2, <2>5
  <2>7. PICK q \in Nat : q = Shorten(span, n) /\ (q = 0 \/ q = QuietCycles(u))
    BY <2>1, <2>3, <2>4, QuietShortens
  <2>8. Advance(s, n) = [u EXCEPT !.quiet = q]
    <3>1. Advance(s, n) = [QuietBatch(s, n) EXCEPT !.quiet = Shorten(@, n)]
      BY <1>6 DEF Advance
    <3>2. [u EXCEPT !.quiet = Shorten(@, n)] = [u EXCEPT !.quiet = q]
      BY <2>2, <2>3, <2>7 DEF States
    <3> QED
      BY <2>1, <3>1, <3>2
  <2>9. PICK v : v = Advance(s, n)
    OBVIOUS
  <2>10. /\ v \in States(L) /\ v.quiet = q
         /\ v.chan = u.chan /\ v.walk = u.walk /\ v.gpu = u.gpu /\ v.hist = u.hist
    BY <2>8, <2>9 DEF States
  <2>11. QuietCycles(v) = QuietCycles(u)
    BY <2>10, QuietIgnores
  <2>12. Sound(v)
    BY <2>7, <2>10, <2>11 DEF Sound
  <2> QED
    BY <1>4, <2>6, <2>9, <2>10, <2>12
<1>7. CASE (s.walk.live \/ s.chan.waiting) /\ (s.chan.waiting \/ ~(n <= s.quiet))
  <2>1. PICK w : w = IF s.walk.live THEN WalkCycles(s, n)
                     ELSE [s |-> DecayBusy(s, n), left |-> 0, ahead |-> <<>>]
    OBVIOUS
  <2>2. w.s = t /\ AheadFine(w.ahead, t)
    <3>1. CASE s.walk.live
      BY <1>1, <1>2, <2>1, <3>1, LoopIsClocks
    <3>2. CASE ~s.walk.live
      <4>1. w.s = t /\ w.ahead = <<>>
        BY <1>2, <2>1, <3>2, ClocksWithoutWalk
      <4> QED
        BY <4>1 DEF AheadFine
    <3> QED
      BY <3>1, <3>2
  <2>3. Advance(s, n) = IF t.chan.waiting THEN Refresh(RetryWaiting(t), <<>>)
                        ELSE Refresh(t, w.ahead)
    BY <1>7, <2>1, <2>2 DEF Advance, AdvanceSlow
  <2>4. CASE t.chan.waiting
    <3>1. PICK u \in States(L) : u = RetryWaiting(t)
      BY RetryKeeps
    <3>2. AheadFine(<<>>, u)
      BY DEF AheadFine
    <3>3. Advance(s, n) = Refresh(u, <<>>) /\ PlainAdvance(s, n) = u
      BY <1>3, <2>3, <2>4, <3>1
    <3> QED
      BY <3>2, <3>3, RefreshIs
  <2>5. CASE ~t.chan.waiting
    <3>1. PICK ahead : ahead = w.ahead /\ AheadFine(ahead, t)
      BY <2>2
    <3>2. Advance(s, n) = Refresh(t, ahead) /\ PlainAdvance(s, n) = t
      BY <1>3, <2>3, <2>5, <3>1
    <3> QED
      BY <3>1, <3>2, RefreshIs
  <2> QED
    BY <2>4, <2>5
<1> QED
  BY <1>5, <1>6, <1>7

-----------------------------------------------------------------------------
(* The stop, the store and the kick. *)

\* What a pushed word keeps, finish_admitted_gpu_node keeps; it leaves no word.
LEMMA FinishStays ==
  ASSUME NEW L, NEW G \in SUBSET States(L), NEW s \in G,
         \A r \in G : r.walk.words # <<>> => PushWord(r) \in G
  PROVE  FinishNode(s) \in G /\ FinishNode(s).walk.words = <<>>
<1>1. PICK n \in Nat : n = Len(s.walk.words)
  BY DEF States, Walks, Node
<1>2. PICK step : step = [r \in G |-> IF r.walk.words = <<>> THEN r ELSE PushWord(r)]
  OBVIOUS
<1>3. step \in [G -> G] /\ \A r \in G : step[r] = IF r.walk.words = <<>> THEN r ELSE PushWord(r)
  BY <1>2
<1>4. PICK f \in [0..n -> G] : Run(f, step, s, n)
  BY <1>3, RunExists
<1>5. f[0] = s /\ \A k \in 0..n : k # 0 => f[k] = step[f[k - 1]]
  BY <1>4 DEF Run
<1> DEFINE S == {k \in 0..n : Len(f[k].walk.words) = n - k}
<1>6. 0 \in S
  BY <1>1, <1>5
<1>7. ASSUME NEW r \in G, r.walk.words # <<>>
      PROVE  Len(PushWord(r).walk.words) = Len(r.walk.words) - 1 /\ Len(r.walk.words) \in Nat
  <2>1. r \in States(L) /\ r.walk \in Walks /\ r.walk.words \in Seq(Word)
    BY DEF States, Walks, Node
  <2>2. PushWord(r).walk = [r.walk EXCEPT !.words = Tail(@)]
    BY <1>7, <2>1, PushWordIs
  <2>3. PushWord(r).walk.words = Tail(r.walk.words)
    BY <2>1, <2>2 DEF Walks
  <2> QED
    BY <1>7, <2>1, <2>3
<1>8. ASSUME NEW k \in 0..n, k \in S, k < n
      PROVE  k + 1 \in S /\ f[k].walk.words # <<>>
  <2>1. k + 1 \in 0..n /\ k + 1 # 0 /\ (k + 1) - 1 = k /\ n - k # 0 /\ (n - k) - 1 = n - (k + 1)
    BY <1>8
  <2>2. f[k + 1] = step[f[k]] /\ f[k] \in G
    BY <1>5, <2>1
  <2>3. f[k].walk.words # <<>>
    BY <1>8, <2>1
  <2>4. f[k + 1] = PushWord(f[k])
    BY <1>3, <2>2, <2>3
  <2>5. Len(f[k + 1].walk.words) = n - (k + 1)
    BY <1>7, <1>8, <2>1, <2>2, <2>3, <2>4
  <2> QED
    BY <2>1, <2>3, <2>5
<1>9. \A k \in 0..n : k \in S
  <2>1. \A k \in 0..n : k \in S /\ k < n => k + 1 \in S
    BY <1>8
  <2> HIDE DEF S
  <2> QED
    BY <1>6, <2>1, UpTo
<1>10. ASSUME NEW k \in 0..n, k # 0 PROVE f[k] = PushWord(f[k - 1])
  <2>1. k - 1 \in 0..n /\ k - 1 < n
    BY <1>10
  <2>2. f[k - 1].walk.words # <<>> /\ f[k - 1] \in G
    BY <1>8, <1>9, <2>1
  <2> QED
    BY <1>3, <1>5, <1>10, <2>2
<1>11. Iterate(PushWord, f[0], n) = f[n]
  BY <1>10, PushWordIterates
<1>12. FinishNode(s) = f[n]
  <2>1. FinishNode(s) = Iterate(PushWord, s, n)
    BY <1>1 DEF FinishNode
  <2> QED
    BY <1>5, <1>11, <2>1
<1>13. Len(f[n].walk.words) = 0 /\ f[n] \in G
  <2>1. n \in 0..n /\ n - n = 0
    OBVIOUS
  <2> QED
    BY <1>9, <2>1
<1>14. f[n].walk.words \in Seq(Word)
  BY <1>13 DEF States, Walks, Node
<1> QED
  BY <1>12, <1>13, <1>14

LEMMA FinishKeeps ==
  ASSUME NEW L, NEW s \in States(L)
  PROVE  LET t == FinishNode(s)
         IN  t \in States(L) /\ t.quiet = s.quiet /\ t.chan = s.chan
<1> DEFINE G == {r \in States(L) : r.quiet = s.quiet /\ r.chan = s.chan}
<1>1. s \in G /\ G \in SUBSET States(L)
  OBVIOUS
<1>2. \A r \in G : r.walk.words # <<>> => PushWord(r) \in G
  BY PushWordIs
<1>3. FinishNode(s) \in G
  <2> HIDE DEF G
  <2> QED
    BY <1>1, <1>2, FinishStays
<1> QED
  BY <1>3

\* The clock of a store, and the span forgotten.
StoredFrom(s) == [Advance(s, 1) EXCEPT !.quiet = 0]

LEMMA StoredIs ==
  ASSUME NEW L \in ListSets, NEW s \in States(L), Sound(s)
  PROVE  LET t == StoredFrom(s)
         IN  /\ t \in States(L) /\ t.quiet = 0
             /\ t.chan = PlainAdvance(s, 1).chan /\ t.walk = PlainAdvance(s, 1).walk
             /\ t.gpu = PlainAdvance(s, 1).gpu /\ t.hist = PlainAdvance(s, 1).hist
<1>1. PICK n \in Nat \ {0} : n = 1
  OBVIOUS
<1>2. PICK u \in States(L) : u = Advance(s, n)
  BY AdvanceIs
<1>3. /\ u.chan = PlainAdvance(s, n).chan /\ u.walk = PlainAdvance(s, n).walk
      /\ u.gpu = PlainAdvance(s, n).gpu /\ u.hist = PlainAdvance(s, n).hist
  BY <1>2, AdvanceIs
<1>4. StoredFrom(s) = [u EXCEPT !.quiet = 0]
  BY <1>1, <1>2 DEF StoredFrom
<1>5. PICK t : t = StoredFrom(s)
  OBVIOUS
<1>6. /\ t \in States(L) /\ t.quiet = 0
      /\ t.chan = u.chan /\ t.walk = u.walk /\ t.gpu = u.gpu /\ t.hist = u.hist
  BY <1>4, <1>5 DEF States
<1> QED
  BY <1>1, <1>3, <1>5, <1>6

\* MADR and CHCR, before the channel runs.
Kicked(s, mode, list) ==
  [s EXCEPT !.chan.start = TRUE, !.chan.mode = mode, !.chan.list = list,
            !.hist.stale = s.chan.event]

LEMMA KickedIs ==
  ASSUME NEW L, NEW s \in States(L), NEW mode \in {"list", "manual"}, NEW list \in L \cup {<<>>},
         mode = "list" => list # <<>>
  PROVE  LET t == Kicked(s, mode, list)
         IN  /\ t \in States(L) /\ t.quiet = s.quiet /\ t.walk = s.walk /\ t.gpu = s.gpu
             /\ t.chan = [s.chan EXCEPT !.start = TRUE, !.mode = mode, !.list = list]
             /\ t.hist = [s.hist EXCEPT !.stale = s.chan.event]
<1>1. PICK c : c = [s.chan EXCEPT !.start = TRUE, !.mode = mode, !.list = list]
  OBVIOUS
<1>2. s.chan \in Chans(L) /\ s.hist \in Hists /\ s.chan.event \in BOOLEAN
  BY DEF States, Chans
<1>3. c \in Chans(L)
  BY <1>1, <1>2 DEF Chans
<1>4. PICK h : h = [s.hist EXCEPT !.stale = s.chan.event]
  OBVIOUS
<1>5. h \in Hists
  BY <1>2, <1>4 DEF Hists
<1>6. Kicked(s, mode, list) = [s EXCEPT !.chan = c, !.hist = h]
  BY <1>1, <1>4 DEF Kicked, States
<1> QED
  BY <1>1, <1>3, <1>4, <1>5, <1>6 DEF States

-----------------------------------------------------------------------------
(* Types, and what the batches change. *)

\* The inductive invariant: the state is one the walk can be in, the span remembered
\* is that of the state, and the program is one of Programs but for its stores.
TypesAndSpan ==
  /\ System \in States(software.lists)
  /\ Sound(System)
  /\ \E p \in Programs : software = [p EXCEPT !.stores = software.stores]
  /\ software.stores \in Nat

\* What the program keeps but for its stores.
LEMMA ProgramIs ==
  ASSUME \E p \in Programs : software = [p EXCEPT !.stores = software.stores]
  PROVE  software.lists \in ListSets /\ software.does \in SUBSET {"stop", "dpcr", "manual"}
<1>1. PICK p \in Programs : software = [p EXCEPT !.stores = software.stores]
  OBVIOUS
<1>2. p \in [lists : SUBSET (Seq(Node) \ {<<>>}), does : SUBSET {"stop", "dpcr", "manual"},
             stores : Nat]
  BY ProgramsAssumption
<1>3. software.lists = p.lists /\ software.does = p.does
  BY <1>1, <1>2
<1> QED
  BY <1>2, <1>3 DEF ListSets

LEMMA SystemIs ==
  /\ System.chan = chan /\ System.walk = walk /\ System.gpu = gpu
  /\ System.quiet = quiet /\ System.hist = hist
BY DEF System

\* A state becomes the next.
LEMMA BecomesIs ==
  ASSUME NEW L, NEW t \in States(L), Becomes(t)
  PROVE  System' = t
BY DEF Becomes, System, States

LEMMA StoreIs ==
  ASSUME \E p \in Programs : software = [p EXCEPT !.stores = software.stores],
         software.stores \in Nat, Store
  PROVE  /\ software'.lists = software.lists /\ software'.does = software.does
         /\ (\E p \in Programs : software = [p EXCEPT !.stores = software.stores])'
         /\ software'.stores \in Nat
<1>1. PICK p \in Programs : software = [p EXCEPT !.stores = software.stores]
  OBVIOUS
<1>2. p \in [lists : SUBSET (Seq(Node) \ {<<>>}), does : SUBSET {"stop", "dpcr", "manual"},
             stores : Nat]
  BY ProgramsAssumption
<1>3. PICK n \in Nat : n = software.stores - 1
  BY DEF Store
<1>4. software' = [software EXCEPT !.stores = n]
  BY <1>3 DEF Store
<1>5. software' = [p EXCEPT !.stores = n] /\ software'.stores = n
      /\ software'.lists = p.lists /\ software'.does = p.does
      /\ software.lists = p.lists /\ software.does = p.does
  BY <1>1, <1>2, <1>4
<1>6. software' = [p EXCEPT !.stores = software'.stores]
  BY <1>5
<1> QED
  BY <1>5, <1>6

LEMMA TypesInit ==
  Init => TypesAndSpan
<1> SUFFICES ASSUME Init PROVE TypesAndSpan
  OBVIOUS
<1>1. software \in [lists : SUBSET (Seq(Node) \ {<<>>}), does : SUBSET {"stop", "dpcr", "manual"},
                    stores : Nat]
  BY ProgramsAssumption DEF Init
<1>2. software = [software EXCEPT !.stores = software.stores] /\ software.stores \in Nat
  BY <1>1
<1>3. chan \in Chans(software.lists)
  BY DEF Init, Chans
<1>4. walk \in Walks
  BY NoWalkIs DEF Init
<1>5. gpu \in Gpus
  <2>1. 0 \in 0..DrawCost
    BY TimesAssumption
  <2>2. 0 \in 0..UploadWords
    BY FifoAssumption
  <2>3. <<>> \in Seq(Word)
    OBVIOUS
  <2> QED
    BY <2>1, <2>2, <2>3 DEF Init, Gpus
<1>6. hist \in Hists /\ quiet = 0
  BY DEF Init, Hists
<1>7. System \in States(software.lists)
  BY <1>3, <1>4, <1>5, <1>6 DEF System, States
<1>8. Sound(System)
  BY <1>6, SystemIs DEF Sound
<1>9. software \in Programs
  BY DEF Init
<1> QED
  BY <1>2, <1>7, <1>8, <1>9 DEF TypesAndSpan

\* A span that is forgotten is of any state.
LEMMA ForgottenIsSound ==
  ASSUME NEW s, s.quiet = 0
  PROVE  Sound(s)
BY DEF Sound

LEMMA TypesNext ==
  TypesAndSpan /\ [Next]_vars => TypesAndSpan'
<1> SUFFICES ASSUME TypesAndSpan, [Next]_vars PROVE TypesAndSpan'
  OBVIOUS
<1>1. PICK L : L = software.lists
  OBVIOUS
<1>2. PICK s \in States(L) : s = System /\ Sound(s)
  BY <1>1 DEF TypesAndSpan
<1>3. /\ \E p \in Programs : software = [p EXCEPT !.stores = software.stores]
      /\ software.stores \in Nat
  BY DEF TypesAndSpan
<1>4. L \in ListSets
  BY <1>1, <1>3, ProgramIs
<1>5. ASSUME NEW t \in States(L), Becomes(t), Sound(t), UNCHANGED software PROVE TypesAndSpan'
  <2>1. System' = t
    BY <1>5, BecomesIs
  <2> QED
    BY <1>1, <1>3, <1>5, <2>1 DEF TypesAndSpan
<1>6. ASSUME NEW t \in States(L), Becomes(t), t.quiet = 0, Store PROVE TypesAndSpan'
  <2>1. System' = t
    BY <1>6, BecomesIs
  <2>2. Sound(t)
    BY <1>6, ForgottenIsSound
  <2> QED
    BY <1>1, <1>3, <1>6, <2>1, <2>2, StoreIs DEF TypesAndSpan
<1>7. PICK u \in States(L) : u = StoredFrom(s) /\ u.quiet = 0
  BY <1>2, <1>4, StoredIs
<1>8. Stored = u
  BY <1>2, <1>7 DEF Stored, StoredFrom
<1>9. ASSUME NEW n \in Ticks, Tick(n) PROVE TypesAndSpan'
  <2>1. n \in Nat \ {0}
    BY TimesAssumption
  <2>2. PICK t \in States(L) : t = Advance(s, n) /\ Sound(t)
    BY <1>2, <1>4, <2>1, AdvanceIs
  <2>3. Becomes(t) /\ UNCHANGED software
    BY <1>2, <1>9, <2>2 DEF Tick
  <2> QED
    BY <1>5, <2>2, <2>3
<1>10. ASSUME NEW mode \in {"list", "manual"}, NEW list \in L \cup {<<>>},
              mode = "list" => list # <<>>, Kick(mode, list)
       PROVE  TypesAndSpan'
  <2>1. PICK v \in States(L) : v = Kicked(u, mode, list)
    BY <1>10, KickedIs
  <2>2. PICK t \in States(L) : t = RunChannel(v) /\ t.quiet = 0
    BY <1>4, RunChannelKeeps
  <2>3. Becomes(t) /\ Store
    BY <1>8, <1>10, <2>1, <2>2 DEF Kick, Kicked
  <2> QED
    BY <1>6, <2>2, <2>3
<1>11. CASE Stop
  <2>1. PICK v : v = [u EXCEPT !.chan = [u.chan EXCEPT !.start = FALSE]]
    OBVIOUS
  <2>2. [u.chan EXCEPT !.start = FALSE] \in Chans(L)
    BY DEF States, Chans
  <2>3. v \in States(L) /\ v.quiet = 0
    BY <1>7, <2>1, <2>2 DEF States
  <2>4. PICK t \in States(L) : t = FinishNode(v) /\ t.quiet = 0
    BY <2>3, FinishKeeps
  <2>5. [u EXCEPT !.chan.start = FALSE] = v
    BY <2>1 DEF States
  <2>6. Becomes(t) /\ Store
    BY <1>8, <1>11, <2>4, <2>5 DEF Stop
  <2> QED
    BY <1>6, <2>4, <2>6
<1>12. CASE WriteDpcr
  <2>1. PICK t : t = [u EXCEPT !.chan = [u.chan EXCEPT !.enabled = ~@]]
    OBVIOUS
  <2>2. [u.chan EXCEPT !.enabled = ~@] \in Chans(L)
    BY DEF States, Chans
  <2>3. t \in States(L) /\ t.quiet = 0
    BY <1>7, <2>1, <2>2 DEF States
  <2>4. [u EXCEPT !.chan.enabled = ~@] = t
    BY <2>1 DEF States
  <2>5. Becomes(t) /\ Store
    BY <1>8, <1>12, <2>4 DEF WriteDpcr
  <2> QED
    BY <1>6, <2>3, <2>5
<1>13. CASE EventDue
  <2>1. PICK b \in BOOLEAN : b = (s.hist.late \/ s.hist.stale)
    OBVIOUS
  <2>2. PICK h : h = [s.hist EXCEPT !.stale = FALSE, !.late = b]
    OBVIOUS
  <2>3. PICK c : c = [s.chan EXCEPT !.event = FALSE, !.start = FALSE]
    OBVIOUS
  <2>4. h \in Hists /\ c \in Chans(L)
    BY <2>2, <2>3 DEF States, Hists, Chans
  <2>5. PICK t : t = [s EXCEPT !.quiet = 0, !.hist = h, !.chan = c]
    OBVIOUS
  <2>6. t \in States(L) /\ t.quiet = 0
    BY <2>4, <2>5 DEF States
  <2>7. Complete([System EXCEPT !.quiet = 0, !.hist.stale = FALSE, !.hist.late = @ \/ hist.stale]) = t
    BY <1>2, <2>1, <2>2, <2>3, <2>5, SystemIs DEF Complete, States, Hists
  <2>8. Becomes(t) /\ UNCHANGED software
    BY <1>13, <2>7 DEF EventDue
  <2>9. Sound(t)
    BY <2>6, ForgottenIsSound
  <2> QED
    BY <1>5, <2>6, <2>8, <2>9
<1>14. CASE UNCHANGED vars
  BY <1>14 DEF vars, TypesAndSpan, System
<1>15. ASSUME NEW list \in L, Kick("list", list) PROVE TypesAndSpan'
  <2>1. list # <<>>
    BY <1>4 DEF ListSets
  <2> QED
    BY <1>10, <1>15, <2>1
<1>16. CASE Kick("manual", <<>>)
  BY <1>10, <1>16
<1> QED
  BY <1>1, <1>9, <1>11, <1>12, <1>13, <1>14, <1>15, <1>16 DEF Next

LEMMA TypesImply ==
  TypesAndSpan => TypeOK /\ BatchingChangesNothing
<1> SUFFICES ASSUME TypesAndSpan PROVE TypeOK /\ BatchingChangesNothing
  OBVIOUS
<1>1. System \in States(software.lists) /\ Sound(System)
  BY DEF TypesAndSpan
<1>2. /\ chan \in Chans(software.lists) /\ walk \in Walks /\ gpu \in Gpus /\ quiet \in Nat
      /\ hist \in Hists
  BY <1>1, SystemIs DEF States
<1>3. QuietCacheIsSound
  BY <1>1, SystemIs DEF Sound, QuietCacheIsSound
<1>4. TypeOK
  <2>1. chan \in [enabled : BOOLEAN, start : BOOLEAN, mode : {"list", "manual"},
                  list : software.lists \cup {<<>>}, waiting : BOOLEAN, event : BOOLEAN]
    BY <1>2 DEF Chans
  <2>2. walk \in [nodes : Seq(Node), words : Node, setup : Nat, header : BOOLEAN, live : BOOLEAN]
    BY <1>2 DEF Walks
  <2>3. gpu \in [fifo : Seq(Word), busy : Nat, upload : 0..UploadWords]
    BY <1>2 DEF Gpus
  <2> QED
    BY <1>2, <1>3, <2>1, <2>2, <2>3 DEF TypeOK, TypesAndSpan, Hists
<1>5. BatchingChangesNothing
  <2>1. SUFFICES ASSUME NEW n \in Ticks
        PROVE  [Advance(System, n) EXCEPT !.quiet = 0] = [PlainAdvance(System, n) EXCEPT !.quiet = 0]
    BY DEF BatchingChangesNothing
  <2>2. n \in Nat \ {0}
    BY TimesAssumption
  <2>3. PICK L : L = software.lists
    OBVIOUS
  <2>4. PICK s \in States(L) : s = System /\ Sound(s)
    BY <1>1, <2>3
  <2>5. L \in ListSets
    BY <2>3, ProgramIs DEF TypesAndSpan
  <2>6. PICK t \in States(L) : t = Advance(s, n)
    BY <2>2, <2>4, <2>5, AdvanceIs
  <2>7. PICK v \in States(L) : v = PlainAdvance(s, n)
    BY <2>2, <2>4, <2>5, AdvanceIs
  <2>8. t.chan = v.chan /\ t.walk = v.walk /\ t.gpu = v.gpu /\ t.hist = v.hist
    BY <2>2, <2>4, <2>5, <2>6, <2>7, AdvanceIs
  <2>9. [t EXCEPT !.quiet = 0] = [v EXCEPT !.quiet = 0]
    BY <2>8, SameButQuiet
  <2> QED
    BY <2>4, <2>6, <2>7, <2>9
<1> QED
  BY <1>4, <1>5

\* The types, and the cached span: whatever the walk, the FIFO, the channel and the
\* program do, the span bus.rs remembers in gpu_quiet_until is the one a
\* recomputation would find.
THEOREM TypesHold ==
  Spec => []TypeOK
<1>1. TypesAndSpan => TypeOK
  BY TypesImply
<1> QED
  BY <1>1, TypesInit, TypesNext, PTL DEF Spec

\* advance_cycles's batches: in every reachable state, an advance of any number of
\* clocks ends in the state that as many single clocks end in.
THEOREM BatchesAreClocks ==
  Spec => []BatchingChangesNothing
<1>1. TypesAndSpan => BatchingChangesNothing
  BY TypesImply
<1> QED
  BY <1>1, TypesInit, TypesNext, PTL DEF Spec

-----------------------------------------------------------------------------
(* Words that make whole packets. *)

LEMMA TotalIs ==
  ASSUME NEW w \in Word
  PROVE  /\ PacketSize(w) \in Nat \ {0} /\ TotalOf(w) \in Nat \ {0}
         /\ TotalOf(w) = PacketSize(w) + (IF w = "image" THEN UploadWords ELSE 0)
BY SizesAreNumbers, FifoAssumption DEF TotalOf

\* Where the packets of x start, behind the pixels still expected.
Cuts(x, upload, cuts) ==
  /\ cuts \in SUBSET (1..Len(x) + 1)
  /\ upload + 1 \in cuts /\ Len(x) + 1 \in cuts
  /\ \A i \in 1..upload : x[i] = "pixel"
  /\ \A c \in cuts : c <= Len(x) => PacketAt(x, c) /\ c + TotalOf(x[c]) \in cuts

LEMMA PacketsAre ==
  ASSUME NEW x, NEW upload
  PROVE  Packets(x, upload) <=> \E cuts : Cuts(x, upload, cuts)
BY DEF Packets, Cuts

\* A packet stands where the same words stand.
LEMMA PacketMoves ==
  ASSUME NEW x \in Seq(Word), NEW y \in Seq(Word), NEW c \in 1..Len(x), NEW d \in 1..Len(y),
         PacketAt(x, c), d + TotalOf(x[c]) <= Len(y) + 1,
         \A j \in 0..TotalOf(x[c]) - 1 : y[d + j] = x[c + j]
  PROVE  PacketAt(y, d) /\ TotalOf(y[d]) = TotalOf(x[c])
<1>1. PICK w \in Word : w = x[c]
  BY ElementOfSeq
<1>2. TotalOf(w) \in Nat \ {0} /\ c \in Nat /\ d \in Nat
  BY TotalIs
<1>3. 0 \in 0..TotalOf(w) - 1 /\ d + 0 = d /\ c + 0 = c
  BY <1>2
<1>4. y[d + 0] = x[c + 0]
  BY <1>1, <1>3
<1>5. y[d] = w
  BY <1>1, <1>3, <1>4
<1>6. \A j \in 1..TotalOf(w) - 1 : y[d + j] = IF j < PacketSize(w) THEN "param" ELSE "pixel"
  <2>1. \A j \in 1..TotalOf(w) - 1 : x[c + j] = IF j < PacketSize(w) THEN "param" ELSE "pixel"
    BY <1>1 DEF PacketAt
  <2>2. \A j \in 1..TotalOf(w) - 1 : j \in 0..TotalOf(w) - 1
    BY <1>2
  <2>3. \A j \in 1..TotalOf(w) - 1 : y[d + j] = x[c + j]
    BY <1>1, <2>2
  <2> QED
    BY <2>1, <2>3
<1>7. w \in Heads
  BY <1>1 DEF PacketAt
<1> QED
  BY <1>1, <1>5, <1>6, <1>7 DEF PacketAt

\* What is left behind a cut makes packets.
LEMMA PacketsRest ==
  ASSUME NEW x \in Seq(Word), NEW y \in Seq(Word), NEW k \in Nat, k <= Len(x),
         Len(y) = Len(x) - k, \A i \in 1..Len(y) : y[i] = x[i + k],
         NEW upload \in Nat, NEW cuts, Cuts(x, upload, cuts),
         NEW v \in Nat, (v + 1) + k \in cuts, \A i \in 1..v : x[i + k] = "pixel"
  PROVE  Packets(y, v)
<1>1. PICK lx \in Nat : lx = Len(x)
  BY LenProperties
<1>2. PICK ly \in Nat : ly = Len(y) /\ ly = lx - k
  BY <1>1, LenProperties
<1>3. PICK new : new = {c \in 1..ly + 1 : c + k \in cuts}
  OBVIOUS
<1>4. /\ cuts \in SUBSET (1..lx + 1) /\ lx + 1 \in cuts
      /\ \A c \in cuts : c <= lx => PacketAt(x, c) /\ c + TotalOf(x[c]) \in cuts
  BY <1>1 DEF Cuts
<1>5. v + 1 \in new /\ ly + 1 \in new
  <2>1. (v + 1) + k \in 1..lx + 1
    BY <1>4
  <2>2. v + 1 \in 1..ly + 1 /\ (ly + 1) + k = lx + 1 /\ ly + 1 \in 1..ly + 1
    BY <1>2, <2>1
  <2> QED
    BY <1>3, <1>4, <2>2
<1>6. \A i \in 1..v : y[i] = "pixel"
  <2>1. v <= ly
    BY <1>3, <1>5
  <2> QED
    BY <1>2, <2>1
<1>7. ASSUME NEW d \in new, d <= ly PROVE PacketAt(y, d) /\ d + TotalOf(y[d]) \in new
  <2>1. PICK c \in cuts : c = d + k
    BY <1>3
  <2>2. d \in 1..Len(y) /\ c \in 1..Len(x) /\ c <= lx /\ d \in Nat
    BY <1>1, <1>2, <1>3, <1>7, <2>1
  <2>3. PacketAt(x, c) /\ c + TotalOf(x[c]) \in cuts
    BY <1>4, <2>2
  <2>4. PICK n \in Nat \ {0} : n = TotalOf(x[c])
    BY <2>2, ElementOfSeq, TotalIs
  <2>5. c + n <= lx + 1
    BY <1>4, <2>3, <2>4
  <2>6. d + n <= Len(y) + 1
    BY <1>2, <2>1, <2>2, <2>5
  <2>7. ASSUME NEW j \in 0..n - 1 PROVE y[d + j] = x[c + j]
    <3>1. d + j \in 1..Len(y) /\ (d + j) + k = c + j
      BY <2>1, <2>2, <2>6
    <3> QED
      BY <3>1
  <2>8. PacketAt(y, d) /\ TotalOf(y[d]) = n
    BY <2>2, <2>3, <2>4, <2>6, <2>7, PacketMoves
  <2>9. d + n \in 1..ly + 1 /\ (d + n) + k = c + n
    BY <1>2, <2>1, <2>2, <2>6
  <2> QED
    BY <1>3, <2>3, <2>4, <2>8, <2>9
<1>8. Cuts(y, v, new)
  <2>1. new \in SUBSET (1..Len(y) + 1)
    BY <1>2, <1>3
  <2> QED
    BY <1>2, <1>5, <1>6, <1>7, <2>1 DEF Cuts
<1> QED
  BY <1>8, PacketsAre

\* Packets behind packets are packets.
LEMMA PacketsJoin ==
  ASSUME NEW x \in Seq(Word), NEW y \in Seq(Word), NEW upload \in Nat,
         Packets(x, upload), Packets(y, 0)
  PROVE  Packets(Join(x, y), upload)
<1>1. PICK lx \in Nat : lx = Len(x)
  BY LenProperties
<1>2. PICK ly \in Nat : ly = Len(y)
  BY LenProperties
<1>3. PICK z \in Seq(Word) : z = Join(x, y)
  BY JoinIs
<1>4. /\ Len(z) = lx + ly
      /\ \A i \in 1..lx : z[i] = x[i]
      /\ \A i \in 1..ly : z[i + lx] = y[i]
  <2>1. Len(Join(x, y)) = Len(x) + Len(y)
    BY JoinIs
  <2>2. \A i \in 1..Len(x) : Join(x, y)[i] = x[i]
    BY JoinIs
  <2>3. \A i \in 1..Len(y) : Join(x, y)[i + Len(x)] = y[i]
    BY JoinIs
  <2> QED
    BY <1>1, <1>2, <1>3, <2>1, <2>2, <2>3
<1>5. PICK a : Cuts(x, upload, a)
  BY PacketsAre
<1>6. PICK b : Cuts(y, 0, b)
  BY PacketsAre
<1>7. /\ a \in SUBSET (1..lx + 1) /\ upload + 1 \in a /\ lx + 1 \in a
      /\ \A i \in 1..upload : x[i] = "pixel"
      /\ \A c \in a : c <= lx => PacketAt(x, c) /\ c + TotalOf(x[c]) \in a
  BY <1>1, <1>5 DEF Cuts
<1>8. /\ b \in SUBSET (1..ly + 1) /\ 1 \in b /\ ly + 1 \in b
      /\ \A c \in b : c <= ly => PacketAt(y, c) /\ c + TotalOf(y[c]) \in b
  <2>1. 0 + 1 = 1
    OBVIOUS
  <2> QED
    BY <1>2, <1>6, <2>1 DEF Cuts
<1>9. PICK new : new = a \cup {c \in 1..(lx + ly) + 1 : c - lx \in b}
  OBVIOUS
<1>10. new \in SUBSET (1..Len(z) + 1) /\ upload + 1 \in new /\ Len(z) + 1 \in new
  <2>1. ((lx + ly) + 1) - lx = ly + 1 /\ (lx + ly) + 1 \in 1..(lx + ly) + 1
    OBVIOUS
  <2>2. (lx + ly) + 1 \in new
    BY <1>8, <1>9, <2>1
  <2>3. new \in SUBSET (1..(lx + ly) + 1)
    <3>1. \A c \in 1..lx + 1 : c \in 1..(lx + ly) + 1
      OBVIOUS
    <3>2. \A c \in a : c \in 1..(lx + ly) + 1
      BY <1>7, <3>1
    <3> QED
      BY <1>9, <3>2
  <2> QED
    BY <1>4, <1>7, <1>9, <2>2, <2>3
<1>11. \A i \in 1..upload : z[i] = "pixel"
  <2>1. upload <= lx
    BY <1>7
  <2> QED
    BY <1>4, <1>7, <2>1
<1>12. ASSUME NEW c \in new, c <= Len(z) PROVE PacketAt(z, c) /\ c + TotalOf(z[c]) \in new
  <2>0. c \in 1..Len(z) /\ c \in Nat
    BY <1>4, <1>10, <1>12
  <2>1. CASE c <= lx
    <3>1. c \in a
      <4>1. c \notin a => c - lx \in b
        BY <1>9
      <4>2. c - lx \in b => c - lx >= 1
        <5>1. \A d \in b : d \in 1..ly + 1
          BY <1>8
        <5> QED
          BY <5>1
      <4> QED
        BY <2>0, <2>1, <4>1, <4>2
    <3>2. c \in 1..Len(x) /\ PacketAt(x, c) /\ c + TotalOf(x[c]) \in a
      BY <1>1, <1>7, <2>0, <2>1, <3>1
    <3>3. PICK n \in Nat \ {0} : n = TotalOf(x[c])
      BY <3>2, ElementOfSeq, TotalIs
    <3>4. c + n <= lx + 1
      BY <1>7, <3>2, <3>3
    <3>5. ASSUME NEW j \in 0..n - 1 PROVE z[c + j] = x[c + j]
      <4>1. c + j \in 1..lx
        BY <2>0, <3>4
      <4> QED
        BY <1>4, <4>1
    <3>6. c + n <= Len(z) + 1
      BY <1>4, <2>0, <3>4
    <3>7. PacketAt(z, c) /\ TotalOf(z[c]) = n
      BY <2>0, <3>2, <3>3, <3>5, <3>6, PacketMoves
    <3> QED
      BY <1>9, <3>2, <3>3, <3>7
  <2>2. CASE c > lx
    <3>1. c - lx \in b
      <4>1. CASE c \in a
        <5>1. c - lx = 1
          BY <1>7, <2>0, <2>2, <4>1
        <5> QED
          BY <1>8, <5>1
      <4>2. CASE c \notin a
        BY <1>9, <4>2
      <4> QED
        BY <4>1, <4>2
    <3>2. PICK d \in b : d = c - lx
      BY <3>1
    <3>3. d \in 1..Len(y) /\ d <= ly /\ d \in Nat /\ c = d + lx
      BY <1>2, <1>4, <1>12, <2>0, <2>2, <3>2
    <3>4. PacketAt(y, d) /\ d + TotalOf(y[d]) \in b
      BY <1>8, <3>3
    <3>5. PICK n \in Nat \ {0} : n = TotalOf(y[d])
      BY <3>3, ElementOfSeq, TotalIs
    <3>6. d + n <= ly + 1
      BY <1>8, <3>4, <3>5
    <3>7. ASSUME NEW j \in 0..n - 1 PROVE z[c + j] = y[d + j]
      <4>1. d + j \in 1..ly /\ (d + j) + lx = c + j
        BY <3>3, <3>6
      <4>2. z[(d + j) + lx] = y[d + j]
        BY <1>4, <4>1
      <4> QED
        BY <4>1, <4>2
    <3>8. c + n <= Len(z) + 1
      BY <1>4, <3>3, <3>6
    <3>9. PacketAt(z, c) /\ TotalOf(z[c]) = n
      BY <2>0, <3>3, <3>4, <3>5, <3>7, <3>8, PacketMoves
    <3>10. c + n \in 1..(lx + ly) + 1 /\ (c + n) - lx = d + n
      BY <3>3, <3>6
    <3> QED
      BY <1>9, <3>4, <3>5, <3>9, <3>10
  <2> QED
    BY <2>0, <2>1, <2>2
<1>13. Cuts(z, upload, new)
  BY <1>10, <1>11, <1>12 DEF Cuts
<1> QED
  BY <1>3, <1>13, PacketsAre

\* Nothing at all makes packets.
LEMMA PacketsNone ==
  Packets(<<>>, 0)
<1>1. Len(<<>>) = 0
  OBVIOUS
<1>2. Cuts(<<>>, 0, {1})
  BY <1>1 DEF Cuts
<1> QED
  BY <1>2, PacketsAre
-----------------------------------------------------------------------------
(* The FIFO keeps packets whole and words within its room. *)

\* The GPU has taken packets alone, and what it holds and what is to come makes
\* packets.
Whole(s, coming) ==
  ~s.hist.torn /\ Packets(Join(s.gpu.fifo, coming), s.gpu.upload)

\* Whole looks at the FIFO, the pixels expected and the history.
LEMMA SameWhole ==
  ASSUME NEW s, NEW t, NEW coming, Whole(s, coming),
         t.gpu.fifo = s.gpu.fifo, t.gpu.upload = s.gpu.upload, t.hist.torn = s.hist.torn
  PROVE  Whole(t, coming)
BY DEF Whole

\* A word at the head of what is joined.
LEMMA JoinHead ==
  ASSUME NEW q \in Seq(Word), NEW r \in Seq(Word), q # <<>>
  PROVE  Len(q) \in Nat \ {0} /\ Head(q) = q[1] /\ q[1] \in Word /\ Join(q, r)[1] = q[1]
<1>1. PICK n \in Nat : n = Len(q)
  BY LenProperties
<1>2. n # 0
  BY <1>1, EmptySeq
<1>3. 1 \in 1..n
  BY <1>2
<1>4. 1 \in 1..Len(q)
  BY <1>1, <1>3
<1>5. Join(q, r)[1] = q[1]
  BY <1>4, JoinIs
<1>6. q[1] \in Word
  BY <1>4, ElementOfSeq
<1> QED
  BY <1>1, <1>2, <1>5, <1>6

\* Words dropped in front of what is joined.
LEMMA JoinRest ==
  ASSUME NEW q \in Seq(Word), NEW r \in Seq(Word), NEW k \in Nat, k <= Len(q)
  PROVE  /\ Join(Rest(q, k), r) \in Seq(Word)
         /\ Len(Join(Rest(q, k), r)) = Len(Join(q, r)) - k
         /\ \A i \in 1..Len(Join(Rest(q, k), r)) : Join(Rest(q, k), r)[i] = Join(q, r)[i + k]
<1>1. PICK lq \in Nat : lq = Len(q)
  BY LenProperties
<1>2. PICK lr \in Nat : lr = Len(r)
  BY LenProperties
<1>3. PICK f \in Seq(Word) : f = Rest(q, k)
  BY RestIs
<1>4. PICK lf \in Nat : lf = Len(f)
  BY LenProperties
<1>5. Len(f) = Len(q) - k /\ \A i \in 1..Len(q) - k : f[i] = q[i + k]
  BY <1>3, RestIs
<1>6. lf = lq - k /\ \A i \in 1..lf : f[i] = q[i + k]
  BY <1>1, <1>4, <1>5
<1>7. PICK x \in Seq(Word) : x = Join(q, r)
  BY JoinIs
<1>8. PICK y \in Seq(Word) : y = Join(f, r)
  BY JoinIs
<1>9. Len(x) = lq + lr /\ (\A i \in 1..lq : x[i] = q[i]) /\ (\A i \in 1..lr : x[i + lq] = r[i])
  <2>1. Len(Join(q, r)) = Len(q) + Len(r)
    BY JoinIs
  <2>2. \A i \in 1..Len(q) : Join(q, r)[i] = q[i]
    BY JoinIs
  <2>3. \A i \in 1..Len(r) : Join(q, r)[i + Len(q)] = r[i]
    BY JoinIs
  <2> QED
    BY <1>1, <1>2, <1>7, <2>1, <2>2, <2>3
<1>10. Len(y) = lf + lr /\ (\A i \in 1..lf : y[i] = f[i]) /\ (\A i \in 1..lr : y[i + lf] = r[i])
  <2>1. Len(Join(f, r)) = Len(f) + Len(r)
    BY JoinIs
  <2>2. \A i \in 1..Len(f) : Join(f, r)[i] = f[i]
    BY JoinIs
  <2>3. \A i \in 1..Len(r) : Join(f, r)[i + Len(f)] = r[i]
    BY JoinIs
  <2> QED
    BY <1>2, <1>4, <1>8, <2>1, <2>2, <2>3
<1>11. Len(y) = Len(x) - k
  BY <1>6, <1>9, <1>10
<1>12. ASSUME NEW i \in 1..Len(y) PROVE y[i] = x[i + k]
  <2>0. i \in 1..lf + lr
    BY <1>10
  <2>1. CASE i <= lf
    <3>1. i \in 1..lf /\ i + k \in 1..lq
      BY <1>6, <2>0, <2>1
    <3>2. y[i] = f[i] /\ f[i] = q[i + k]
      BY <1>6, <1>10, <3>1
    <3>3. x[i + k] = q[i + k]
      BY <1>9, <3>1
    <3> QED
      BY <3>2, <3>3
  <2>2. CASE ~(i <= lf)
    <3>1. PICK j \in 1..lr : j = i - lf
      BY <2>0, <2>2
    <3>2. j + lf = i /\ j + lq = i + k
      BY <1>6, <2>0, <3>1
    <3>3. y[j + lf] = r[j]
      BY <1>10
    <3>4. x[j + lq] = r[j]
      BY <1>9
    <3> QED
      BY <3>2, <3>3, <3>4
  <2> QED
    BY <2>1, <2>2
<1> QED
  BY <1>3, <1>7, <1>8, <1>11, <1>12

\* A packet taken is one, and the rest makes packets.
LEMMA TakeWhole ==
  ASSUME NEW L, NEW s \in States(L), Ready(s.gpu), NEW coming \in Seq(Word), Whole(s, coming)
  PROVE  Whole(TakeOne(s), coming)
<1>1. PICK g \in Gpus : g = s.gpu /\ Ready(g)
  BY DEF States
<1>2. PICK fifo \in Seq(Word) : fifo = g.fifo /\ fifo # <<>>
  BY <1>1 DEF Gpus, Ready
<1>3. PICK upload \in Nat : upload = g.upload
  BY <1>1 DEF Gpus
<1>4. PICK k \in Nat : k = Count(g) /\ k \in 1..Len(fifo) /\ k <= Len(fifo)
  BY <1>1, <1>2, CountIsThere
<1>5. PICK x \in Seq(Word) : x = Join(fifo, coming)
  BY JoinIs
<1>6. PICK y \in Seq(Word) : y = Join(Rest(fifo, k), coming)
  BY <1>4, JoinRest
<1>7. Len(y) = Len(x) - k /\ \A i \in 1..Len(y) : y[i] = x[i + k]
  <2>1. Len(Join(Rest(fifo, k), coming)) = Len(Join(fifo, coming)) - k
    BY <1>4, JoinRest
  <2>2. \A i \in 1..Len(Join(Rest(fifo, k), coming)) :
          Join(Rest(fifo, k), coming)[i] = Join(fifo, coming)[i + k]
    BY <1>4, JoinRest
  <2> QED
    BY <1>5, <1>6, <2>1, <2>2
<1>8. PICK lx \in Nat : lx = Len(x)
  BY LenProperties
<1>9. PICK lf \in Nat : lf = Len(fifo)
  BY LenProperties
<1>10. lf <= lx /\ k <= lx /\ k <= lf /\ k >= 1 /\ \A i \in 1..lf : x[i] = fifo[i]
  <2>1. Len(Join(fifo, coming)) = Len(fifo) + Len(coming) /\ Len(coming) \in Nat
    BY JoinIs, LenProperties
  <2>2. \A i \in 1..Len(fifo) : Join(fifo, coming)[i] = fifo[i]
    BY JoinIs
  <2>3. lf <= lx /\ k <= lf /\ k >= 1
    BY <1>4, <1>5, <1>8, <1>9, <2>1
  <2> QED
    BY <1>5, <1>9, <2>2, <2>3
<1>11. PICK cuts : Cuts(x, upload, cuts)
  BY <1>1, <1>2, <1>3, <1>5, PacketsAre DEF Whole
<1>12. /\ cuts \in SUBSET (1..lx + 1) /\ upload + 1 \in cuts
       /\ \A i \in 1..upload : x[i] = "pixel"
       /\ \A c \in cuts : c <= lx => PacketAt(x, c) /\ c + TotalOf(x[c]) \in cuts
  BY <1>8, <1>11 DEF Cuts
<1>13. PICK p \in Seq(Word) : p = First(fifo, k)
  BY <1>4, FirstIs
<1>14. Len(p) = k /\ \A i \in 1..k : p[i] = x[i]
  <2>1. Len(p) = k /\ \A i \in 1..k : p[i] = fifo[i]
    BY <1>4, <1>13, FirstIs
  <2>2. \A i \in 1..k : i \in 1..lf
    BY <1>10
  <2> QED
    BY <1>10, <2>1, <2>2
<1>15. Fine(g) <=> IF upload > 0 THEN p = <<"pixel">> ELSE IsPacket(p)
  BY <1>2, <1>3, <1>4, <1>13 DEF Fine, First
<1>16. PICK t \in States(L) : t = TakeOne(s)
  BY TakeOneIs
<1>17. /\ t.gpu.fifo = Rest(fifo, k)
       /\ t.gpu.upload = IF upload > 0 THEN upload - 1
                         ELSE IF Head(fifo) = "image" THEN UploadWords ELSE 0
       /\ t.hist = [s.hist EXCEPT !.torn = @ \/ ~Fine(g)]
  BY <1>1, <1>2, <1>3, <1>4, <1>16, TakeOneIs DEF Rest
<1>18. ASSUME Fine(g), NEW v \in Nat, v = t.gpu.upload, (v + 1) + k \in cuts,
              \A i \in 1..v : x[i + k] = "pixel"
       PROVE  Whole(t, coming)
  <2>1. k <= Len(x)
    BY <1>8, <1>10
  <2>2. Packets(y, v)
    BY <1>7, <1>11, <1>18, <2>1, PacketsRest
  <2>3. ~t.hist.torn
    <3>1. s.hist \in Hists /\ ~s.hist.torn
      BY DEF States, Whole
    <3> QED
      BY <1>17, <1>18, <3>1 DEF Hists
  <2> QED
    BY <1>6, <1>17, <1>18, <2>2, <2>3 DEF Whole
<1>19. CASE upload > 0
  <2>1. k = 1
    BY <1>3, <1>4, <1>19 DEF Count
  <2>2. PICK v \in Nat : v = upload - 1
    BY <1>19
  <2>3. (v + 1) + k \in cuts
    <3>1. (v + 1) + k = upload + 1
      BY <2>1, <2>2
    <3> QED
      BY <1>12, <3>1
  <2>4. \A i \in 1..v : i + k \in 1..upload
    BY <2>1, <2>2
  <2>5. p = <<"pixel">>
    <3>1. 1 \in 1..upload /\ 1 \in 1..k
      BY <1>19, <2>1
    <3>2. p[1] = "pixel"
      BY <1>12, <1>14, <3>1
    <3>3. PICK q \in Seq(Word) : q = <<"pixel">>
      <4>1. PICK w \in Word : w = "pixel"
        BY DEF Word
      <4>2. <<w>> \in Seq(Word)
        OBVIOUS
      <4> QED
        BY <4>1, <4>2
    <3>4. Len(q) = 1 /\ q[1] = "pixel"
      BY <3>3
    <3>5. Len(p) = Len(q) /\ \A i \in 1..Len(p) : p[i] = q[i]
      BY <1>14, <2>1, <3>2, <3>4
    <3> QED
      BY <3>3, <3>5, SeqEqual
  <2>6. v = t.gpu.upload
    BY <1>17, <1>19, <2>2
  <2>7. \A i \in 1..v : x[i + k] = "pixel"
    BY <1>12, <2>4
  <2>8. Fine(g)
    BY <1>15, <1>19, <2>5
  <2> QED
    BY <1>16, <1>18, <2>3, <2>6, <2>7, <2>8
<1>20. CASE upload = 0
  <2>1. PICK w \in Word : w = Head(fifo) /\ w = fifo[1]
    BY <1>2, JoinHead
  <2>2. x[1] = w
    <3>1. 1 \in 1..lf
      BY <1>10
    <3> QED
      BY <1>10, <2>1, <3>1
  <2>3. k = PacketSize(w)
    BY <1>2, <1>3, <1>4, <1>20, <2>1 DEF Count
  <2>4. PICK n \in Nat : n = TotalOf(w)
    BY TotalIs
  <2>5. PICK v \in Nat : v = (IF w = "image" THEN UploadWords ELSE 0) /\ n = k + v
    <3>1. TotalOf(w) = PacketSize(w) + (IF w = "image" THEN UploadWords ELSE 0)
      BY TotalIs
    <3> QED
      BY <2>3, <2>4, <3>1, FifoAssumption
  <2>6. 1 \in cuts /\ 1 <= lx
    <3>1. upload + 1 = 1
      BY <1>20
    <3>2. 1 <= lx
      BY <1>10
    <3> QED
      BY <1>12, <3>1, <3>2
  <2>7. PacketAt(x, 1) /\ 1 + n \in cuts
    BY <1>12, <2>2, <2>4, <2>6
  <2>8. /\ w \in Heads
        /\ \A j \in 1..n - 1 : x[1 + j] = IF j < k THEN "param" ELSE "pixel"
    BY <2>2, <2>3, <2>4, <2>7 DEF PacketAt
  <2>9. (v + 1) + k \in cuts
    <3>1. (v + 1) + k = 1 + n
      BY <2>5
    <3> QED
      BY <2>7, <3>1
  <2>10. ASSUME NEW i \in 1..v PROVE x[i + k] = "pixel"
    <3>1. PICK j \in 1..n - 1 : j = (i + k) - 1 /\ 1 + j = i + k /\ ~(j < k)
      BY <1>10, <2>5
    <3> QED
      BY <2>8, <3>1
  <2>11. ASSUME NEW i \in 2..k PROVE p[i] = "param"
    <3>1. PICK j \in 1..n - 1 : j = i - 1 /\ 1 + j = i /\ j < k
      BY <2>5
    <3>2. i \in 1..k
      OBVIOUS
    <3> QED
      BY <1>14, <2>8, <3>1, <3>2
  <2>12. p[1] \in Heads
    <3>1. 1 \in 1..k
      BY <1>10
    <3> QED
      BY <1>14, <2>2, <2>8, <3>1
  <2>13. IsPacket(p)
    BY <1>14, <2>11, <2>12 DEF IsPacket
  <2>14. Fine(g)
    BY <1>15, <1>20, <2>13
  <2>15. v = t.gpu.upload
    BY <1>17, <1>20, <2>1, <2>5
  <2> QED
    BY <1>16, <1>18, <2>9, <2>10, <2>14, <2>15
<1> QED
  BY <1>19, <1>20

\* So does the drain, and so do clocks of the GPU.
LEMMA DrainWhole ==
  ASSUME NEW L, NEW s \in States(L), NEW coming \in Seq(Word), Whole(s, coming)
  PROVE  Whole(Drain(s), coming)
<1> DEFINE G == {r \in States(L) : Whole(r, coming)}
<1>1. s \in G /\ G \in SUBSET States(L)
  OBVIOUS
<1>2. ASSUME NEW r \in G, Ready(r.gpu) PROVE TakeOne(r) \in G
  BY <1>2, TakeWhole, TakeOneKeeps
<1>3. Drain(s) \in G
  <2> HIDE DEF G
  <2> QED
    BY <1>1, <1>2, DrainStays
<1> QED
  BY <1>3

LEMMA DecayWhole ==
  ASSUME NEW L, NEW s \in States(L), NEW n \in Nat, n # 0, NEW coming \in Seq(Word),
         Whole(s, coming)
  PROVE  Whole(DecayBusy(s, n), coming)
<1> DEFINE G == {r \in States(L) : Whole(r, coming)}
<1>1. s \in G /\ G \in SUBSET States(L)
  OBVIOUS
<1>2. ASSUME NEW r \in G PROVE Drain(r) \in G
  BY DrainWhole, DrainKeeps
<1>3. ASSUME NEW r \in G PROVE Spend(r, 1) \in G
  <2>1. PICK one \in Nat : one = 1
    OBVIOUS
  <2>2. PICK t \in States(L) : t = Spend(r, one)
    BY SpendIs
  <2>3. t.gpu.fifo = r.gpu.fifo /\ t.gpu.upload = r.gpu.upload /\ t.hist = r.hist
    BY <2>2, SpendIs
  <2>4. Whole(t, coming)
    BY <2>3, SameWhole
  <2> QED
    BY <2>1, <2>2, <2>4
<1>4. DecayBusy(s, n) \in G
  <2> HIDE DEF G
  <2> QED
    BY <1>1, <1>2, <1>3, DecayStays
<1> QED
  BY <1>4

\* A word that moves from the walk to the FIFO.
LEMMA WordMoves ==
  ASSUME NEW f \in Seq(Word), NEW q \in Seq(Word), q # <<>>, NEW r \in Seq(Word)
  PROVE  /\ Tail(q) \in Seq(Word) /\ Join(Tail(q), r) \in Seq(Word) /\ Head(q) \in Word
         /\ Join(Append(f, Head(q)), Join(Tail(q), r)) = Join(f, Join(q, r))
<1>1. PICK w \in Word : w = Head(q)
  BY JoinHead
<1>2. PICK u \in Seq(Word) : u = Tail(q)
  BY HeadTailProperties
<1>3. PICK e \in Seq(Word) : e = <<w>>
  <2>1. <<w>> \in Seq(Word)
    OBVIOUS
  <2> QED
    BY <2>1
<1>4. q = Join(e, u)
  <2>0. PICK n \in Nat : n = Len(q) /\ n # 0
    BY LenProperties, EmptySeq
  <2>1. Len(u) = n - 1 /\ \A i \in 1..n - 1 : u[i] = q[i + 1]
    BY <1>2, <2>0, HeadTailProperties
  <2>2. PICK x \in Seq(Word) : x = Join(e, u)
    BY JoinIs
  <2>3. Len(e) = 1 /\ e[1] = q[1]
    BY <1>1, <1>3, JoinHead
  <2>4. Len(x) = Len(e) + Len(u)
    BY <2>2, JoinIs
  <2>5. \A i \in 1..Len(e) : x[i] = e[i]
    BY <2>2, JoinIs
  <2>6. \A i \in 1..Len(u) : x[i + Len(e)] = u[i]
    <3>1. \A i \in 1..Len(u) : Join(e, u)[i + Len(e)] = u[i]
      BY JoinIs
    <3> QED
      BY <2>2, <3>1
  <2>7. ASSUME NEW i \in 1..n PROVE x[i] = q[i]
    <3>1. CASE i = 1
      BY <2>3, <2>5, <3>1
    <3>2. CASE i # 1
      <4>1. PICK j \in 1..n - 1 : j = i - 1 /\ j + 1 = i
        BY <3>2
      <4>2. x[j + 1] = u[j]
        BY <2>1, <2>3, <2>6
      <4> QED
        BY <2>1, <4>1, <4>2
    <3> QED
      BY <3>1, <3>2
  <2>8. Len(x) = n
    BY <2>0, <2>1, <2>3, <2>4
  <2>9. x = q
    BY <2>0, <2>7, <2>8, SeqEqual
  <2> QED
    BY <2>2, <2>9
<1>5. Append(f, w) = Join(f, e)
  BY <1>3, AppendIsConcat DEF Join
<1>6. PICK v \in Seq(Word) : v = Join(u, r)
  BY JoinIs
<1>7. Join(Join(f, e), v) = Join(f, Join(e, v))
  BY JoinTwice
<1>8. Join(Join(e, u), r) = Join(e, Join(u, r))
  BY JoinTwice
<1> QED
  BY <1>1, <1>2, <1>4, <1>5, <1>6, <1>7, <1>8
-----------------------------------------------------------------------------
(* Room in the FIFO. *)

\* The words of an admitted node go in, behind the allowance of the head.
Fits(g, count) ==
  IF g.upload > 0 \/ g.fifo = <<>> THEN Len(g.fifo) + count <= Depth + 1
  ELSE Len(g.fifo) + count <= Depth + Allowance(Head(g.fifo))

\* The FIFO holds no more than it may, and takes each of `counts` words more.
Room(g, counts) ==
  Len(g.fifo) <= Capacity(g) /\ \A count \in counts : Fits(g, count)

\* Capacity and Fits are bounds on the words held.
LEMMA BoundsAre ==
  ASSUME NEW g \in Gpus
  PROVE  /\ Len(g.fifo) \in Nat /\ g.upload \in Nat /\ Depth \in Nat \ {0}
         /\ g.fifo = <<>> <=> Len(g.fifo) = 0
         /\ g.upload > 0 \/ g.fifo = <<>> =>
              /\ Capacity(g) = Depth
              /\ \A count \in Nat : Fits(g, count) <=> Len(g.fifo) + count <= Depth + 1
         /\ ~(g.upload > 0 \/ g.fifo = <<>>) =>
              /\ Head(g.fifo) \in Word /\ Allowance(Head(g.fifo)) \in Nat \ {0}
              /\ Capacity(g) = Depth + Allowance(Head(g.fifo))
              /\ \A count \in Nat :
                   Fits(g, count) <=> Len(g.fifo) + count <= Depth + Allowance(Head(g.fifo))
<1>1. /\ Len(g.fifo) \in Nat /\ g.upload \in Nat /\ Depth \in Nat \ {0}
      /\ g.fifo = <<>> <=> Len(g.fifo) = 0
  BY FifoAssumption, EmptySeq, LenProperties DEF Gpus
<1>2. g.upload > 0 \/ g.fifo = <<>> => Capacity(g) = Depth
  BY DEF Capacity
<1>3. g.upload > 0 \/ g.fifo = <<>> =>
        \A count \in Nat : Fits(g, count) <=> Len(g.fifo) + count <= Depth + 1
  BY DEF Fits
<1>4. ASSUME ~(g.upload > 0 \/ g.fifo = <<>>)
      PROVE  /\ Head(g.fifo) \in Word /\ Allowance(Head(g.fifo)) \in Nat \ {0}
             /\ Capacity(g) = Depth + Allowance(Head(g.fifo))
  <2>1. Head(g.fifo) \in Word
    BY <1>4 DEF Gpus
  <2> QED
    BY <1>4, <2>1, SizesAreNumbers DEF Capacity
<1>5. ASSUME ~(g.upload > 0 \/ g.fifo = <<>>)
      PROVE  \A count \in Nat :
               Fits(g, count) <=> Len(g.fifo) + count <= Depth + Allowance(Head(g.fifo))
  BY <1>5 DEF Fits
<1> QED
  BY <1>1, <1>2, <1>3, <1>4, <1>5

\* Room looks at the FIFO and the pixels expected.
LEMMA SameRoom ==
  ASSUME NEW g, NEW h, NEW counts, Room(g, counts), h.fifo = g.fifo, h.upload = g.upload
  PROVE  Room(h, counts)
BY DEF Room, Capacity, Fits

\* A packet gives back what its allowance was, but for a word.
LEMMA AllowanceIs ==
  ASSUME NEW w \in Word
  PROVE  /\ Allowance(w) \in Nat /\ PacketSize(w) \in Nat /\ Allowance(w) <= PacketSize(w) + 1
         /\ w = "image" => Allowance(w) < PacketSize(w)
BY FifoAssumption DEF Word, Heads, PacketSize, Allowance

\* Taking a packet leaves the room there was.
LEMMA TakeRoom ==
  ASSUME NEW L, NEW s \in States(L), Ready(s.gpu), NEW counts \in SUBSET Nat, Room(s.gpu, counts)
  PROVE  Room(TakeOne(s).gpu, counts)
<1>1. PICK g \in Gpus : g = s.gpu /\ Ready(g)
  BY DEF States
<1>2. PICK t \in States(L) : t = TakeOne(s)
  BY TakeOneIs
<1>3. PICK h \in Gpus : h = t.gpu
  BY DEF States
<1>4. PICK k \in Nat : k = Count(g) /\ k >= 1
  BY <1>1, CountIsThere
<1>5. PICK lg \in Nat : lg = Len(g.fifo)
  BY <1>1, BoundsAre
<1>6. PICK lh \in Nat : lh = Len(h.fifo)
  BY <1>3, BoundsAre
<1>7. lh = lg - k /\ g.fifo # <<>>
  <2>1. g.fifo # <<>> /\ Count(g) \in 1..Len(g.fifo)
    BY <1>1, CountIsThere
  <2>2. h.fifo = Rest(g.fifo, k)
    BY <1>1, <1>2, <1>3, <1>4, TakeOneIs DEF Rest
  <2>3. g.fifo \in Seq(Word) /\ k <= Len(g.fifo)
    BY <1>4, <1>5, <2>1 DEF Gpus
  <2>4. PICK fifo \in Seq(Word) : fifo = g.fifo /\ k <= Len(fifo)
    BY <2>3
  <2>5. Len(Rest(fifo, k)) = Len(fifo) - k
    BY <2>4, RestIs
  <2> QED
    BY <1>5, <1>6, <2>1, <2>2, <2>4, <2>5
<1>8. h.upload = IF g.upload > 0 THEN g.upload - 1
                 ELSE IF Head(g.fifo) = "image" THEN UploadWords ELSE 0
  BY <1>1, <1>2, <1>3, TakeOneIs
<1>9. lg <= Capacity(g) /\ \A count \in counts : Fits(g, count)
  BY <1>1, <1>5 DEF Room
<1>10. /\ Depth \in Nat \ {0}
       /\ h.fifo = <<>> <=> lh = 0
       /\ h.upload > 0 \/ h.fifo = <<>> =>
            Capacity(h) = Depth /\ \A count \in Nat : Fits(h, count) <=> lh + count <= Depth + 1
       /\ ~(h.upload > 0 \/ h.fifo = <<>>) =>
            /\ Capacity(h) >= Depth + 1
            /\ \A count \in Nat : lh + count <= Depth + 1 => Fits(h, count)
  <2>1. /\ Depth \in Nat \ {0}
        /\ h.fifo = <<>> <=> lh = 0
        /\ h.upload > 0 \/ h.fifo = <<>> =>
             Capacity(h) = Depth /\ \A count \in Nat : Fits(h, count) <=> lh + count <= Depth + 1
    BY <1>6, BoundsAre
  <2>2. ASSUME ~(h.upload > 0 \/ h.fifo = <<>>)
        PROVE  /\ Capacity(h) >= Depth + 1
               /\ \A count \in Nat : lh + count <= Depth + 1 => Fits(h, count)
    <3>1. PICK a \in Nat \ {0} : a = Allowance(Head(h.fifo))
      BY <2>2, BoundsAre
    <3>2. Capacity(h) = Depth + a /\ \A count \in Nat : Fits(h, count) <=> lh + count <= Depth + a
      BY <1>6, <2>2, <3>1, BoundsAre
    <3> QED
      BY <2>1, <3>1, <3>2
  <2> QED
    BY <2>1, <2>2
<1>11. ASSUME lh <= Depth + 1, h.upload > 0 => lh <= Depth,
              \A count \in counts : lh + count <= Depth + 1
       PROVE  Room(h, counts)
  <2>1. lh <= Capacity(h)
    <3>1. CASE h.upload > 0 \/ h.fifo = <<>>
      <4>1. Capacity(h) = Depth /\ Depth \in Nat
        BY <1>10, <3>1
      <4> QED
        BY <1>10, <1>11, <3>1, <4>1
    <3>2. CASE ~(h.upload > 0 \/ h.fifo = <<>>)
      <4>1. Capacity(h) >= Depth + 1 /\ Capacity(h) \in Nat /\ Depth \in Nat
        BY <1>10, <3>2, CapacityIsNumber
      <4> QED
        BY <1>11, <4>1
    <3> QED
      BY <3>1, <3>2
  <2>2. \A count \in counts : Fits(h, count)
    BY <1>10, <1>11
  <2> QED
    BY <1>6, <2>1, <2>2 DEF Room
<1>12. CASE g.upload > 0
  <2>1. k = 1
    BY <1>4, <1>12 DEF Count
  <2>2. Capacity(g) = Depth /\ \A count \in Nat : Fits(g, count) <=> lg + count <= Depth + 1
    BY <1>5, <1>12, BoundsAre
  <2>3. lh <= Depth
    BY <1>7, <1>9, <1>10, <2>1, <2>2
  <2>4. \A count \in counts : lh + count <= Depth + 1
    <3>1. \A count \in counts : lg + count <= Depth + 1
      BY <1>9, <2>2
    <3>2. \A count \in Nat : lg + count <= Depth + 1 => lh + count <= Depth + 1
      BY <1>7, <1>10, <2>1
    <3> QED
      BY <3>1, <3>2
  <2> QED
    BY <1>2, <1>3, <1>10, <1>11, <2>3, <2>4
<1>13. CASE ~(g.upload > 0)
  <2>1. PICK w \in Word : w = Head(g.fifo)
    BY <1>7, <1>13, BoundsAre
  <2>2. PICK a \in Nat : a = Allowance(w) /\ a <= PacketSize(w) + 1
                         /\ (w = "image" => a < PacketSize(w))
    BY AllowanceIs
  <2>3. k = PacketSize(w)
    BY <1>4, <1>13, <2>1 DEF Count
  <2>4. Capacity(g) = Depth + a /\ \A count \in Nat : Fits(g, count) <=> lg + count <= Depth + a
    BY <1>5, <1>7, <1>13, <2>1, <2>2, BoundsAre
  <2>num. lh = lg - k /\ a <= k + 1 /\ lg <= Depth + a /\ Depth \in Nat
    BY <1>7, <1>9, <1>10, <2>2, <2>3, <2>4
  <2>5. lh <= Depth + 1
    BY <2>num
  <2>6. ASSUME h.upload > 0 PROVE lh <= Depth
    <3>1. w = "image"
      BY <1>8, <1>13, <2>1, <2>6
    <3>2. a < k
      BY <2>2, <2>3, <3>1
    <3> QED
      BY <2>num, <3>2
  <2>7. \A count \in counts : lh + count <= Depth + 1
    <3>1. \A count \in counts : lg + count <= Depth + a
      BY <1>9, <2>4
    <3>2. \A count \in Nat : lg + count <= Depth + a => lh + count <= Depth + 1
      BY <2>num
    <3> QED
      BY <3>1, <3>2
  <2> QED
    BY <1>2, <1>3, <1>11, <2>5, <2>6, <2>7
<1> QED
  BY <1>12, <1>13

LEMMA DrainRoom ==
  ASSUME NEW L, NEW s \in States(L), NEW counts \in SUBSET Nat, Room(s.gpu, counts)
  PROVE  Room(Drain(s).gpu, counts)
<1> DEFINE G == {r \in States(L) : Room(r.gpu, counts)}
<1>1. s \in G /\ G \in SUBSET States(L)
  OBVIOUS
<1>2. ASSUME NEW r \in G, Ready(r.gpu) PROVE TakeOne(r) \in G
  BY <1>2, TakeRoom, TakeOneKeeps
<1>3. Drain(s) \in G
  <2> HIDE DEF G
  <2> QED
    BY <1>1, <1>2, DrainStays
<1> QED
  BY <1>3

LEMMA DecayRoom ==
  ASSUME NEW L, NEW s \in States(L), NEW n \in Nat, n # 0, NEW counts \in SUBSET Nat,
         Room(s.gpu, counts)
  PROVE  Room(DecayBusy(s, n).gpu, counts)
<1> DEFINE G == {r \in States(L) : Room(r.gpu, counts)}
<1>1. s \in G /\ G \in SUBSET States(L)
  OBVIOUS
<1>2. ASSUME NEW r \in G PROVE Drain(r) \in G
  BY DrainRoom, DrainKeeps
<1>3. ASSUME NEW r \in G PROVE Spend(r, 1) \in G
  <2>1. PICK one \in Nat : one = 1
    OBVIOUS
  <2>2. PICK t \in States(L) : t = Spend(r, one)
    BY SpendIs
  <2>3. t.gpu.fifo = r.gpu.fifo /\ t.gpu.upload = r.gpu.upload
    BY <2>2, SpendIs
  <2>4. Room(t.gpu, counts)
    BY <2>3, SameRoom
  <2> QED
    BY <2>1, <2>2, <2>4
<1>4. DecayBusy(s, n) \in G
  <2> HIDE DEF G
  <2> QED
    BY <1>1, <1>2, <1>3, DecayStays
<1> QED
  BY <1>4

\* A word that fits finds room, when nothing can be taken.
LEMMA FitsHasRoom ==
  ASSUME NEW g \in Gpus, ~Ready(g), NEW count \in Nat \ {0}, Fits(g, count)
  PROVE  HasRoom(g)
<1>1. PICK lg \in Nat : lg = Len(g.fifo)
  BY BoundsAre
<1>2. Depth \in Nat \ {0} /\ (g.fifo = <<>> <=> lg = 0)
  BY <1>1, BoundsAre
<1>3. CASE g.fifo = <<>>
  <2>1. Capacity(g) = Depth
    BY <1>3, BoundsAre
  <2> QED
    BY <1>1, <1>2, <1>3, <2>1 DEF HasRoom
<1>4. CASE g.fifo # <<>>
  <2>1. ~(g.upload > 0)
    BY <1>4 DEF Ready
  <2>2. PICK a \in Nat : a = Allowance(Head(g.fifo))
    BY <1>4, <2>1, BoundsAre
  <2>3. Capacity(g) = Depth + a /\ (Fits(g, count) <=> lg + count <= Depth + a)
    BY <1>1, <1>4, <2>1, <2>2, BoundsAre
  <2> QED
    BY <1>1, <1>2, <2>2, <2>3 DEF HasRoom
<1> QED
  BY <1>3, <1>4

\* A node the walker may admit fits.
LEMMA AdmittedFits ==
  ASSUME NEW g \in Gpus, RequestsNode(g), NEW count \in Nat, count <= Depth + 1
  PROVE  Fits(g, count)
<1>1. PICK lg \in Nat : lg = Len(g.fifo)
  BY BoundsAre
<1>2. Depth \in Nat \ {0} /\ (g.fifo = <<>> <=> lg = 0)
  BY <1>1, BoundsAre
<1>3. CASE g.fifo = <<>>
  <2>1. Fits(g, count) <=> lg + count <= Depth + 1
    BY <1>1, <1>3, BoundsAre
  <2> QED
    BY <1>2, <1>3, <2>1
<1>4. CASE g.fifo # <<>>
  <2>1. g.upload = 0 /\ lg < Capacity(g) - Depth
    BY <1>1, <1>4 DEF RequestsNode
  <2>2. ~(g.upload > 0)
    BY <2>1
  <2>3. PICK a \in Nat : a = Allowance(Head(g.fifo))
    BY <1>4, <2>2, BoundsAre
  <2>4. Capacity(g) = Depth + a /\ (Fits(g, count) <=> lg + count <= Depth + a)
    BY <1>1, <1>4, <2>2, <2>3, BoundsAre
  <2> QED
    BY <1>2, <2>1, <2>3, <2>4
<1> QED
  BY <1>3, <1>4

\* A word queued uses the room of one.
LEMMA QueuedRoom ==
  ASSUME NEW L, NEW s \in States(L), NEW word \in Word, HasRoom(s.gpu),
         NEW counts \in SUBSET Nat, Room(s.gpu, counts),
         NEW fewer \in SUBSET Nat, \A count \in fewer : count + 1 \in counts
  PROVE  Room(Queued(s, word).gpu, fewer)
<1>1. PICK g \in Gpus : g = s.gpu
  BY DEF States
<1>2. PICK t \in States(L) : t = Queued(s, word)
  BY QueuedIs
<1>3. PICK h \in Gpus : h = t.gpu
  BY DEF States
<1>4. PICK fifo \in Seq(Word) : fifo = g.fifo
  BY DEF Gpus
<1>5. h.fifo = Append(fifo, word) /\ h.upload = g.upload
  BY <1>1, <1>2, <1>3, <1>4, QueuedIs
<1>6. PICK lg \in Nat : lg = Len(fifo)
  BY LenProperties
<1>7. Len(h.fifo) = lg + 1 /\ h.fifo # <<>> /\ (fifo # <<>> => Head(h.fifo) = Head(fifo))
  <2>1. PICK q \in Seq(Word) : q = Append(fifo, word)
    BY AppendProperties
  <2>2. Len(q) = lg + 1 /\ \A i \in 1..lg : q[i] = fifo[i]
    BY <1>6, <2>1, AppendProperties
  <2>3. q # <<>> /\ Head(q) = q[1]
    BY <2>2
  <2>4. ASSUME fifo # <<>> PROVE Head(q) = Head(fifo)
    <3>1. lg # 0 /\ Head(fifo) = fifo[1]
      BY <1>6, <2>4, EmptySeq
    <3>2. 1 \in 1..lg
      BY <3>1
    <3> QED
      BY <2>2, <2>3, <3>1, <3>2
  <2> QED
    BY <1>5, <2>1, <2>2, <2>3, <2>4
<1>8. /\ lg < Capacity(g) /\ \A count \in fewer : Fits(g, count + 1)
      /\ Depth \in Nat \ {0} /\ Capacity(g) \in Nat
  BY <1>1, <1>4, <1>6, CapacityIsNumber, BoundsAre DEF Room, HasRoom
<1>9. CASE g.upload > 0
  <2>1. /\ Capacity(g) = Depth /\ Capacity(h) = Depth
        /\ \A count \in Nat : Fits(g, count) <=> lg + count <= Depth + 1
        /\ \A count \in Nat : Fits(h, count) <=> (lg + 1) + count <= Depth + 1
    BY <1>4, <1>5, <1>6, <1>7, <1>9, BoundsAre
  <2>2. \A count \in fewer : Fits(h, count)
    <3>1. \A count \in fewer : lg + (count + 1) <= Depth + 1
      BY <1>8, <2>1
    <3> QED
      BY <2>1, <3>1
  <2> QED
    BY <1>2, <1>3, <1>7, <1>8, <2>1, <2>2 DEF Room
<1>10. CASE ~(g.upload > 0) /\ g.fifo = <<>>
  <2>1. PICK a \in Nat \ {0} : a = Allowance(Head(h.fifo))
    BY <1>5, <1>7, <1>10, BoundsAre
  <2>2. /\ Capacity(h) = Depth + a
        /\ \A count \in Nat : Fits(h, count) <=> (lg + 1) + count <= Depth + a
    BY <1>5, <1>7, <1>10, <2>1, BoundsAre
  <2>3. lg = 0 /\ \A count \in Nat : Fits(g, count) <=> lg + count <= Depth + 1
    BY <1>4, <1>6, <1>10, BoundsAre
  <2>4. \A count \in fewer : Fits(h, count)
    <3>1. \A count \in fewer : lg + (count + 1) <= Depth + 1
      BY <1>8, <2>3
    <3> QED
      BY <1>8, <2>1, <2>2, <2>3, <3>1
  <2>5. lg + 1 <= Capacity(h)
    BY <1>8, <2>1, <2>2, <2>3
  <2> QED
    BY <1>2, <1>3, <1>7, <2>4, <2>5 DEF Room
<1>11. CASE ~(g.upload > 0) /\ g.fifo # <<>>
  <2>1. PICK a \in Nat \ {0} : a = Allowance(Head(g.fifo)) /\ a = Allowance(Head(h.fifo))
    BY <1>4, <1>7, <1>11, BoundsAre
  <2>2. /\ Capacity(h) = Depth + a
        /\ \A count \in Nat : Fits(h, count) <=> (lg + 1) + count <= Depth + a
    BY <1>5, <1>7, <1>11, <2>1, BoundsAre
  <2>3. /\ Capacity(g) = Depth + a
        /\ \A count \in Nat : Fits(g, count) <=> lg + count <= Depth + a
    BY <1>4, <1>6, <1>11, <2>1, BoundsAre
  <2>4. \A count \in fewer : Fits(h, count)
    <3>1. \A count \in fewer : lg + (count + 1) <= Depth + a
      BY <1>8, <2>3
    <3> QED
      BY <1>8, <2>1, <2>2, <3>1
  <2>5. lg + 1 <= Capacity(h)
    BY <1>8, <2>1, <2>2, <2>3
  <2> QED
    BY <1>2, <1>3, <1>7, <2>4, <2>5 DEF Room
<1> QED
  BY <1>9, <1>10, <1>11
-----------------------------------------------------------------------------
(* The words of a list. *)

\* AllWords as a run from the last node to the first.
FromLast(f, list, n) ==
  /\ f[0] = <<>> /\ f[n] = AllWords(list)
  /\ \A k \in 0..n : f[k] \in Seq(Word)
  /\ \A k \in 0..n : k # 0 => f[k] = Join(list[(n - k) + 1], f[k - 1])

LEMMA FromLastExists ==
  ASSUME NEW list \in Seq(Node), NEW n \in Nat, n = Len(list)
  PROVE  \E f : FromLast(f, list, n)
<1> DEFINE Is(f, m) ==
      f = [k \in 0..m |-> IF k = 0 THEN <<>> ELSE list[(n - k) + 1] \o f[k - 1]]
           S == {m \in 0..n : \E f \in [0..m -> Seq(Word)] : Is(f, m)}
<1>0. <<>> \in Seq(Word)
  OBVIOUS
<1>node. ASSUME NEW k \in 0..n, k # 0 PROVE list[(n - k) + 1] \in Seq(Word)
  <2>1. (n - k) + 1 \in 1..n
    BY <1>node
  <2>2. (n - k) + 1 \in 1..Len(list)
    BY <2>1
  <2>3. PICK i \in 1..Len(list) : i = (n - k) + 1
    BY <2>2
  <2>4. list[i] \in Node
    BY ElementOfSeq
  <2> QED
    BY <2>3, <2>4 DEF Node
<1>1. 0 \in S
  <2>1. PICK f \in [0..0 -> Seq(Word)] : f = [k \in 0..0 |-> <<>>]
    BY <1>0
  <2>2. Is(f, 0)
    BY <2>1
  <2>3. \E q \in [0..0 -> Seq(Word)] : Is(q, 0)
    <3> HIDE DEF Is
    <3> QED
      BY <2>2
  <2>4. 0 \in 0..n
    OBVIOUS
  <2> HIDE DEF Is
  <2> QED
    BY <2>3, <2>4
<1>2. ASSUME NEW m \in 0..n, m \in S, m < n PROVE m + 1 \in S
  <2>1. PICK f \in [0..m -> Seq(Word)] : Is(f, m)
    BY <1>2
  <2>2. PICK j \in 0..n : j = m + 1 /\ j # 0
    BY <1>2
  <2>3. PICK e : e = Join(list[(n - j) + 1], f[m])
    OBVIOUS
  <2>4. e \in Seq(Word)
    <3>1. f[m] \in Seq(Word)
      OBVIOUS
    <3>2. PICK q \in Seq(Word) : q = list[(n - j) + 1]
      BY <1>node, <2>2
    <3>3. Join(q, f[m]) \in Seq(Word)
      BY <3>1, JoinIs
    <3> QED
      BY <2>3, <3>2, <3>3
  <2>5. PICK g : g = [k \in 0..j |-> IF k = j THEN e ELSE f[k]]
    OBVIOUS
  <2>6. g \in [0..j -> Seq(Word)]
    <3>1. ASSUME NEW k \in 0..j, k # j PROVE f[k] \in Seq(Word)
      <4>1. k \in 0..m
        BY <2>2, <3>1
      <4> QED
        BY <4>1
    <3> QED
      BY <2>4, <2>5, <3>1
  <2>7. ASSUME NEW k \in 0..j
        PROVE  g[k] = IF k = 0 THEN <<>> ELSE list[(n - k) + 1] \o g[k - 1]
    <3>1. CASE k = j
      <4>1. k - 1 = m /\ m \in 0..j /\ m # j
        BY <2>2, <3>1
      <4>2. g[k - 1] = f[m] /\ g[k] = e
        BY <2>5, <3>1, <4>1
      <4> QED
        BY <2>2, <2>3, <3>1, <4>2 DEF Join
    <3>2. CASE k # j
      <4>1. k \in 0..m /\ (k # 0 => k - 1 \in 0..j /\ k - 1 # j)
        BY <2>2, <3>2
      <4>2. g[k] = f[k] /\ (k # 0 => g[k - 1] = f[k - 1])
        BY <2>5, <3>2, <4>1
      <4>3. f[k] = IF k = 0 THEN <<>> ELSE list[(n - k) + 1] \o f[k - 1]
        BY <2>1, <4>1
      <4> QED
        BY <4>2, <4>3
    <3> QED
      BY <3>1, <3>2
  <2>8. Is(g, j)
    <3>1. g = [k \in 0..j |-> g[k]]
      BY <2>5
    <3> QED
      BY <2>7, <3>1
  <2> QED
    BY <2>2, <2>6, <2>8
<1>3. n \in S
  <2>1. \A k \in 0..n : k \in S
    <3> HIDE DEF S
    <3> QED
      BY <1>1, <1>2, UpTo
  <2> HIDE DEF S
  <2> QED
    BY <2>1
<1>4. PICK f \in [0..n -> Seq(Word)] : Is(f, n)
  BY <1>3
<1>5. PICK last : last = CHOOSE g : Is(g, n)
  OBVIOUS
<1>6. Is(last, n)
  <2> HIDE DEF Is
  <2> QED
    BY <1>4, <1>5
<1>7. AllWords(list) = last[n]
  <2>1. AllWords(list) = (CHOOSE g : g = [k \in 0..Len(list) |->
                            IF k = 0 THEN <<>> ELSE list[Len(list) - k + 1] \o g[k - 1]])[Len(list)]
    BY DEF AllWords
  <2> QED
    BY <1>5, <2>1
<1>8. ASSUME NEW k \in 0..n, k # 0
      PROVE  /\ last[k] = Join(list[(n - k) + 1], last[k - 1])
             /\ f[k] = Join(list[(n - k) + 1], f[k - 1])
  BY <1>4, <1>6, <1>8 DEF Join
<1>9. last[0] = <<>> /\ f[0] = <<>>
  BY <1>4, <1>6
<1>10. last[n] = f[n]
  <2>1. \A k \in 0..n : k # 0 /\ last[k - 1] = f[k - 1] => last[k] = f[k]
    BY <1>8
  <2>2. last[0] = f[0]
    BY <1>9
  <2> HIDE DEF Is, S
  <2> QED
    BY <2>1, <2>2, RunsAgree
<1>11. FromLast(f, list, n)
  BY <1>4, <1>7, <1>8, <1>9, <1>10 DEF FromLast
<1> QED
  BY <1>11

LEMMA AllWordsIs ==
  ASSUME NEW list \in Seq(Node)
  PROVE  /\ AllWords(list) \in Seq(Word)
         /\ list = <<>> => AllWords(list) = <<>>
         /\ list # <<>> => /\ Tail(list) \in Seq(Node) /\ Head(list) \in Seq(Word)
                           /\ AllWords(list) = Join(Head(list), AllWords(Tail(list)))
<1>1. PICK n \in Nat : n = Len(list)
  BY LenProperties
<1>2. PICK f : FromLast(f, list, n)
  BY <1>1, FromLastExists
<1>3. /\ f[0] = <<>> /\ f[n] = AllWords(list)
      /\ \A k \in 0..n : f[k] \in Seq(Word)
      /\ \A k \in 0..n : k # 0 => f[k] = Join(list[(n - k) + 1], f[k - 1])
  BY <1>2 DEF FromLast
<1>4. AllWords(list) \in Seq(Word)
  BY <1>3
<1>5. list = <<>> => AllWords(list) = <<>>
  <2>1. list = <<>> => n = 0
    BY <1>1, EmptySeq
  <2> QED
    BY <1>3, <2>1
<1>6. ASSUME list # <<>>
      PROVE  /\ Tail(list) \in Seq(Node) /\ Head(list) \in Seq(Word)
             /\ AllWords(list) = Join(Head(list), AllWords(Tail(list)))
  <2>1. n # 0
    BY <1>1, <1>6, EmptySeq
  <2>2. PICK rest \in Seq(Node) : rest = Tail(list)
    BY <1>6, HeadTailProperties
  <2>3. PICK m \in Nat : m = n - 1
    BY <2>1
  <2>4. m = Len(rest) /\ \A i \in 1..m : rest[i] = list[i + 1]
    BY <1>1, <1>6, <2>2, <2>3, HeadTailProperties
  <2>5. PICK g : FromLast(g, rest, m)
    BY <2>4, FromLastExists
  <2>6. /\ g[0] = <<>> /\ g[m] = AllWords(rest)
        /\ \A k \in 0..m : k # 0 => g[k] = Join(rest[(m - k) + 1], g[k - 1])
    BY <2>5 DEF FromLast
  <2>7. ASSUME NEW k \in 0..m, k # 0, f[k - 1] = g[k - 1] PROVE f[k] = g[k]
    <3>1. PICK i \in 1..m : i = (m - k) + 1 /\ i + 1 = (n - k) + 1
      BY <2>3, <2>7
    <3>2. rest[i] = list[i + 1]
      BY <2>4
    <3>3. k \in 0..n
      BY <2>3
    <3>4. f[k] = Join(list[(n - k) + 1], f[k - 1])
      BY <1>3, <2>7, <3>3
    <3>5. g[k] = Join(rest[(m - k) + 1], g[k - 1])
      BY <2>6, <2>7
    <3> QED
      BY <2>7, <3>1, <3>2, <3>4, <3>5
  <2>8. f[m] = g[m]
    <3>1. f[0] = g[0]
      BY <1>3, <2>6
    <3>2. \A k \in 0..m : k # 0 /\ f[k - 1] = g[k - 1] => f[k] = g[k]
      BY <2>7
    <3> QED
      BY <3>1, <3>2, RunsAgree
  <2>9. AllWords(list) = Join(list[1], AllWords(rest))
    <3>1. (n - n) + 1 = 1 /\ n - 1 = m /\ n \in 0..n
      BY <2>3
    <3>2. f[n] = Join(list[(n - n) + 1], f[n - 1])
      BY <1>3, <2>1, <3>1
    <3> QED
      BY <1>3, <2>6, <2>8, <3>1, <3>2
  <2>10. Head(list) = list[1] /\ Head(list) \in Seq(Word)
    <3>1. Head(list) \in Node /\ Head(list) = list[1]
      BY <1>6, HeadTailProperties
    <3> QED
      BY <3>1 DEF Node
  <2> QED
    BY <2>2, <2>9, <2>10
<1> QED
  BY <1>4, <1>5, <1>6
-----------------------------------------------------------------------------
(* What a clock keeps. *)

\* Whatever software sends: nothing is left to take, the FIFO is within its room, a
\* kick waits for the walk before it to end, and the event that is pending while a
\* walk goes on is that of an earlier transfer.
Shape(s) ==
  /\ ~Ready(s.gpu) /\ Room(s.gpu, {})
  /\ s.chan.waiting => ~s.walk.live
  /\ ~s.walk.live => s.walk = NoWalk
  /\ s.walk.live /\ s.chan.start /\ s.chan.event => s.hist.stale

\* A node of packets that the FIFO takes whole.
WholeNode(node) == Packets(node, 0) /\ Len(node) <= Depth + 1

\* With packets within nodes, what is left of the admitted node goes in, and ends the
\* last packet.
ByNodes(s) ==
  /\ ~s.hist.dropped
  /\ Room(s.gpu, {Len(s.walk.words)})
  /\ \A i \in 1..Len(s.walk.nodes) : WholeNode(s.walk.nodes[i])
  /\ ~s.hist.late => /\ Whole(s, s.walk.words)
                     /\ s.walk.live /\ ~s.chan.start => s.walk.words = <<>>

\* With packets that go on in the next node, the nodes to come end the last one.
ByLists(s) ==
  /\ ~s.hist.dropped
  /\ ~s.hist.late => /\ Whole(s, Join(s.walk.words, AllWords(s.walk.nodes)))
                     /\ s.walk.live => s.chan.start

LEMMA SameShape ==
  ASSUME NEW s, NEW t, Shape(s), t.gpu = s.gpu,
         t.chan.waiting => s.chan.waiting,
         t.walk.live = s.walk.live, t.walk = NoWalk \/ s.walk # NoWalk,
         t.walk.live /\ t.chan.start /\ t.chan.event => t.hist.stale
  PROVE  Shape(t)
BY DEF Shape

LEMMA SameNodes ==
  ASSUME NEW s, NEW t, ByNodes(s), t.gpu.fifo = s.gpu.fifo, t.gpu.upload = s.gpu.upload,
         t.hist.dropped = s.hist.dropped, t.hist.torn = s.hist.torn,
         ~t.hist.late => ~s.hist.late,
         t.walk.words = s.walk.words, t.walk.nodes = s.walk.nodes,
         ~t.hist.late /\ t.walk.live /\ ~t.chan.start => s.walk.live /\ ~s.chan.start
  PROVE  ByNodes(t)
BY SameRoom, SameWhole DEF ByNodes

LEMMA SameLists ==
  ASSUME NEW s, NEW t, ByLists(s), t.gpu.fifo = s.gpu.fifo, t.gpu.upload = s.gpu.upload,
         t.hist.dropped = s.hist.dropped, t.hist.torn = s.hist.torn,
         ~t.hist.late => ~s.hist.late,
         t.walk.words = s.walk.words, t.walk.nodes = s.walk.nodes,
         ~t.hist.late /\ t.walk.live => t.chan.start
  PROVE  ByLists(t)
BY SameWhole DEF ByLists

\* The words and nodes of a state, as sequences.
LEMMA WalkIs ==
  ASSUME NEW L, NEW s \in States(L)
  PROVE  /\ s.walk \in Walks /\ s.walk.words \in Seq(Word) /\ s.walk.nodes \in Seq(Node)
         /\ Len(s.walk.words) \in Nat /\ AllWords(s.walk.nodes) \in Seq(Word)
         /\ Join(s.walk.words, AllWords(s.walk.nodes)) \in Seq(Word)
         /\ s.gpu \in Gpus /\ s.gpu.fifo \in Seq(Word) /\ s.gpu.upload \in Nat
         /\ s.walk.header => s.walk.nodes # <<>> /\ s.walk.words = <<>>
<1>1. /\ s.walk \in Walks /\ s.walk.words \in Seq(Word) /\ s.walk.nodes \in Seq(Node)
      /\ s.gpu \in Gpus /\ s.gpu.fifo \in Seq(Word) /\ s.gpu.upload \in Nat
      /\ s.walk.header => s.walk.nodes # <<>> /\ s.walk.words = <<>>
  BY DEF States, Walks, Node, Gpus
<1>2. PICK words \in Seq(Word) : words = s.walk.words
  BY <1>1
<1>3. PICK rest \in Seq(Word) : rest = AllWords(s.walk.nodes)
  BY <1>1, AllWordsIs
<1>4. Join(words, rest) \in Seq(Word)
  BY JoinIs
<1>5. Len(words) \in Nat
  BY LenProperties
<1> QED
  BY <1>1, <1>2, <1>3, <1>4, <1>5

\* Room for nothing more is room still.
LEMMA RoomForNone ==
  ASSUME NEW g \in Gpus, NEW counts, Room(g, counts)
  PROVE  Room(g, {}) /\ Room(g, {0})
<1>1. Len(g.fifo) <= Capacity(g)
  BY DEF Room
<1>2. Fits(g, 0)
  <2>1. PICK none \in Nat : none = 0
    OBVIOUS
  <2>2. PICK lg \in Nat : lg = Len(g.fifo)
    BY BoundsAre
  <2>3. CASE g.upload > 0 \/ g.fifo = <<>>
    <3>1. /\ Depth \in Nat /\ Capacity(g) = Depth
          /\ Fits(g, none) <=> lg + none <= Depth + 1
      BY <2>2, <2>3, BoundsAre
    <3> QED
      BY <1>1, <2>1, <2>2, <3>1
  <2>4. CASE ~(g.upload > 0 \/ g.fifo = <<>>)
    <3>1. PICK a \in Nat : a = Allowance(Head(g.fifo))
      BY <2>4, BoundsAre
    <3>2. /\ Depth \in Nat /\ Capacity(g) = Depth + a
          /\ Fits(g, none) <=> lg + none <= Depth + a
      BY <2>2, <2>4, <3>1, BoundsAre
    <3> QED
      BY <1>1, <2>1, <2>2, <3>1, <3>2
  <2> QED
    BY <2>3, <2>4
<1> QED
  BY <1>1, <1>2 DEF Room

\* Clocks of the GPU.
LEMMA DecayKeepsShape ==
  ASSUME NEW L, NEW s \in States(L), NEW n \in Nat, n # 0, Shape(s)
  PROVE  Shape(DecayBusy(s, n))
<1>1. PICK t \in States(L) : t = DecayBusy(s, n)
  BY DecayKeeps
<1>2. t.chan = s.chan /\ t.walk = s.walk /\ t.hist.stale = s.hist.stale
  BY <1>1, DecayKeeps
<1>3. ~Ready(t.gpu)
  BY <1>1, DecayRests
<1>4. Room(t.gpu, {})
  <2>1. Room(s.gpu, {})
    BY DEF Shape
  <2>2. PICK none \in SUBSET Nat : none = {}
    OBVIOUS
  <2> QED
    BY <1>1, <2>1, <2>2, DecayRoom
<1> QED
  BY <1>1, <1>2, <1>3, <1>4 DEF Shape

LEMMA DecayKeepsNodes ==
  ASSUME NEW L, NEW s \in States(L), NEW n \in Nat, n # 0, ByNodes(s)
  PROVE  ByNodes(DecayBusy(s, n))
<1>1. PICK t \in States(L) : t = DecayBusy(s, n)
  BY DecayKeeps
<1>2. /\ t.chan = s.chan /\ t.walk = s.walk
      /\ t.hist.dropped = s.hist.dropped /\ t.hist.late = s.hist.late
  BY <1>1, DecayKeeps
<1>3. PICK words \in Seq(Word) : words = s.walk.words
  BY WalkIs
<1>4. Room(t.gpu, {Len(words)})
  <2>1. PICK counts \in SUBSET Nat : counts = {Len(words)}
    BY LenProperties
  <2>2. Room(s.gpu, counts)
    BY <1>3, <2>1 DEF ByNodes
  <2> QED
    BY <1>1, <2>1, <2>2, DecayRoom
<1>5. ~t.hist.late => Whole(t, words)
  BY <1>1, <1>2, <1>3, DecayWhole DEF ByNodes
<1> QED
  BY <1>1, <1>2, <1>3, <1>4, <1>5 DEF ByNodes

LEMMA DecayKeepsLists ==
  ASSUME NEW L, NEW s \in States(L), NEW n \in Nat, n # 0, ByLists(s)
  PROVE  ByLists(DecayBusy(s, n))
<1>1. PICK t \in States(L) : t = DecayBusy(s, n)
  BY DecayKeeps
<1>2. /\ t.chan = s.chan /\ t.walk = s.walk
      /\ t.hist.dropped = s.hist.dropped /\ t.hist.late = s.hist.late
  BY <1>1, DecayKeeps
<1>3. PICK coming \in Seq(Word) : coming = Join(s.walk.words, AllWords(s.walk.nodes))
  BY WalkIs
<1>4. ~t.hist.late => Whole(t, coming)
  BY <1>1, <1>2, <1>3, DecayWhole DEF ByLists
<1> QED
  BY <1>1, <1>2, <1>3, <1>4 DEF ByLists

\* A word pushed where there is room.
LEMMA PushWordMoves ==
  ASSUME NEW L, NEW s \in States(L), s.walk.words # <<>>, HasRoom(s.gpu),
         NEW counts \in SUBSET Nat, Room(s.gpu, counts),
         NEW fewer \in SUBSET Nat, \A count \in fewer : count + 1 \in counts
  PROVE  /\ Room(PushWord(s).gpu, fewer)
         /\ \A r \in Seq(Word) : Whole(s, Join(s.walk.words, r)) =>
              Whole(PushWord(s), Join(Tail(s.walk.words), r))
<1>1. PICK u \in States(L) : u = WordGone(s)
  BY WordGoneIs
<1>2. u.gpu = s.gpu /\ u.hist = s.hist
  BY <1>1, WordGoneIs
<1>3. PICK word \in Word : word = Head(s.walk.words)
  BY WordGoneIs
<1>4. PICK v \in States(L) : v = Queued(u, word)
  BY QueuedIs
<1>5. v.hist = s.hist /\ v.gpu.fifo = Append(s.gpu.fifo, word) /\ v.gpu.upload = s.gpu.upload
  BY <1>2, <1>4, QueuedIs, SMTT(30)
<1>6. PushWord(s) = Drain(v)
  BY <1>1, <1>3, <1>4, PushWordIs
<1>7. Room(PushWord(s).gpu, fewer)
  <2>1. Room(v.gpu, fewer)
    BY <1>2, <1>4, QueuedRoom
  <2> QED
    BY <1>6, <2>1, DrainRoom
<1>8. ASSUME NEW r \in Seq(Word), Whole(s, Join(s.walk.words, r))
      PROVE  Whole(PushWord(s), Join(Tail(s.walk.words), r))
  <2>1. PICK words \in Seq(Word) : words = s.walk.words /\ words # <<>>
    BY WalkIs
  <2>2. PICK fifo \in Seq(Word) : fifo = s.gpu.fifo
    BY WalkIs
  <2>3. PICK coming \in Seq(Word) : coming = Join(Tail(words), r)
    BY <2>1, WordMoves
  <2>4. Join(Append(fifo, word), coming) = Join(fifo, Join(words, r))
    BY <1>3, <2>1, <2>3, WordMoves
  <2>5. Whole(v, coming)
    BY <1>5, <1>8, <2>1, <2>2, <2>4 DEF Whole
  <2>6. Whole(Drain(v), coming)
    BY <2>5, DrainWhole
  <2> QED
    BY <1>6, <2>1, <2>3, <2>6
<1> QED
  BY <1>7, <1>8
LEMMA NoWalkHas ==
  NoWalk.words = <<>> /\ NoWalk.nodes = <<>> /\ ~NoWalk.live
BY DEF NoWalk

\* A step of the walker.
LEMMA WalkKeepsShape ==
  ASSUME NEW L, NEW s \in States(L), Shape(s)
  PROVE  Shape(WalkStep(s))
<1>1. PICK t \in States(L) : t = WalkStep(s)
  BY WalkStepKeeps
<1>2. s.chan \in Chans(L) /\ s.walk \in Walks /\ s.hist \in Hists
  BY DEF States
<1>3. ~Ready(s.gpu) /\ Room(s.gpu, {})
  BY DEF Shape
<1>4. t.chan = [s.chan EXCEPT !.event = t.chan.event] /\ ~Ready(t.gpu)
  BY <1>1, <1>3, WalkStepKeeps
<1>5. t.chan.waiting = s.chan.waiting /\ t.chan.start = s.chan.start
  BY <1>2, <1>4 DEF Chans
<1>6. ASSUME t = s PROVE Shape(t)
  BY <1>6
<1>7. ASSUME NEW w, t = [s EXCEPT !.walk = w], w.live, s.walk.live PROVE Shape(t)
  <2>1. t.gpu = s.gpu /\ t.walk = w /\ t.chan = s.chan /\ t.hist = s.hist
    BY <1>7 DEF States
  <2>2. w # NoWalk
    BY <1>7, NoWalkHas
  <2> QED
    BY <1>7, <2>1, <2>2 DEF Shape
<1>8. ASSUME t.walk = NoWalk, t.gpu = s.gpu PROVE Shape(t)
  BY <1>3, <1>8, NoWalkHas DEF Shape
<1>9. ASSUME t = [s EXCEPT !.walk = NoWalk] PROVE Shape(t)
  <2>1. t.walk = NoWalk /\ t.gpu = s.gpu
    BY <1>9 DEF States
  <2> QED
    BY <1>8, <2>1
<1>10. ASSUME t = EndWalk(s) PROVE Shape(t)
  <2>1. t.walk = NoWalk /\ t.gpu = s.gpu
    BY <1>10, EndWalkIs
  <2> QED
    BY <1>8, <2>1
<1>11. ASSUME t = Admit(s), s.walk.header, s.walk.live PROVE Shape(t)
  <2>1. t.gpu = s.gpu /\ t.chan = s.chan /\ t.hist = s.hist /\ t.walk.live
    BY <1>11, AdmitIs
  <2>2. t.walk # NoWalk
    BY <2>1, NoWalkHas
  <2> QED
    BY <1>11, <2>1, <2>2 DEF Shape
<1>12. ASSUME t = PushWord(s), s.walk.words # <<>>, HasRoom(s.gpu), s.walk.live PROVE Shape(t)
  <2>1. /\ t.chan = s.chan /\ t.hist.stale = s.hist.stale
        /\ t.walk = [s.walk EXCEPT !.words = Tail(@)]
    BY <1>12, PushWordIs
  <2>2. t.walk.live
    BY <1>2, <1>12, <2>1 DEF Walks
  <2>3. t.walk # NoWalk
    BY <2>2, NoWalkHas
  <2>4. Room(t.gpu, {})
    <3>1. PICK none \in SUBSET Nat : none = {}
      OBVIOUS
    <3>2. Room(s.gpu, none) /\ \A count \in none : count + 1 \in none
      BY <1>3, <3>1
    <3> QED
      BY <1>12, <3>1, <3>2, PushWordMoves
  <2> QED
    BY <1>4, <1>12, <2>1, <2>2, <2>3, <2>4 DEF Shape
<1>13. ASSUME t = [s EXCEPT !.walk = [s.walk EXCEPT !.setup = @ - 1]], s.walk.live PROVE Shape(t)
  <2>1. [s.walk EXCEPT !.setup = @ - 1].live
    BY <1>2, <1>13 DEF Walks
  <2> QED
    BY <1>7, <1>13, <2>1
<1>14. ASSUME t = [s EXCEPT !.walk = [s.walk EXCEPT !.header = TRUE]], s.walk.live PROVE Shape(t)
  <2>1. [s.walk EXCEPT !.header = TRUE].live
    BY <1>2, <1>14 DEF Walks
  <2> QED
    BY <1>7, <1>14, <2>1
<1>15. Shape(t)
  BY <1>1, <1>6, <1>9, <1>10, <1>11, <1>12, <1>13, <1>14, WalkStepCases
<1> QED
  BY <1>1, <1>15

\* What a push keeps of ByNodes, whether the channel runs or was stopped.
HoldsNodes(s) ==
  /\ ~s.hist.dropped
  /\ Room(s.gpu, {Len(s.walk.words)})
  /\ \A i \in 1..Len(s.walk.nodes) : WholeNode(s.walk.nodes[i])
  /\ ~s.hist.late => Whole(s, s.walk.words)

LEMMA PushKeepsNodes ==
  ASSUME NEW L, NEW s \in States(L), s.walk.words # <<>>, HasRoom(s.gpu), HoldsNodes(s)
  PROVE  HoldsNodes(PushWord(s))
<1>1. PICK t \in States(L) : t = PushWord(s)
  BY PushWordIs
<1>2. t.hist.dropped = s.hist.dropped /\ t.hist.late = s.hist.late
  BY <1>1, PushWordIs
<1>3. t.walk.words = Tail(s.walk.words) /\ t.walk.nodes = s.walk.nodes
  <2>1. t.walk = [s.walk EXCEPT !.words = Tail(@)]
    BY <1>1, PushWordIs
  <2>2. s.walk \in Walks
    BY DEF States
  <2> QED
    BY <2>1, <2>2 DEF Walks
<1>4. PICK words \in Seq(Word) : words = s.walk.words /\ words # <<>>
  BY WalkIs
<1>5. PICK tail \in Seq(Word) : tail = Tail(words)
  BY <1>4, HeadTailProperties
<1>6. PICK len \in Nat \ {0} : len = Len(words)
  BY <1>4, LenProperties, EmptySeq
<1>7. PICK m \in Nat : m = Len(tail) /\ m + 1 = len
  <2>1. Len(tail) = len - 1
    BY <1>4, <1>5, <1>6, HeadTailProperties
  <2> QED
    BY <2>1
<1>8. PICK counts \in SUBSET Nat : counts = {Len(words)} /\ Room(s.gpu, counts)
  BY <1>4, LenProperties DEF HoldsNodes
<1>9. PICK fewer \in SUBSET Nat : fewer = {m} /\ \A count \in fewer : count + 1 \in counts
  <2>1. {m} \in SUBSET Nat /\ m + 1 \in counts
    BY <1>6, <1>7, <1>8
  <2> QED
    BY <2>1
<1>10. Room(t.gpu, {Len(t.walk.words)})
  BY <1>1, <1>3, <1>4, <1>5, <1>7, <1>8, <1>9, PushWordMoves
<1>11. ASSUME ~t.hist.late PROVE Whole(t, t.walk.words)
  <2>1. PICK r \in Seq(Word) : r = <<>>
    <3>1. <<>> \in Seq(Word)
      OBVIOUS
    <3> QED
      BY <3>1
  <2>2. Join(words, r) = words /\ Join(tail, r) = tail
    BY <2>1, JoinNone
  <2>3. Whole(s, Join(words, r))
    BY <1>2, <1>4, <1>11, <2>2 DEF HoldsNodes
  <2>4. Whole(t, Join(Tail(words), r))
    BY <1>1, <1>4, <1>8, <1>9, <2>3, PushWordMoves
  <2> QED
    BY <1>3, <1>4, <1>5, <2>2, <2>4
<1>12. HoldsNodes(t)
  BY <1>2, <1>3, <1>10, <1>11 DEF HoldsNodes
<1> QED
  BY <1>1, <1>12

LEMMA WalkKeepsNodes ==
  ASSUME NEW L, NEW s \in States(L), Shape(s), ByNodes(s)
  PROVE  ByNodes(WalkStep(s))
<1>1. PICK t \in States(L) : t = WalkStep(s)
  BY WalkStepKeeps
<1>2. s.chan \in Chans(L) /\ s.walk \in Walks /\ s.hist \in Hists
  BY DEF States
<1>3. /\ t.hist.dropped = s.hist.dropped /\ t.hist.late = s.hist.late
      /\ t.chan = [s.chan EXCEPT !.event = t.chan.event]
  BY <1>1, WalkStepKeeps
<1>start. t.chan.start = s.chan.start
  BY <1>2, <1>3 DEF Chans
<1>4. ASSUME NEW w, t = [s EXCEPT !.walk = w], w.words = s.walk.words, w.nodes = s.walk.nodes,
             w.live = s.walk.live
      PROVE  ByNodes(t)
  <2>1. t.gpu = s.gpu /\ t.walk = w /\ t.chan = s.chan /\ t.hist = s.hist
    BY <1>4 DEF States
  <2> QED
    BY <1>4, <2>1, SameNodes
<1>5. ASSUME t = [s EXCEPT !.walk = NoWalk], s.walk.live, ~s.chan.start PROVE ByNodes(t)
  <2>1. t.gpu = s.gpu /\ t.walk = NoWalk /\ t.chan = s.chan /\ t.hist = s.hist
    BY <1>5 DEF States
  <2>2. Room(t.gpu, {0})
    BY <2>1, WalkIs, RoomForNone DEF ByNodes
  <2>3. Len(t.walk.words) = 0 /\ Len(t.walk.nodes) = 0 /\ t.walk.words = <<>> /\ ~t.walk.live
    BY <2>1, NoWalkHas
  <2>4. ~t.hist.late => Whole(t, <<>>)
    BY <1>5, <2>1, SameWhole DEF ByNodes
  <2> QED
    BY <1>3, <2>2, <2>3, <2>4 DEF ByNodes
<1>6. ASSUME t = EndWalk(s), s.walk.words = <<>>, s.walk.nodes = <<>> PROVE ByNodes(t)
  <2>1. t.gpu = s.gpu /\ t.walk = NoWalk /\ t.hist = [s.hist EXCEPT !.stale = FALSE]
    BY <1>6, EndWalkIs
  <2>2. t.hist.torn = s.hist.torn
    BY <1>2, <2>1 DEF Hists
  <2> QED
    BY <1>3, <1>6, <2>1, <2>2, NoWalkHas, SameNodes
<1>7. ASSUME t = Admit(s), s.walk.header, s.chan.start, RequestsNode(s.gpu) PROVE ByNodes(t)
  <2>1. /\ t.gpu = s.gpu /\ t.hist = s.hist
        /\ s.walk.nodes # <<>> /\ s.walk.words = <<>>
        /\ t.walk.words = Head(s.walk.nodes) /\ t.walk.nodes = Tail(s.walk.nodes)
    BY <1>7, AdmitIs
  <2>2. PICK nodes \in Seq(Node) : nodes = s.walk.nodes /\ nodes # <<>>
    BY <2>1, WalkIs
  <2>3. PICK n \in Nat \ {0} : n = Len(nodes)
    BY <2>2, LenProperties, EmptySeq
  <2>4. PICK node \in Seq(Word) : node = Head(nodes)
    BY <2>2, AllWordsIs
  <2>5. WholeNode(node)
    <3>1. 1 \in 1..n /\ node = nodes[1]
      BY <2>2, <2>3, <2>4
    <3> QED
      BY <2>2, <2>3, <3>1 DEF ByNodes
  <2>6. ASSUME NEW i \in 1..Len(t.walk.nodes) PROVE WholeNode(t.walk.nodes[i])
    <3>1. PICK rest \in Seq(Node) : rest = Tail(nodes)
      BY <2>2, HeadTailProperties
    <3>2. Len(rest) = n - 1 /\ \A j \in 1..n - 1 : rest[j] = nodes[j + 1]
      BY <2>2, <2>3, <3>1, HeadTailProperties
    <3>3. t.walk.nodes = rest /\ i \in 1..n - 1 /\ i + 1 \in 1..n
      BY <2>1, <2>2, <2>3, <2>6, <3>1, <3>2
    <3>4. WholeNode(nodes[i + 1])
      BY <2>2, <2>3, <3>3 DEF ByNodes
    <3> QED
      BY <3>2, <3>3, <3>4
  <2>7. Room(t.gpu, {Len(t.walk.words)})
    <3>1. PICK len \in Nat : len = Len(node) /\ len <= Depth + 1
      BY <2>5, LenProperties DEF WholeNode
    <3>2. PICK g \in Gpus : g = s.gpu
      BY WalkIs
    <3>3. Fits(g, len)
      BY <1>7, <3>1, <3>2, AdmittedFits
    <3>4. Room(g, {len})
      BY <3>2, <3>3 DEF Room, ByNodes
    <3> QED
      BY <2>1, <2>2, <2>4, <3>1, <3>2, <3>4
  <2>8. ASSUME ~t.hist.late PROVE Whole(t, t.walk.words)
    <3>1. Whole(s, <<>>)
      BY <2>1, <2>8 DEF ByNodes
    <3>2. PICK fifo \in Seq(Word) : fifo = s.gpu.fifo
      BY WalkIs
    <3>3. PICK upload \in Nat : upload = s.gpu.upload
      BY WalkIs
    <3>4. Packets(fifo, upload)
      <4>1. Join(fifo, <<>>) = fifo
        BY JoinNone
      <4> QED
        BY <3>1, <3>2, <3>3, <4>1 DEF Whole
    <3>5. Packets(Join(fifo, node), upload)
      BY <2>5, <3>4, PacketsJoin DEF WholeNode
    <3> QED
      BY <2>1, <2>2, <2>4, <3>1, <3>2, <3>3, <3>5 DEF Whole
  <2> QED
    BY <1>3, <1>start, <1>7, <2>6, <2>7, <2>8 DEF ByNodes
<1>8. ASSUME t = PushWord(s), s.walk.words # <<>>, HasRoom(s.gpu), s.chan.start PROVE ByNodes(t)
  <2>1. HoldsNodes(s)
    BY DEF ByNodes, HoldsNodes
  <2>2. HoldsNodes(t)
    BY <1>8, <2>1, PushKeepsNodes
  <2> QED
    BY <1>start, <1>8, <2>2 DEF ByNodes, HoldsNodes
<1>9. ASSUME t = [s EXCEPT !.walk = [s.walk EXCEPT !.setup = @ - 1]] PROVE ByNodes(t)
  <2>1. PICK w : w = [s.walk EXCEPT !.setup = @ - 1]
    OBVIOUS
  <2>2. w.words = s.walk.words /\ w.nodes = s.walk.nodes /\ w.live = s.walk.live
    BY <1>2, <2>1 DEF Walks
  <2> QED
    BY <1>4, <1>9, <2>1, <2>2
<1>10. ASSUME t = [s EXCEPT !.walk = [s.walk EXCEPT !.header = TRUE]] PROVE ByNodes(t)
  <2>1. PICK w : w = [s.walk EXCEPT !.header = TRUE]
    OBVIOUS
  <2>2. w.words = s.walk.words /\ w.nodes = s.walk.nodes /\ w.live = s.walk.live
    BY <1>2, <2>1 DEF Walks
  <2> QED
    BY <1>4, <1>10, <2>1, <2>2
<1>11. ByNodes(t)
  BY <1>1, <1>5, <1>6, <1>7, <1>8, <1>9, <1>10, WalkStepCases
<1> QED
  BY <1>1, <1>11

LEMMA WalkKeepsLists ==
  ASSUME NEW L, NEW s \in States(L), Shape(s), ByLists(s)
  PROVE  ByLists(WalkStep(s))
<1>1. PICK t \in States(L) : t = WalkStep(s)
  BY WalkStepKeeps
<1>2. s.chan \in Chans(L) /\ s.walk \in Walks /\ s.hist \in Hists
  BY DEF States
<1>3. /\ t.hist.dropped = s.hist.dropped /\ t.hist.late = s.hist.late
      /\ t.chan = [s.chan EXCEPT !.event = t.chan.event]
      /\ t.walk.live => s.walk.live
  BY <1>1, WalkStepKeeps
<1>start. t.chan.start = s.chan.start
  BY <1>2, <1>3 DEF Chans
<1>live. ~t.hist.late /\ t.walk.live => t.chan.start
  BY <1>3, <1>start DEF ByLists
<1>4. ASSUME NEW w, t = [s EXCEPT !.walk = w], w.words = s.walk.words, w.nodes = s.walk.nodes
      PROVE  ByLists(t)
  <2>1. t.gpu = s.gpu /\ t.walk = w /\ t.chan = s.chan /\ t.hist = s.hist
    BY <1>4 DEF States
  <2> QED
    BY <1>4, <1>live, <2>1, SameLists
<1>5. ASSUME s.walk.live, ~s.chan.start PROVE ByLists(t)
  BY <1>3, <1>5 DEF ByLists
<1>6. ASSUME t = EndWalk(s), s.walk.words = <<>>, s.walk.nodes = <<>> PROVE ByLists(t)
  <2>1. t.gpu = s.gpu /\ t.walk = NoWalk /\ t.hist = [s.hist EXCEPT !.stale = FALSE]
    BY <1>6, EndWalkIs
  <2>2. t.hist.torn = s.hist.torn
    BY <1>2, <2>1 DEF Hists
  <2> QED
    BY <1>3, <1>live, <1>6, <2>1, <2>2, NoWalkHas, SameLists
<1>7. ASSUME t = Admit(s), s.walk.header PROVE ByLists(t)
  <2>1. /\ t.gpu = s.gpu /\ t.hist = s.hist
        /\ s.walk.nodes # <<>> /\ s.walk.words = <<>>
        /\ t.walk.words = Head(s.walk.nodes) /\ t.walk.nodes = Tail(s.walk.nodes)
    BY <1>7, AdmitIs
  <2>2. PICK nodes \in Seq(Node) : nodes = s.walk.nodes /\ nodes # <<>>
    BY <2>1, WalkIs
  <2>3. PICK all \in Seq(Word) : all = AllWords(nodes)
    BY AllWordsIs
  <2>4. all = Join(Head(nodes), AllWords(Tail(nodes)))
    BY <2>2, <2>3, AllWordsIs
  <2>5. Join(<<>>, all) = all
    BY JoinNone
  <2>6. Join(s.walk.words, AllWords(s.walk.nodes)) = Join(t.walk.words, AllWords(t.walk.nodes))
    BY <2>1, <2>2, <2>3, <2>4, <2>5
  <2>7. ~t.hist.late => Whole(t, Join(t.walk.words, AllWords(t.walk.nodes)))
    BY <2>1, <2>6, SameWhole DEF ByLists
  <2> QED
    BY <1>3, <1>live, <2>7 DEF ByLists
<1>8. ASSUME t = PushWord(s), s.walk.words # <<>>, HasRoom(s.gpu) PROVE ByLists(t)
  <2>1. t.walk = [s.walk EXCEPT !.words = Tail(@)]
    BY <1>8, PushWordIs
  <2>2. t.walk.words = Tail(s.walk.words) /\ t.walk.nodes = s.walk.nodes
    BY <1>2, <2>1 DEF Walks
  <2>3. PICK r \in Seq(Word) : r = AllWords(s.walk.nodes)
    BY WalkIs
  <2>4. PICK none \in SUBSET Nat : none = {}
    OBVIOUS
  <2>5. Room(s.gpu, none) /\ \A count \in none : count + 1 \in none
    BY <2>4 DEF Shape
  <2>6. Whole(s, Join(s.walk.words, r)) => Whole(t, Join(Tail(s.walk.words), r))
    BY <1>8, <2>5, PushWordMoves
  <2>7. ~t.hist.late => Whole(t, Join(t.walk.words, AllWords(t.walk.nodes)))
    BY <1>3, <2>2, <2>3, <2>6 DEF ByLists
  <2> QED
    BY <1>3, <1>live, <2>7 DEF ByLists
<1>9. ASSUME t = [s EXCEPT !.walk = [s.walk EXCEPT !.setup = @ - 1]] PROVE ByLists(t)
  <2>1. PICK w : w = [s.walk EXCEPT !.setup = @ - 1]
    OBVIOUS
  <2>2. w.words = s.walk.words /\ w.nodes = s.walk.nodes
    BY <1>2, <2>1 DEF Walks
  <2> QED
    BY <1>4, <1>9, <2>1, <2>2
<1>10. ASSUME t = [s EXCEPT !.walk = [s.walk EXCEPT !.header = TRUE]] PROVE ByLists(t)
  <2>1. PICK w : w = [s.walk EXCEPT !.header = TRUE]
    OBVIOUS
  <2>2. w.words = s.walk.words /\ w.nodes = s.walk.nodes
    BY <1>2, <2>1 DEF Walks
  <2> QED
    BY <1>4, <1>10, <2>1, <2>2
<1>11. ByLists(t)
  BY <1>1, <1>5, <1>6, <1>7, <1>8, <1>9, <1>10, WalkStepCases
<1> QED
  BY <1>1, <1>11
\* What the three keep of each other is kept by a clock.
LEMMA StepKeeps ==
  ASSUME NEW L, NEW s \in States(L), Shape(s)
  PROVE  LET t == StepCycle(s)
         IN  /\ Shape(t)
             /\ ByNodes(s) => ByNodes(t)
             /\ ByLists(s) => ByLists(t)
             /\ t.walk.live => t.chan.start
             /\ t.chan.waiting = s.chan.waiting
<1>1. PICK one \in Nat : one = 1 /\ one # 0
  OBVIOUS
<1>2. PICK u \in States(L) : u = DecayBusy(s, one)
  BY <1>1, DecayKeeps
<1>3. PICK t \in States(L) : t = WalkStep(u)
  BY WalkStepKeeps
<1>4. StepCycle(s) = t
  BY <1>1, <1>2, <1>3 DEF StepCycle
<1>5. Shape(u)
  BY <1>1, <1>2, DecayKeepsShape
<1>6. Shape(t)
  BY <1>3, <1>5, WalkKeepsShape
<1>7. ByNodes(s) => ByNodes(t)
  <2>1. ByNodes(s) => ByNodes(u)
    BY <1>1, <1>2, DecayKeepsNodes
  <2> QED
    BY <1>3, <1>5, <2>1, WalkKeepsNodes
<1>8. ByLists(s) => ByLists(t)
  <2>1. ByLists(s) => ByLists(u)
    BY <1>1, <1>2, DecayKeepsLists
  <2> QED
    BY <1>3, <1>5, <2>1, WalkKeepsLists
<1>9. t.chan.waiting = u.chan.waiting /\ t.chan.start = u.chan.start /\ u.chan = s.chan
  <2>1. t.chan = [u.chan EXCEPT !.event = t.chan.event]
    BY <1>3, WalkStepKeeps
  <2>2. u.chan \in Chans(L)
    BY DEF States
  <2>3. u.chan = s.chan
    BY <1>1, <1>2, DecayKeeps
  <2>4. t.chan.waiting = u.chan.waiting /\ t.chan.start = u.chan.start
    BY <2>1, <2>2 DEF Chans
  <2> QED
    BY <2>3, <2>4
<1>10. t.walk.live => t.chan.start
  <2>1. t.walk.live => u.walk.live
    BY <1>3, WalkStepKeeps
  <2>2. u.walk.live /\ ~u.chan.start => t = [u EXCEPT !.walk = NoWalk]
    BY <1>3 DEF WalkStep
  <2>3. u.walk.live /\ ~u.chan.start => t.walk = NoWalk
    BY <2>2 DEF States
  <2> QED
    BY <1>9, <2>1, <2>3, NoWalkHas
<1> QED
  BY <1>4, <1>6, <1>7, <1>8, <1>9, <1>10

\* Lists of software, as the two kinds of programs link them.
WholeNodes(L) == \A list \in L : \A i \in 1..Len(list) : WholeNode(list[i])
WholeLists(L) == \A list \in L : Packets(AllWords(list), 0)

\* run_dma_channel, with no walk.
LEMMA RunChannelKeepsAll ==
  ASSUME NEW L \in ListSets, NEW s \in States(L), ~Ready(s.gpu), Room(s.gpu, {}),
         s.walk = NoWalk, s.chan.start /\ s.chan.event => s.hist.stale
  PROVE  LET t == RunChannel(s)
         IN  /\ Shape(t)
             /\ WholeNodes(L) /\ ByNodes(s) => ByNodes(t)
             /\ WholeLists(L) /\ ByLists(s) => ByLists(t)
             /\ t.walk.live => t.chan.start
<1>1. PICK t \in States(L) : t = RunChannel(s)
  BY RunChannelKeeps
<1>2. s.chan \in Chans(L) /\ s.hist \in Hists /\ s.gpu \in Gpus
  BY DEF States
<1>3. /\ t.gpu = s.gpu /\ t.hist.torn = s.hist.torn /\ t.hist.dropped = s.hist.dropped
      /\ t.hist.late = s.hist.late
  BY <1>1, RunChannelKeeps
<1> DEFINE Kept == /\ Shape(t)
                   /\ WholeNodes(L) /\ ByNodes(s) => ByNodes(t)
                   /\ WholeLists(L) /\ ByLists(s) => ByLists(t)
                   /\ t.walk.live => t.chan.start
<1>4. ASSUME t.walk = s.walk PROVE Kept
  <2>1. ~t.walk.live /\ t.walk = NoWalk
    BY <1>4, NoWalkHas
  <2>2. Shape(t)
    BY <1>3, <2>1 DEF Shape
  <2>3. ByNodes(s) => ByNodes(t)
    BY <1>3, <1>4, <2>1, SameNodes
  <2>4. ByLists(s) => ByLists(t)
    BY <1>3, <1>4, <2>1, SameLists
  <2> QED
    BY <2>1, <2>2, <2>3, <2>4
<1>5. ASSUME /\ s.chan.start /\ s.chan.mode = "list"
             /\ t = [s EXCEPT !.quiet = 0, !.chan = [s.chan EXCEPT !.waiting = FALSE],
                              !.walk = NewWalk(s.chan.list)]
      PROVE  Kept
  <2>1. PICK list \in L : list = s.chan.list /\ list # <<>>
    BY <1>2, <1>5 DEF Chans
  <2>2. list \in Seq(Node)
    BY DEF ListSets
  <2>3. t.walk = NewWalk(list) /\ t.chan = [s.chan EXCEPT !.waiting = FALSE] /\ t.hist = s.hist
    BY <1>5, <2>1 DEF States
  <2>4. t.walk.words = <<>> /\ t.walk.nodes = list /\ t.walk.live
    BY <2>3 DEF NewWalk
  <2>5. ~t.chan.waiting /\ t.chan.start /\ t.chan.event = s.chan.event
    BY <1>2, <1>5, <2>3 DEF Chans
  <2>6. Shape(t)
    BY <1>3, <1>5, <2>3, <2>4, <2>5 DEF Shape
  <2>7. ASSUME WholeNodes(L), ByNodes(s) PROVE ByNodes(t)
    <3>1. \A i \in 1..Len(t.walk.nodes) : WholeNode(t.walk.nodes[i])
      BY <2>1, <2>4, <2>7 DEF WholeNodes
    <3>2. Room(t.gpu, {Len(t.walk.words)})
      BY <1>3, <2>4, <2>7, NoWalkHas DEF ByNodes
    <3>3. ~t.hist.late => Whole(t, t.walk.words)
      BY <1>3, <2>4, <2>7, NoWalkHas, SameWhole DEF ByNodes
    <3>4. ~t.hist.dropped
      BY <1>3, <2>7 DEF ByNodes
    <3> QED
      BY <2>5, <3>1, <3>2, <3>3, <3>4 DEF ByNodes
  <2>8. ASSUME WholeLists(L), ByLists(s) PROVE ByLists(t)
    <3>1. ASSUME ~t.hist.late PROVE Whole(t, Join(t.walk.words, AllWords(t.walk.nodes)))
      <4>1. PICK none \in Seq(Word) : none = <<>>
        <5>1. <<>> \in Seq(Word)
          OBVIOUS
        <5> QED
          BY <5>1
      <4>2. PICK all \in Seq(Word) : all = AllWords(list)
        BY <2>2, AllWordsIs
      <4>3. PICK fifo \in Seq(Word) : fifo = s.gpu.fifo
        BY WalkIs
      <4>4. PICK upload \in Nat : upload = s.gpu.upload
        BY WalkIs
      <4>5. Join(none, none) = none /\ Join(fifo, none) = fifo /\ Join(none, all) = all
        BY <4>1, JoinNone
      <4>6. AllWords(s.walk.nodes) = none /\ s.walk.words = none
        BY <4>1, WalkIs, AllWordsIs, NoWalkHas
      <4>7. Whole(s, none)
        BY <1>3, <2>8, <3>1, <4>5, <4>6 DEF ByLists
      <4>8. Packets(fifo, upload)
        BY <4>3, <4>4, <4>5, <4>7 DEF Whole
      <4>9. Packets(all, 0)
        BY <2>8, <4>2 DEF WholeLists
      <4>10. Packets(Join(fifo, all), upload)
        BY <4>8, <4>9, PacketsJoin
      <4>11. Join(t.walk.words, AllWords(t.walk.nodes)) = all
        BY <2>4, <4>1, <4>2, <4>5
      <4> QED
        BY <1>3, <4>3, <4>4, <4>7, <4>10, <4>11 DEF Whole
    <3>2. ~t.hist.dropped
      BY <1>3, <2>8 DEF ByLists
    <3> QED
      BY <2>5, <3>1, <3>2 DEF ByLists
  <2> QED
    BY <2>5, <2>6, <2>7, <2>8
<1>6. ASSUME NEW c, NEW h, t = [s EXCEPT !.quiet = 0, !.hist = h, !.chan = c]
      PROVE  t.walk = s.walk
  BY <1>6 DEF States
<1>7. ASSUME NEW c, t = [s EXCEPT !.quiet = 0, !.chan = c] PROVE t.walk = s.walk
  BY <1>7 DEF States
<1>8. Kept
  <2>1. \/ t.walk = s.walk
        \/ /\ s.chan.start /\ s.chan.mode = "list"
           /\ t = [s EXCEPT !.quiet = 0, !.chan = [s.chan EXCEPT !.waiting = FALSE],
                            !.walk = NewWalk(s.chan.list)]
    <3>1. CASE ~s.chan.start
      <4>1. t = [s EXCEPT !.quiet = 0, !.chan = [s.chan EXCEPT !.waiting = FALSE]]
        BY <1>1, <3>1, RunChannelCases
      <4> QED
        BY <1>7, <4>1
    <3>2. CASE s.chan.start /\ MustWait(s)
      <4>1. t = [s EXCEPT !.quiet = 0, !.chan = [s.chan EXCEPT !.waiting = TRUE]]
        BY <1>1, <3>2, RunChannelCases
      <4> QED
        BY <1>7, <4>1
    <3>3. CASE s.chan.start /\ ~MustWait(s) /\ s.chan.mode = "list"
      <4>1. t = [s EXCEPT !.quiet = 0, !.chan = [s.chan EXCEPT !.waiting = FALSE],
                          !.walk = NewWalk(s.chan.list)]
        BY <1>1, <3>3, RunChannelCases
      <4> QED
        BY <3>3, <4>1
    <3>4. CASE s.chan.start /\ ~MustWait(s) /\ s.chan.mode # "list"
      <4>1. t = [s EXCEPT !.quiet = 0, !.hist = [s.hist EXCEPT !.stale = FALSE],
                          !.chan = [s.chan EXCEPT !.waiting = FALSE, !.event = TRUE]]
        BY <1>1, <3>4, RunChannelCases
      <4> QED
        BY <1>6, <4>1
    <3> QED
      BY <3>1, <3>2, <3>3, <3>4
  <2> HIDE DEF Kept
  <2> QED
    BY <1>4, <1>5, <2>1
<1> QED
  BY <1>1, <1>8

\* The plain clocks, and the waiting kick tried again.
LEMMA PlainKeepsAll ==
  ASSUME NEW L \in ListSets, NEW s \in States(L), NEW n \in Nat \ {0}, Shape(s)
  PROVE  LET t == PlainAdvance(s, n)
         IN  /\ Shape(t)
             /\ WholeNodes(L) /\ ByNodes(s) => ByNodes(t)
             /\ WholeLists(L) /\ ByLists(s) => ByLists(t)
             /\ t.walk.live => t.chan.start
<1>1. PICK p \in [0..n -> States(L)] : p[0] = s /\ p[n] = Stepped(s, n) /\ Cycled(p, n)
  BY SteppedIs
<1> DEFINE G == {r \in States(L) : /\ Shape(r)
                                   /\ ByNodes(s) => ByNodes(r)
                                   /\ ByLists(s) => ByLists(r)}
<1>2. p[0] \in G
  BY <1>1
<1>3. ASSUME NEW k \in 0..n, k # 0, p[k - 1] \in G PROVE p[k] \in G
  <2>1. PICK r \in G : r = p[k - 1]
    BY <1>3
  <2>2. p[k] = StepCycle(r)
    BY <1>1, <1>3, <2>1 DEF Cycled
  <2>3. p[k] \in States(L)
    OBVIOUS
  <2> QED
    BY <2>1, <2>2, <2>3, StepKeeps
<1>4. \A k \in 0..n : p[k] \in G
  <2> HIDE DEF G
  <2> QED
    BY <1>2, <1>3, RunStays
<1>5. PICK u \in G : u = p[n]
  <2>1. n \in 0..n
    OBVIOUS
  <2> HIDE DEF G
  <2> QED
    BY <1>4, <2>1
<1>6. u.walk.live => u.chan.start
  <2>1. n \in 0..n /\ n - 1 \in 0..n
    OBVIOUS
  <2>2. PICK r \in States(L) : r = p[n - 1] /\ Shape(r)
    BY <1>4, <2>1
  <2>3. u = StepCycle(r)
    BY <1>1, <1>5, <2>1, <2>2 DEF Cycled
  <2> QED
    BY <2>2, <2>3, StepKeeps
<1>7. PlainAdvance(s, n) = IF u.chan.waiting THEN RetryWaiting(u) ELSE u
  BY <1>1, <1>5 DEF PlainAdvance, Stepped
<1>8. CASE ~u.chan.waiting
  BY <1>5, <1>6, <1>7, <1>8
<1>9. CASE u.chan.waiting
  <2>1. u.walk = NoWalk /\ ~u.walk.live /\ ~Ready(u.gpu) /\ Room(u.gpu, {})
    BY <1>5, <1>9 DEF Shape
  <2>2. CASE u.chan.event
    <3>1. PICK t : t = [u EXCEPT !.chan = [u.chan EXCEPT !.waiting = FALSE]]
      OBVIOUS
    <3>2. RetryWaiting(u) = t
      BY <2>2, <3>1 DEF RetryWaiting, States
    <3>3. t.gpu = u.gpu /\ t.walk = u.walk /\ t.hist = u.hist
      BY <3>1 DEF States
    <3>4. ~t.chan.waiting
      BY <3>1 DEF States, Chans
    <3>5. Shape(t)
      BY <2>1, <3>3, <3>4 DEF Shape
    <3>6. ByNodes(u) => ByNodes(t)
      BY <2>1, <3>3, SameNodes
    <3>7. ByLists(u) => ByLists(t)
      BY <2>1, <3>3, SameLists
    <3> QED
      BY <1>5, <1>7, <1>9, <2>1, <3>2, <3>3, <3>5, <3>6, <3>7
  <2>3. CASE ~u.chan.event
    <3>1. RetryWaiting(u) = RunChannel(u)
      BY <2>3 DEF RetryWaiting
    <3>2. PICK r \in States(L) : r = u
      BY <1>5
    <3>3. /\ Shape(RunChannel(r))
          /\ WholeNodes(L) /\ ByNodes(r) => ByNodes(RunChannel(r))
          /\ WholeLists(L) /\ ByLists(r) => ByLists(RunChannel(r))
          /\ RunChannel(r).walk.live => RunChannel(r).chan.start
      BY <2>1, <2>3, <3>2, RunChannelKeepsAll
    <3> QED
      BY <1>5, <1>7, <1>9, <3>1, <3>2, <3>3
  <2> QED
    BY <2>2, <2>3
<1> QED
  BY <1>8, <1>9

-----------------------------------------------------------------------------
(* What the actions keep. *)

\* The three together, for software of the lists L that does `does`.
Arriving(s, L, does) ==
  /\ Shape(s)
  /\ WholeNodes(L) => ByNodes(s)
  /\ WholeLists(L) /\ "stop" \notin does => ByLists(s)

\* What the three look at; DPCR is not.
LEMMA SameArriving ==
  ASSUME NEW s, NEW t, NEW L, NEW does, Arriving(s, L, does),
         t.chan.start = s.chan.start, t.chan.waiting = s.chan.waiting,
         t.chan.event = s.chan.event,
         t.walk = s.walk, t.gpu = s.gpu, t.hist = s.hist
  PROVE  Arriving(t, L, does)
<1>1. Shape(t)
  BY DEF Arriving, Shape
<1>2. ByNodes(s) => ByNodes(t)
  BY SameNodes
<1>3. ByLists(s) => ByLists(t)
  BY SameLists DEF ByLists
<1> QED
  BY <1>1, <1>2, <1>3 DEF Arriving

LEMMA AdvanceArrives ==
  ASSUME NEW L \in ListSets, NEW s \in States(L), Sound(s), NEW n \in Nat \ {0}, NEW does,
         Arriving(s, L, does)
  PROVE  Arriving(Advance(s, n), L, does)
<1>1. PICK t \in States(L) : t = PlainAdvance(s, n)
  BY AdvanceIs
<1>2. Arriving(t, L, does)
  BY <1>1, PlainKeepsAll DEF Arriving
<1>3. PICK u \in States(L) : u = Advance(s, n)
  BY AdvanceIs
<1>4. u.chan = t.chan /\ u.walk = t.walk /\ u.gpu = t.gpu /\ u.hist = t.hist
  BY <1>1, <1>3, AdvanceIs
<1> QED
  BY <1>2, <1>3, <1>4, SameArriving

\* After the clock of a store, a walk that goes on has the channel's start bit.
LEMMA StoredArrives ==
  ASSUME NEW L \in ListSets, NEW s \in States(L), Sound(s), NEW does, Arriving(s, L, does)
  PROVE  LET t == StoredFrom(s)
         IN  Arriving(t, L, does) /\ (t.walk.live => t.chan.start)
<1>1. PICK n \in Nat \ {0} : n = 1
  OBVIOUS
<1>2. PICK t \in States(L) : t = PlainAdvance(s, n)
  BY AdvanceIs
<1>3. Arriving(t, L, does) /\ (t.walk.live => t.chan.start)
  BY <1>2, PlainKeepsAll DEF Arriving
<1>4. PICK u \in States(L) : u = StoredFrom(s)
  BY StoredIs
<1>5. u.chan = t.chan /\ u.walk = t.walk /\ u.gpu = t.gpu /\ u.hist = t.hist
  BY <1>1, <1>2, <1>4, StoredIs
<1>6. Arriving(u, L, does)
  BY <1>3, <1>5, SameArriving
<1> QED
  BY <1>3, <1>4, <1>5, <1>6

LEMMA KickArrives ==
  ASSUME NEW L \in ListSets, NEW s \in States(L), NEW does, Arriving(s, L, does),
         s.walk.live => s.chan.start, ~s.chan.start,
         NEW mode \in {"list", "manual"}, NEW list \in L \cup {<<>>},
         mode = "list" => list # <<>>
  PROVE  Arriving(RunChannel(Kicked(s, mode, list)), L, does)
<1>1. PICK v \in States(L) : v = Kicked(s, mode, list)
  BY KickedIs
<1>2. v.walk = s.walk /\ v.gpu = s.gpu
  BY <1>1 DEF Kicked, States
<1>3. s.chan \in Chans(L) /\ s.hist \in Hists
  BY DEF States
<1>4. v.chan.start /\ v.chan.event = s.chan.event
  BY <1>1, <1>3 DEF Kicked, States, Chans
<1>5. /\ v.hist.torn = s.hist.torn /\ v.hist.dropped = s.hist.dropped
      /\ v.hist.late = s.hist.late /\ v.hist.stale = s.chan.event
  BY <1>1, <1>3 DEF Kicked, States, Hists
<1>6. ~Ready(v.gpu) /\ Room(v.gpu, {}) /\ v.walk = NoWalk
  BY <1>2 DEF Arriving, Shape
<1>7. v.chan.start /\ v.chan.event => v.hist.stale
  BY <1>4, <1>5
<1>8. ByNodes(s) => ByNodes(v)
  BY <1>2, <1>4, <1>5, SameNodes
<1>9. ByLists(s) => ByLists(v)
  BY <1>2, <1>4, <1>5, SameLists
<1>10. PICK t : t = RunChannel(v)
  OBVIOUS
<1>11. /\ Shape(t)
       /\ WholeNodes(L) /\ ByNodes(v) => ByNodes(t)
       /\ WholeLists(L) /\ ByLists(v) => ByLists(t)
  BY <1>6, <1>7, <1>10, RunChannelKeepsAll
<1> QED
  BY <1>1, <1>8, <1>9, <1>10, <1>11 DEF Arriving

\* A word that finds no room leaves the FIFO as it is.
LEMMA PushWordShut ==
  ASSUME NEW L, NEW s \in States(L), s.walk.words # <<>>, ~HasRoom(s.gpu)
  PROVE  PushWord(s).gpu = s.gpu
<1>1. PICK u \in States(L) : u = WordGone(s)
  BY WordGoneIs
<1>2. PICK word \in Word : word = Head(s.walk.words)
  BY WordGoneIs
<1>3. PushWord(s) = Push(u, word)
  BY <1>1, <1>2 DEF PushWord, WordGone
<1>4. u.gpu = s.gpu
  BY <1>1, WordGoneIs
<1> QED
  BY <1>3, <1>4, PushIs

LEMMA StopArrives ==
  ASSUME NEW L, NEW s \in States(L), NEW does, "stop" \in does, Arriving(s, L, does),
         NEW v, v = [s EXCEPT !.chan = [s.chan EXCEPT !.start = FALSE]]
  PROVE  Arriving(FinishNode(v), L, does)
<1>1. v \in States(L)
  BY DEF States, Chans
<1>2. /\ v.walk = s.walk /\ v.gpu = s.gpu /\ v.hist = s.hist
      /\ ~v.chan.start /\ v.chan.waiting = s.chan.waiting
  BY DEF States, Chans
<1> DEFINE G == {r \in States(L) : /\ r.chan = v.chan /\ r.walk.live = v.walk.live
                                   /\ ~r.walk.live => r.walk = NoWalk
                                   /\ ~Ready(r.gpu) /\ Room(r.gpu, {})
                                   /\ WholeNodes(L) => HoldsNodes(r)}
<1>3. v \in G
  <2>1. ~Ready(v.gpu) /\ Room(v.gpu, {}) /\ (~v.walk.live => v.walk = NoWalk)
    BY <1>2 DEF Arriving, Shape
  <2>2. WholeNodes(L) => HoldsNodes(v)
    <3>1. WholeNodes(L) => HoldsNodes(s)
      BY DEF Arriving, ByNodes, HoldsNodes
    <3> QED
      BY <1>2, <3>1, SameWhole DEF HoldsNodes
  <2> QED
    BY <1>1, <2>1, <2>2
<1>4. ASSUME NEW r \in G, r.walk.words # <<>> PROVE PushWord(r) \in G
  <2>1. PICK t \in States(L) : t = PushWord(r)
    BY <1>4, PushWordIs
  <2>2. r.walk.live
    BY <1>4, NoWalkHas
  <2>3. t.chan = v.chan /\ t.walk = [r.walk EXCEPT !.words = Tail(@)]
    BY <1>4, <2>1, PushWordIs
  <2>4. r.walk \in Walks
    BY DEF States
  <2>5. t.walk.live = r.walk.live
    BY <2>3, <2>4 DEF Walks
  <2>6. CASE HasRoom(r.gpu)
    <3>1. ~Ready(t.gpu)
      BY <1>4, <2>1, <2>6, PushWordIs
    <3>2. PICK none \in SUBSET Nat : none = {}
      OBVIOUS
    <3>3. Room(t.gpu, {})
      BY <1>4, <2>1, <2>6, <3>2, PushWordMoves
    <3>4. WholeNodes(L) => HoldsNodes(t)
      BY <1>4, <2>1, <2>6, PushKeepsNodes
    <3> QED
      BY <2>1, <2>2, <2>3, <2>5, <3>1, <3>3, <3>4
  <2>7. CASE ~HasRoom(r.gpu)
    <3>1. t.gpu = r.gpu
      BY <1>4, <2>1, <2>7, PushWordShut
    <3>2. ~WholeNodes(L)
      <4>1. SUFFICES ASSUME HoldsNodes(r) PROVE FALSE
        BY <1>4
      <4>2. PICK words \in Seq(Word) : words = r.walk.words /\ words # <<>>
        BY <1>4, WalkIs
      <4>3. PICK len \in Nat \ {0} : len = Len(words)
        BY <4>2, LenProperties, EmptySeq
      <4>4. PICK g \in Gpus : g = r.gpu
        BY WalkIs
      <4>5. Fits(g, len)
        BY <4>1, <4>2, <4>3, <4>4 DEF HoldsNodes, Room
      <4>6. HasRoom(g)
        BY <1>4, <4>4, <4>5, FitsHasRoom
      <4> QED
        BY <2>7, <4>4, <4>6
    <3> QED
      BY <1>4, <2>1, <2>2, <2>3, <2>5, <3>1, <3>2
  <2> QED
    BY <2>1, <2>6, <2>7
<1>5. PICK t \in G : t = FinishNode(v) /\ t.walk.words = <<>>
  <2>1. G \in SUBSET States(L)
    OBVIOUS
  <2>2. \A r \in G : r.walk.words # <<>> => PushWord(r) \in G
    BY <1>4
  <2> HIDE DEF G
  <2> QED
    BY <1>3, <2>1, <2>2, FinishStays
<1>6. Shape(t)
  <2>1. t.chan.waiting => ~t.walk.live
    BY <1>2, <1>5 DEF Arriving, Shape
  <2>2. ~t.chan.start
    BY <1>2, <1>5
  <2> QED
    BY <1>5, <2>1, <2>2 DEF Shape
<1>7. WholeNodes(L) => ByNodes(t)
  BY <1>5 DEF ByNodes, HoldsNodes
<1> QED
  BY <1>5, <1>6, <1>7 DEF Arriving

LEMMA DueArrives ==
  ASSUME NEW L, NEW s \in States(L), NEW does, Arriving(s, L, does), s.chan.event,
         NEW t, t.walk = s.walk, t.gpu = s.gpu,
         t.chan = [s.chan EXCEPT !.event = FALSE, !.start = FALSE],
         t.hist.torn = s.hist.torn, t.hist.dropped = s.hist.dropped,
         t.hist.late <=> s.hist.late \/ s.hist.stale
  PROVE  Arriving(t, L, does)
<1>1. ~t.chan.start /\ ~t.chan.event /\ t.chan.waiting = s.chan.waiting
  BY DEF States, Chans
<1>2. Shape(t)
  BY <1>1 DEF Arriving, Shape
<1>3. ~t.hist.late => ~s.hist.late /\ ~(s.walk.live /\ s.chan.start)
  BY DEF Arriving, Shape
<1>4. ByNodes(s) => ByNodes(t)
  BY <1>3, SameNodes
<1>5. ByLists(s) => ByLists(t)
  <2>1. ByLists(s) => (~t.hist.late => ~t.walk.live)
    BY <1>3 DEF ByLists
  <2> QED
    BY <1>3, <2>1, SameLists
<1> QED
  BY <1>2, <1>4, <1>5 DEF Arriving

-----------------------------------------------------------------------------
(* What the GPU is sent. *)

\* The inductive invariant of ListsArriveWhole.
ListsArriving == TypesAndSpan /\ Arriving(System, software.lists, software.does)

LEMMA ArrivingInit ==
  Init => ListsArriving
<1> SUFFICES ASSUME Init PROVE ListsArriving
  OBVIOUS
<1>1. TypesAndSpan
  BY TypesInit
<1>2. PICK s \in States(software.lists) : s = System
  BY <1>1 DEF TypesAndSpan
<1>3. /\ s.walk = NoWalk /\ s.gpu.fifo = <<>> /\ s.gpu.upload = 0
      /\ ~s.chan.waiting /\ ~s.chan.start
      /\ ~s.hist.torn /\ ~s.hist.dropped
  BY <1>2, SystemIs DEF Init
<1>4. ~Ready(s.gpu)
  BY <1>3 DEF Ready
<1>5. PICK g \in Gpus : g = s.gpu
  BY WalkIs
<1>6. Room(g, {})
  <2>1. Len(g.fifo) = 0 /\ Capacity(g) = Depth /\ Depth \in Nat
    BY <1>3, <1>5, BoundsAre
  <2> QED
    BY <2>1 DEF Room
<1>7. Room(g, {0})
  <2>1. PICK none \in SUBSET Nat : none = {}
    OBVIOUS
  <2> QED
    BY <1>6, <2>1, RoomForNone
<1>8. PICK none \in Seq(Word) : none = <<>>
  <2>1. <<>> \in Seq(Word)
    OBVIOUS
  <2> QED
    BY <2>1
<1>9. Join(none, none) = none
  BY <1>8, JoinNone
<1>10. Whole(s, none)
  BY <1>3, <1>8, <1>9, PacketsNone DEF Whole
<1>11. /\ s.walk.words = none /\ s.walk.nodes = none /\ ~s.walk.live
       /\ Len(s.walk.words) = 0 /\ Len(s.walk.nodes) = 0
  BY <1>3, <1>8, NoWalkHas
<1>12. Shape(s)
  BY <1>3, <1>4, <1>5, <1>6, <1>11 DEF Shape
<1>13. ByNodes(s)
  BY <1>3, <1>5, <1>7, <1>10, <1>11 DEF ByNodes
<1>14. ByLists(s)
  <2>1. AllWords(s.walk.nodes) = none
    BY <1>8, <1>11, WalkIs, AllWordsIs
  <2> QED
    BY <1>3, <1>9, <1>10, <1>11, <2>1 DEF ByLists
<1> QED
  BY <1>1, <1>2, <1>12, <1>13, <1>14 DEF ListsArriving, Arriving

LEMMA ArrivingNext ==
  ListsArriving /\ [Next]_vars => ListsArriving'
<1> SUFFICES ASSUME ListsArriving, [Next]_vars PROVE ListsArriving'
  OBVIOUS
<1>1. TypesAndSpan /\ TypesAndSpan'
  BY TypesNext DEF ListsArriving
<1>2. PICK L : L = software.lists
  OBVIOUS
<1>3. PICK does : does = software.does
  OBVIOUS
<1>4. PICK s \in States(L) : s = System /\ Sound(s)
  BY <1>1, <1>2 DEF TypesAndSpan
<1>5. L \in ListSets /\ software.stores \in Nat
      /\ \E p \in Programs : software = [p EXCEPT !.stores = software.stores]
  BY <1>1, <1>2, ProgramIs DEF TypesAndSpan
<1>6. Arriving(s, L, does)
  BY <1>2, <1>3, <1>4 DEF ListsArriving
<1>7. ASSUME NEW t \in States(L), Becomes(t), Arriving(t, L, does),
             UNCHANGED software \/ Store
      PROVE  ListsArriving'
  <2>1. System' = t
    BY <1>7, BecomesIs
  <2>2. software'.lists = L /\ software'.does = does
    BY <1>2, <1>3, <1>5, <1>7, StoreIs
  <2> QED
    BY <1>1, <1>7, <2>1, <2>2 DEF ListsArriving
<1>8. PICK u \in States(L) : u = StoredFrom(s) /\ u.quiet = 0
  BY <1>4, <1>5, StoredIs
<1>9. Arriving(u, L, does) /\ (u.walk.live => u.chan.start)
  BY <1>4, <1>5, <1>6, <1>8, StoredArrives
<1>10. Stored = u
  BY <1>4, <1>8 DEF Stored, StoredFrom
<1>11. ASSUME NEW n \in Ticks, Tick(n) PROVE ListsArriving'
  <2>1. n \in Nat \ {0}
    BY TimesAssumption
  <2>2. PICK t \in States(L) : t = Advance(s, n)
    BY <1>4, <1>5, <2>1, AdvanceIs
  <2>3. Arriving(t, L, does)
    BY <1>4, <1>5, <1>6, <2>1, <2>2, AdvanceArrives
  <2>4. Becomes(t) /\ UNCHANGED software
    BY <1>4, <1>11, <2>2 DEF Tick
  <2> QED
    BY <1>7, <2>3, <2>4
<1>12. ASSUME NEW mode \in {"list", "manual"}, NEW list \in L \cup {<<>>},
              mode = "list" => list # <<>>, Kick(mode, list)
       PROVE  ListsArriving'
  <2>1. PICK v \in States(L) : v = Kicked(u, mode, list)
    BY <1>12, KickedIs
  <2>2. PICK t \in States(L) : t = RunChannel(v)
    BY <1>5, RunChannelKeeps
  <2>3. Becomes(t) /\ Store /\ ~u.chan.start
    BY <1>10, <1>12, <2>1, <2>2 DEF Kick, Kicked
  <2>4. Arriving(t, L, does)
    BY <1>5, <1>9, <1>12, <2>1, <2>2, <2>3, KickArrives
  <2> QED
    BY <1>7, <2>3, <2>4
<1>13. ASSUME "stop" \in does, Stop PROVE ListsArriving'
  <2>1. PICK v : v = [u EXCEPT !.chan = [u.chan EXCEPT !.start = FALSE]]
    OBVIOUS
  <2>2. [u.chan EXCEPT !.start = FALSE] \in Chans(L)
    BY DEF States, Chans
  <2>3. v \in States(L)
    BY <2>1, <2>2 DEF States
  <2>4. PICK t \in States(L) : t = FinishNode(v)
    BY <2>3, FinishKeeps
  <2>5. [u EXCEPT !.chan.start = FALSE] = v
    BY <2>1 DEF States
  <2>6. Becomes(t) /\ Store
    BY <1>10, <1>13, <2>4, <2>5 DEF Stop
  <2>7. Arriving(t, L, does)
    BY <1>9, <1>13, <2>1, <2>4, StopArrives
  <2> QED
    BY <1>7, <2>6, <2>7
<1>14. CASE WriteDpcr
  <2>1. PICK t : t = [u EXCEPT !.chan = [u.chan EXCEPT !.enabled = ~@]]
    OBVIOUS
  <2>2. [u.chan EXCEPT !.enabled = ~@] \in Chans(L)
    BY DEF States, Chans
  <2>3. t \in States(L)
    BY <2>1, <2>2 DEF States
  <2>4. [u EXCEPT !.chan.enabled = ~@] = t
    BY <2>1 DEF States
  <2>5. Becomes(t) /\ Store
    BY <1>10, <1>14, <2>4 DEF WriteDpcr
  <2>6. Arriving(t, L, does)
    <3>1. t.walk = u.walk /\ t.gpu = u.gpu /\ t.hist = u.hist
      BY <2>1 DEF States
    <3>2. /\ t.chan.start = u.chan.start /\ t.chan.waiting = u.chan.waiting
          /\ t.chan.event = u.chan.event
      BY <2>1 DEF States, Chans
    <3> QED
      BY <1>9, <3>1, <3>2, SameArriving
  <2> QED
    BY <1>7, <2>3, <2>5, <2>6
<1>15. CASE EventDue
  <2>1. PICK b \in BOOLEAN : b = (s.hist.late \/ s.hist.stale)
    OBVIOUS
  <2>2. PICK h : h = [s.hist EXCEPT !.stale = FALSE, !.late = b]
    OBVIOUS
  <2>3. PICK c : c = [s.chan EXCEPT !.event = FALSE, !.start = FALSE]
    OBVIOUS
  <2>4. h \in Hists /\ c \in Chans(L)
    BY <2>2, <2>3 DEF States, Hists, Chans
  <2>5. PICK t : t = [s EXCEPT !.quiet = 0, !.hist = h, !.chan = c]
    OBVIOUS
  <2>6. /\ t \in States(L)
        /\ t.walk = s.walk /\ t.gpu = s.gpu /\ t.chan = c /\ t.hist = h
    BY <2>4, <2>5 DEF States
  <2>7. Complete([System EXCEPT !.quiet = 0, !.hist.stale = FALSE, !.hist.late = @ \/ hist.stale]) = t
    BY <1>4, <2>1, <2>2, <2>3, <2>5, SystemIs DEF Complete, States, Hists
  <2>8. Becomes(t) /\ UNCHANGED software /\ s.chan.event
    BY <1>4, <1>15, <2>7, SystemIs DEF EventDue
  <2>9. h.torn = s.hist.torn /\ h.dropped = s.hist.dropped /\ h.late = b
    BY <2>2 DEF States, Hists
  <2>10. Arriving(t, L, does)
    BY <1>6, <2>1, <2>3, <2>6, <2>8, <2>9, DueArrives
  <2> QED
    BY <1>7, <2>6, <2>8, <2>10
<1>16. CASE UNCHANGED vars
  <2>1. System' = System /\ software' = software
    BY <1>16 DEF vars, System
  <2> QED
    BY <1>1, <2>1 DEF ListsArriving
<1>17. ASSUME NEW list \in L, Kick("list", list) PROVE ListsArriving'
  <2>1. list # <<>>
    BY <1>5 DEF ListSets
  <2> QED
    BY <1>12, <1>17, <2>1
<1>18. CASE Kick("manual", <<>>)
  BY <1>12, <1>18
<1> QED
  BY <1>2, <1>3, <1>11, <1>13, <1>14, <1>15, <1>16, <1>17, <1>18 DEF Next

\* A program whose nodes, or whose lists, are whole has lists that are.
LEMMA ProgramSendsPackets ==
  ASSUME \A p \in Programs : SendsPackets(p),
         \E p \in Programs : software = [p EXCEPT !.stores = software.stores]
  PROVE  \/ WholeNodes(software.lists)
         \/ WholeLists(software.lists) /\ "stop" \notin software.does
<1>1. PICK p \in Programs : software = [p EXCEPT !.stores = software.stores]
  OBVIOUS
<1>2. p \in [lists : SUBSET (Seq(Node) \ {<<>>}), does : SUBSET {"stop", "dpcr", "manual"},
             stores : Nat]
  BY ProgramsAssumption
<1>3. software.lists = p.lists /\ software.does = p.does
  BY <1>1, <1>2
<1>4. NodesAreWhole(p) \/ ListsAreWhole(p)
  BY DEF SendsPackets
<1>5. CASE NodesAreWhole(p)
  BY <1>3, <1>5 DEF NodesAreWhole, WholeNodes, WholeNode
<1>6. CASE ListsAreWhole(p)
  BY <1>3, <1>6 DEF ListsAreWhole, WholeLists
<1> QED
  BY <1>4, <1>5, <1>6

LEMMA ArrivingImplies ==
  ASSUME \A p \in Programs : SendsPackets(p), ListsArriving
  PROVE  ListsArriveWhole
<1>1. PICK s \in States(software.lists) : s = System
  BY DEF ListsArriving, TypesAndSpan
<1>2. s.gpu = gpu /\ s.hist = hist
  BY <1>1, SystemIs
<1>3. Len(gpu.fifo) <= Capacity(gpu)
  BY <1>1, <1>2 DEF ListsArriving, Arriving, Shape, Room
<1>4. ByNodes(s) \/ ByLists(s)
  BY <1>1, ProgramSendsPackets DEF ListsArriving, TypesAndSpan, Arriving
<1>5. ~s.hist.dropped /\ (~s.hist.late => ~s.hist.torn)
  BY <1>4 DEF ByNodes, ByLists, Whole
<1> QED
  BY <1>2, <1>3, <1>5 DEF ListsArriveWhole

\* gp0_push_dma and the push run: whatever software links up, stops, pauses and kicks,
\* the input FIFO holds no more words than its depth and the allowance of its head.
THEOREM FifoIsBounded ==
  Spec => [](Len(gpu.fifo) <= Capacity(gpu))
<1>1. ListsArriving => Len(gpu.fifo) <= Capacity(gpu)
  BY SystemIs DEF ListsArriving, Arriving, Shape, Room
<1> QED
  BY <1>1, ArrivingInit, ArrivingNext, PTL DEF Spec

\* The walker, the FIFO and the stop together: when software links whole packets, each
\* within a node the FIFO takes, or anywhere in lists it never stops, the GPU loses no
\* word and takes no packet made of another's words, unless a stopped transfer's
\* completion came late and ended a later walk.
THEOREM PacketsArrive ==
  ASSUME \A p \in Programs : SendsPackets(p)
  PROVE  Spec => []ListsArriveWhole
<1>1. ListsArriving => ListsArriveWhole
  BY ArrivingImplies
<1> QED
  BY <1>1, ArrivingInit, ArrivingNext, PTL DEF Spec
=============================================================================
