--------------------------- MODULE BusDmaProofs ---------------------------
(***************************************************************************)
(* Theorems about BusDma, for every choice of channels, costs, periods and *)
(* clock bounds.  The invariant is a conjunction over the `bus` record,    *)
(* and each method of Bus gets a lemma that says what it keeps.  First the *)
(* lemmas about DeadlineQueue's operators: they stand here and in          *)
(* SchedulerProofs, whose names clash with those of BusDma.                *)
(***************************************************************************)
EXTENDS BusDma, WellFoundedInduction, TLAPS

-----------------------------------------------------------------------------
\* A nonempty set of natural numbers has a least element.
LEMMA LeastNatural ==
  ASSUME NEW S \in SUBSET Nat, S # {}
  PROVE  \E m \in S : \A n \in S : m <= n
<1>1. PICK m \in S : \A n \in S : ~(<<n, m>> \in OpToRel(<, Nat))
  BY WFMin, NatLessThanWellFounded
<1>2. ASSUME NEW n \in S
      PROVE  m <= n
  <2>1. m \in Nat /\ n \in Nat
    OBVIOUS
  <2>2. n < m => <<n, m>> \in {ss \in Nat \X Nat : ss[1] < ss[2]}
    BY <2>1
  <2>3. ~(n < m)
    BY <1>1, <2>2 DEF OpToRel
  <2> QED BY <2>1, <2>3
<1> QED BY <1>2

\* LeastTarget is a lower bound of the pending deadlines and is one of them
\* unless it is MaxTime: the CHOOSE of refresh_earliest always has a witness.
LEMMA LeastTargetIsLeast ==
  ASSUME NEW targets \in [Slots -> Times], NEW P \in SUBSET Slots
  PROVE  /\ LeastTarget(targets, P) \in Times
         /\ \A s \in P : LeastTarget(targets, P) <= targets[s]
         /\ \/ LeastTarget(targets, P) = MaxTime
            \/ \E s \in P : LeastTarget(targets, P) = targets[s]
<1> DEFINE Least(t) == /\ \A s \in P : t <= targets[s]
                       /\ t = MaxTime \/ \E s \in P : t = targets[s]
<1>1. \E t \in Times : Least(t)
  <2>1. CASE P = {}
    <3>1. MaxTime \in Times
      BY MaxTimeAssumption DEF Times
    <3> QED BY <2>1, <3>1
  <2>2. CASE P # {}
    <3> DEFINE T == {targets[s] : s \in P}
    <3>1. T \in SUBSET Nat /\ T # {}
      BY <2>2 DEF Times
    <3>2. PICK m \in T : \A n \in T : m <= n
      BY <3>1, LeastNatural
    <3>3. Least(m) /\ m \in Times
      BY <3>2
    <3> QED BY <3>3
  <2> QED BY <2>1, <2>2
<1>2. LeastTarget(targets, P) = CHOOSE t \in Times : Least(t)
  BY DEF LeastTarget
<1> HIDE DEF Least
<1>3. LeastTarget(targets, P) \in Times /\ Least(LeastTarget(targets, P))
  BY <1>1, <1>2
<1> QED BY <1>3 DEF Least

\* RefreshEarliest leaves the same deadlines under an exact cache.
LEMMA RefreshIsExact ==
  ASSUME NEW q \in QueueType
  PROVE  /\ RefreshEarliest(q) \in QueueType
         /\ Exact(RefreshEarliest(q))
         /\ RefreshEarliest(q).pending = q.pending
         /\ RefreshEarliest(q).targets = q.targets
<1>1. q.targets \in [Slots -> Times] /\ q.pending \in SUBSET Slots
  BY DEF QueueType
<1>2. RefreshEarliest(q)
        = [targets |-> q.targets, pending |-> q.pending,
           earliest |-> LeastTarget(q.targets, q.pending)]
  BY DEF RefreshEarliest, QueueType
<1> QED BY <1>1, <1>2, LeastTargetIsLeast DEF QueueType, Exact

LEMMA RemoveIsExact ==
  ASSUME NEW q \in QueueType, NEW slot \in Slots
  PROVE  /\ Remove(q, slot) \in QueueType
         /\ Exact(Remove(q, slot))
         /\ Remove(q, slot).pending = q.pending \ {slot}
         /\ Remove(q, slot).targets = q.targets
<1> DEFINE r == [q EXCEPT !.pending = @ \ {slot}]
<1>1. /\ r \in QueueType
      /\ r.pending = q.pending \ {slot}
      /\ r.targets = q.targets
  BY DEF QueueType
<1>2. Remove(q, slot) = RefreshEarliest(r)
  BY DEF Remove
<1> HIDE DEF r
<1> QED BY <1>1, <1>2, RefreshIsExact

LEMMA SaturatingAddType ==
  ASSUME NEW a \in Nat, NEW b \in Nat
  PROVE  SaturatingAdd(a, b) \in Times
BY MaxTimeAssumption DEF SaturatingAdd, Lesser, Times

\* `schedule` keeps the cache exact, in the branch that refreshes and in the
\* branch that takes a minimum.
LEMMA ScheduleIsExact ==
  ASSUME NEW q \in QueueType, Exact(q),
         NEW slot \in Slots, NEW t \in Nat, NEW delta \in Nat
  PROVE  LET r == Schedule(q, slot, t, delta)
         IN  /\ r \in QueueType
             /\ Exact(r)
             /\ r.pending = q.pending \cup {slot}
             /\ r.targets = [q.targets EXCEPT ![slot] = SaturatingAdd(t, delta)]
<1> DEFINE target == SaturatingAdd(t, delta)
           stored == [q EXCEPT !.targets[slot] = target, !.pending = @ \cup {slot}]
           r == Schedule(q, slot, t, delta)
<1>1. target \in Times
  BY SaturatingAddType
<1> HIDE DEF target
<1>2. /\ stored \in QueueType
      /\ stored.pending = q.pending \cup {slot}
      /\ stored.targets = [q.targets EXCEPT ![slot] = target]
      /\ stored.earliest = q.earliest
  BY <1>1 DEF QueueType
<1>3. CASE MovesEarliestLater(q, slot, target)
  <2>1. r = RefreshEarliest(stored)
    BY <1>3 DEF Schedule, target
  <2> HIDE DEF stored, r
  <2> QED BY <1>2, <2>1, RefreshIsExact DEF r, target
<1>4. CASE ~MovesEarliestLater(q, slot, target)
  <2>1. r = [stored EXCEPT !.earliest = Lesser(@, target)]
    BY <1>4 DEF Schedule, target
  <2> HIDE DEF stored, r
  <2>2. /\ r.pending = q.pending \cup {slot}
        /\ r.targets = [q.targets EXCEPT ![slot] = target]
        /\ r.earliest = Lesser(q.earliest, target)
        /\ r \in QueueType
    BY <1>1, <1>2, <2>1 DEF QueueType, Lesser, Times
  <2>3. /\ \A s \in Slots : q.targets[s] \in Nat
        /\ q.earliest \in Nat
        /\ q.earliest <= MaxTime
        /\ target \in Nat
        /\ q.targets \in [Slots -> Times]
        /\ q.pending \subseteq Slots
    BY <1>1 DEF QueueType, Times
  <2>4. \A s \in r.pending : r.earliest <= r.targets[s]
    <3>1. r.earliest <= target /\ r.earliest <= q.earliest
      BY <2>2, <2>3 DEF Lesser
    <3>2. ASSUME NEW s \in r.pending, s # slot
          PROVE  r.earliest <= r.targets[s]
      <4>1. /\ s \in q.pending
            /\ r.targets[s] = q.targets[s]
            /\ q.targets[s] \in Nat
        BY <2>2, <2>3, <3>2
      <4>2. q.earliest <= q.targets[s]
        BY <4>1 DEF Exact
      <4>3. r.earliest \in Nat
        BY <2>2, <2>3 DEF Lesser
      <4> QED BY <2>3, <3>1, <4>1, <4>2, <4>3
    <3>3. r.earliest <= r.targets[slot]
      BY <2>2, <2>3, <3>1
    <3> QED BY <3>2, <3>3
  <2>5. r.earliest = MaxTime \/ \E s \in r.pending : r.earliest = r.targets[s]
    <3>1. CASE target < q.earliest
      <4>1. r.earliest = target /\ r.targets[slot] = target /\ slot \in r.pending
        BY <2>2, <2>3, <3>1 DEF Lesser
      <4> QED BY <4>1
    <3>2. CASE ~(target < q.earliest)
      <4>1. r.earliest = q.earliest
        BY <2>2, <3>2 DEF Lesser
      <4>2. CASE q.earliest = MaxTime
        BY <4>1, <4>2
      <4>3. ASSUME NEW s \in q.pending, q.earliest = q.targets[s]
            PROVE  \E u \in r.pending : r.earliest = r.targets[u]
        <5>1. CASE s = slot
          \* not moved later and not earlier: the deadline is unchanged
          <6>1. target = q.earliest
            BY <1>4, <2>3, <3>2, <4>3, <5>1 DEF MovesEarliestLater
          <6>2. r.targets[slot] = target /\ slot \in r.pending
            BY <2>2, <2>3
          <6> QED BY <4>1, <6>1, <6>2
        <5>2. CASE s # slot
          BY <2>2, <2>3, <4>1, <4>3, <5>2
        <5> QED BY <5>1, <5>2
      <4> QED BY <4>2, <4>3 DEF Exact
    <3> QED BY <3>1, <3>2
  <2> QED BY <2>2, <2>4, <2>5 DEF Exact, r, target
<1> QED BY <1>3, <1>4

-----------------------------------------------------------------------------
\* A drain that finds no slot to return leaves nothing late behind, and the
\* slot it returns is the first late one: the early out on the cached deadline
\* and the strict test at the end of next_due lose nothing.
LEMMA NextDueIsFirstLate ==
  ASSUME NEW q \in QueueType, Exact(q), NEW t \in Times, NEW X \in SUBSET Slots
  PROVE  LET late == {s \in q.pending \ X : q.targets[s] < t}
             slot == NextDue(q, t, X)
         IN  /\ slot = NoSlot => late = {}
             /\ slot # NoSlot => /\ slot \in late
                                 /\ \A s \in late : Before(q, slot, s)
<1> DEFINE late == {s \in q.pending \ X : q.targets[s] < t}
           slot == NextDue(q, t, X)
<1>0. /\ q.pending \subseteq Slots
      /\ \A s \in Slots : q.targets[s] \in Nat
      /\ q.earliest \in Nat /\ t \in Nat
      /\ NoSlot \notin Slots
  BY SlotsAssumption, MaxTimeAssumption DEF QueueType, Times, NoSlot
<1>1. ASSUME late # {}
      PROVE  \E s \in Slots : TakesDue(q, s, t, X)
  <2> DEFINE C == q.pending \ X
             D == {q.targets[s] : s \in C}
  <2>1. D \in SUBSET Nat /\ D # {}
    BY <1>0, <1>1
  <2>2. PICK d \in D : \A e \in D : d <= e
    BY <2>1, LeastNatural
  <2> DEFINE E == {s \in C : q.targets[s] = d}
  <2>3. E \in SUBSET Nat /\ E # {}
    BY <1>0, <2>2, SlotsAssumption
  <2>4. PICK s \in E : \A u \in E : s <= u
    BY <2>3, LeastNatural
  <2>5. IsFirst(q, s, X)
    <3>1. ASSUME NEW u \in q.pending \ X
          PROVE  Before(q, s, u)
      <4>1. q.targets[u] \in D /\ d <= q.targets[u] /\ q.targets[s] = d
        BY <2>2, <2>4, <3>1
      <4>2. q.targets[u] \in Nat /\ d \in Nat
        BY <1>0, <2>1, <3>1
      <4>3. q.targets[u] = d => s <= u
        BY <2>4, <3>1
      <4> QED BY <4>1, <4>2, <4>3 DEF Before
    <3> QED BY <2>4, <3>1 DEF IsFirst
  <2>6. PICK l \in late : TRUE
    BY <1>1
  <2>7. q.targets[l] < t /\ q.targets[s] <= q.targets[l] /\ q.earliest <= q.targets[l]
    BY <2>2, <2>4, <2>6 DEF Exact
  <2>8. q.targets[s] < t /\ q.earliest < t
    BY <1>0, <2>4, <2>6, <2>7
  <2>9. s \in Slots
    BY <1>0, <2>4
  <2> QED BY <1>0, <2>5, <2>8, <2>9 DEF TakesDue
<1>2. CASE \E s \in Slots : TakesDue(q, s, t, X)
  <2>1. slot \in Slots /\ TakesDue(q, slot, t, X)
    BY <1>2 DEF NextDue
  <2>2. slot \in late /\ \A s \in late : Before(q, slot, s)
    BY <2>1 DEF TakesDue, IsFirst
  <2>3. slot # NoSlot
    BY <1>0, <2>1
  <2> QED BY <2>2, <2>3
<1>3. CASE ~ \E s \in Slots : TakesDue(q, s, t, X)
  BY <1>1, <1>3 DEF NextDue
<1> QED BY <1>2, <1>3

-----------------------------------------------------------------------------
\* A bus whose clock may be past the bound of the model: the methods run before
\* the bound is tested.
BusShape ==
  [now : Nat, queue : QueueType, dpcr : SUBSET Channels,
   chan : [Channels -> ChannelType], dicr : DicrType,
   istat : SUBSET {"VBlank", "Dma"}, waiting : BOOLEAN,
   granted : SUBSET Channels, refused : SUBSET Channels, acked : BOOLEAN]

HasEnd(b, ch) ==
  b.chan[ch].start =>
    \/ SlotOf[ch] \in b.queue.pending
    \/ ch = Gpu /\ b.waiting
    \/ ch \in b.refused

OnGrid(b) ==
  /\ VBlank \in b.queue.pending
  /\ \E n \in 0..MaxTime : b.queue.targets[VBlank] = FirstVBlank + n * VBlankPeriod

\* What every method keeps; the channels of X are the ones being worked on.
Sound(b, X) ==
  /\ b \in BusShape
  /\ Exact(b.queue)
  /\ b.waiting => Gpu \in Channels
  /\ OnGrid(b)
  /\ \A ch \in Channels \ X : HasEnd(b, ch)

Reported(b) == MasterFlag(b.dicr) => "Dma" \in b.istat \/ b.acked

SameInterrupts(b, c) == c.dicr = b.dicr /\ c.istat = b.istat /\ c.acked = b.acked

-----------------------------------------------------------------------------
LEMMA SlotsDiffer ==
  /\ VBlank \in Slots
  /\ \A ch \in Channels : SlotOf[ch] \in Slots /\ SlotOf[ch] # VBlank /\ SlotOf[ch] # NoSlot
  /\ \A ch, c \in Channels : SlotOf[c] = SlotOf[ch] => c = ch
<1>1. \A ch \in Channels : ch = Gpu \/ ch = Cd \/ ch = Spu \/ ch = Otc
  BY ChannelsAssumption
<1>2. /\ Gpu \in Channels => SlotOf[Gpu] = 4
      /\ Cd \in Channels => SlotOf[Cd] = 9
      /\ Spu \in Channels => SlotOf[Spu] = 6
      /\ Otc \in Channels => SlotOf[Otc] = 8
  BY DEF SlotOf, Gpu, Cd, Spu, Otc
<1>3. \A ch \in Channels : SlotOf[ch] \in Slots
  BY SlotsOfChannels
<1>4. VBlank \in Slots /\ VBlank = 14 /\ NoSlot = -1
  BY SlotsOfChannels DEF VBlank, NoSlot
<1> QED BY <1>1, <1>2, <1>3, <1>4 DEF Gpu, Cd, Spu, Otc

\* Scheduling a channel's completion leaves the queue exact and the VBlank alone.
LEMMA GrantSound ==
  ASSUME NEW b, NEW X, Sound(b, X), NEW ch \in Channels, NEW d \in Nat
  PROVE  LET c == Grant(b, ch, d)
         IN  Sound(c, X \ {ch}) /\ SameInterrupts(b, c) /\ c.now = b.now
<1> DEFINE c == Grant(b, ch, d)
           q == Schedule(b.queue, SlotOf[ch], b.now, d)
<1>1. b \in BusShape /\ b.now \in Nat /\ b.queue \in QueueType /\ Exact(b.queue)
  BY DEF Sound, BusShape
<1>2. /\ q \in QueueType
      /\ Exact(q)
      /\ q.pending = b.queue.pending \cup {SlotOf[ch]}
      /\ q.targets = [b.queue.targets EXCEPT ![SlotOf[ch]] = SaturatingAdd(b.now, d)]
  BY <1>1, SlotsDiffer, ScheduleIsExact
<1> HIDE DEF q
<1>3. c = [b EXCEPT !.queue = q, !.granted = @ \cup {ch}]
  BY DEF Grant, q
<1> HIDE DEF c
<1>4. /\ c \in BusShape
      /\ c.queue = q /\ c.chan = b.chan /\ c.waiting = b.waiting
      /\ c.refused = b.refused /\ c.now = b.now
      /\ SameInterrupts(b, c)
  BY <1>1, <1>2, <1>3 DEF BusShape, SameInterrupts
<1>5. OnGrid(c)
  <2>1. b.queue.targets \in [Slots -> Times]
    BY <1>1 DEF QueueType
  <2>2. q.targets[VBlank] = b.queue.targets[VBlank]
    BY <1>2, <2>1, SlotsDiffer
  <2> QED BY <1>2, <1>4, <2>2 DEF Sound, OnGrid
<1>6. \A x \in Channels \ (X \ {ch}) : HasEnd(c, x)
  BY <1>2, <1>4 DEF Sound, HasEnd
<1> QED BY <1>2, <1>4, <1>5, <1>6 DEF Sound, c

LEMMA RefuseSound ==
  ASSUME NEW b, NEW X, Sound(b, X), NEW ch \in Channels
  PROVE  LET c == Refuse(b, ch)
         IN  Sound(c, X \ {ch}) /\ SameInterrupts(b, c)
<1> DEFINE c == Refuse(b, ch)
<1>1. /\ c \in BusShape
      /\ c.queue = b.queue /\ c.chan = b.chan /\ c.waiting = b.waiting
      /\ c.refused = b.refused \cup {ch}
      /\ SameInterrupts(b, c)
  BY DEF Sound, BusShape, Refuse, SameInterrupts
<1> HIDE DEF c
<1>2. \A x \in Channels \ (X \ {ch}) : HasEnd(c, x)
  BY <1>1 DEF Sound, HasEnd
<1> QED BY <1>1, <1>2 DEF Sound, OnGrid, c

LEMMA CostType ==
  ASSUME NEW b \in BusShape, NEW ch \in Channels
  PROVE  CostOf(b, ch) \in Nat
BY CostAssumption DEF CostOf, BusShape, ChannelType

\* The GPU kick ends with the channel stopped, scheduled or waiting.
LEMMA KickGpuSound ==
  ASSUME NEW b, NEW X, Sound(b, X), Gpu \in Channels
  PROVE  LET c == KickGpu(b)
         IN  Sound(c, X \ {Gpu}) /\ SameInterrupts(b, c)
<1> DEFINE w(v) == [b EXCEPT !.waiting = v]
<1>0. ASSUME NEW v \in BOOLEAN
      PROVE  /\ w(v) \in BusShape
             /\ w(v).queue = b.queue /\ w(v).chan = b.chan /\ w(v).waiting = v
             /\ w(v).refused = b.refused /\ w(v).now = b.now
             /\ SameInterrupts(b, w(v))
  BY DEF Sound, BusShape, SameInterrupts
<1> HIDE DEF w
<1>1. ASSUME NEW v \in BOOLEAN
      PROVE  /\ Sound(w(v), X \cup {Gpu})
             /\ HasEnd(w(v), Gpu) => Sound(w(v), X \ {Gpu})
  <2>1. \A x \in Channels \ (X \cup {Gpu}) : HasEnd(w(v), x)
    BY <1>0 DEF Sound, HasEnd
  <2>2. HasEnd(w(v), Gpu) => \A x \in Channels \ (X \ {Gpu}) : HasEnd(w(v), x)
    BY <1>0, <2>1
  <2> QED BY <1>0, <2>1, <2>2 DEF Sound, OnGrid
<1>2. CASE ~b.chan[Gpu].start
  <2>1. KickGpu(b) = w(FALSE)
    BY <1>2 DEF KickGpu, w
  <2>2. HasEnd(w(FALSE), Gpu)
    BY <1>0, <1>2 DEF HasEnd
  <2> QED BY <1>0, <1>1, <2>1, <2>2
<1>3. CASE /\ b.chan[Gpu].start
           /\ Gpu \notin b.dpcr \/ (b.chan[Gpu].mode = "request" /\ ~line[Gpu])
  <2>1. KickGpu(b) = w(TRUE)
    BY <1>3 DEF KickGpu, w
  <2>2. HasEnd(w(TRUE), Gpu)
    BY <1>0 DEF HasEnd
  <2> QED BY <1>0, <1>1, <2>1, <2>2
<1>4. CASE /\ b.chan[Gpu].start
           /\ ~(Gpu \notin b.dpcr \/ (b.chan[Gpu].mode = "request" /\ ~line[Gpu]))
  <2>1. KickGpu(b) = Grant(w(FALSE), Gpu, CostOf(b, Gpu))
    BY <1>4 DEF KickGpu, w
  <2>2. CostOf(b, Gpu) \in Nat
    BY CostType DEF Sound
  <2>3. LET c == Grant(w(FALSE), Gpu, CostOf(b, Gpu))
        IN  Sound(c, (X \cup {Gpu}) \ {Gpu}) /\ SameInterrupts(w(FALSE), c)
    BY <1>1, <2>2, GrantSound
  <2>4. (X \cup {Gpu}) \ {Gpu} = X \ {Gpu}
    OBVIOUS
  <2>5. SameInterrupts(b, w(FALSE))
    BY <1>0
  <2> HIDE DEF w
  <2> QED BY <2>1, <2>3, <2>4, <2>5 DEF SameInterrupts
<1> QED BY <1>2, <1>3, <1>4

LEMMA SoundMonotone ==
  ASSUME NEW b, NEW X, NEW Y, Sound(b, X), X \subseteq Y
  PROVE  Sound(b, Y)
BY DEF Sound

\* The clock, with the retry it triggers.
LEMMA AdvanceSound ==
  ASSUME NEW b, NEW X, Sound(b, X), NEW n \in Nat
  PROVE  LET c == Advance(b, n)
         IN  Sound(c, X) /\ SameInterrupts(b, c)
<1> DEFINE later == [b EXCEPT !.now = @ + n]
           quiet == [later EXCEPT !.waiting = FALSE]
<1>1. /\ later \in BusShape
      /\ later.queue = b.queue /\ later.chan = b.chan /\ later.waiting = b.waiting
      /\ later.refused = b.refused
      /\ SameInterrupts(b, later)
  BY DEF Sound, BusShape, SameInterrupts
<1>2. /\ quiet \in BusShape
      /\ quiet.queue = b.queue /\ quiet.chan = b.chan /\ quiet.waiting = FALSE
      /\ quiet.refused = b.refused
      /\ SameInterrupts(b, quiet)
  BY <1>1 DEF BusShape, SameInterrupts
<1>3. Sound(later, X)
  BY <1>1 DEF Sound, OnGrid, HasEnd
<1>4. CASE ~b.waiting
  BY <1>1, <1>3, <1>4 DEF Advance
<1>5. CASE b.waiting /\ SlotOf[Gpu] \in b.queue.pending
  <2>1. Advance(b, n) = quiet
    BY <1>5 DEF Advance
  <2>2. \A x \in Channels \ X : HasEnd(quiet, x)
    BY <1>2, <1>5 DEF Sound, HasEnd
  <2>3. Sound(quiet, X)
    BY <1>2, <2>2 DEF Sound, OnGrid
  <2> HIDE DEF quiet
  <2> QED BY <1>2, <2>1, <2>3
<1>6. CASE b.waiting /\ SlotOf[Gpu] \notin b.queue.pending
  <2>1. Advance(b, n) = KickGpu(later)
    BY <1>6 DEF Advance
  <2> HIDE DEF later
  <2>2. Gpu \in Channels
    BY <1>6 DEF Sound
  <2>3. Sound(KickGpu(later), X \ {Gpu}) /\ SameInterrupts(later, KickGpu(later))
    BY <1>3, <2>2, KickGpuSound
  <2>4. Sound(KickGpu(later), X)
    BY <2>3, SoundMonotone
  <2> QED BY <1>1, <2>1, <2>3, <2>4 DEF SameInterrupts
<1> QED BY <1>4, <1>5, <1>6

\* Taking a channel's event out of the queue unsettles that channel only.
LEMMA RemoveSound ==
  ASSUME NEW b, NEW X, Sound(b, X), NEW ch \in Channels
  PROVE  LET c == [b EXCEPT !.queue = Remove(@, SlotOf[ch])]
         IN  /\ Sound(c, X \cup {ch})
             /\ SameInterrupts(b, c)
             /\ c.now = b.now
             /\ c.queue.targets = b.queue.targets
             /\ c.queue.pending = b.queue.pending \ {SlotOf[ch]}
<1> DEFINE q == Remove(b.queue, SlotOf[ch])
           c == [b EXCEPT !.queue = q]
<1>1. b \in BusShape /\ b.queue \in QueueType
  BY DEF Sound, BusShape
<1>2. /\ q \in QueueType
      /\ Exact(q)
      /\ q.pending = b.queue.pending \ {SlotOf[ch]}
      /\ q.targets = b.queue.targets
  BY <1>1, SlotsDiffer, RemoveIsExact
<1> HIDE DEF q
<1>3. /\ c \in BusShape
      /\ c.queue = q /\ c.chan = b.chan /\ c.waiting = b.waiting
      /\ c.refused = b.refused /\ c.now = b.now
      /\ SameInterrupts(b, c)
  BY <1>1, <1>2 DEF BusShape, SameInterrupts
<1>4. \A x \in Channels \ (X \cup {ch}) : HasEnd(c, x)
  BY <1>2, <1>3, SlotsDiffer DEF Sound, HasEnd
<1>5. OnGrid(c)
  BY <1>2, <1>3, SlotsDiffer DEF Sound, OnGrid
<1> HIDE DEF c
<1>6. Sound(c, X \cup {ch})
  BY <1>2, <1>3, <1>4, <1>5 DEF Sound
<1> QED BY <1>2, <1>3, <1>6 DEF c, q

\* A completed channel is idle; DICR's master flag can only rise.
LEMMA CompleteSound ==
  ASSUME NEW b, NEW X, Sound(b, X), NEW ch \in Channels
  PROVE  LET c == Complete(b, ch)
         IN  /\ Sound(c, X \ {ch})
             /\ c.istat = b.istat /\ c.acked = b.acked /\ c.now = b.now
             /\ c.queue = b.queue
             /\ MasterFlag(b.dicr) => MasterFlag(c.dicr)
<1> DEFINE c == Complete(b, ch)
<1>1. NotifyDone(b.dicr, ch) \in DicrType
  BY DEF Sound, BusShape, DicrType, NotifyDone
<1>2. RestingMode(ch, b.chan[ch].mode) \in UNION {Modes[x] : x \in Channels}
  <2>1. b.chan[ch].mode \in UNION {Modes[x] : x \in Channels}
    BY DEF Sound, BusShape, ChannelType
  <2>2. ResetMode(ch) \in UNION {Modes[x] : x \in Channels}
    BY ModesAssumption
  <2> QED BY <2>1, <2>2 DEF RestingMode
<1>3. /\ c.chan = [b.chan EXCEPT ![ch] = [b.chan[ch] EXCEPT !.start = FALSE,
                                          !.mode = RestingMode(ch, @)]]
      /\ c.queue = b.queue /\ c.waiting = b.waiting /\ c.now = b.now
      /\ c.istat = b.istat /\ c.acked = b.acked
      /\ c.refused = b.refused \ {ch}
      /\ c.dicr = NotifyDone(b.dicr, ch)
      /\ c.dpcr = b.dpcr /\ c.granted = b.granted \ {ch}
  BY DEF Complete, Sound, BusShape
<1>4. c.chan \in [Channels -> ChannelType]
  <2>1. b.chan \in [Channels -> ChannelType]
    BY DEF Sound, BusShape
  <2>2. [b.chan[ch] EXCEPT !.start = FALSE, !.mode = RestingMode(ch, @)] \in ChannelType
    BY <1>2, <2>1 DEF ChannelType
  <2> QED BY <1>3, <2>1, <2>2
<1>5. c \in BusShape
  BY <1>1, <1>4 DEF Sound, BusShape, Complete
<1>6. ~c.chan[ch].start /\ \A x \in Channels \ {ch} : c.chan[x] = b.chan[x]
  BY <1>3, <1>4 DEF Sound, BusShape, ChannelType
<1> HIDE DEF c
<1>7. \A x \in Channels \ (X \ {ch}) : HasEnd(c, x)
  BY <1>3, <1>6 DEF Sound, HasEnd
<1>8. MasterFlag(b.dicr) => MasterFlag(c.dicr)
  BY <1>3 DEF MasterFlag, NotifyDone, Sound, BusShape, DicrType
<1> QED BY <1>3, <1>5, <1>7, <1>8 DEF Sound, OnGrid, c

\* The immediate completion reports the edge it makes.
LEMMA CompleteNowSound ==
  ASSUME NEW b, NEW X, Sound(b, X), NEW ch \in Channels
  PROVE  LET c == CompleteNow(b, ch)
         IN  /\ Sound(c, X \ {ch})
             /\ Reported(b) => Reported(c)
<1> DEFINE d == Complete(b, ch)
           e == [d EXCEPT !.istat = @ \cup {"Dma"}]
<1>1. /\ Sound(d, X \ {ch})
      /\ d.istat = b.istat /\ d.acked = b.acked
  BY CompleteSound
<1>2. CompleteNow(b, ch) = IF MasterEdge(b.dicr, d.dicr) THEN e ELSE d
  BY DEF CompleteNow, RaiseOnEdge
<1> HIDE DEF d
<1>3. /\ e \in BusShape
      /\ e.queue = d.queue /\ e.chan = d.chan /\ e.waiting = d.waiting
      /\ e.refused = d.refused
      /\ "Dma" \in e.istat
  BY <1>1 DEF Sound, BusShape
<1>4. Sound(e, X \ {ch})
  BY <1>1, <1>3 DEF Sound, OnGrid, HasEnd
<1> HIDE DEF e
<1> QED BY <1>1, <1>2, <1>3, <1>4 DEF Reported, MasterEdge

LEMMA SameInterruptsReported ==
  ASSUME NEW b, NEW c, SameInterrupts(b, c), Reported(b)
  PROVE  Reported(c)
BY DEF SameInterrupts, Reported

\* A kick settles its channel: it is scheduled, waiting, refused or idle.
LEMMA KickSound ==
  ASSUME NEW b, NEW ch \in Channels, Sound(b, {ch}), Reported(b)
  PROVE  LET c == RunDmaChannel(b, ch)
         IN  Sound(c, {}) /\ Reported(c)
<1>0. /\ {ch} \ {ch} = {}
      /\ b \in BusShape
      /\ CostOf(b, ch) \in Nat
  BY CostType DEF Sound
<1>1. CASE ch = Gpu
  <2>1. RunDmaChannel(b, ch) = KickGpu(b)
    BY <1>1 DEF RunDmaChannel, Gpu, Cd, Spu, Otc
  <2> QED BY <1>0, <1>1, <2>1, KickGpuSound, SameInterruptsReported
<1>2. CASE ch = Cd
  <2>1. RunDmaChannel(b, ch) = KickCd(b)
    BY <1>2 DEF RunDmaChannel, Gpu, Cd, Spu, Otc
  <2>2. CASE Cd \notin b.dpcr
    BY <1>0, <1>2, <2>1, <2>2, RefuseSound, SameInterruptsReported DEF KickCd
  <2>3. CASE Cd \in b.dpcr /\ ~line[Cd]
    BY <1>0, <1>2, <2>1, <2>3, CompleteNowSound DEF KickCd
  <2>4. CASE Cd \in b.dpcr /\ line[Cd] /\ b.chan[Cd].mode = "chopped"
    BY <1>0, <1>2, <2>1, <2>4, GrantSound, SameInterruptsReported DEF KickCd
  <2>5. CASE Cd \in b.dpcr /\ line[Cd] /\ b.chan[Cd].mode # "chopped"
    <3> DEFINE held == Advance(b, CostOf(b, Cd))
    <3>1. Sound(held, {ch}) /\ SameInterrupts(b, held)
      BY <1>0, <1>2, AdvanceSound
    <3>2. KickCd(b) = CompleteNow(held, Cd)
      BY <2>5 DEF KickCd
    <3> HIDE DEF held
    <3>3. Reported(held)
      BY <3>1, SameInterruptsReported
    <3> QED BY <1>0, <1>2, <2>1, <3>1, <3>2, <3>3, CompleteNowSound
  <2> QED BY <2>2, <2>3, <2>4, <2>5
<1>3. CASE ch = Spu
  <2>1. RunDmaChannel(b, ch) = KickSpu(b)
    BY <1>3 DEF RunDmaChannel, Gpu, Cd, Spu, Otc
  <2>2. CASE Spu \notin b.dpcr
    BY <1>0, <1>3, <2>1, <2>2, RefuseSound, SameInterruptsReported DEF KickSpu
  <2>3. CASE Spu \in b.dpcr
    <3> DEFINE d == IF line[Spu] THEN CostOf(b, Spu) ELSE 0
    <3>1. d \in Nat /\ KickSpu(b) = Grant(b, Spu, d)
      BY <1>0, <1>3, <2>3 DEF KickSpu
    <3> HIDE DEF d
    <3> QED BY <1>0, <1>3, <2>1, <3>1, GrantSound, SameInterruptsReported
  <2> QED BY <2>2, <2>3
<1>4. CASE ch = Otc
  <2>1. RunDmaChannel(b, ch) = KickOtc(b)
    BY <1>4 DEF RunDmaChannel, Gpu, Cd, Spu, Otc
  <2>2. CASE Otc \notin b.dpcr \/ b.chan[Otc].mode # "trigger"
    BY <1>0, <1>4, <2>1, <2>2, RefuseSound, SameInterruptsReported DEF KickOtc
  <2>3. CASE ~(Otc \notin b.dpcr \/ b.chan[Otc].mode # "trigger")
    <3> DEFINE g == Grant(b, Otc, CostOf(b, Otc) + 2)
    <3>1. Sound(g, {}) /\ SameInterrupts(b, g)
      BY <1>0, <1>4, GrantSound
    <3>2. KickOtc(b) = Advance(g, CostOf(b, Otc))
      BY <2>3 DEF KickOtc
    <3> HIDE DEF g
    <3>3. Sound(Advance(g, CostOf(b, Otc)), {}) /\ SameInterrupts(g, Advance(g, CostOf(b, Otc)))
      BY <1>0, <1>4, <3>1, AdvanceSound
    <3> QED BY <2>1, <3>1, <3>2, <3>3, SameInterruptsReported
  <2> QED BY <2>2, <2>3
<1> QED BY <1>1, <1>2, <1>3, <1>4, ChannelsAssumption

-----------------------------------------------------------------------------
\* The inductive invariant.  The exact cache is what lets a drain trust its
\* early out; the edge of a drain under way stands for the interrupt it owes.
IInv ==
  /\ TypeOK
  /\ Sound(bus, {})
  /\ drain.edge \/ Reported(bus)
  /\ OnCpu => ~drain.edge
  /\ drain.stage = "slots" => bus.queue.targets[VBlank] > bus.now

LEMMA InitInv == Init => IInv
<1> SUFFICES ASSUME Init PROVE IInv
  OBVIOUS
<1> DEFINE q == Schedule(EmptyQueue, VBlank, 0, FirstVBlank)
<1>1. /\ q \in QueueType
      /\ Exact(q)
      /\ VBlank \in q.pending
      /\ q.targets[VBlank] = FirstVBlank
  <2>1. EmptyQueue \in QueueType /\ Exact(EmptyQueue)
    BY MaxTimeAssumption DEF EmptyQueue, QueueType, Exact, Times
  <2>2. /\ q \in QueueType
        /\ Exact(q)
        /\ q.pending = EmptyQueue.pending \cup {VBlank}
        /\ q.targets = [EmptyQueue.targets EXCEPT ![VBlank] = SaturatingAdd(0, FirstVBlank)]
    BY <2>1, SlotsDiffer, PeriodAssumption, ScheduleIsExact
  <2>3. SaturatingAdd(0, FirstVBlank) = FirstVBlank
    BY PeriodAssumption, ClockAssumption, MaxTimeAssumption DEF SaturatingAdd, Lesser
  <2>4. EmptyQueue.targets \in [Slots -> Times]
    BY <2>1 DEF QueueType
  <2> QED BY <2>2, <2>3, <2>4, SlotsDiffer
<1> HIDE DEF q
<1>2. PICK w \in Words :
        bus = [now |-> 0, queue |-> q, dpcr |-> {},
               chan |-> [ch \in Channels |->
                           [start |-> FALSE, mode |-> ResetMode(ch), words |-> w]],
               dicr |-> ResetDicr, istat |-> {}, waiting |-> FALSE,
               granted |-> {}, refused |-> {}, acked |-> FALSE]
  BY DEF Init, q
<1>3. \A ch \in Channels : [start |-> FALSE, mode |-> ResetMode(ch), words |-> w] \in ChannelType
  BY ModesAssumption DEF ChannelType
<1>4. bus \in BusShape /\ bus \in BusType
  BY <1>1, <1>2, <1>3, ClockAssumption DEF BusShape, BusType, DicrType, ResetDicr
<1>5. OnGrid(bus)
  <2>1. 0 \in 0..MaxTime /\ FirstVBlank = FirstVBlank + 0 * VBlankPeriod
    BY MaxTimeAssumption, PeriodAssumption
  <2> QED BY <1>1, <1>2, <2>1 DEF OnGrid
<1>6. Sound(bus, {})
  BY <1>1, <1>2, <1>4, <1>5 DEF Sound, HasEnd
<1>7. Reported(bus)
  BY <1>2 DEF Reported, MasterFlag, ResetDicr
<1>8. /\ drain \in DrainType /\ drain.stage = "cpu" /\ ~drain.edge
      /\ line \in LineType
  BY DEF Init, Idle, DrainType, LineType
<1> QED BY <1>4, <1>6, <1>7, <1>8 DEF IInv, TypeOK

LEMMA WithinBound ==
  ASSUME NEW b \in BusShape, b.now <= MaxClock
  PROVE  b \in BusType
BY ClockAssumption DEF BusShape, BusType

\* Every CPU store keeps the invariant.
LEMMA StoresKeepInv ==
  ASSUME IInv, OnCpu, UNCHANGED drain, line' \in LineType,
         Sound(bus', {}), Reported(bus)=> Reported(bus'), bus'.now <= MaxClock
  PROVE  IInv'
BY WithinBound DEF IInv, TypeOK, OnCpu, Sound

LEMMA ChcrKeepsInv ==
  ASSUME IInv, NEW ch \in Channels, NEW start \in BOOLEAN, NEW mode \in Modes[ch],
         WriteChcr(ch, start, mode)
  PROVE  IInv'
<1> DEFINE written == [bus EXCEPT !.chan[ch].start = start, !.chan[ch].mode = mode,
                                  !.granted = @ \ {ch}, !.refused = @ \ {ch}]
<1>1. /\ written.chan = [bus.chan EXCEPT ![ch] = [bus.chan[ch] EXCEPT !.start = start,
                                                                   !.mode = mode]]
      /\ written.queue = bus.queue /\ written.waiting = bus.waiting
      /\ written.now = bus.now /\ written.refused = bus.refused \ {ch}
      /\ SameInterrupts(bus, written)
  BY DEF IInv, Sound, BusShape, SameInterrupts
<1>2. /\ bus \in BusShape
      /\ bus.chan \in [Channels -> ChannelType]
      /\ mode \in UNION {Modes[x] : x \in Channels}
  BY DEF IInv, Sound, BusShape
<1>3. [bus.chan[ch] EXCEPT !.start = start, !.mode = mode] \in ChannelType
  BY <1>2 DEF ChannelType
<1>4. written \in BusShape
  <2>1. written.chan \in [Channels -> ChannelType]
    BY <1>1, <1>2, <1>3
  <2> QED BY <1>2, <2>1 DEF BusShape
<1>5. \A x \in Channels \ {ch} : written.chan[x] = bus.chan[x]
  BY <1>1, <1>2
<1>6. written.chan[ch].start = start
  BY <1>1, <1>2 DEF ChannelType
<1>7. bus' = (IF start THEN RunDmaChannel(written, ch) ELSE written) /\ bus'.now <= MaxClock
  BY DEF WriteChcr, ClockWithinBound
<1>8. OnCpu /\ UNCHANGED drain /\ line' \in LineType
  BY DEF WriteChcr, IInv, TypeOK
<1> HIDE DEF written
<1>9. Sound(written, {ch})
  BY <1>1, <1>4, <1>5 DEF IInv, Sound, OnGrid, HasEnd
<1>10. Reported(written)
  BY <1>1, <1>8, SameInterruptsReported DEF IInv
<1>11. CASE start
  BY <1>7, <1>8, <1>9, <1>10, <1>11, KickSound, StoresKeepInv
<1>12. CASE ~start
  <2>1. Sound(written, {})
    BY <1>6, <1>9, <1>12 DEF Sound, HasEnd
  <2> QED BY <1>7, <1>8, <1>10, <1>12, <2>1, StoresKeepInv
<1> QED BY <1>11, <1>12

\* The other register stores.
LEMMA RegistersKeepInv ==
  ASSUME IInv,
         \/ \E ch \in Channels, words \in Words : WriteBcr(ch, words)
         \/ \E enabled \in DpcrValues : WriteDpcr(enabled)
         \/ \E value \in DicrValues : StoreDicr(value)
         \/ \E kept \in SUBSET {"VBlank", "Dma"} : WriteIStat(kept)
         \/ \E ch \in Channels \ {Otc} : LineChanges(ch)
  PROVE  IInv'
<1>0. /\ bus \in BusShape /\ bus.now <= MaxClock
      /\ Sound(bus, {}) /\ line \in LineType
      /\ OnCpu => Reported(bus)
  BY DEF IInv, Sound, TypeOK, BusType
<1>1. ASSUME NEW ch \in Channels, NEW words \in Words, WriteBcr(ch, words)
      PROVE  IInv'
  <2>1. /\ bus' \in BusShape
        /\ bus'.queue = bus.queue /\ bus'.waiting = bus.waiting /\ bus'.now = bus.now
        /\ bus'.refused = bus.refused /\ SameInterrupts(bus, bus')
        /\ bus'.chan = [bus.chan EXCEPT ![ch] = [bus.chan[ch] EXCEPT !.words = words]]
    <3>1. [bus.chan[ch] EXCEPT !.words = words] \in ChannelType
      BY <1>0 DEF BusShape, ChannelType
    <3>2. [bus.chan EXCEPT ![ch] = [bus.chan[ch] EXCEPT !.words = words]] \in [Channels -> ChannelType]
      BY <1>0, <3>1 DEF BusShape
    <3> QED BY <1>0, <1>1, <3>2 DEF WriteBcr, BusShape, SameInterrupts
  <2>2. \A x \in Channels : bus'.chan[x].start = bus.chan[x].start
    BY <1>0, <2>1 DEF BusShape, ChannelType
  <2>3. Sound(bus', {})
    BY <1>0, <2>1, <2>2 DEF Sound, OnGrid, HasEnd
  <2> QED BY <1>0, <1>1, <2>1, <2>3, SameInterruptsReported, StoresKeepInv DEF WriteBcr
<1>2. ASSUME NEW enabled \in DpcrValues, WriteDpcr(enabled)
      PROVE  IInv'
  <2>1. /\ bus' \in BusShape
        /\ bus'.queue = bus.queue /\ bus'.waiting = bus.waiting /\ bus'.now = bus.now
        /\ bus'.refused = bus.refused /\ SameInterrupts(bus, bus')
        /\ bus'.chan = bus.chan
    BY <1>0, <1>2, StoresAssumption DEF WriteDpcr, BusShape, SameInterrupts
  <2>2. Sound(bus', {})
    BY <1>0, <2>1 DEF Sound, OnGrid, HasEnd
  <2> QED BY <1>0, <1>2, <2>1, <2>2, SameInterruptsReported, StoresKeepInv DEF WriteDpcr
<1>3. ASSUME NEW value \in DicrValues, StoreDicr(value)
      PROVE  IInv'
  <2> DEFINE dicr == WriteDicr(bus.dicr, value)
             silent == [bus EXCEPT !.dicr = dicr, !.acked = @ /\ MasterFlag(dicr)]
             raised == [silent EXCEPT !.istat = @ \cup {"Dma"}]
  <2>1. dicr \in DicrType
    BY <1>0, StoresAssumption DEF BusShape, DicrType, WriteDicr
  <2>2. MasterFlag(dicr) \in BOOLEAN
    BY <2>1 DEF MasterFlag, DicrType
  <2>3. bus' = IF MasterEdge(bus.dicr, dicr) THEN raised ELSE silent
    <3> DEFINE stored == [bus EXCEPT !.dicr = WriteDicr(@, value)]
    <3>1. stored.dicr = dicr
      BY <1>0 DEF BusShape
    <3>2. [stored EXCEPT !.acked = @ /\ MasterFlag(stored.dicr)] = silent
      BY <1>0, <3>1 DEF BusShape
    <3>3. silent.dicr = dicr
      BY <1>0 DEF BusShape
    <3>4. bus' = RaiseOnEdge(bus, silent)
      BY <1>3, <3>2 DEF StoreDicr
    <3> QED BY <3>3, <3>4 DEF RaiseOnEdge
  <2> HIDE DEF dicr
  <2>4. /\ silent \in BusShape /\ raised \in BusShape
        /\ silent.istat = bus.istat /\ raised.istat = bus.istat \cup {"Dma"}
        /\ silent.dicr = dicr /\ raised.dicr = dicr
        /\ silent.acked = (bus.acked /\ MasterFlag(dicr))
        /\ silent.queue = bus.queue /\ silent.waiting = bus.waiting /\ silent.now = bus.now
        /\ silent.refused = bus.refused /\ silent.chan = bus.chan
        /\ raised.queue = bus.queue /\ raised.waiting = bus.waiting /\ raised.now = bus.now
        /\ raised.refused = bus.refused /\ raised.chan = bus.chan
    BY <1>0, <2>1, <2>2 DEF BusShape
  <2> HIDE DEF silent, raised
  <2>5. Sound(silent, {}) /\ Sound(raised, {})
    BY <1>0, <2>4 DEF Sound, OnGrid, HasEnd
  <2>6. Reported(bus) => Reported(bus')
    BY <2>3, <2>4 DEF Reported, MasterEdge
  <2> QED BY <1>0, <1>3, <2>3, <2>4, <2>5, <2>6, StoresKeepInv DEF StoreDicr
<1>4. ASSUME NEW kept \in SUBSET {"VBlank", "Dma"}, WriteIStat(kept)
      PROVE  IInv'
  <2>1. MasterFlag(bus.dicr) \in BOOLEAN
    BY <1>0 DEF MasterFlag, DicrType, BusShape
  <2>2. /\ bus' \in BusShape
        /\ bus'.queue = bus.queue /\ bus'.waiting = bus.waiting /\ bus'.now = bus.now
        /\ bus'.refused = bus.refused /\ bus'.chan = bus.chan
        /\ bus'.dicr = bus.dicr /\ bus'.istat = bus.istat \cap kept
        /\ bus'.acked = (bus.acked \/ ("Dma" \notin kept /\ MasterFlag(bus.dicr)))
    BY <1>0, <1>4, <2>1 DEF WriteIStat, BusShape
  <2>3. Sound(bus', {})
    BY <1>0, <2>2 DEF Sound, OnGrid, HasEnd
  <2>4. Reported(bus) => Reported(bus')
    BY <2>2 DEF Reported
  <2> QED BY <1>0, <1>4, <2>2, <2>3, <2>4, StoresKeepInv DEF WriteIStat
<1>5. ASSUME NEW ch \in Channels \ {Otc}, LineChanges(ch)
      PROVE  IInv'
  <2>1. line' \in LineType /\ bus' = bus /\ drain' = drain /\ OnCpu
    BY <1>0, <1>5 DEF LineChanges, LineType
  <2> QED BY <1>0, <2>1, StoresKeepInv
<1> QED BY <1>1, <1>2, <1>3, <1>4, <1>5

\* The clock: the drain it may start is at its first loop with no edge yet.
LEMMA ClockKeepsInv ==
  ASSUME IInv,
         \/ \E n \in TickLengths : Tick(n) \/ AddCycles(n)
         \/ BranchBoundary
  PROVE  IInv'
<1>0. /\ Sound(bus, {}) /\ line \in LineType /\ bus \in BusType /\ bus \in BusShape
      /\ OnCpu => Reported(bus)
      /\ OnCpu => ~drain.edge
  BY DEF IInv, Sound, TypeOK
<1>1. ASSUME NEW n \in TickLengths
      PROVE  LET c == Advance(bus, n)
             IN  Sound(c, {}) /\ SameInterrupts(bus, c)
  <2>1. n \in Nat
    BY TicksAssumption
  <2> QED BY <1>0, <2>1, AdvanceSound
<1>2. ASSUME NEW b, NEW post \in BOOLEAN, StartDrain(b, post)
      PROVE  /\ drain' \in DrainType
             /\ ~drain'.edge
             /\ drain'.stage # "slots"
  BY <1>2 DEF StartDrain, DrainType, Idle
<1>3. ASSUME NEW n \in TickLengths, Tick(n)
      PROVE  IInv'
  <2>1. bus' = Advance(bus, n) /\ bus'.now <= MaxClock /\ line' = line /\ OnCpu
        /\ StartDrain(bus', FALSE)
    BY <1>3 DEF Tick, ClockWithinBound
  <2>2. Sound(bus', {}) /\ Reported(bus')
    BY <1>0, <1>1, <2>1, SameInterruptsReported
  <2>3. bus' \in BusType
    BY <2>1, <2>2, WithinBound DEF Sound
  <2>4. /\ drain' \in DrainType
        /\ ~drain'.edge
        /\ drain'.stage # "slots"
    BY <1>2, <2>1
  <2> QED BY <1>0, <2>1, <2>2, <2>3, <2>4 DEF IInv, TypeOK, OnCpu
<1>4. ASSUME NEW n \in TickLengths, AddCycles(n)
      PROVE  IInv'
  <2>1. bus' = Advance(bus, n) /\ bus'.now <= MaxClock /\ line' = line /\ drain' = drain /\ OnCpu
    BY <1>4 DEF AddCycles, ClockWithinBound
  <2>2. Sound(bus', {}) /\ Reported(bus')
    BY <1>0, <1>1, <2>1, SameInterruptsReported
  <2> QED BY <1>0, <2>1, <2>2, StoresKeepInv
<1>5. CASE BranchBoundary
  <2>1. bus' = bus /\ line' = line /\ OnCpu /\ StartDrain(bus, TRUE)
    BY <1>5 DEF BranchBoundary
  <2>2. /\ drain' \in DrainType
        /\ ~drain'.edge
        /\ drain'.stage # "slots"
    BY <1>2, <2>1
  <2> QED BY <1>0, <2>1, <2>2 DEF IInv, TypeOK, OnCpu, Reported
<1> QED BY <1>3, <1>4, <1>5

\* VBlank re-armed from its own deadline is on the grid again: a due deadline is
\* within the bound of the clock, so adding a period does not saturate.
LEMMA RearmSound ==
  ASSUME NEW b, Sound(b, {}), b.now <= MaxClock, DueInclusive(b.queue, VBlank, b.now)
  PROVE  LET c == RearmVBlank(b)
         IN  Sound(c, {}) /\ SameInterrupts(b, c) /\ c.now = b.now
<1> DEFINE t == b.queue.targets[VBlank]
           r == Remove(b.queue, VBlank)
           q == Schedule(r, VBlank, t, VBlankPeriod)
           c == RearmVBlank(b)
<1>1. /\ b \in BusShape /\ b.queue \in QueueType /\ Exact(b.queue)
      /\ t \in Times /\ t \in Nat /\ b.now \in Nat /\ t <= b.now
      /\ VBlankPeriod \in Nat /\ VBlankPeriod > 0 /\ FirstVBlank \in Nat
      /\ MaxTime \in Nat /\ MaxClock \in Nat
  BY SlotsDiffer, PeriodAssumption, ClockAssumption, MaxTimeAssumption
     DEF Sound, BusShape, QueueType, Times, DueInclusive
<1>2. /\ r \in QueueType
      /\ Exact(r)
      /\ r.pending = b.queue.pending \ {VBlank}
      /\ r.targets = b.queue.targets
  BY <1>1, SlotsDiffer, RemoveIsExact
<1> HIDE DEF r
<1>3. /\ q \in QueueType
      /\ Exact(q)
      /\ q.pending = r.pending \cup {VBlank}
      /\ q.targets = [r.targets EXCEPT ![VBlank] = SaturatingAdd(t, VBlankPeriod)]
  BY <1>1, <1>2, SlotsDiffer, ScheduleIsExact
<1>4. SaturatingAdd(t, VBlankPeriod) = t + VBlankPeriod
  BY <1>1, ClockAssumption DEF SaturatingAdd, Lesser
<1>5. q.targets[VBlank] = t + VBlankPeriod
  <2>1. b.queue.targets \in [Slots -> Times]
    BY <1>1 DEF QueueType
  <2> QED BY <1>2, <1>3, <1>4, <2>1, SlotsDiffer
<1> HIDE DEF q
<1>6. c = [b EXCEPT !.queue = q]
  BY DEF RearmVBlank, q, r
<1> HIDE DEF c
<1>7. /\ c \in BusShape
      /\ c.queue = q /\ c.chan = b.chan /\ c.waiting = b.waiting
      /\ c.refused = b.refused /\ c.now = b.now
      /\ SameInterrupts(b, c)
  BY <1>1, <1>3, <1>6 DEF BusShape, SameInterrupts
<1>8. OnGrid(c)
  <2>1. PICK n \in 0..MaxTime : t = FirstVBlank + n * VBlankPeriod
    BY DEF Sound, OnGrid
  <2>2. (n + 1) * VBlankPeriod = n * VBlankPeriod + VBlankPeriod
    BY <1>1
  <2>3. t + VBlankPeriod = FirstVBlank + (n + 1) * VBlankPeriod
    BY <1>1, <2>1, <2>2
  <2>4. n + 1 <= (n + 1) * VBlankPeriod
    BY <1>1
  <2>5. t + VBlankPeriod <= MaxTime
    BY <1>1, ClockAssumption
  <2>6. n + 1 \in 0..MaxTime
    <3> DEFINE m == (n + 1) * VBlankPeriod
    <3>1. m \in Nat /\ n + 1 <= m /\ FirstVBlank + m <= MaxTime
      BY <1>1, <2>3, <2>4, <2>5
    <3> HIDE DEF m
    <3> QED BY <1>1, <3>1
  <2> QED BY <1>3, <1>5, <1>7, <2>3, <2>6 DEF OnGrid
<1>9. \A x \in Channels : HasEnd(c, x)
  BY <1>2, <1>3, <1>7, SlotsDiffer DEF Sound, HasEnd
<1> QED BY <1>3, <1>7, <1>8, <1>9 DEF Sound, c

\* Setting a bit of I_STAT changes nothing else.
LEMMA RaiseSound ==
  ASSUME NEW b, NEW X, Sound(b, X), NEW source \in {"VBlank", "Dma"}
  PROVE  LET c == [b EXCEPT !.istat = @ \cup {source}]
         IN  /\ Sound(c, X)
             /\ c.istat = b.istat \cup {source}
             /\ c.dicr = b.dicr /\ c.acked = b.acked /\ c.now = b.now /\ c.queue = b.queue
<1> DEFINE c == [b EXCEPT !.istat = @ \cup {source}]
<1>1. /\ c \in BusShape
      /\ c.istat = b.istat \cup {source}
      /\ c.dicr = b.dicr /\ c.acked = b.acked /\ c.now = b.now /\ c.queue = b.queue
      /\ c.chan = b.chan /\ c.waiting = b.waiting /\ c.refused = b.refused
  BY DEF Sound, BusShape
<1> HIDE DEF c
<1>2. Sound(c, X)
  BY <1>1 DEF Sound, OnGrid, HasEnd
<1> QED BY <1>1, <1>2 DEF c

\* A channel completed by the drain: the edge is either made here, and gathered,
\* or the master flag is as it was.
LEMMA DrainedSound ==
  ASSUME NEW b, Sound(b, {}), NEW ch \in Channels
  PROVE  LET c == Complete([b EXCEPT !.queue = Remove(@, SlotOf[ch])], ch)
         IN  /\ Sound(c, {})
             /\ c.now = b.now /\ c.istat = b.istat /\ c.acked = b.acked
             /\ c.queue.targets = b.queue.targets
             /\ c.queue.pending = b.queue.pending \ {SlotOf[ch]}
             /\ MasterFlag(b.dicr) => MasterFlag(c.dicr)
             /\ Reported(b) => MasterEdge(b.dicr, c.dicr) \/ Reported(c)
<1> DEFINE r == [b EXCEPT !.queue = Remove(@, SlotOf[ch])]
           c == Complete(r, ch)
<1>1. /\ Sound(r, {} \cup {ch})
      /\ SameInterrupts(b, r)
      /\ r.now = b.now
      /\ r.queue.targets = b.queue.targets
      /\ r.queue.pending = b.queue.pending \ {SlotOf[ch]}
  BY RemoveSound
<1> HIDE DEF r
<1>2. /\ Sound(c, ({} \cup {ch}) \ {ch})
      /\ c.istat = r.istat /\ c.acked = r.acked /\ c.now = r.now
      /\ c.queue = r.queue
      /\ MasterFlag(r.dicr) => MasterFlag(c.dicr)
  BY <1>1, CompleteSound
<1>3. ({} \cup {ch}) \ {ch} = {}
  OBVIOUS
<1> HIDE DEF c
<1>4. Sound(c, {})
  BY <1>2, <1>3
<1>5. /\ c.now = b.now /\ c.istat = b.istat /\ c.acked = b.acked
      /\ c.queue.targets = b.queue.targets
      /\ c.queue.pending = b.queue.pending \ {SlotOf[ch]}
      /\ MasterFlag(b.dicr) => MasterFlag(c.dicr)
  BY <1>1, <1>2 DEF SameInterrupts
<1>6. Reported(b) => MasterEdge(b.dicr, c.dicr) \/ Reported(c)
  BY <1>5 DEF Reported, MasterEdge
<1> QED BY <1>4, <1>5, <1>6 DEF c, r

LEMMA DrainKeepsInv ==
  ASSUME IInv, DrainVBlank \/ DrainSlot \/ FinishDrain
  PROVE  IInv'
<1>0. /\ Sound(bus, {}) /\ line \in LineType /\ bus \in BusType /\ bus \in BusShape
      /\ drain \in DrainType
      /\ drain.edge \/ Reported(bus)
      /\ bus.now <= MaxClock
      /\ drain.stage = "slots" => bus.queue.targets[VBlank] > bus.now
  BY DEF IInv, Sound, TypeOK, BusType
<1>1. ASSUME DrainVBlank, DueInclusive(bus.queue, VBlank, bus.now)
      PROVE  IInv'
  <2> DEFINE c == RearmVBlank(bus)
  <2>1. Sound(c, {}) /\ SameInterrupts(bus, c) /\ c.now = bus.now
    BY <1>0, <1>1, RearmSound
  <2>2. /\ bus' = [c EXCEPT !.istat = @ \cup {"VBlank"}]
        /\ UNCHANGED <<line, drain>> /\ drain.stage = "vblank"
    BY <1>1 DEF DrainVBlank
  <2> HIDE DEF c
  <2>3. /\ Sound(bus', {})
        /\ bus'.istat = c.istat \cup {"VBlank"}
        /\ bus'.dicr = c.dicr /\ bus'.acked = c.acked /\ bus'.now = c.now
    BY <2>1, <2>2, RaiseSound
  <2>4. Reported(bus) => Reported(bus')
    BY <2>1, <2>3 DEF Reported, SameInterrupts
  <2>5. bus' \in BusType
    BY <1>0, <2>1, <2>3, WithinBound DEF Sound
  <2> QED BY <1>0, <2>2, <2>3, <2>4, <2>5 DEF IInv, TypeOK, OnCpu
<1>2. ASSUME DrainVBlank, ~DueInclusive(bus.queue, VBlank, bus.now)
      PROVE  IInv'
  <2>1. /\ bus' = bus /\ line' = line
        /\ drain' = [drain EXCEPT !.stage = "slots"]
    BY <1>2 DEF DrainVBlank
  <2>2. /\ drain' \in DrainType /\ drain'.edge = drain.edge /\ drain'.stage = "slots"
    BY <1>0, <2>1 DEF DrainType
  <2>3. bus.queue.targets[VBlank] > bus.now
    <3>1. bus.queue.targets[VBlank] \in Nat /\ bus.now \in Nat
      BY <1>0, SlotsDiffer, MaxTimeAssumption DEF BusShape, QueueType, Times
    <3>2. VBlank \in bus.queue.pending
      BY <1>0 DEF Sound, OnGrid
    <3> QED BY <1>2, <3>1, <3>2 DEF DueInclusive
  <2> QED BY <1>0, <2>1, <2>2, <2>3 DEF IInv, TypeOK, OnCpu, Reported
<1>3. CASE DrainSlot
  <2>1. PICK ch \in Channels :
          /\ bus' = Complete([bus EXCEPT !.queue = Remove(@, SlotOf[ch])], ch)
          /\ drain' = [drain EXCEPT !.edge = @ \/ MasterEdge(bus.dicr, bus'.dicr)]
          /\ line' = line /\ drain.stage = "slots"
    BY <1>3 DEF DrainSlot
  <2>2. /\ Sound(bus', {})
        /\ bus'.now = bus.now /\ bus'.queue.targets = bus.queue.targets
        /\ Reported(bus) => MasterEdge(bus.dicr, bus'.dicr) \/ Reported(bus')
    BY <1>0, <2>1, DrainedSound
  <2>3. MasterEdge(bus.dicr, bus'.dicr) \in BOOLEAN
    BY DEF MasterEdge
  <2>4. /\ drain' \in DrainType /\ drain'.stage = "slots"
        /\ drain'.edge = (drain.edge \/ MasterEdge(bus.dicr, bus'.dicr))
    BY <1>0, <2>1, <2>3 DEF DrainType
  <2>5. bus' \in BusType
    BY <1>0, <2>2, WithinBound DEF Sound
  <2> QED BY <1>0, <2>1, <2>2, <2>4, <2>5 DEF IInv, TypeOK, OnCpu
<1>4. CASE FinishDrain
  <2> DEFINE takesCd == /\ drain.post /\ Cd \in Channels
                        /\ DueInclusive(bus.queue, SlotOf[Cd], bus.now)
             after == IF takesCd
                      THEN Complete([bus EXCEPT !.queue = Remove(@, SlotOf[Cd])], Cd)
                      ELSE bus
             edge == drain.edge \/ MasterEdge(bus.dicr, after.dicr)
  <2>1. /\ bus' = IF edge THEN [after EXCEPT !.istat = @ \cup {"Dma"}] ELSE after
        /\ drain' = Idle /\ line' = line
    BY <1>4 DEF FinishDrain
  <2>2. /\ Sound(after, {}) /\ after.now = bus.now
        /\ Reported(bus) => MasterEdge(bus.dicr, after.dicr) \/ Reported(after)
    <3>1. CASE takesCd
      BY <1>0, <3>1, DrainedSound
    <3>2. CASE ~takesCd
      BY <1>0, <3>2
    <3> QED BY <3>1, <3>2
  <2> HIDE DEF after
  <2>3. Sound(bus', {}) /\ bus'.now = bus.now
    BY <2>1, <2>2, RaiseSound
  <2>4. Reported(bus')
    <3>1. CASE edge
      BY <2>1, <2>2, <3>1, RaiseSound DEF Reported
    <3>2. CASE ~edge
      BY <1>0, <2>1, <2>2, <3>2
    <3> QED BY <3>1, <3>2
  <2>5. bus' \in BusType
    BY <1>0, <2>3, WithinBound DEF Sound
  <2> QED BY <1>0, <2>1, <2>3, <2>4, <2>5 DEF IInv, TypeOK, OnCpu, Idle, DrainType
<1> QED BY <1>1, <1>2, <1>3, <1>4

LEMMA NextInv == IInv /\ [Next]_vars => IInv'
<1> SUFFICES ASSUME IInv, [Next]_vars PROVE IInv'
  OBVIOUS
<1>1. CASE UNCHANGED vars
  BY <1>1 DEF vars, IInv, TypeOK, OnCpu, Reported, Sound, OnGrid, HasEnd
<1>2. CASE Next
  BY <1>2, ChcrKeepsInv, RegistersKeepInv, ClockKeepsInv, DrainKeepsInv DEF Next
<1> QED BY <1>1, <1>2

LEMMA InvAlways == Spec => []IInv
BY InitInv, NextInv, PTL DEF Spec

-----------------------------------------------------------------------------
\* The registers, the queue and the drain keep their types.
THEOREM TypeCorrect == Spec => []TypeOK
<1>1. IInv => TypeOK
  BY DEF IInv
<1> QED BY <1>1, InvAlways, PTL

\* No channel is ever busy with nothing that would end it, whatever the stores,
\* the lines and the drains do in between.
THEOREM NoChannelHangs == Spec => []BusyHasAnEnd
<1>1. IInv => BusyHasAnEnd
  BY DEF IInv, Sound, HasEnd, BusyHasAnEnd
<1> QED BY <1>1, InvAlways, PTL

\* No master-flag edge of DICR is lost on its way to I_STAT.
THEOREM NoInterruptLost == Spec => []DmaInterruptNotLost
<1>1. IInv => DmaInterruptNotLost
  BY DEF IInv, Reported, DmaInterruptNotLost
<1> QED BY <1>1, InvAlways, PTL

\* VBlank never drifts off the grid of its period.
THEOREM VBlankDoesNotDrift == Spec => []VBlankKeepsItsGrid
<1>1. IInv => VBlankKeepsItsGrid
  BY DEF IInv, Sound, OnGrid, VBlankKeepsItsGrid
<1> QED BY <1>1, InvAlways, PTL

\* An early out trusts the cached deadline: nothing pending is due.
LEMMA EarlyOutIsRight ==
  ASSUME NEW b, Sound(b, {}), b.now < b.queue.earliest, NEW post \in BOOLEAN
  PROVE  NothingOverdue(b, post)
<1>1. /\ \A s \in Slots : b.queue.targets[s] \in Nat
      /\ b.queue.earliest \in Nat /\ b.now \in Nat
  BY MaxTimeAssumption DEF Sound, BusShape, QueueType, Times
<1>2. ASSUME NEW s \in Slots, s \in b.queue.pending
      PROVE  b.now < b.queue.targets[s]
  BY <1>1, <1>2 DEF Sound, Exact
<1> QED BY <1>1, <1>2 DEF NothingOverdue, Overdue

\* A drain that ends leaves nothing it was allowed to take.
LEMMA FinishLeavesNothing ==
  ASSUME IInv, FinishDrain
  PROVE  NothingOverdue(bus', drain.post)
<1> DEFINE takesCd == /\ drain.post /\ Cd \in Channels
                      /\ DueInclusive(bus.queue, SlotOf[Cd], bus.now)
           after == IF takesCd
                    THEN Complete([bus EXCEPT !.queue = Remove(@, SlotOf[Cd])], Cd)
                    ELSE bus
           edge == drain.edge \/ MasterEdge(bus.dicr, after.dicr)
<1>1. /\ Sound(bus, {}) /\ bus \in BusShape /\ bus.queue \in QueueType /\ Exact(bus.queue)
      /\ drain.post \in BOOLEAN
      /\ bus.now \in Nat /\ bus.now \in Times
      /\ \A s \in Slots : bus.queue.targets[s] \in Nat
      /\ bus.queue.targets[VBlank] > bus.now
  BY ClockAssumption, PeriodAssumption, MaxTimeAssumption
     DEF IInv, TypeOK, Sound, BusShape, BusType, DrainType, FinishDrain, QueueType, Times
<1>2. /\ bus' = IF edge THEN [after EXCEPT !.istat = @ \cup {"Dma"}] ELSE after
      /\ NextDue(bus.queue, bus.now, Excluded) = NoSlot
  BY DEF FinishDrain
<1>3. /\ Sound(after, {})
      /\ after.now = bus.now
      /\ after.queue.targets = bus.queue.targets
      /\ after.queue.pending = bus.queue.pending \ (IF takesCd THEN {SlotOf[Cd]} ELSE {})
  <2>1. CASE takesCd
    BY <1>1, <2>1, DrainedSound
  <2>2. CASE ~takesCd
    BY <1>1, <2>2
  <2> QED BY <2>1, <2>2
<1> HIDE DEF after
<1>4. bus'.now = after.now /\ bus'.queue = after.queue
  BY <1>2, <1>3, RaiseSound
<1>5. Excluded \in SUBSET Slots
  BY SlotsDiffer DEF Excluded, CdSlot
<1>6. {s \in bus.queue.pending \ Excluded : bus.queue.targets[s] < bus.now} = {}
  BY <1>1, <1>2, <1>5, NextDueIsFirstLate
<1>7. ASSUME NEW s \in Slots, Overdue(bus', s, drain.post)
      PROVE  FALSE
  <2>1. /\ s \in bus.queue.pending
        /\ takesCd => s # SlotOf[Cd]
        /\ bus'.queue.targets[s] = bus.queue.targets[s] /\ bus'.now = bus.now
    BY <1>3, <1>4, <1>7 DEF Overdue
  <2>2. CASE s = VBlank
    BY <1>1, <1>7, <2>1, <2>2 DEF Overdue
  <2>3. CASE drain.post /\ s \in CdSlot
    <3>1. Cd \in Channels /\ s = SlotOf[Cd]
      BY <2>3 DEF CdSlot
    <3>2. ~DueInclusive(bus.queue, s, bus.now)
      BY <2>1, <2>3, <3>1
    <3> QED BY <1>7, <2>1, <2>3, <3>2 DEF Overdue, DueInclusive
  <2>4. CASE ~(s = VBlank \/ (drain.post /\ s \in CdSlot))
    <3>1. s \notin CdSlot /\ bus.queue.targets[s] < bus.now
      BY <1>7, <2>1, <2>4 DEF Overdue
    <3>2. s \in bus.queue.pending \ Excluded
      BY <2>1, <3>1 DEF Excluded
    <3> QED BY <1>6, <3>1, <3>2
  <2> QED BY <2>2, <2>3, <2>4
<1> QED BY <1>7 DEF NothingOverdue

\* Every drain, and every early out, leaves nothing overdue.
THEOREM DrainIsComplete == Spec => DrainLeavesNothingOverdue
<1> DEFINE A == /\ FinishDrain => NothingOverdue(bus', drain.post)
                /\ (\E n \in TickLengths : Tick(n)) /\ drain' = Idle => NothingOverdue(bus', FALSE)
                /\ BranchBoundary /\ drain' = Idle => NothingOverdue(bus', TRUE)
<1>1. ASSUME NEW b, NEW post \in BOOLEAN, StartDrain(b, post), drain' = Idle
      PROVE  b.now < b.queue.earliest
  BY <1>1 DEF StartDrain, Idle
<1>2. IInv /\ IInv' /\ [Next]_vars => [A]_vars
  <2> SUFFICES ASSUME IInv, IInv' PROVE A
    OBVIOUS
  <2>1. FinishDrain => NothingOverdue(bus', drain.post)
    BY FinishLeavesNothing
  <2>2. Sound(bus', {})
    BY DEF IInv
  <2>3. ASSUME NEW n \in TickLengths, Tick(n), drain' = Idle
        PROVE  NothingOverdue(bus', FALSE)
    BY <1>1, <2>2, <2>3, EarlyOutIsRight DEF Tick
  <2>4. ASSUME BranchBoundary, drain' = Idle
        PROVE  NothingOverdue(bus', TRUE)
    BY <1>1, <2>2, <2>4, EarlyOutIsRight DEF BranchBoundary
  <2> QED BY <2>1, <2>3, <2>4
<1> QED BY <1>2, InvAlways, PTL DEF Spec, DrainLeavesNothingOverdue
=============================================================================
