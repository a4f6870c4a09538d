-------------------------- MODULE SchedulerProofs --------------------------
(***************************************************************************)
(* Theorems about Scheduler, for every set of slots, every clock width and *)
(* every choice of delays and exclusion masks.  First the lemmas that say  *)
(* what the operators of DeadlineQueue return.                             *)
(***************************************************************************)
EXTENDS Scheduler, WellFoundedInduction, TLAPS

-----------------------------------------------------------------------------
\* A nonempty set of natural numbers has a least element.
LEMMA LeastNatural ==
  ASSUME NEW S \in SUBSET Nat, S # {}
  PROVE  \E m \in S : \A n \in S : m <= n
<1>1. PICK m \in S : \A n \in S : ~(<<n, m>> \in OpToRel(<, Nat))
  BY WFMin, NatLessThanWellFounded
<1>2. ASSUME NEW n \in S
      PROVE  m <= n
  <2>1. m \in Nat /\ n \in Nat
    OBVIOUS
  <2>2. n < m => <<n, m>> \in {ss \in Nat \X Nat : ss[1] < ss[2]}
    BY <2>1
  <2>3. ~(n < m)
    BY <1>1, <2>2 DEF OpToRel
  <2> QED BY <2>1, <2>3
<1> QED BY <1>2

\* LeastTarget is a lower bound of the pending deadlines and is one of them
\* unless it is MaxTime: the CHOOSE of refresh_earliest always has a witness.
LEMMA LeastTargetIsLeast ==
  ASSUME NEW targets \in [Slots -> Times], NEW P \in SUBSET Slots
  PROVE  /\ LeastTarget(targets, P) \in Times
         /\ \A s \in P : LeastTarget(targets, P) <= targets[s]
         /\ \/ LeastTarget(targets, P) = MaxTime
            \/ \E s \in P : LeastTarget(targets, P) = targets[s]
<1> DEFINE Least(t) == /\ \A s \in P : t <= targets[s]
                       /\ t = MaxTime \/ \E s \in P : t = targets[s]
<1>1. \E t \in Times : Least(t)
  <2>1. CASE P = {}
    <3>1. MaxTime \in Times
      BY MaxTimeAssumption DEF Times
    <3> QED BY <2>1, <3>1
  <2>2. CASE P # {}
    <3> DEFINE T == {targets[s] : s \in P}
    <3>1. T \in SUBSET Nat /\ T # {}
      BY <2>2 DEF Times
    <3>2. PICK m \in T : \A n \in T : m <= n
      BY <3>1, LeastNatural
    <3>3. Least(m) /\ m \in Times
      BY <3>2
    <3> QED BY <3>3
  <2> QED BY <2>1, <2>2
<1>2. LeastTarget(targets, P) = CHOOSE t \in Times : Least(t)
  BY DEF LeastTarget
<1> HIDE DEF Least
<1>3. LeastTarget(targets, P) \in Times /\ Least(LeastTarget(targets, P))
  BY <1>1, <1>2
<1> QED BY <1>3 DEF Least

\* RefreshEarliest leaves the same deadlines under an exact cache.
LEMMA RefreshIsExact ==
  ASSUME NEW q \in QueueType
  PROVE  /\ RefreshEarliest(q) \in QueueType
         /\ Exact(RefreshEarliest(q))
         /\ RefreshEarliest(q).pending = q.pending
         /\ RefreshEarliest(q).targets = q.targets
<1>1. q.targets \in [Slots -> Times] /\ q.pending \in SUBSET Slots
  BY DEF QueueType
<1>2. RefreshEarliest(q)
        = [targets |-> q.targets, pending |-> q.pending,
           earliest |-> LeastTarget(q.targets, q.pending)]
  BY DEF RefreshEarliest, QueueType
<1> QED BY <1>1, <1>2, LeastTargetIsLeast DEF QueueType, Exact

LEMMA RemoveIsExact ==
  ASSUME NEW q \in QueueType, NEW slot \in Slots
  PROVE  /\ Remove(q, slot) \in QueueType
         /\ Exact(Remove(q, slot))
         /\ Remove(q, slot).pending = q.pending \ {slot}
         /\ Remove(q, slot).targets = q.targets
<1> DEFINE r == [q EXCEPT !.pending = @ \ {slot}]
<1>1. /\ r \in QueueType
      /\ r.pending = q.pending \ {slot}
      /\ r.targets = q.targets
  BY DEF QueueType
<1>2. Remove(q, slot) = RefreshEarliest(r)
  BY DEF Remove
<1> HIDE DEF r
<1> QED BY <1>1, <1>2, RefreshIsExact

LEMMA SaturatingAddType ==
  ASSUME NEW a \in Nat, NEW b \in Nat
  PROVE  SaturatingAdd(a, b) \in Times
BY MaxTimeAssumption DEF SaturatingAdd, Lesser, Times

\* `schedule` keeps the cache exact, in the branch that refreshes and in the
\* branch that takes a minimum.
LEMMA ScheduleIsExact ==
  ASSUME NEW q \in QueueType, Exact(q),
         NEW slot \in Slots, NEW t \in Nat, NEW delta \in Nat
  PROVE  LET r == Schedule(q, slot, t, delta)
         IN  /\ r \in QueueType
             /\ Exact(r)
             /\ r.pending = q.pending \cup {slot}
             /\ r.targets = [q.targets EXCEPT ![slot] = SaturatingAdd(t, delta)]
<1> DEFINE target == SaturatingAdd(t, delta)
           stored == [q EXCEPT !.targets[slot] = target, !.pending = @ \cup {slot}]
           r == Schedule(q, slot, t, delta)
<1>1. target \in Times
  BY SaturatingAddType
<1> HIDE DEF target
<1>2. /\ stored \in QueueType
      /\ stored.pending = q.pending \cup {slot}
      /\ stored.targets = [q.targets EXCEPT ![slot] = target]
      /\ stored.earliest = q.earliest
  BY <1>1 DEF QueueType
<1>3. CASE MovesEarliestLater(q, slot, target)
  <2>1. r = RefreshEarliest(stored)
    BY <1>3 DEF Schedule, target
  <2> HIDE DEF stored, r
  <2> QED BY <1>2, <2>1, RefreshIsExact DEF r, target
<1>4. CASE ~MovesEarliestLater(q, slot, target)
  <2>1. r = [stored EXCEPT !.earliest = Lesser(@, target)]
    BY <1>4 DEF Schedule, target
  <2> HIDE DEF stored, r
  <2>2. /\ r.pending = q.pending \cup {slot}
        /\ r.targets = [q.targets EXCEPT ![slot] = target]
        /\ r.earliest = Lesser(q.earliest, target)
        /\ r \in QueueType
    BY <1>1, <1>2, <2>1 DEF QueueType, Lesser, Times
  <2>3. /\ \A s \in Slots : q.targets[s] \in Nat
        /\ q.earliest \in Nat
        /\ q.earliest <= MaxTime
        /\ target \in Nat
        /\ q.targets \in [Slots -> Times]
        /\ q.pending \subseteq Slots
    BY <1>1 DEF QueueType, Times
  <2>4. \A s \in r.pending : r.earliest <= r.targets[s]
    <3>1. r.earliest <= target /\ r.earliest <= q.earliest
      BY <2>2, <2>3 DEF Lesser
    <3>2. ASSUME NEW s \in r.pending, s # slot
          PROVE  r.earliest <= r.targets[s]
      <4>1. /\ s \in q.pending
            /\ r.targets[s] = q.targets[s]
            /\ q.targets[s] \in Nat
        BY <2>2, <2>3, <3>2
      <4>2. q.earliest <= q.targets[s]
        BY <4>1 DEF Exact
      <4>3. r.earliest \in Nat
        BY <2>2, <2>3 DEF Lesser
      <4> QED BY <2>3, <3>1, <4>1, <4>2, <4>3
    <3>3. r.earliest <= r.targets[slot]
      BY <2>2, <2>3, <3>1
    <3> QED BY <3>2, <3>3
  <2>5. r.earliest = MaxTime \/ \E s \in r.pending : r.earliest = r.targets[s]
    <3>1. CASE target < q.earliest
      <4>1. r.earliest = target /\ r.targets[slot] = target /\ slot \in r.pending
        BY <2>2, <2>3, <3>1 DEF Lesser
      <4> QED BY <4>1
    <3>2. CASE ~(target < q.earliest)
      <4>1. r.earliest = q.earliest
        BY <2>2, <3>2 DEF Lesser
      <4>2. CASE q.earliest = MaxTime
        BY <4>1, <4>2
      <4>3. ASSUME NEW s \in q.pending, q.earliest = q.targets[s]
            PROVE  \E u \in r.pending : r.earliest = r.targets[u]
        <5>1. CASE s = slot
          \* not moved later and not earlier: the deadline is unchanged
          <6>1. target = q.earliest
            BY <1>4, <2>3, <3>2, <4>3, <5>1 DEF MovesEarliestLater
          <6>2. r.targets[slot] = target /\ slot \in r.pending
            BY <2>2, <2>3
          <6> QED BY <4>1, <6>1, <6>2
        <5>2. CASE s # slot
          BY <2>2, <2>3, <4>1, <4>3, <5>2
        <5> QED BY <5>1, <5>2
      <4> QED BY <4>2, <4>3 DEF Exact
    <3> QED BY <3>1, <3>2
  <2> QED BY <2>2, <2>4, <2>5 DEF Exact, r, target
<1> QED BY <1>3, <1>4

-----------------------------------------------------------------------------
\* A drain that finds no slot to return leaves nothing late behind, and the
\* slot it returns is the first late one: the early out on the cached deadline
\* and the strict test at the end of next_due lose nothing.
LEMMA NextDueIsFirstLate ==
  ASSUME NEW q \in QueueType, Exact(q), NEW t \in Times, NEW X \in SUBSET Slots
  PROVE  LET late == {s \in q.pending \ X : q.targets[s] < t}
             slot == NextDue(q, t, X)
         IN  /\ slot = NoSlot => late = {}
             /\ slot # NoSlot => /\ slot \in late
                                 /\ \A s \in late : Before(q, slot, s)
<1> DEFINE late == {s \in q.pending \ X : q.targets[s] < t}
           slot == NextDue(q, t, X)
<1>0. /\ q.pending \subseteq Slots
      /\ \A s \in Slots : q.targets[s] \in Nat
      /\ q.earliest \in Nat /\ t \in Nat
      /\ NoSlot \notin Slots
  BY SlotsAssumption, MaxTimeAssumption DEF QueueType, Times, NoSlot
<1>1. ASSUME late # {}
      PROVE  \E s \in Slots : TakesDue(q, s, t, X)
  <2> DEFINE C == q.pending \ X
             D == {q.targets[s] : s \in C}
  <2>1. D \in SUBSET Nat /\ D # {}
    BY <1>0, <1>1
  <2>2. PICK d \in D : \A e \in D : d <= e
    BY <2>1, LeastNatural
  <2> DEFINE E == {s \in C : q.targets[s] = d}
  <2>3. E \in SUBSET Nat /\ E # {}
    BY <1>0, <2>2, SlotsAssumption
  <2>4. PICK s \in E : \A u \in E : s <= u
    BY <2>3, LeastNatural
  <2>5. IsFirst(q, s, X)
    <3>1. ASSUME NEW u \in q.pending \ X
          PROVE  Before(q, s, u)
      <4>1. q.targets[u] \in D /\ d <= q.targets[u] /\ q.targets[s] = d
        BY <2>2, <2>4, <3>1
      <4>2. q.targets[u] \in Nat /\ d \in Nat
        BY <1>0, <2>1, <3>1
      <4>3. q.targets[u] = d => s <= u
        BY <2>4, <3>1
      <4> QED BY <4>1, <4>2, <4>3 DEF Before
    <3> QED BY <2>4, <3>1 DEF IsFirst
  <2>6. PICK l \in late : TRUE
    BY <1>1
  <2>7. q.targets[l] < t /\ q.targets[s] <= q.targets[l] /\ q.earliest <= q.targets[l]
    BY <2>2, <2>4, <2>6 DEF Exact
  <2>8. q.targets[s] < t /\ q.earliest < t
    BY <1>0, <2>4, <2>6, <2>7
  <2>9. s \in Slots
    BY <1>0, <2>4
  <2> QED BY <1>0, <2>5, <2>8, <2>9 DEF TakesDue
<1>2. CASE \E s \in Slots : TakesDue(q, s, t, X)
  <2>1. slot \in Slots /\ TakesDue(q, slot, t, X)
    BY <1>2 DEF NextDue
  <2>2. slot \in late /\ \A s \in late : Before(q, slot, s)
    BY <2>1 DEF TakesDue, IsFirst
  <2>3. slot # NoSlot
    BY <1>0, <2>1
  <2> QED BY <2>2, <2>3
<1>3. CASE ~ \E s \in Slots : TakesDue(q, s, t, X)
  BY <1>1, <1>3 DEF NextDue
<1> QED BY <1>2, <1>3

-----------------------------------------------------------------------------
Inv == TypeOK /\ EarliestIsExact

LEMMA InitInv == Init => Inv
BY MaxTimeAssumption
   DEF Init, Inv, TypeOK, EarliestIsExact, Exact, EmptyQueue, QueueType, Times,
       NoEvent, NoSlot, Ops

\* Every method keeps the field types and the exactness of the cache.
LEMMA NextInv == Inv /\ [Next]_vars => Inv'
<1> SUFFICES ASSUME Inv, [Next]_vars PROVE Inv'
  OBVIOUS
<1> USE DEF Inv, TypeOK, EarliestIsExact
<1> DEFINE CallOK == call \in [op : Ops, slots : SUBSET Slots]
<1>0. NoEvent \in [slot : Slots \cup {NoSlot}, target : Times]
  BY MaxTimeAssumption DEF NoEvent, Times
<1>a. ASSUME NEW op \in Ops, NEW X \in SUBSET Slots, Called(op, X)
      PROVE  CallOK'
  BY <1>a DEF Called
<1>b. /\ "schedule" \in Ops /\ "cancel" \in Ops /\ "take inclusive" \in Ops
      /\ "take due" \in Ops /\ "clock" \in Ops
  BY DEF Ops
<1>1. ASSUME NEW slot \in Slots, NEW delta \in Deltas, ScheduleSlot(slot, delta)
      PROVE  Inv'
  <2>1. now \in Nat /\ delta \in Nat
    BY DeltasAssumption DEF Times
  <2> QED BY <1>0, <1>1, <1>a, <1>b, <2>1, ScheduleIsExact DEF ScheduleSlot
<1>2. ASSUME NEW slot \in Slots, CancelSlot(slot)
      PROVE  Inv'
  BY <1>0, <1>2, <1>a, <1>b, RemoveIsExact DEF CancelSlot, Cancel
<1>3. ASSUME NEW slot \in Slots, TakeSlotDueInclusive(slot)
      PROVE  Inv'
  <2>1. CASE DueInclusive(queue, slot, now)
    <3>1. /\ queue' = Remove(queue, slot) /\ now' = now
          /\ CallOK'
      BY <1>3, <1>a, <1>b, <2>1 DEF TakeSlotDueInclusive
    <3>2. taken' \in [slot : Slots \cup {NoSlot}, target : Times]
      <4>1. taken' = [slot |-> slot, target |-> queue.targets[slot]]
        BY <1>3, <2>1 DEF TakeSlotDueInclusive
      <4>2. queue.targets[slot] \in Times
        BY DEF QueueType
      <4> QED BY <4>1, <4>2
    <3> QED BY <3>1, <3>2, RemoveIsExact
  <2>2. CASE ~DueInclusive(queue, slot, now)
    BY <1>0, <1>3, <1>a, <1>b, <2>2 DEF TakeSlotDueInclusive
  <2> QED BY <2>1, <2>2
<1>4. ASSUME NEW X \in ExcludedSets, TakeDueExcluding(X)
      PROVE  Inv'
  <2> DEFINE slot == NextDue(queue, now, X)
  <2>0. X \in SUBSET Slots
    BY ExcludedAssumption
  <2>1. CASE slot # NoSlot
    <3>1. slot \in queue.pending
      BY <2>0, <2>1, NextDueIsFirstLate
    <3>2. slot \in Slots
      BY <3>1 DEF QueueType
    <3>3. /\ queue' = Remove(queue, slot)
          /\ now' = now
          /\ taken' = [slot |-> slot, target |-> queue.targets[slot]]
          /\ CallOK'
      BY <1>4, <1>a, <1>b, <2>0, <2>1 DEF TakeDueExcluding
    <3> HIDE DEF slot
    <3>4. taken' \in [slot : Slots \cup {NoSlot}, target : Times]
      BY <3>2, <3>3 DEF QueueType
    <3> QED BY <3>2, <3>3, <3>4, RemoveIsExact
  <2>2. CASE slot = NoSlot
    BY <1>0, <1>4, <1>a, <1>b, <2>0, <2>2 DEF TakeDueExcluding
  <2> QED BY <2>1, <2>2
<1>5. ASSUME NEW t \in Times, AdvanceClock(t)
      PROVE  Inv'
  BY <1>0, <1>5, <1>a, <1>b DEF AdvanceClock
<1>6. CASE UNCHANGED vars
  BY <1>6 DEF vars
<1> QED BY <1>1, <1>2, <1>3, <1>4, <1>5, <1>6 DEF Next

\* The fields of the scheduler keep their types.
THEOREM TypeCorrect == Spec => []TypeOK
<1>1. Spec => []Inv
  BY InitInv, NextInv, PTL DEF Spec
<1> QED BY <1>1, PTL DEF Inv

\* The cached deadline is the least pending deadline in every reachable state,
\* so the one-comparison "is anything due" of take_due_excluding is never wrong.
THEOREM CacheIsExact == Spec => []EarliestIsExact
<1>1. Spec => []Inv
  BY InitInv, NextInv, PTL DEF Spec
<1> QED BY <1>1, PTL DEF Inv

-----------------------------------------------------------------------------
\* The refinement mapping: the deadlines of the pending slots.
Deadline == [s \in queue.pending |-> queue.targets[s]]

LEMMA RemoveMapped ==
  ASSUME Inv, NEW slot \in Slots, queue' = Remove(queue, slot)
  PROVE  Deadline' = [s \in queue.pending \ {slot} |-> Deadline[s]]
BY RemoveIsExact DEF Deadline, Inv, TypeOK

\* Every step of the scheduler is a step of the set of deadlines.
LEMMA StepImplements == Inv /\ [Next]_vars => [Abstract!Next]_(Abstract!vars)
<1> SUFFICES ASSUME Inv, [Next]_vars
             PROVE  [Abstract!Next]_(Abstract!vars)
  OBVIOUS
<1> USE DEF Called, Abstract!Called
<1>0. /\ queue \in QueueType /\ Exact(queue)
      /\ DOMAIN Deadline = queue.pending
      /\ \A s \in queue.pending : Deadline[s] = queue.targets[s]
      /\ queue.pending \subseteq Slots
      /\ \A s \in Slots : queue.targets[s] \in Times
      /\ now \in Times
      /\ NoEvent = Abstract!Nothing
  BY DEF Inv, TypeOK, EarliestIsExact, Deadline, QueueType, NoEvent, NoSlot, Abstract!Nothing
<1>1. ASSUME NEW slot \in Slots, NEW delta \in Deltas, ScheduleSlot(slot, delta)
      PROVE  Abstract!Next
  <2>1. delta \in Times /\ delta \in 0..MaxTime
    BY DeltasAssumption DEF Times
  <2>2. /\ queue'.pending = queue.pending \cup {slot}
        /\ queue'.targets = [queue.targets EXCEPT ![slot] = SaturatingAdd(now, delta)]
        /\ taken' = NoEvent /\ now' = now /\ Called("schedule", {slot})
    <3>1. /\ queue' = Schedule(queue, slot, now, delta)
          /\ taken' = NoEvent /\ now' = now /\ Called("schedule", {slot})
      BY <1>1 DEF ScheduleSlot
    <3>2. LET r == Schedule(queue, slot, now, delta)
          IN  /\ r.pending = queue.pending \cup {slot}
              /\ r.targets = [queue.targets EXCEPT ![slot] = SaturatingAdd(now, delta)]
      <4>1. now \in Nat /\ delta \in Nat
        BY <1>0, <2>1 DEF Times
      <4> QED BY <1>0, <4>1, ScheduleIsExact
    <3> QED BY <3>1, <3>2
  <2>3. SaturatingAdd(now, delta) = Abstract!Saturate(now + delta)
    BY <1>0, <2>1, MaxTimeAssumption DEF SaturatingAdd, Lesser, Abstract!Saturate, Times
  <2>4. queue.targets \in [Slots -> Times]
    BY <1>0 DEF QueueType
  <2>5. Deadline' = [s \in queue.pending \cup {slot} |->
                       IF s = slot THEN Abstract!Saturate(now + delta) ELSE Deadline[s]]
    BY <1>0, <2>2, <2>3, <2>4 DEF Deadline
  <2>6. Abstract!Arrange(slot, delta)
    BY <1>0, <2>2, <2>5 DEF Abstract!Arrange, Deadline
  <2> QED BY <2>1, <2>6 DEF Abstract!Next
<1>2. ASSUME NEW slot \in Slots, CancelSlot(slot)
      PROVE  Abstract!Next
  <2>1. Deadline' = [s \in queue.pending \ {slot} |-> Deadline[s]]
    <3>1. CASE slot \in queue.pending
      BY <1>2, <3>1, RemoveMapped DEF CancelSlot, Cancel
    <3>2. CASE slot \notin queue.pending
      <4>1. queue' = queue /\ queue.pending \ {slot} = queue.pending
        BY <1>2, <3>2 DEF CancelSlot, Cancel
      <4> QED BY <4>1 DEF Deadline
    <3> QED BY <3>1, <3>2
  <2>2. Abstract!Drop(slot)
    BY <1>0, <1>2, <2>1 DEF CancelSlot, Abstract!Drop, Abstract!Without, Deadline
  <2> QED BY <2>2 DEF Abstract!Next
<1>3. ASSUME NEW slot \in Slots, TakeSlotDueInclusive(slot)
      PROVE  Abstract!Next
  <2>1. CASE DueInclusive(queue, slot, now)
    <3>1. /\ queue' = Remove(queue, slot)
          /\ taken' = [slot |-> slot, target |-> queue.targets[slot]]
          /\ now' = now /\ Called("take inclusive", {slot})
          /\ slot \in queue.pending /\ queue.targets[slot] <= now
      BY <1>3, <2>1 DEF TakeSlotDueInclusive, DueInclusive
    <3>2. Deadline' = [s \in queue.pending \ {slot} |-> Deadline[s]]
      BY <3>1, RemoveMapped
    <3>3. Abstract!DeliverOnTime(slot)
      BY <1>0, <3>1, <3>2
         DEF Abstract!DeliverOnTime, Abstract!Deliver, Abstract!Without, Deadline
    <3> QED BY <3>3 DEF Abstract!Next
  <2>2. CASE ~DueInclusive(queue, slot, now)
    <3>1. Abstract!NothingOnTime(slot)
      BY <1>0, <1>3, <2>2
         DEF TakeSlotDueInclusive, DueInclusive, Abstract!NothingOnTime, Deadline
    <3> QED BY <3>1 DEF Abstract!Next
  <2> QED BY <2>1, <2>2
<1>4. ASSUME NEW X \in ExcludedSets, TakeDueExcluding(X)
      PROVE  Abstract!Next
  <2> DEFINE slot == NextDue(queue, now, X)
             late == {s \in queue.pending \ X : queue.targets[s] < now}
  <2>1. X \in SUBSET Slots
    BY ExcludedAssumption
  <2>2. /\ slot = NoSlot => late = {}
        /\ slot # NoSlot => slot \in late /\ \A s \in late : Before(queue, slot, s)
    BY <1>0, <2>1, NextDueIsFirstLate
  <2>3. Abstract!Late(X) = late
    BY <1>0 DEF Abstract!Late, Deadline
  <2>4. CASE slot # NoSlot
    <3>1. /\ queue' = Remove(queue, slot)
          /\ taken' = [slot |-> slot, target |-> queue.targets[slot]]
          /\ now' = now /\ Called("take due", X)
      BY <1>4, <2>4 DEF TakeDueExcluding
    <3> HIDE DEF slot
    <3>2. slot \in late /\ slot \in Slots
      BY <1>0, <2>2, <2>4
    <3>3. Deadline' = [s \in queue.pending \ {slot} |-> Deadline[s]]
      BY <3>1, <3>2, RemoveMapped
    <3>4. Abstract!Deliver(slot)
      BY <1>0, <3>1, <3>2, <3>3
         DEF Abstract!Deliver, Abstract!Without, Deadline
    <3>5. \A s \in late : \/ Deadline[slot] < Deadline[s]
                          \/ Deadline[slot] = Deadline[s] /\ slot <= s
      BY <1>0, <2>2, <2>4, <3>2 DEF Before
    <3> HIDE DEF late
    <3>6. Abstract!DeliverLate(X)
      BY <2>3, <3>1, <3>2, <3>4, <3>5
         DEF Abstract!DeliverLate, Abstract!Deliver, Abstract!Without, Deadline
    <3> QED BY <2>1, <3>6 DEF Abstract!Next
  <2>5. CASE slot = NoSlot
    <3>1. /\ late = {} /\ queue' = queue /\ now' = now /\ taken' = NoEvent
          /\ Called("take due", X)
      BY <1>4, <2>2, <2>5 DEF TakeDueExcluding
    <3>2. Abstract!NothingLate(X)
      BY <1>0, <2>3, <3>1 DEF Abstract!NothingLate, Deadline
    <3> QED BY <2>1, <3>2 DEF Abstract!Next
  <2> QED BY <2>4, <2>5
<1>5. ASSUME NEW t \in Times, AdvanceClock(t)
      PROVE  Abstract!Next
  <2>1. Abstract!Advance(t)
    BY <1>0, <1>5 DEF AdvanceClock, Abstract!Advance, Deadline
  <2> QED BY <2>1 DEF Abstract!Next, Times
<1>6. CASE UNCHANGED vars
  BY <1>6 DEF vars, Abstract!vars
<1> QED BY <1>1, <1>2, <1>3, <1>4, <1>5, <1>6 DEF Next

\* The array, the bitmap and the cached minimum implement the plain set of
\* deadlines: no call can tell them apart.
THEOREM Refinement == Spec => ImplementsEventQueue
<1>1. Init => Abstract!Init
  BY DEF Init, EmptyQueue, NoEvent, NoSlot, Abstract!Init, Abstract!Nothing
<1>2. Spec => []Inv
  BY InitInv, NextInv, PTL DEF Spec
<1> QED BY <1>1, <1>2, StepImplements, PTL DEF Spec, ImplementsEventQueue, Abstract!Spec
=============================================================================
