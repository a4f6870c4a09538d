--------------------------- MODULE DeadlineQueue ---------------------------
(***************************************************************************)
(* The deadline queue of emulator-core/src/scheduler.rs, as a value: one   *)
(* record and one operator per method of `Scheduler`.  The queue stores no *)
(* handler and no clock, so every module that owns one (the scheduler's    *)
(* own state machine, the bus) holds a record of QueueType in a variable   *)
(* and passes the clock in.                                                *)
(***************************************************************************)
EXTENDS Integers

CONSTANTS
  Slots,    \* the EventSlot discriminants; the number is the tie-break priority
  MaxTime   \* u64::MAX: the value of a saturated deadline and of "none pending"

ASSUME SlotsAssumption   == Slots \subseteq Nat
ASSUME MaxTimeAssumption == MaxTime \in Nat

Times == 0..MaxTime

NoSlot == -1

\* What `take_*` returns for `None`.
NoEvent == [slot |-> NoSlot, target |-> 0]

\* `pending` is the bitmap, `targets` the array (a slot that is not pending
\* keeps its old deadline there), `earliest` the cached minimum.
QueueType == [targets  : [Slots -> Times],
              pending  : SUBSET Slots,
              earliest : Times]

EmptyQueue == [targets  |-> [s \in Slots |-> 0],
               pending  |-> {},
               earliest |-> MaxTime]

Lesser(a, b) == IF b < a THEN b ELSE a

\* Mutant: a deadline past the end of the clock is kept as it is.
AddWithoutSaturation(a, b) == a + b

SaturatingAdd(a, b) == Lesser(MaxTime, a + b)

\* The least deadline of the pending slots P; MaxTime when there is none.
LeastTarget(targets, P) ==
  CHOOSE t \in Times :
    /\ \A s \in P : t <= targets[s]
    /\ t = MaxTime \/ \E s \in P : t = targets[s]

RefreshEarliest(q) == [q EXCEPT !.earliest = LeastTarget(q.targets, q.pending)]

\* Replacing the earliest event by a later one moves the cached minimum later:
\* the one case in which `schedule` has to look at the other slots.
MovesEarliestLater(q, slot, target) ==
  /\ slot \in q.pending
  /\ q.targets[slot] = q.earliest
  /\ target > q.earliest

\* Mutant: the cache only ever takes a minimum, so an event moved later leaves
\* it below every pending deadline.
ScheduleWithoutRefresh(q, slot, now, delta) ==
  LET target == SaturatingAdd(now, delta)
  IN  [q EXCEPT !.targets[slot] = target, !.pending = @ \cup {slot},
                !.earliest = Lesser(@, target)]

Schedule(q, slot, now, delta) ==
  LET target == SaturatingAdd(now, delta)
      stored == [q EXCEPT !.targets[slot] = target, !.pending = @ \cup {slot}]
  IN  IF MovesEarliestLater(q, slot, target)
      THEN RefreshEarliest(stored)
      ELSE [stored EXCEPT !.earliest = Lesser(@, target)]

\* The cached deadline is exact: no pending slot is due before it, and it is
\* the deadline of a pending slot unless it is the "none pending" value.
Exact(q) ==
  /\ \A s \in q.pending : q.earliest <= q.targets[s]
  /\ \/ q.earliest = MaxTime
     \/ \E s \in q.pending : q.earliest = q.targets[s]

Remove(q, slot) == RefreshEarliest([q EXCEPT !.pending = @ \ {slot}])

Cancel(q, slot) == IF slot \in q.pending THEN Remove(q, slot) ELSE q

\* Is the event of `slot` taken by take_slot_due_inclusive?
DueInclusive(q, slot, now) == slot \in q.pending /\ q.targets[slot] <= now

\* Mutant: on a tie the higher slot goes first.
BeforeHigherSlotFirst(q, s, t) ==
  \/ q.targets[s] < q.targets[t]
  \/ q.targets[s] = q.targets[t] /\ s >= t

\* (deadline, slot) order: earliest deadline first, then the lower slot.
Before(q, s, t) ==
  \/ q.targets[s] < q.targets[t]
  \/ q.targets[s] = q.targets[t] /\ s <= t

\* The slot next_due looks at: the first of the pending slots not excluded.
IsFirst(q, slot, excluded) ==
  /\ slot \in q.pending \ excluded
  /\ \A t \in q.pending \ excluded : Before(q, slot, t)

\* Is `slot` what take_due_excluding returns?  `now > q.earliest` is its early
\* out, `q.targets[slot] < now` the strict test at the end of next_due.
TakesDue(q, slot, now, excluded) ==
  /\ now > q.earliest
  /\ IsFirst(q, slot, excluded)
  /\ q.targets[slot] < now

\* The slot take_due_excluding returns, or NoSlot.
NextDue(q, now, excluded) ==
  IF \E s \in Slots : TakesDue(q, s, now, excluded)
  THEN CHOOSE s \in Slots : TakesDue(q, s, now, excluded)
  ELSE NoSlot
=============================================================================
