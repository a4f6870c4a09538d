----------------------------- MODULE Scheduler ------------------------------
(***************************************************************************)
(* emulator-core/src/scheduler.rs as a state machine: the queue, the clock *)
(* its callers pass in, and one action per method that changes it.  The    *)
(* methods are those of DeadlineQueue.                                     *)
(***************************************************************************)
EXTENDS DeadlineQueue

CONSTANTS
  Deltas,       \* the delays callers ask for
  ExcludedSets  \* the exclusion masks callers pass to take_due_excluding

ASSUME DeltasAssumption   == Deltas \subseteq Times
ASSUME ExcludedAssumption == ExcludedSets \subseteq SUBSET Slots

VARIABLES
  queue,   \* the Scheduler value
  now,     \* the bus clock of the caller
  call,    \* history: the last call, and the slots it named or excluded
  taken    \* what that call returned: NoEvent, or the slot and its deadline

vars == <<queue, now, call, taken>>

Ops == {"new", "schedule", "cancel", "take inclusive", "take due", "clock"}

Called(op, slots) == call' = [op |-> op, slots |-> slots]

Init ==
  /\ queue = EmptyQueue
  /\ now = 0
  /\ call = [op |-> "new", slots |-> {}]
  /\ taken = NoEvent

ScheduleSlot(slot, delta) ==
  /\ Called("schedule", {slot})
  /\ queue' = Schedule(queue, slot, now, delta)
  /\ taken' = NoEvent
  /\ UNCHANGED now

CancelSlot(slot) ==
  /\ Called("cancel", {slot})
  /\ queue' = Cancel(queue, slot)
  /\ taken' = NoEvent
  /\ UNCHANGED now

TakeSlotDueInclusive(slot) ==
  /\ Called("take inclusive", {slot})
  /\ IF DueInclusive(queue, slot, now)
     THEN /\ queue' = Remove(queue, slot)
          /\ taken' = [slot |-> slot, target |-> queue.targets[slot]]
     ELSE /\ taken' = NoEvent
          /\ UNCHANGED queue
  /\ UNCHANGED now

TakeDueExcluding(excluded) ==
  /\ Called("take due", excluded)
  /\ LET slot == NextDue(queue, now, excluded)
     IN  IF slot # NoSlot
         THEN /\ queue' = Remove(queue, slot)
              /\ taken' = [slot |-> slot, target |-> queue.targets[slot]]
         ELSE /\ taken' = NoEvent
              /\ UNCHANGED queue
  /\ UNCHANGED now

\* The caller's clock moves between two calls.
AdvanceClock(t) ==
  /\ Called("clock", {})
  /\ t > now
  /\ now' = t
  /\ taken' = NoEvent
  /\ UNCHANGED queue

Next ==
  \/ \E slot \in Slots, delta \in Deltas : ScheduleSlot(slot, delta)
  \/ \E slot \in Slots : CancelSlot(slot)
  \/ \E slot \in Slots : TakeSlotDueInclusive(slot)
  \/ \E excluded \in ExcludedSets : TakeDueExcluding(excluded)
  \/ \E t \in Times : AdvanceClock(t)

Spec == Init /\ [][Next]_vars

-----------------------------------------------------------------------------
\* The queue, the clock and the returned event have the types of the Rust
\* fields; an event returned names a slot and a deadline.
TypeOK ==
  /\ queue \in QueueType
  /\ now \in Times
  /\ call \in [op : Ops, slots : SUBSET Slots]
  /\ taken \in [slot : Slots \cup {NoSlot}, target : Times]

\* The cached deadline is the least pending one whatever order slots are
\* scheduled, rescheduled, cancelled and taken in, so the single comparison of
\* take_due_excluding's early out and of the bus's fast paths is never wrong.
EarliestIsExact == Exact(queue)

\* Every call returns what the plain set of deadlines of EventQueue returns:
\* the cache and the early outs it allows are invisible.
Abstract == INSTANCE EventQueue
              WITH deadline <- [s \in queue.pending |-> queue.targets[s]]

ImplementsEventQueue == Abstract!Spec
=============================================================================
