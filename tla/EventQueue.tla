----------------------------- MODULE EventQueue -----------------------------
(***************************************************************************)
(* What emulator-core/src/scheduler.rs promises: a set of deadlines, at    *)
(* most one per slot, from which the due ones come out earliest first and  *)
(* in slot order on a tie, strictly after their cycle (or on it, for the   *)
(* slots taken inclusively).  There is no cache and no array: Scheduler    *)
(* implements this specification.                                          *)
(***************************************************************************)
EXTENDS Integers

CONSTANTS Slots, MaxTime

VARIABLES
  deadline,   \* function from the slots with an event outstanding to its cycle
  now,        \* the clock the caller passes in
  call,       \* the last call: its kind and the slots it named or excluded
  taken       \* what that call returned

vars == <<deadline, now, call, taken>>

Nothing == [slot |-> -1, target |-> 0]

Saturate(t) == IF t > MaxTime THEN MaxTime ELSE t

Called(op, slots) == call' = [op |-> op, slots |-> slots]

Without(slot) == [s \in DOMAIN deadline \ {slot} |-> deadline[s]]

Init == /\ deadline = [s \in {} |-> 0]
        /\ now = 0
        /\ call = [op |-> "new", slots |-> {}]
        /\ taken = Nothing

Arrange(slot, delta) ==
  /\ Called("schedule", {slot})
  /\ deadline' = [s \in DOMAIN deadline \cup {slot} |->
                    IF s = slot THEN Saturate(now + delta) ELSE deadline[s]]
  /\ taken' = Nothing
  /\ UNCHANGED now

Drop(slot) ==
  /\ Called("cancel", {slot})
  /\ deadline' = Without(slot)
  /\ taken' = Nothing
  /\ UNCHANGED now

Deliver(slot) ==
  /\ deadline' = Without(slot)
  /\ taken' = [slot |-> slot, target |-> deadline[slot]]
  /\ UNCHANGED now

DeliverOnTime(slot) ==
  /\ Called("take inclusive", {slot})
  /\ slot \in DOMAIN deadline
  /\ deadline[slot] <= now
  /\ Deliver(slot)

Late(excluded) == {s \in DOMAIN deadline \ excluded : deadline[s] < now}

DeliverLate(excluded) ==
  /\ Called("take due", excluded)
  /\ \E slot \in Late(excluded) :
       /\ \A s \in Late(excluded) :
            \/ deadline[slot] < deadline[s]
            \/ deadline[slot] = deadline[s] /\ slot <= s
       /\ Deliver(slot)

\* A call that finds nothing due says so, and only when nothing is due.
NothingOnTime(slot) ==
  /\ Called("take inclusive", {slot})
  /\ ~(slot \in DOMAIN deadline /\ deadline[slot] <= now)
  /\ taken' = Nothing
  /\ UNCHANGED <<deadline, now>>

NothingLate(excluded) ==
  /\ Called("take due", excluded)
  /\ Late(excluded) = {}
  /\ taken' = Nothing
  /\ UNCHANGED <<deadline, now>>

Advance(t) ==
  /\ Called("clock", {})
  /\ t > now
  /\ now' = t
  /\ taken' = Nothing
  /\ UNCHANGED deadline

Next ==
  \/ \E slot \in Slots, delta \in 0..MaxTime : Arrange(slot, delta)
  \/ \E slot \in Slots : Drop(slot) \/ DeliverOnTime(slot) \/ NothingOnTime(slot)
  \/ \E excluded \in SUBSET Slots : DeliverLate(excluded) \/ NothingLate(excluded)
  \/ \E t \in 0..MaxTime : Advance(t)

Spec == Init /\ [][Next]_vars
=============================================================================
