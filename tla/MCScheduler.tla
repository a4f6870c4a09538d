---------------------------- MODULE MCScheduler -----------------------------
\* Three slots (a tie has a lower and a higher priority and a bystander), a
\* clock of six values whose last one is the saturated deadline.
EXTENDS Scheduler

MCSlots == {0, 9, 14}
MCMaxTime == 5
MCDeltas == {0, 1, 3, 5}
MCExcludedSets == {{}, {9}, {0, 9}}
=============================================================================
