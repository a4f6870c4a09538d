---------------------------- MODULE MCLazyTimers ----------------------------
\* Each of the three counters with its sources and syncs, with and without an
\* interrupt; fields of three scanlines of three clocks.
EXTENDS LazyTimers

OnTarget == [PowerOnMode EXCEPT !.onTarget = TRUE, !.repeat = TRUE]
OneShot  == [PowerOnMode EXCEPT !.onTarget = TRUE, !.onWrap = TRUE]
Toggling == [OnTarget EXCEPT !.reset = TRUE, !.toggle = TRUE]
Silently == [PowerOnMode EXCEPT !.reset = TRUE]
Slow(m)      == [m EXCEPT !.slow = TRUE]
Synced(m, s) == [m EXCEPT !.sync = s]

MCModes == [i \in 0..2 |->
  CASE i = 0 -> {Slow(PowerOnMode), Synced(OnTarget, "window")}
    [] i = 1 -> {Slow(OnTarget), Slow(Synced(PowerOnMode, "reset")), Synced(Toggling, "release")}
    [] i = 2 -> {OneShot, Slow(Toggling), Silently}]
MCDotRates == [i \in 0..2 |-> IF i = 0 THEN {1, 2} ELSE {1}]
AllThree == 0..2
=============================================================================
