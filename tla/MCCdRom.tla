------------------------------ MODULE MCCdRom ------------------------------
EXTENDS CdRom

MCDiscs == {NoDisc, <<"data", "xa", "data", "audio">>}
MCDelay == [d \in DelayNames |->
  IF d = "sector" THEN 2 ELSE 1]

MCScript ==
  <<{"SetMode", "SetLoc"}, Commands \ {"SetMode", "SetLoc"},
    {"GetStat", "Read", "Pause", "Reset", "Play"}>>

\* The status register's bits and I_STAT, which nothing here reads.
Unread == <<[cd EXCEPT !.busy = FALSE, !.ready = FALSE], ticking, stalled,
            [cpu EXCEPT !.istat = FALSE]>>
MaskedOnlyAtRest == cd.mask \/ (~cd.reading /\ cpu.written < 3)
=============================================================================
