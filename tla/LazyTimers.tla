----------------------------- MODULE LazyTimers -----------------------------
(***************************************************************************)
(* A root counter (emulator-core/src/timers.rs) that bus.rs advances       *)
(* lazily.  A branch boundary leaves the bank alone while no counter can   *)
(* cross anything; register accesses, VBlank and writes to GP1 catch it    *)
(* up.  Beside the counter of the code (`lazy`) runs the one the code says *)
(* it equals (`eager`), which every boundary advances.                     *)
(*                                                                         *)
(* Counter `idx` is one of the three.  The other two can only make the     *)
(* bank's advances more frequent: a boundary may advance it early.         *)
(* Times are clocks, shifted back by whole lines as they grow: the code    *)
(* uses their differences and their phase in the scanline.  A change of    *)
(* video region and the diagnostic counters are left out.                  *)
(***************************************************************************)
EXTENDS Naturals

CONSTANTS
  Indices,       \* the counters to look at, out of 0..2
  Wrap,          \* values of a counter: 65536 in the code
  Prescale,      \* system clocks of a tick of counter 2's slow source: 8
  LineClocks,    \* clocks of a scanline
  Lines,         \* scanlines of a field
  BlankLines,    \* scanlines of the vertical blank, as counter 1 sees it
  OffsetLines,   \* scanlines from the VBlank interrupt to that blank
  ActiveStart, ActiveEnd,  \* the display's window in a scanline
  DotRates,      \* DotRates[i]: dots to draw in one clock, as GP1 sets them, that matter to i
  ReadStall,     \* wait states of a register read
  ReadExtra,     \* the profile's additional hold of a counter that is read
  Ticks,         \* clocks an instruction adds
  Counters,      \* what software writes to the counter
  Targets,       \* what it writes to the target
  Modes,         \* Modes[i]: the modes software writes to counter i
  MaxHeld        \* bound of the model: a read finds at most this much hold left

Period == LineClocks * Lines
\* Shifted times stay above every span subtracted from them.
Base == 4 * Period
\* A span without an end; u64::MAX in the code.
Never == 1000 * Period

Syncs == {"off", "pause", "reset", "window", "release"}
ModeType == [sync : Syncs, reset : BOOLEAN, onTarget : BOOLEAN, onWrap : BOOLEAN,
             repeat : BOOLEAN, toggle : BOOLEAN, slow : BOOLEAN]
CounterType ==
  [counter : 0..(Wrap - 1), mode : ModeType, target : 0..(Wrap - 1), accum : 0..(Prescale - 1),
   seen : BOOLEAN, zero : BOOLEAN, hold : 0..3, readHold : Nat, credit : Nat,
   fired : BOOLEAN, low : BOOLEAN, atTarget : BOOLEAN, atWrap : BOOLEAN]

ASSUME IndicesAssumption == Indices \subseteq 0..2 /\ Indices # {}
ASSUME ModesAssumption   == \A i \in Indices : Modes[i] \subseteq ModeType
ASSUME BeamAssumption    ==
  /\ {LineClocks, Lines, Prescale, Wrap} \subseteq Nat \ {0}
  /\ 0 < ActiveStart /\ ActiveStart < ActiveEnd /\ ActiveEnd < LineClocks
  /\ BlankLines + OffsetLines < Lines
ASSUME ValuesAssumption  ==
  /\ Counters \subseteq 0..(Wrap - 1) /\ Targets \subseteq 0..(Wrap - 1)
  /\ Ticks \subseteq Nat \ {0}
  /\ \A i \in Indices : DotRates[i] \subseteq Nat \ {0}
  /\ {ReadStall, ReadExtra, MaxHeld} \subseteq Nat

VARIABLES
  idx,     \* which counter this is
  lazy,    \* the counter
  eager,   \* the same, advanced at every branch boundary
  time,    \* now; when each of the two was last advanced; before when a boundary
           \* may leave the bank alone; the last boundary; the next VBlank event
  dots,    \* the dot clock of the display mode
  istat,   \* who has raised the counter's interrupt since software acknowledged it
  exact    \* history: no boundary left the bank alone with a read's hold or credit
           \* pending since the two counters were last the same

vars == <<idx, lazy, eager, time, dots, istat, exact>>

PowerOnMode ==
  [sync |-> "off", reset |-> FALSE, onTarget |-> FALSE, onWrap |-> FALSE,
   repeat |-> FALSE, toggle |-> FALSE, slow |-> FALSE]
PowerOn ==
  [counter |-> 0, mode |-> PowerOnMode, target |-> 0, accum |-> 0, seen |-> FALSE,
   zero |-> FALSE, hold |-> 0, readHold |-> 0, credit |-> 0, fired |-> FALSE,
   low |-> TRUE, atTarget |-> FALSE, atWrap |-> FALSE]

Init ==
  /\ idx \in Indices
  /\ lazy = PowerOn /\ eager = PowerOn
  /\ time = [now |-> Base, last |-> Base, eagerLast |-> Base, quiet |-> 0, boundary |-> Base,
             vblank |-> Base + (Lines - 1) * LineClocks]
  /\ dots \in DotRates[idx]
  /\ istat = {}
  /\ exact = TRUE

Lesser(a, b) == IF a <= b THEN a ELSE b
Less(a, b)   == IF a <= b THEN 0 ELSE a - b

-----------------------------------------------------------------------------
\* One counter.  An operator that can raise the interrupt returns the counter and
\* whether it did.

CanFire(t) == (t.mode.onTarget \/ t.mode.onWrap) /\ (t.mode.repeat \/ ~t.fired)

Silent(t) == [t |-> t, raised |-> FALSE]

\* fire_irq.
Fire(r, enabled) ==
  IF ~enabled \/ (r.t.fired /\ ~r.t.mode.repeat) THEN r
  ELSE LET t == [r.t EXCEPT !.fired = @ \/ ~r.t.mode.repeat,
                            !.low = r.t.mode.toggle /\ ~@]
       IN  [t |-> t, raised |-> r.raised \/ t.low \/ ~t.mode.toggle]

Cross(r, target, wrap) ==
  LET flagged == [r EXCEPT !.t.atTarget = @ \/ target, !.t.atWrap = @ \/ wrap]
  IN  Fire(Fire(flagged, target /\ r.t.mode.onTarget), wrap /\ r.t.mode.onWrap)

\* Position in the cycle 0, 1 .. target, and one more clock that reads zero.
CyclePosition(t) == IF t.zero THEN t.target + 1 ELSE Lesser(t.counter, t.target)

TicksToTarget(t) ==
  IF CyclePosition(t) < t.target
  THEN t.target - CyclePosition(t)
  ELSE t.target + 2 - CyclePosition(t) + t.target

ReachesTarget(t, ticks) == ticks >= TicksToTarget(t)

\* Mutant: the value keeps its carry.
AdvanceCounterUnmasked(t, ticks) ==
  IF ticks = 0 THEN Silent(t)
  ELSE Cross(Silent([t EXCEPT !.zero = FALSE, !.counter = @ + ticks]),
             t.counter < t.target /\ t.counter + ticks >= t.target,
             t.counter + ticks >= Wrap)

\* advance_counter.
AdvanceCounter(t, ticks) ==
  IF ticks = 0 THEN Silent(t)
  ELSE IF t.mode.reset /\ t.target # 0
  THEN LET at == (CyclePosition(t) + ticks) % (t.target + 2)
           over == at = t.target + 1
       IN  Cross(Silent([t EXCEPT !.zero = over, !.counter = IF over THEN 0 ELSE at]),
                 ReachesTarget(t, ticks), FALSE)
  ELSE LET value == (t.counter + ticks) % Wrap
       IN  Cross(Silent([t EXCEPT !.zero = FALSE, !.counter = value]),
                 t.counter < t.target /\ value >= t.target,
                 t.counter + ticks >= Wrap)

\* The beam: dots drawn and scanlines whose display has ended before a clock.
DotsThrough(clock, rate) ==
  LET line == LineClocks * rate - 1   \* a fraction short of the clocks' worth
  IN  (clock \div LineClocks) * line + Lesser((clock % LineClocks) * rate, line)
LinesThrough(clock) == (clock + LineClocks - ActiveEnd) \div LineClocks

\* Ticks of the counter's source in (from, to].
SourceTicks(t, from, to, rate) ==
  CASE to <= from              -> 0
    [] ~t.mode.slow            -> to - from
    [] t.mode.slow /\ idx = 0  -> DotsThrough(to, rate) - DotsThrough(from, rate)
    [] OTHER                   -> LinesThrough(to) - LinesThrough(from)

\* Does the counter run inside or outside the blank, and what does the blank's
\* beginning do to it?
Counts(t, blank) ==
  CASE t.mode.sync = "pause"   -> ~blank
    [] t.mode.sync = "reset"   -> TRUE
    [] t.mode.sync = "window"  -> blank
    [] t.mode.sync = "release" -> t.seen

EnterBlank(t) ==
  CASE t.mode.sync \in {"reset", "window"} -> [t EXCEPT !.counter = 0, !.accum = 0]
    [] t.mode.sync = "release"             -> [t EXCEPT !.seen = TRUE]
    [] OTHER                               -> t

\* One segment of a walk along the beam, up to `to`.
Segment(r, to, countFrom, blank, enters, rate) ==
  LET from    == IF r.cursor < countFrom THEN countFrom ELSE r.cursor
      counted == IF Counts(r.t, blank)
                 THEN AdvanceCounter(r.t, SourceTicks(r.t, from, to, rate))
                 ELSE Silent(r.t)
  IN  [t |-> IF enters THEN EnterBlank(counted.t) ELSE counted.t,
       raised |-> r.raised \/ counted.raised, cursor |-> to]

\* Segments until the clock `end`.
Walk(Step(_), t, start, end) ==
  LET at[k \in 0..(end - start)] ==
        IF k = 0 THEN [t |-> t, raised |-> FALSE, cursor |-> start]
        ELSE CHOOSE q \in {IF r.cursor >= end THEN r ELSE Step(r) : r \in {at[k - 1]}} : TRUE
  IN  CHOOSE r \in {[t |-> q.t, raised |-> q.raised] : q \in {at[end - start]}} : TRUE

\* advance_timer0_synced.
AdvanceAlongLines(t, start, end, rate) ==
  LET step(r) ==
        LET phase == r.cursor % LineClocks
            edge  == CASE phase < ActiveStart -> ActiveStart
                       [] phase >= ActiveStart /\ phase < ActiveEnd -> ActiveEnd
                       [] OTHER -> LineClocks
            to    == Lesser(end, r.cursor + edge - phase)
        IN  Segment(r, to, start, edge # ActiveEnd,
                    edge = ActiveEnd /\ to % LineClocks = ActiveEnd, rate)
  IN  Walk(step, t, start, end)

\* The blank that counter 1's sync sees, from the VBlank event's deadline.
BlankStart(last, now, vblank) ==
  LET offset == OffsetLines * LineClocks
  IN  IF vblank > now /\ vblank - Period + offset > last
      THEN vblank - Period + offset ELSE vblank + offset

\* Does a segment end where the blank begins?
Enters(blank, to, boundary, end) == ~blank /\ to = boundary

\* advance_timer1_synced; `next` is that blank.
AdvanceAlongFields(t, start, end, countFrom, next) ==
  LET canFire == CanFire(t)
      step(r) ==
        LET previous == IF next <= r.cursor THEN next ELSE next - Period
            blankEnd == previous + BlankLines * LineClocks
            blank    == r.cursor >= previous /\ r.cursor < blankEnd
            boundary == CASE r.cursor < previous -> previous
                          [] blank -> blankEnd
                          [] OTHER -> next
            to       == IF boundary <= r.cursor
                        THEN IF canFire THEN r.cursor + 1 ELSE end
                        ELSE Lesser(end, boundary)
        IN  Segment(r, to, countFrom, blank, Enters(blank, to, boundary, end), 0)
  IN  Walk(step, t, start, end)

\* Does sync stop it for good?
Paused(t) == idx = 2 /\ t.mode.sync \in {"pause", "release"}

Prescaled(t, cycles) ==
  AdvanceCounter([t EXCEPT !.accum = (@ + cycles) % Prescale], (t.accum + cycles) \div Prescale)

\* advance_to_video and advance_timer, from `last` to `now`.
AdvanceTo(t, last, now) ==
  LET cycles   == now - last
      held     == Lesser(cycles, t.hold)
      readHeld == Lesser(cycles - held, t.readHold)
      free     == [t EXCEPT !.hold = @ - held, !.readHold = @ - readHeld, !.credit = readHeld]
      start    == last + held + readHeld
      end      == now + t.credit
  IN  CASE cycles = 0 -> Silent(t)
        [] cycles > 0 /\ idx = 1 /\ t.mode.sync # "off" ->
             AdvanceAlongFields(free, last, end, start, BlankStart(last, now, time.vblank))
        [] cycles > 0 /\ idx = 0 /\ t.mode.sync # "off" ->
             AdvanceAlongLines(free, start, end, dots)
        [] OTHER ->
             IF Paused(t) THEN Silent(free)
             ELSE IF idx = 2 /\ t.mode.slow THEN Prescaled(free, end - start)
             ELSE AdvanceCounter(free, SourceTicks(free, start, end, dots))

-----------------------------------------------------------------------------
\* The cached bound.

Released(t) == idx = 1 /\ t.mode.sync = "release" /\ t.seen

\* Mutant: only the wrap bounds the span.
TicksToCrossingWrap(t) == Wrap - t.counter

TicksToCrossing(t) ==
  IF t.mode.reset /\ t.target # 0 THEN TicksToTarget(t)
  ELSE IF t.counter < t.target THEN t.target - t.counter ELSE Wrap - t.counter

\* The bound of a counter that cannot interrupt: its sync finds only the blanks
\* around the current VBlank deadline.
SilentSpan(t) ==
  IF idx = 1 /\ t.mode.sync # "off" /\ ~Released(t) THEN Period \div 2 ELSE Never

\* compute_quiet_until, less the clock it counts from.
QuietSpan(t) ==
  CASE ~CanFire(t) -> SilentSpan(t)
    [] CanFire(t) /\ (t.hold # 0 \/ t.readHold # 0 \/ t.credit # 0) -> 0
    [] OTHER ->
         IF Paused(t) THEN Never
         ELSE IF t.mode.sync # "off" /\ idx # 2 /\ ~Released(t) THEN 0
         ELSE IF ~t.mode.slow THEN TicksToCrossing(t)
         ELSE CASE idx = 0 -> 0
                [] idx = 1 -> Less(TicksToCrossing(t), 1) * LineClocks
                [] idx = 2 -> Less(TicksToCrossing(t) * Prescale, t.accum)

-----------------------------------------------------------------------------
\* The bus.  A state of the two counters is taken and returned.

System == [lazy |-> lazy, eager |-> eager, time |-> time, istat |-> istat,
           exact |-> exact]

\* Whole lines are taken off every time; a bound or a boundary that is past
\* counts for nothing.
Rebased(c) ==
  LET shift   == LineClocks * ((c.now - Base) \div LineClocks)
      live    == [c EXCEPT !.quiet = IF @ <= c.now THEN shift ELSE @,
                           !.boundary = IF @ <= c.last THEN c.last ELSE @]
  IN  [f \in DOMAIN c |-> IF live[f] >= Never \div 2 THEN Never ELSE live[f] - shift]

Becomes(s) ==
  /\ lazy' = s.lazy /\ eager' = s.eager /\ istat' = s.istat
  /\ time' = Rebased(s.time)
  /\ exact' = (s.exact \/ (s.lazy = s.eager /\ s.time.last = s.time.eagerLast))

\* service_timers_at.
ServiceLazy(s, now) ==
  LET r == AdvanceTo(s.lazy, s.time.last, now)
  IN  IF now = s.time.last THEN s
      ELSE [s EXCEPT !.lazy = r.t, !.time.last = now,
                     !.time.quiet = now + QuietSpan(r.t),
                     !.istat = IF r.raised THEN @ \cup {"lazy"} ELSE @]

ServiceEager(s, now) ==
  LET r == AdvanceTo(s.eager, s.time.eagerLast, now)
  IN  [s EXCEPT !.eager = r.t, !.time.eagerLast = now,
                !.istat = IF r.raised THEN @ \cup {"eager"} ELSE @]

Service(s) == ServiceEager(ServiceLazy(s, s.time.now), s.time.now)

\* The VBlank part of the drain: the bank crosses the old deadline first.
DrainVBlank(s) ==
  IF s.time.vblank > s.time.now THEN s
  ELSE [Service(s) EXCEPT !.time.vblank =
          @ + Period * (1 + (s.time.now - @) \div Period)]

Pass(s, n) == [s EXCEPT !.time.now = @ + n]

\* Bus::tick.
Tick(n) ==
  /\ Becomes(DrainVBlank(Pass(System, n)))
  /\ UNCHANGED <<idx, dots>>

\* drain_scheduler_events_post_op.  `others`: another counter's bound has passed.
BranchBoundary(others) ==
  /\ LET s == [System EXCEPT !.time.boundary = time.now]
         t == IF others \/ time.now >= time.quiet THEN ServiceLazy(s, time.now)
              ELSE [s EXCEPT !.exact = @ /\ lazy.readHold = 0 /\ lazy.credit = 0]
     IN  Becomes(DrainVBlank(ServiceEager(t, time.now)))
  /\ UNCHANGED <<idx, dots>>

\* An access comes behind its instruction's tick, which has drained VBlank.
InInstruction == time.vblank > time.now

OnBoth(s, Op(_)) == [s EXCEPT !.lazy = Op(@), !.eager = Op(@), !.time.quiet = 0]

\* hold_counter_for_read.
HoldForRead(t, register) ==
  LET irq   == t.mode.onTarget \/ t.mode.onWrap
      extra == IF t.mode.reset \/ (idx = 2 /\ irq) THEN 0 ELSE ReadExtra
      held  == CASE register = "counter" -> ReadStall + extra
                 [] register = "mode"    -> IF irq THEN Lesser(ReadStall, 2)
                                            ELSE Lesser(ReadStall, 2) + 3
                 [] OTHER                -> 0
  IN  IF t.mode.sync # "off" \/ (idx = 1 /\ t.mode.slow) THEN t
      ELSE [t EXCEPT !.readHold = @ + held]

\* add_root_counter_read_stalls and the access: the wait states, with the counter
\* held, then the register.
Sampled(register) ==
  LET hold(t) == HoldForRead(t, register)
  IN  Service(Pass(OnBoth(Service(System), hold), ReadStall))

Read(register) ==
  /\ InInstruction
  /\ eager.readHold <= MaxHeld /\ lazy.readHold <= MaxHeld
  /\ LET read(t) == IF register = "mode"
                    THEN [t EXCEPT !.atTarget = FALSE, !.atWrap = FALSE] ELSE t
     IN  Becomes(OnBoth(Sampled(register), read))
  /\ UNCHANGED <<idx, dots>>

WriteCounter(value) ==
  /\ InInstruction
  /\ LET write(t) == [t EXCEPT !.counter = value, !.zero = FALSE, !.readHold = 0,
                               !.credit = 0, !.hold = IF t.mode.reset THEN 2 ELSE 3]
     IN  Becomes(OnBoth(Service(System), write))
  /\ UNCHANGED <<idx, dots>>

WriteMode(mode) ==
  /\ InInstruction
  /\ LET write(t) == [t EXCEPT !.mode = mode, !.low = FALSE, !.counter = 0, !.accum = 0,
                               !.seen = FALSE, !.zero = FALSE, !.readHold = 0, !.credit = 0,
                               !.hold = 2, !.fired = FALSE]
     IN  Becomes(OnBoth(Service(System), write))
  /\ UNCHANGED <<idx, dots>>

WriteTarget(value) ==
  /\ InInstruction
  /\ LET write(t) == [t EXCEPT !.target = value]
     IN  Becomes(OnBoth(Service(System), write))
  /\ UNCHANGED <<idx, dots>>

\* settle_lazy_timers, then the write to GP1.
WriteGp1(rate) ==
  /\ InInstruction
  /\ LET settled == IF time.boundary > time.last
                    THEN ServiceLazy(System, time.boundary) ELSE System
     IN  Becomes([settled EXCEPT !.time.quiet = 0])
  /\ dots' = rate
  /\ UNCHANGED idx

Acknowledge ==
  /\ istat' = {}
  /\ UNCHANGED <<idx, lazy, eager, time, dots, exact>>

Next ==
  \/ \E n \in Ticks : Tick(n)
  \/ \E others \in BOOLEAN : BranchBoundary(others)
  \/ \E register \in {"counter", "mode", "target"} : Read(register)
  \/ \E value \in Counters : WriteCounter(value)
  \/ \E value \in Targets : WriteTarget(value)
  \/ \E mode \in Modes[idx] : WriteMode(mode)
  \/ \E rate \in DotRates[idx] : WriteGp1(rate)
  \/ Acknowledge

Spec == Init /\ [][Next]_vars

-----------------------------------------------------------------------------
\* Every variable has its type, neither counter is ahead of the clock, and a counter
\* of scanlines that VBlank resets never counts more of them than the field has,
\* however late and in whatever order the bank is advanced and the deadline moves on.
TypeOK ==
  /\ idx \in Indices
  /\ lazy \in CounterType /\ eager \in CounterType
  /\ time \in [{"now", "last", "eagerLast", "quiet", "boundary", "vblank"} -> Nat]
  /\ time.last <= time.eagerLast /\ time.eagerLast <= time.now
  /\ dots \in DotRates[idx]
  /\ istat \subseteq {"lazy", "eager"} /\ exact \in BOOLEAN
  /\ idx = 1 /\ lazy.mode.sync = "reset" /\ lazy.mode.slow => lazy.counter <= Lines

\* The lazy counter, were it caught up now.
CaughtUp == AdvanceTo(lazy, time.last, time.eagerLast)

\* Software cannot tell that boundaries are skipped.  An interrupt comes at the branch
\* boundary at which the per-boundary advance raises it, and covering the skipped
\* boundaries in a later advance gives the state the per-boundary advance gives: but
\* for the target flag, which may be lost when the counter has also wrapped, and but
\* for a read's hold or credit that was still pending when boundaries were skipped.
LazyIsEager ==
  /\ istat \in {{}, {"lazy", "eager"}}
  /\ exact => /\ [CaughtUp.t EXCEPT !.atTarget = eager.atTarget] = eager
              /\ ~CaughtUp.raised
              /\ CaughtUp.t.atTarget # eager.atTarget => eager.atTarget /\ eager.atWrap
=============================================================================
