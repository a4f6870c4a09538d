---------------------------- MODULE CdRomProofs ----------------------------
(***************************************************************************)
(* The sector stream, the held INT1 and the signalled interrupt, for every *)
(* disc, every script of commands, every setting of the delays and of the  *)
(* bounds.  The inductive invariant `Good` is a property of one controller *)
(* record, so that each method is shown to keep it by a lemma of its own   *)
(* and a handler by citing the methods it is made of.  `Settled`, in the   *)
(* second half, is another one: the types and times, and that the buffers  *)
(* hold the read in progress up to the head.                               *)
(***************************************************************************)
EXTENDS CdRom, SequenceTheorems, TLAPS

EventFields == {"cmd", "irq", "due", "rank", "then", "first"}

CdFields ==
  {"disc", "pending", "irq", "mask", "busy", "deferred", "polls", "reading",
   "moved", "head", "setloc", "aimed", "xa", "fifo", "ring", "ready", "armed",
   "motor", "brake", "state", "lid", "boot", "seek", "playing", "onAudio",
   "reads", "news"}

IsCd(c) == DOMAIN c = CdFields

EventOK(e) ==
  /\ DOMAIN e = EventFields
  /\ e.irq \in IrqTypes
  /\ e.cmd = Deferred => e.irq = DataReady
  /\ e.then.cmd # Deferred
  /\ e.then # NoFollowup => e.then.irq \in IrqTypes
  /\ Promises(e) => e.irq = Acknowledge

Fine(c) == IsCd(c) /\ \A e \in c.pending : EventOK(e)

NoSector(c) == \A e \in c.pending : ~IsSector(e) /\ ~Promises(e)

OneSector(c) ==
  \E e \in c.pending :
    /\ IsSector(e) <=> ~Promises(e)
    /\ \A f \in c.pending \ {e} : ~IsSector(f) /\ ~Promises(f)

Stream(c) == IF c.reading THEN OneSector(c) ELSE NoSector(c)

Held(c) ==
  c.news /\ c.reading =>
    (c.deferred /\ c.irq # None) \/ \E e \in c.pending : e.cmd = Deferred

Good(c) == Fine(c) /\ Stream(c) /\ Held(c)

\* What the CPU can see of the interrupt is as it was.
Same(c, d) == d.irq = c.irq /\ d.mask = c.mask

\* A change of fields that the invariant does not read.
Beside(c, d) ==
  /\ IsCd(d) /\ Same(c, d)
  /\ d.pending = c.pending /\ d.reading = c.reading
  /\ d.news = c.news /\ d.deferred = c.deferred

-----------------------------------------------------------------------------
(* The methods. *)

LEMMA BesideGood ==
  ASSUME NEW c, NEW d, Good(c), Beside(c, d)
  PROVE  Good(d) /\ Same(c, d)
  BY DEF Good, Beside, Fine, Stream, OneSector, NoSector, Held, Same

LEMMA NewEvent ==
  ASSUME NEW cmd, NEW irq \in IrqTypes, NEW first,
         cmd = Deferred => irq = DataReady
  PROVE  /\ EventOK(Event(cmd, irq, first))
         /\ Event(cmd, irq, first).cmd = cmd
         /\ Event(cmd, irq, first).irq = irq
         /\ ~Promises(Event(cmd, irq, first))
  BY DEF EventOK, Event, EventFields, Promises, NoFollowup, Deferred, DataReady, None

\* What insert_pending_event does, without the place it finds.
LEMMA InsertIs ==
  ASSUME NEW c, IsCd(c), NEW e, EventOK(e), NEW due
  PROVE  \E x : /\ EventOK(x) /\ x.cmd = e.cmd /\ x.irq = e.irq /\ x.then = e.then
                /\ Insert(c, e, due) = [c EXCEPT !.pending = c.pending \cup {x}]
  <1> DEFINE x == [e EXCEPT !.due = due, !.rank = RankBehind(c, due)]
  <1>1. EventOK(x) /\ x.cmd = e.cmd /\ x.irq = e.irq /\ x.then = e.then
    BY DEF EventOK, EventFields, Promises
  <1>2. Insert(c, e, due) = [c EXCEPT !.pending = c.pending \cup {x}]
    BY DEF Insert
  <1> QED BY <1>1, <1>2

LEMMA InsertGood ==
  ASSUME NEW c, Good(c), NEW e, EventOK(e), NEW due, e.irq # DataReady, ~Promises(e)
  PROVE  Good(Insert(c, e, due)) /\ Same(c, Insert(c, e, due))
  <1>1. PICK x : /\ EventOK(x) /\ x.cmd = e.cmd /\ x.irq = e.irq /\ x.then = e.then
                 /\ Insert(c, e, due) = [c EXCEPT !.pending = c.pending \cup {x}]
    BY InsertIs DEF Good, Fine
  <1> DEFINE d == Insert(c, e, due)
  <1>2. ~IsSector(x) /\ ~Promises(x)
    BY <1>1 DEF IsSector, Promises
  <1>3. /\ IsCd(d) /\ d.pending = c.pending \cup {x} /\ d.reading = c.reading
        /\ d.news = c.news /\ d.deferred = c.deferred /\ Same(c, d)
    BY <1>1 DEF Good, Fine, CdFields, IsCd, Same
  <1> HIDE DEF d
  <1>4. Fine(d)
    BY <1>1, <1>3 DEF Good, Fine
  <1>5. Stream(d)
    BY <1>2, <1>3 DEF Good, Stream, OneSector, NoSector
  <1>6. Held(d)
    BY <1>3 DEF Good, Held, Same
  <1> QED BY <1>3, <1>4, <1>5, <1>6 DEF Good, d

LEMMA FirstGood ==
  ASSUME NEW c, Good(c), NEW cmd, NEW irq \in IrqTypes \ {DataReady}, NEW extra,
         cmd # Deferred
  PROVE  /\ Good(ScheduleFirst(c, cmd, irq, extra))
         /\ Same(c, ScheduleFirst(c, cmd, irq, extra))
  <1>1. /\ EventOK(Event(cmd, irq, TRUE)) /\ Event(cmd, irq, TRUE).irq = irq
        /\ ~Promises(Event(cmd, irq, TRUE))
    BY NewEvent
  <1> QED BY <1>1, InsertGood DEF ScheduleFirst

LEMMA ChainGood ==
  ASSUME NEW c, Good(c), NEW cmd, NEW irq \in IrqTypes \ {DataReady}, NEW delay,
         cmd # Deferred
  PROVE  /\ Good(ChainFollowup(c, cmd, irq, delay))
         /\ Same(c, ChainFollowup(c, cmd, irq, delay))
  <1> DEFINE d    == ChainFollowup(c, cmd, irq, delay)
             free == {e \in c.pending : e.irq = Acknowledge /\ e.then = NoFollowup}
             last == {e \in free : \A f \in free \ {e} : Before(f, e)}
             ack  == CHOOSE e \in last : TRUE
             then == [cmd |-> cmd, delay |-> delay, irq |-> irq]
             x    == [ack EXCEPT !.then = then]
  <1>1. CASE last = {}
    <2>1. d = Insert(c, Event(cmd, irq, FALSE), delay)
      BY <1>1 DEF ChainFollowup
    <2>2. /\ EventOK(Event(cmd, irq, FALSE)) /\ Event(cmd, irq, FALSE).irq = irq
          /\ ~Promises(Event(cmd, irq, FALSE))
      BY DEF EventOK, Event, EventFields, Promises, NoFollowup, Deferred, DataReady, None
    <2> QED BY <2>1, <2>2, InsertGood
  <1>2. CASE last # {}
    <2>1. ack \in c.pending /\ ack.irq = Acknowledge /\ ack.then = NoFollowup
      BY <1>2
    <2> HIDE DEF ack
    <2>2. EventOK(ack)
      BY <2>1 DEF Good, Fine
    <2>3. /\ DOMAIN x = EventFields /\ x.irq = Acknowledge /\ x.cmd = ack.cmd
          /\ x.then = then
      BY <2>1, <2>2 DEF EventOK, EventFields
    <2>4. then.cmd = cmd /\ then.irq = irq
      OBVIOUS
    <2> HIDE DEF x, then
    <2>5. EventOK(x) /\ ~IsSector(x) /\ ~Promises(x)
      <3>1. Acknowledge \in IrqTypes /\ Acknowledge # DataReady
        BY DEF Acknowledge, DataReady, IrqTypes
      <3>2. ~Promises(x) /\ ~IsSector(x)
        BY <2>3, <2>4, <3>1 DEF Promises, IsSector
      <3>3. x.cmd # Deferred
        BY <2>1, <2>2, <2>3, <3>1 DEF EventOK
      <3> QED BY <2>3, <2>4, <3>1, <3>2, <3>3 DEF EventOK
    <2>6. ~IsSector(ack) /\ ~Promises(ack) /\ ack.cmd # Deferred
      BY <2>1, <2>2 DEF EventOK, IsSector, Promises, Acknowledge, DataReady, NoFollowup, None
    <2>7. d = [c EXCEPT !.pending = (c.pending \ {ack}) \cup {x}]
      BY <1>2 DEF ChainFollowup, ack, x, then
    <2>8. /\ IsCd(d) /\ d.pending = (c.pending \ {ack}) \cup {x}
          /\ d.reading = c.reading
          /\ d.news = c.news /\ d.deferred = c.deferred /\ Same(c, d)
      BY <2>7 DEF Good, Fine, CdFields, IsCd, Same
    <2> HIDE DEF d
    <2>9. Fine(d)
      BY <2>5, <2>8 DEF Good, Fine
    <2>10. Stream(d)
      <3>1. CASE c.reading
        <4>1. PICK e \in c.pending : /\ IsSector(e) <=> ~Promises(e)
                                    /\ \A f \in c.pending \ {e} : ~IsSector(f) /\ ~Promises(f)
          BY <3>1 DEF Good, Stream, OneSector
        <4>2. e \in d.pending /\ \A f \in d.pending \ {e} : ~IsSector(f) /\ ~Promises(f)
          BY <2>5, <2>6, <2>8, <4>1
        <4> QED BY <2>8, <3>1, <4>1, <4>2 DEF Stream, OneSector
      <3>2. CASE ~c.reading
        BY <2>5, <2>8, <3>2 DEF Good, Stream, NoSector
      <3> QED BY <3>1, <3>2
    <2>11. Held(d)
      BY <2>1, <2>6, <2>8 DEF Good, Held, Same
    <2> QED BY <2>8, <2>9, <2>10, <2>11 DEF Good, d
  <1> QED BY <1>1, <1>2

\* An event without its followup.
LEMMA Stripped ==
  ASSUME NEW e, EventOK(e)
  PROVE  LET x == [e EXCEPT !.then = NoFollowup]
         IN  /\ EventOK(x) /\ x.cmd = e.cmd /\ x.irq = e.irq
             /\ ~Promises(x) /\ (IsSector(x) <=> IsSector(e))
  BY DEF EventOK, EventFields, Promises, IsSector, NoFollowup, Deferred, DataReady, None

\* Completions leave the queue: no sector does, nor an acknowledge.
LEMMA DropGood ==
  ASSUME NEW c, Good(c), NEW cmd, cmd # Deferred
  PROVE  /\ Good(DropPending(c, cmd, Complete))
         /\ Same(c, DropPending(c, cmd, Complete))
  <1> DEFINE d == DropPending(c, cmd, Complete)
             Left(e) == IF e.then.cmd = cmd /\ e.then.irq = Complete
                        THEN [e EXCEPT !.then = NoFollowup] ELSE e
             kept == {f \in c.pending : ~(f.cmd = cmd /\ f.irq = Complete)}
  <1>1. \A e \in kept : /\ EventOK(Left(e)) /\ Left(e).cmd = e.cmd
                        /\ (IsSector(Left(e)) <=> IsSector(e)) /\ (Promises(Left(e)) <=> Promises(e))
    <2> TAKE e \in kept
    <2>1. EventOK(e)
      BY DEF Good, Fine
    <2>2. CASE e.then.cmd = cmd /\ e.then.irq = Complete
      BY <2>1, <2>2, Stripped DEF Promises, Complete, DataReady
    <2>3. CASE ~(e.then.cmd = cmd /\ e.then.irq = Complete)
      BY <2>1, <2>3
    <2> QED BY <2>2, <2>3
  <1>2. \A e \in c.pending : IsSector(e) \/ Promises(e) \/ e.cmd = Deferred => e \in kept
    BY DEF Good, Fine, EventOK, IsSector, DataReady, Complete, Acknowledge
  <1>3. /\ IsCd(d) /\ d.pending = {Left(e) : e \in kept} /\ d.reading = c.reading
        /\ d.news = c.news /\ d.deferred = c.deferred /\ Same(c, d)
    BY DEF Good, Fine, CdFields, IsCd, Same, DropPending
  <1>4. kept \subseteq c.pending
    OBVIOUS
  <1> HIDE DEF d, Left, kept
  <1>5. Fine(d)
    BY <1>1, <1>3 DEF Fine
  <1>6. Stream(d)
    <2>1. CASE c.reading
      <3>1. PICK e \in c.pending : /\ IsSector(e) <=> ~Promises(e)
                                  /\ \A f \in c.pending \ {e} : ~IsSector(f) /\ ~Promises(f)
        BY <2>1 DEF Good, Stream, OneSector
      <3>2. e \in kept
        BY <1>2, <3>1
      <3>3. /\ Left(e) \in d.pending /\ (IsSector(Left(e)) <=> ~Promises(Left(e)))
            /\ \A x \in d.pending \ {Left(e)} : ~IsSector(x) /\ ~Promises(x)
        BY <1>1, <1>3, <1>4, <3>1, <3>2
      <3> QED BY <1>3, <2>1, <3>3 DEF Stream, OneSector
    <2>2. CASE ~c.reading
      BY <1>1, <1>3, <1>4, <2>2 DEF Good, Stream, NoSector
    <2> QED BY <2>1, <2>2
  <1>7. Held(d)
    BY <1>1, <1>2, <1>3 DEF Good, Held, Same
  <1> QED BY <1>3, <1>5, <1>6, <1>7 DEF Good, d

\* Whatever was queued, no sector is after the stream is cancelled.
LEMMA CancelQuiet ==
  ASSUME NEW c, Fine(c)
  PROVE  LET d == CancelSectors(c)
         IN  /\ Fine(d) /\ NoSector(d) /\ Same(c, d)
             /\ d.news = FALSE /\ d.deferred = FALSE
  <1> DEFINE d == CancelSectors(c)
             Left(e) == IF e.then.irq = DataReady THEN [e EXCEPT !.then = NoFollowup] ELSE e
             kept == {f \in c.pending : f.irq # DataReady}
  <1>1. \A e \in kept : EventOK(Left(e)) /\ ~IsSector(Left(e)) /\ ~Promises(Left(e))
    <2> TAKE e \in kept
    <2>1. EventOK(e) /\ ~IsSector(e)
      BY DEF Fine, IsSector
    <2>2. CASE e.then.irq = DataReady
      BY <2>1, <2>2, Stripped
    <2>3. CASE e.then.irq # DataReady
      BY <2>1, <2>3 DEF Promises
    <2> QED BY <2>2, <2>3
  <1>2. /\ IsCd(d) /\ d.pending = {Left(e) : e \in kept} /\ Same(c, d)
        /\ d.news = FALSE /\ d.deferred = FALSE
    BY DEF Fine, CdFields, IsCd, Same, CancelSectors
  <1> HIDE DEF d, Left, kept
  <1> QED BY <1>1, <1>2 DEF Fine, NoSector, d

LEMMA StopGood ==
  ASSUME NEW c, Fine(c)
  PROVE  /\ Good(StopReading(c)) /\ Same(c, StopReading(c))
         /\ StopReading(c).reading = FALSE
  <1> DEFINE d == CancelSectors(c)
  <1>1. Fine(d) /\ NoSector(d) /\ Same(c, d)
    BY CancelQuiet
  <1> HIDE DEF d
  <1>2. StopReading(c) = [d EXCEPT !.reading = FALSE]
    BY DEF StopReading, d
  <1> QED BY <1>1, <1>2 DEF Good, Fine, CdFields, IsCd, Same, NoSector, Stream, Held

\* Methods that touch nothing the invariant reads.
LEMMA ClearGood ==
  ASSUME NEW c, Good(c)
  PROVE  Good(ClearDataFifo(c)) /\ Same(c, ClearDataFifo(c))
  <1>1. Beside(c, ClearDataFifo(c))
    BY DEF Beside, ClearDataFifo, Good, Fine, CdFields, IsCd, Same
  <1> QED BY <1>1, BesideGood

LEMMA HaltGood ==
  ASSUME NEW c, Good(c)
  PROVE  Good(HaltCdda(c)) /\ Same(c, HaltCdda(c))
  <1>1. Beside(c, HaltCdda(c))
    BY DEF Beside, HaltCdda, Good, Fine, CdFields, IsCd, Same
  <1> QED BY <1>1, BesideGood

LEMMA SpindownGood ==
  ASSUME NEW c, Good(c)
  PROVE  Good(UpdateSpindown(c)) /\ Same(c, UpdateSpindown(c))
  <1>1. Beside(c, UpdateSpindown(c))
    BY DEF Beside, UpdateSpindown, Good, Fine, CdFields, IsCd, Same
  <1> QED BY <1>1, BesideGood

LEMMA HeadGood ==
  ASSUME NEW c, Good(c)
  PROVE  Good(HeadOnData(c)) /\ Same(c, HeadOnData(c))
  <1> DEFINE b == IF c.brake # NoTime THEN DropPending(c, "Stop", Complete) ELSE c
  <1>1. Good(b) /\ Same(c, b)
    BY DropGood DEF Deferred, Same
  <1> HIDE DEF b
  <1>2. HeadOnData(c) = [b EXCEPT !.brake = NoTime, !.motor = TRUE, !.onAudio = FALSE]
    BY DEF HeadOnData, b
  <1>3. Beside(b, HeadOnData(c))
    BY <1>1, <1>2 DEF Beside, Good, Fine, CdFields, IsCd, Same
  <1> QED BY <1>1, <1>3, BesideGood DEF Same

-----------------------------------------------------------------------------
(* The commands' handlers. *)

\* The kinds of response the handlers schedule, none of them a sector's.
LEMMA Answers ==
  /\ Acknowledge \in IrqTypes \ {DataReady}
  /\ Complete \in IrqTypes \ {DataReady}
  /\ Error \in IrqTypes \ {DataReady}
  BY DEF Acknowledge, Complete, Error, DataReady, IrqTypes

LEMMA RespondGood ==
  ASSUME NEW c, Good(c), NEW cmd, cmd # Deferred
  PROVE  /\ Good(Respond(c, cmd)) /\ Same(c, Respond(c, cmd))
         /\ Good(Refuse(c, cmd)) /\ Same(c, Refuse(c, cmd))
  BY FirstGood, Answers DEF Respond, Refuse

\* A command of two responses and nothing else.
LEMMA TwiceGood ==
  ASSUME NEW c, Good(c), NEW cmd, cmd # Deferred,
         NEW irq \in IrqTypes \ {DataReady}, NEW delay
  PROVE  LET d == ChainFollowup(Respond(c, cmd), cmd, irq, delay)
         IN  Good(d) /\ Same(c, d)
  <1>1. Good(Respond(c, cmd)) /\ Same(c, Respond(c, cmd))
    BY RespondGood
  <1> QED BY <1>1, ChainGood DEF Same

LEMMA BeginGood ==
  ASSUME Good(cd)
  PROVE  Good(Begin) /\ Same(cd, Begin)
  <1> DEFINE a == UpdateSpindown(cd)
             b == [a EXCEPT !.busy = TRUE]
  <1>1. Good(a) /\ Same(cd, a)
    BY SpindownGood
  <1> HIDE DEF a
  <1>2. Beside(a, b)
    BY <1>1 DEF Beside, Good, Fine, CdFields, IsCd, Same
  <1>3. Good(b) /\ Same(cd, b)
    BY <1>1, <1>2, BesideGood DEF Same
  <1>4. Begin = DropPending(b, "Pause", Complete)
    BY DEF Begin, a
  <1> HIDE DEF b
  <1> QED BY <1>3, <1>4, DropGood DEF Same, Deferred

\* Handlers that leave the stream alone.
LEMMA PlainHandlers ==
  ASSUME NEW c, Good(c)
  PROVE  /\ Good(GetStat(c)) /\ Same(c, GetStat(c))
         /\ \A t : Good(SetLoc(c, t)) /\ Same(c, SetLoc(c, t))
         /\ \A x : Good(SetMode(c, x)) /\ Same(c, SetMode(c, x))
         /\ Good(MotorOn(c)) /\ Same(c, MotorOn(c))
         /\ Good(GetID(c)) /\ Same(c, GetID(c))
         /\ Good(ReadTOC(c)) /\ Same(c, ReadTOC(c))
         /\ Good(SetSession(c)) /\ Same(c, SetSession(c))
         /\ \A irq \in {Acknowledge, Error} : Good(Query(c, irq)) /\ Same(c, Query(c, irq))
  <1>1. Good(GetStat(c)) /\ Same(c, GetStat(c))
    <2> DEFINE polls == (c.polls + 1) % MaintenanceEvery
               b == [c EXCEPT !.polls = polls]
               extra == IF c.disc # NoDisc /\ polls = 0 THEN Delay["maintenance"] ELSE 0
    <2> HIDE DEF polls
    <2>1. Beside(c, b)
      BY DEF Beside, Good, Fine, CdFields, IsCd, Same
    <2>2. Good(b) /\ Same(c, b)
      BY <2>1, BesideGood
    <2>3. GetStat(c) = ScheduleFirst(b, "GetStat", Acknowledge, extra)
      BY DEF GetStat, polls
    <2> HIDE DEF b, extra
    <2> QED BY <2>2, <2>3, FirstGood, Answers DEF Same, Deferred
  <1>2. ASSUME NEW t PROVE Good(SetLoc(c, t)) /\ Same(c, SetLoc(c, t))
    <2> DEFINE b == [c EXCEPT !.setloc = t, !.aimed = TRUE]
    <2>1. Beside(c, b)
      BY DEF Beside, Good, Fine, CdFields, IsCd, Same
    <2>2. Good(b) /\ Same(c, b)
      BY <2>1, BesideGood
    <2>3. SetLoc(c, t) = Respond(b, "SetLoc")
      BY DEF SetLoc
    <2> HIDE DEF b
    <2> QED BY <2>2, <2>3, RespondGood DEF Same, Deferred
  <1>3. ASSUME NEW x PROVE Good(SetMode(c, x)) /\ Same(c, SetMode(c, x))
    <2> DEFINE b == [c EXCEPT !.xa = x]
    <2>1. Beside(c, b)
      BY DEF Beside, Good, Fine, CdFields, IsCd, Same
    <2>2. Good(b) /\ Same(c, b)
      BY <2>1, BesideGood
    <2>3. SetMode(c, x) = Respond(b, "SetMode")
      BY DEF SetMode
    <2> HIDE DEF b
    <2> QED BY <2>2, <2>3, RespondGood DEF Same, Deferred
  <1>4. Good(MotorOn(c)) /\ Same(c, MotorOn(c))
    <2> DEFINE b == [c EXCEPT !.motor = TRUE, !.brake = NoTime, !.state = "standby"]
    <2>1. Beside(c, b)
      BY DEF Beside, Good, Fine, CdFields, IsCd, Same
    <2>2. Good(b) /\ Same(c, b)
      BY <2>1, BesideGood
    <2>3. MotorOn(c) = Respond(b, "MotorOn")
      BY DEF MotorOn
    <2> HIDE DEF b
    <2> QED BY <2>2, <2>3, RespondGood DEF Same, Deferred
  <1>5. Good(GetID(c)) /\ Same(c, GetID(c))
    BY TwiceGood, Answers DEF GetID, Deferred
  <1>6. Good(ReadTOC(c)) /\ Same(c, ReadTOC(c))
    BY TwiceGood, Answers DEF ReadTOC, Deferred
  <1>7. Good(SetSession(c)) /\ Same(c, SetSession(c))
    BY TwiceGood, RespondGood, Answers DEF SetSession, Deferred
  <1>8. ASSUME NEW irq \in {Acknowledge, Error}
        PROVE  Good(Query(c, irq)) /\ Same(c, Query(c, irq))
    BY FirstGood, Answers DEF Query, Deferred
  <1> QED BY <1>1, <1>2, <1>3, <1>4, <1>5, <1>6, <1>7, <1>8

\* What Stop, Pause, Init, Reset, Seek and Play begin with.
LEMMA HaltedGood ==
  ASSUME NEW c, Fine(c)
  PROVE  LET d == HaltCdda(StopReading(c))
             e == HaltCdda(ClearDataFifo(StopReading(c)))
             f == ClearDataFifo(StopReading(c))
         IN  /\ Good(d) /\ Same(c, d) /\ Good(e) /\ Same(c, e) /\ Good(f) /\ Same(c, f)
  <1>1. Good(StopReading(c)) /\ Same(c, StopReading(c))
    BY StopGood
  <1>2. /\ Good(ClearDataFifo(StopReading(c)))
        /\ Same(c, ClearDataFifo(StopReading(c)))
    BY <1>1, ClearGood DEF Same
  <1>3. /\ Good(HaltCdda(StopReading(c)))
        /\ Same(c, HaltCdda(StopReading(c)))
    BY <1>1, HaltGood DEF Same
  <1>4. /\ Good(HaltCdda(ClearDataFifo(StopReading(c))))
        /\ Same(c, HaltCdda(ClearDataFifo(StopReading(c))))
    BY <1>2, HaltGood DEF Same
  <1> QED BY <1>2, <1>3, <1>4

LEMMA StopCommandGood ==
  ASSUME NEW c, Good(c)
  PROVE  Good(Stop(c)) /\ Same(c, Stop(c))
  <1> DEFINE spinning == c.motor \/ c.brake # NoTime
             until    == IF c.brake # NoTime THEN c.brake ELSE Delay["spinDown"]
             a == HaltCdda(StopReading(c))
             b == [a EXCEPT !.motor = FALSE, !.state = "stopped", !.lid = NoTime,
                            !.boot = FALSE, !.moved = FALSE, !.onAudio = FALSE,
                            !.brake = IF spinning THEN until ELSE @]
             delay == IF ~spinning THEN Delay["stop"]
                      ELSE IF until > FirstResponseDelay THEN until - FirstResponseDelay ELSE 0
  <1>1. Good(a) /\ Same(c, a)
    BY HaltedGood DEF Good
  <1>2. Stop(c) = ChainFollowup(Respond(b, "Stop"), "Stop", Complete, delay)
    BY DEF Stop
  <1> HIDE DEF a, spinning, until, delay
  <1>3. Beside(a, b)
    BY <1>1 DEF Beside, Good, Fine, CdFields, IsCd, Same
  <1>4. Good(b) /\ Same(c, b)
    BY <1>1, <1>3, BesideGood DEF Same
  <1> HIDE DEF b
  <1> QED BY <1>2, <1>4, TwiceGood, Answers DEF Same, Deferred

LEMMA PauseGood ==
  ASSUME NEW c, Good(c)
  PROVE  Good(Pause(c)) /\ Same(c, Pause(c))
  <1> DEFINE extra == IF c.disc # NoDisc /\ ~cd.playing THEN Delay["pauseAck"] ELSE 0
             a == HaltCdda(StopReading(c))
             b == [a EXCEPT !.moved = FALSE]
             delay == IF c.reading THEN Delay["pauseRead"] ELSE Delay["pause"]
  <1>1. Good(a) /\ Same(c, a)
    BY HaltedGood DEF Good
  <1>2. Pause(c) = IF c.reading /\ c.moved
                   THEN ScheduleFirst(c, "Pause", Error, extra)
                   ELSE ChainFollowup(ScheduleFirst(b, "Pause", Acknowledge, extra),
                                      "Pause", Complete, delay)
    BY DEF Pause
  <1> HIDE DEF a, extra, delay
  <1>3. Beside(a, b)
    BY <1>1 DEF Beside, Good, Fine, CdFields, IsCd, Same
  <1>4. Good(b) /\ Same(c, b)
    BY <1>1, <1>3, BesideGood DEF Same
  <1> HIDE DEF b
  <1>5. /\ Good(ScheduleFirst(c, "Pause", Error, extra))
        /\ Same(c, ScheduleFirst(c, "Pause", Error, extra))
    BY FirstGood, Answers DEF Deferred
  <1>6. /\ Good(ScheduleFirst(b, "Pause", Acknowledge, extra))
        /\ Same(c, ScheduleFirst(b, "Pause", Acknowledge, extra))
    BY <1>4, FirstGood, Answers DEF Deferred, Same
  <1> QED BY <1>2, <1>5, <1>6, ChainGood, Answers DEF Same, Deferred

LEMMA InitGood ==
  ASSUME NEW c, Good(c)
  PROVE  Good(InitDrive(c)) /\ Same(c, InitDrive(c))
  <1> DEFINE a == HaltCdda(ClearDataFifo(StopReading(c)))
             b == [a EXCEPT !.moved = FALSE, !.brake = NoTime, !.onAudio = FALSE,
                            !.motor = TRUE, !.state = "rescan", !.lid = NoTime,
                            !.boot = TRUE]
  <1>1. Good(a) /\ Same(c, a)
    BY HaltedGood DEF Good
  <1>2. InitDrive(c) = Respond(b, "Init")
    BY DEF InitDrive
  <1> HIDE DEF a
  <1>3. Beside(a, b)
    BY <1>1 DEF Beside, Good, Fine, CdFields, IsCd, Same
  <1>4. Good(b) /\ Same(c, b)
    BY <1>1, <1>3, BesideGood DEF Same
  <1> HIDE DEF b
  <1> QED BY <1>2, <1>4, RespondGood DEF Same, Deferred

\* A Reset takes acknowledges out of the queue as well, and with them, it may
\* be, the promise of a sector: only the types of the events survive, and the
\* stream is stopped after it.
LEMMA DropFine ==
  ASSUME NEW c, Fine(c), NEW cmd, NEW irq
  PROVE  Fine(DropPending(c, cmd, irq)) /\ Same(c, DropPending(c, cmd, irq))
  <1> DEFINE d == DropPending(c, cmd, irq)
             Left(e) == IF e.then.cmd = cmd /\ e.then.irq = irq
                        THEN [e EXCEPT !.then = NoFollowup] ELSE e
             kept == {f \in c.pending : ~(f.cmd = cmd /\ f.irq = irq)}
  <1>1. \A e \in kept : EventOK(Left(e))
    <2> TAKE e \in kept
    <2>1. EventOK(e)
      BY DEF Fine
    <2>2. CASE e.then.cmd = cmd /\ e.then.irq = irq
      BY <2>1, <2>2, Stripped
    <2>3. CASE ~(e.then.cmd = cmd /\ e.then.irq = irq)
      BY <2>1, <2>3
    <2> QED BY <2>2, <2>3
  <1>2. IsCd(d) /\ d.pending = {Left(e) : e \in kept} /\ Same(c, d)
    BY DEF Fine, CdFields, IsCd, Same, DropPending
  <1> HIDE DEF d, Left, kept
  <1> QED BY <1>1, <1>2 DEF Fine, d

LEMMA ResetGood ==
  ASSUME NEW c, Good(c)
  PROVE  Good(Reset(c)) /\ Same(c, Reset(c))
  <1> DEFINE first   == DropPending(c, "Reset", Acknowledge)
             dropped == DropPending(first, "Reset", Complete)
             a == HaltCdda(ClearDataFifo(StopReading(dropped)))
             b == [a EXCEPT !.aimed = FALSE, !.moved = FALSE, !.xa = FALSE, !.motor = TRUE,
                            !.brake = NoTime, !.onAudio = FALSE, !.state = "standby",
                            !.lid = NoTime, !.boot = FALSE]
  <1>1. Fine(first) /\ Same(c, first)
    BY DropFine DEF Good
  <1> HIDE DEF first
  <1>2. Fine(dropped) /\ Same(c, dropped)
    BY <1>1, DropFine DEF Same
  <1>3. \/ Reset(c) = ScheduleFirst(b, "Reset", Complete, 0)
        \/ Reset(c) = ChainFollowup(Respond(b, "Reset"), "Reset", Complete, Delay["reset"])
    BY DEF Reset, first
  <1> HIDE DEF dropped
  <1>4. Good(a) /\ Same(c, a)
    BY <1>2, HaltedGood DEF Same
  <1> HIDE DEF a
  <1>5. Beside(a, b)
    BY <1>4 DEF Beside, Good, Fine, CdFields, IsCd, Same
  <1>6. Good(b) /\ Same(c, b)
    BY <1>4, <1>5, BesideGood DEF Same
  <1> HIDE DEF b
  <1>7. /\ Good(ScheduleFirst(b, "Reset", Complete, 0))
        /\ Same(c, ScheduleFirst(b, "Reset", Complete, 0))
    BY <1>6, FirstGood, Answers DEF Deferred, Same
  <1> QED BY <1>3, <1>6, <1>7, TwiceGood, Answers DEF Same, Deferred

LEMMA SeekGood ==
  ASSUME NEW c, Good(c)
  PROVE  Good(Seek(c)) /\ Same(c, Seek(c))
  <1> DEFINE a == HaltCdda(StopReading(c))
             b == [a EXCEPT !.moved = FALSE]
             h == HeadOnData(Respond(b, "Seek"))
             p == [h EXCEPT !.head = Location(c), !.aimed = FALSE]
             delay == Delay["travel"] + HeadPenalty(c)
  <1>1. Good(a) /\ Same(c, a)
    BY HaltedGood DEF Good
  <1>2. Seek(c) = ChainFollowup(p, "Seek", Complete, delay)
    BY DEF Seek
  <1> HIDE DEF a, delay
  <1>3. Beside(a, b)
    BY <1>1 DEF Beside, Good, Fine, CdFields, IsCd, Same
  <1>4. Good(b) /\ Same(c, b)
    BY <1>1, <1>3, BesideGood DEF Same
  <1> HIDE DEF b
  <1>5. Good(h) /\ Same(c, h)
    BY <1>4, RespondGood, HeadGood DEF Same, Deferred
  <1> HIDE DEF h
  <1>6. Beside(h, p)
    BY <1>5 DEF Beside, Good, Fine, CdFields, IsCd, Same
  <1>7. Good(p) /\ Same(c, p)
    BY <1>5, <1>6, BesideGood DEF Same
  <1> HIDE DEF p
  <1> QED BY <1>2, <1>7, ChainGood, Answers DEF Same, Deferred

LEMMA PlayGood ==
  ASSUME NEW c, Good(c), NEW start
  PROVE  Good(Play(c, start)) /\ Same(c, Play(c, start))
  <1> DEFINE settle == IF c.onAudio THEN 0 ELSE Delay["settle"]
             a == ClearDataFifo(StopReading(c))
             b == [a EXCEPT !.head = start.head, !.aimed = start.aimed, !.motor = TRUE,
                            !.playing = FALSE, !.brake = NoTime, !.onAudio = TRUE,
                            !.seek = Delay["travel"] + settle]
  <1>1. Good(a) /\ Same(c, a)
    BY HaltedGood DEF Good
  <1>2. Play(c, start) = Refuse(c, "Play") \/ Play(c, start) = Respond(b, "Play")
    BY DEF Play
  <1> HIDE DEF a, settle
  <1>3. Beside(a, b)
    BY <1>1 DEF Beside, Good, Fine, CdFields, IsCd, Same
  <1>4. Good(b) /\ Same(c, b)
    BY <1>1, <1>3, BesideGood DEF Same
  <1> HIDE DEF b
  <1> QED BY <1>2, <1>4, RespondGood DEF Same, Deferred

\* A read between its cancelling of the old stream and its promise of the new.
Opening(c) == Fine(c) /\ NoSector(c) /\ c.reading /\ ~c.news

LEMMA OpeningResponds ==
  ASSUME NEW c, Opening(c)
  PROVE  Opening(Respond(c, "Read")) /\ Same(c, Respond(c, "Read"))
  <1> DEFINE e == Event("Read", Acknowledge, TRUE)
             due == FirstResponseDelay + 0
             d == Respond(c, "Read")
  <1>1. EventOK(e) /\ e.irq = Acknowledge /\ ~Promises(e)
    BY DEF EventOK, Event, EventFields, Promises, NoFollowup, Deferred, DataReady, None,
           Acknowledge, IrqTypes
  <1>2. d = Insert(c, e, due)
    BY DEF Respond, ScheduleFirst
  <1> HIDE DEF e, due
  <1>3. PICK x : /\ EventOK(x) /\ x.cmd = e.cmd /\ x.irq = e.irq /\ x.then = e.then
                 /\ Insert(c, e, due) = [c EXCEPT !.pending = c.pending \cup {x}]
    BY <1>1, InsertIs DEF Opening, Fine
  <1>4. ~IsSector(x) /\ ~Promises(x)
    BY <1>1, <1>3 DEF IsSector, Promises, Acknowledge, DataReady
  <1>5. /\ IsCd(d) /\ d.pending = c.pending \cup {x} /\ d.reading = c.reading
        /\ d.news = c.news /\ Same(c, d)
    BY <1>2, <1>3 DEF Opening, Fine, CdFields, IsCd, Same
  <1> HIDE DEF d
  <1> QED BY <1>3, <1>4, <1>5 DEF Opening, Fine, NoSector, d

LEMMA OpeningDrops ==
  ASSUME NEW c, Opening(c), NEW cmd
  PROVE  Opening(DropPending(c, cmd, Complete)) /\ Same(c, DropPending(c, cmd, Complete))
  <1> DEFINE d == DropPending(c, cmd, Complete)
             Left(e) == IF e.then.cmd = cmd /\ e.then.irq = Complete
                        THEN [e EXCEPT !.then = NoFollowup] ELSE e
             kept == {f \in c.pending : ~(f.cmd = cmd /\ f.irq = Complete)}
  <1>1. \A e \in kept : ~IsSector(Left(e)) /\ ~Promises(Left(e))
    <2> TAKE e \in kept
    <2>1. EventOK(e) /\ ~IsSector(e) /\ ~Promises(e)
      BY DEF Opening, Fine, NoSector
    <2>2. CASE e.then.cmd = cmd /\ e.then.irq = Complete
      BY <2>1, <2>2, Stripped
    <2>3. CASE ~(e.then.cmd = cmd /\ e.then.irq = Complete)
      BY <2>1, <2>3
    <2> QED BY <2>2, <2>3
  <1>2. /\ d.pending = {Left(e) : e \in kept} /\ d.reading = c.reading /\ d.news = c.news
    BY DEF Opening, Fine, CdFields, IsCd, DropPending
  <1>3. Fine(d) /\ Same(c, d)
    BY DropFine DEF Opening
  <1> HIDE DEF d, Left, kept
  <1> QED BY <1>1, <1>2, <1>3 DEF Opening, NoSector, d

\* The promise opens the stream.
LEMMA OpeningPromises ==
  ASSUME NEW c, Opening(c), NEW delay
  PROVE  LET d == ChainFollowup(c, "Read", DataReady, delay)
         IN  Good(d) /\ Same(c, d)
  <1> DEFINE d    == ChainFollowup(c, "Read", DataReady, delay)
             free == {e \in c.pending : e.irq = Acknowledge /\ e.then = NoFollowup}
             last == {e \in free : \A f \in free \ {e} : Before(f, e)}
             ack  == CHOOSE e \in last : TRUE
             then == [cmd |-> "Read", delay |-> delay, irq |-> DataReady]
             x    == [ack EXCEPT !.then = then]
             new  == Event("Read", DataReady, FALSE)
  <1>1. "Read" # Deferred /\ DataReady \in IrqTypes
    BY DEF Deferred, DataReady, IrqTypes
  <1>2. CASE last = {}
    <2>1. d = Insert(c, new, delay)
      BY <1>2 DEF ChainFollowup
    <2>2. EventOK(new) /\ IsSector(new) /\ ~Promises(new)
      BY <1>1 DEF EventOK, Event, EventFields, IsSector, Promises, NoFollowup, Deferred,
                  DataReady, None
    <2> HIDE DEF new
    <2>3. PICK y : /\ EventOK(y) /\ y.cmd = new.cmd /\ y.irq = new.irq /\ y.then = new.then
                   /\ Insert(c, new, delay) = [c EXCEPT !.pending = c.pending \cup {y}]
      BY <2>2, InsertIs DEF Opening, Fine
    <2>4. IsSector(y) /\ ~Promises(y)
      BY <2>2, <2>3 DEF IsSector, Promises
    <2>5. /\ IsCd(d) /\ d.pending = c.pending \cup {y} /\ d.reading = c.reading
          /\ d.news = c.news /\ Same(c, d)
      BY <2>1, <2>3 DEF Opening, Fine, CdFields, IsCd, Same
    <2> HIDE DEF d
    <2> QED BY <2>3, <2>4, <2>5
            DEF Opening, Good, Fine, NoSector, Stream, OneSector, Held, d
  <1>3. CASE last # {}
    <2>1. ack \in c.pending /\ ack.irq = Acknowledge /\ ack.then = NoFollowup
      BY <1>3
    <2> HIDE DEF ack
    <2>2. EventOK(ack)
      BY <2>1 DEF Opening, Fine
    <2>3. /\ DOMAIN x = EventFields /\ x.irq = Acknowledge /\ x.cmd = ack.cmd
          /\ x.then = then
      BY <2>1, <2>2 DEF EventOK, EventFields
    <2>4. then.cmd = "Read" /\ then.irq = DataReady
      OBVIOUS
    <2>5. d = [c EXCEPT !.pending = (c.pending \ {ack}) \cup {x}]
      BY <1>3 DEF ChainFollowup, ack
    <2> HIDE DEF x, then
    <2>6. Acknowledge \in IrqTypes /\ Acknowledge # DataReady
      BY DEF Acknowledge, DataReady, IrqTypes
    <2>7. EventOK(x) /\ ~IsSector(x) /\ Promises(x)
      BY <1>1, <2>1, <2>2, <2>3, <2>4, <2>6 DEF EventOK, IsSector, Promises
    <2>8. /\ IsCd(d) /\ d.pending = (c.pending \ {ack}) \cup {x}
          /\ d.reading = c.reading /\ d.news = c.news /\ Same(c, d)
      BY <2>5 DEF Opening, Fine, CdFields, IsCd, Same
    <2> HIDE DEF d
    <2> QED BY <2>7, <2>8 DEF Opening, Good, Fine, NoSector, Stream, OneSector, Held, d
  <1> QED BY <1>2, <1>3

LEMMA ReadGood ==
  ASSUME NEW c, Good(c)
  PROVE  Good(Read(c)) /\ Same(c, Read(c))
  <1> DEFINE a == CancelSectors(c)
             b == [HaltCdda(ClearDataFifo(a)) EXCEPT !.reading = TRUE, !.reads = @ + 1]
             r == Respond(b, "Read")
             h == HeadOnData(r)
             placed == IF c.aimed \/ c.head = 0
                       THEN [h EXCEPT !.head = Location(c), !.aimed = FALSE,
                                      !.moved = @ \/ c.aimed]
                       ELSE h
             delay == Delay["firstSector"] + HeadPenalty(b)
                        + (IF c.aimed THEN Delay["travel"] ELSE 0)
  <1>1. CASE c.disc = NoDisc
    BY <1>1, TwiceGood, Answers DEF Read, Deferred
  <1>2. CASE c.disc # NoDisc
    <2>1. Read(c) = ChainFollowup(placed, "Read", DataReady, delay)
      BY <1>2 DEF Read
    <2> HIDE DEF delay
    <2>2. Fine(a) /\ NoSector(a) /\ Same(c, a) /\ a.news = FALSE
      BY CancelQuiet DEF Good
    <2> HIDE DEF a
    <2>3. Opening(b) /\ Same(c, b)
      BY <2>2 DEF HaltCdda, ClearDataFifo, Opening, Fine, NoSector, CdFields, IsCd, Same
    <2> HIDE DEF b
    <2>4. Opening(r) /\ Same(c, r)
      BY <2>3, OpeningResponds DEF Same
    <2> HIDE DEF r
    <2>5. Opening(h) /\ Same(c, h)
      <3> DEFINE g == IF r.brake # NoTime THEN DropPending(r, "Stop", Complete) ELSE r
      <3>1. Opening(g) /\ Same(r, g)
        BY <2>4, OpeningDrops DEF Same
      <3>2. h = [g EXCEPT !.brake = NoTime, !.motor = TRUE, !.onAudio = FALSE]
        BY DEF HeadOnData
      <3> HIDE DEF g, h
      <3> QED BY <2>4, <3>1, <3>2 DEF Opening, Fine, NoSector, CdFields, IsCd, Same
    <2> HIDE DEF h
    <2>6. Opening(placed) /\ Same(c, placed)
      BY <2>5 DEF Opening, Fine, NoSector, CdFields, IsCd, Same
    <2> HIDE DEF placed
    <2> QED BY <2>1, <2>6, OpeningPromises DEF Same
  <1> QED BY <1>1, <1>2

\* Every command keeps the invariant, whatever its parameters.
LEMMA ResultGood ==
  ASSUME Good(cd), NEW cmd \in Commands, NEW d \in Result(cmd)
  PROVE  Good(d) /\ Same(cd, d)
  <1> DEFINE b == Begin
  <1>1. Good(b) /\ Same(cd, b)
    BY BeginGood
  <1>2. \/ d \in {GetStat(b)} \cup {SetLoc(b, t) : t \in Targets}
                   \cup {SetMode(b, xa) : xa \in BOOLEAN} \cup {MotorOn(b)}
                   \cup {GetID(b), ReadTOC(b), SetSession(b)}
                   \cup {Query(b, irq) : irq \in {Acknowledge, Error}}
        \/ d \in {Read(b), Stop(b), Pause(b), InitDrive(b), Reset(b), Seek(b)}
        \/ d \in {Play(b, s) : s \in Starts(b)} \cup {Refuse(b, "Play")}
    BY DEF Commands, Result
  <1> HIDE DEF b
  <1>3. CASE d \in {GetStat(b)} \cup {SetLoc(b, t) : t \in Targets}
                   \cup {SetMode(b, xa) : xa \in BOOLEAN} \cup {MotorOn(b)}
                   \cup {GetID(b), ReadTOC(b), SetSession(b)}
                   \cup {Query(b, irq) : irq \in {Acknowledge, Error}}
    <2>1. \/ d \in {GetStat(b), MotorOn(b), GetID(b), ReadTOC(b), SetSession(b)}
          \/ \E t : d = SetLoc(b, t)
          \/ \E x : d = SetMode(b, x)
          \/ \E irq \in {Acknowledge, Error} : d = Query(b, irq)
      BY <1>3
    <2>2. CASE d \in {GetStat(b), MotorOn(b), GetID(b), ReadTOC(b), SetSession(b)}
      <3>1. /\ Good(GetStat(b)) /\ Same(b, GetStat(b))
            /\ Good(MotorOn(b)) /\ Same(b, MotorOn(b))
            /\ Good(GetID(b)) /\ Same(b, GetID(b))
            /\ Good(ReadTOC(b)) /\ Same(b, ReadTOC(b))
            /\ Good(SetSession(b)) /\ Same(b, SetSession(b))
        BY <1>1, PlainHandlers
      <3> QED BY <1>1, <2>2, <3>1 DEF Same
    <2>3. CASE \E t : d = SetLoc(b, t)
      <3>1. PICK t : d = SetLoc(b, t)
        BY <2>3
      <3>2. Good(SetLoc(b, t)) /\ Same(b, SetLoc(b, t))
        BY <1>1, PlainHandlers
      <3> QED BY <1>1, <3>1, <3>2 DEF Same
    <2>4. CASE \E x : d = SetMode(b, x)
      <3>1. PICK x : d = SetMode(b, x)
        BY <2>4
      <3>2. Good(SetMode(b, x)) /\ Same(b, SetMode(b, x))
        BY <1>1, PlainHandlers
      <3> QED BY <1>1, <3>1, <3>2 DEF Same
    <2>5. CASE \E irq \in {Acknowledge, Error} : d = Query(b, irq)
      BY <1>1, <2>5, PlainHandlers DEF Same
    <2> QED BY <2>1, <2>2, <2>3, <2>4, <2>5
  <1>4. CASE d \in {Read(b), Stop(b), Pause(b), InitDrive(b), Reset(b), Seek(b)}
    BY <1>1, <1>4, ReadGood, StopCommandGood, PauseGood, InitGood, ResetGood, SeekGood
    DEF Same
  <1>5. CASE d \in {Play(b, s) : s \in Starts(b)} \cup {Refuse(b, "Play")}
    BY <1>1, <1>5, PlayGood, RespondGood DEF Same, Deferred
  <1> QED BY <1>2, <1>3, <1>4, <1>5

-----------------------------------------------------------------------------
(* The rounds of the tick. *)

\* A change of fields beside the invariant, in the drive.
LEMMA DriveGood ==
  ASSUME Good(cd)
  PROVE  LET d == CompleteCddaSeek(UpdateSpindown(TickLid(cd)))
         IN  Good(d) /\ Same(cd, d)
  <1>1. Beside(cd, TickLid(cd))
    BY DEF Beside, TickLid, Good, Fine, CdFields, IsCd, Same
  <1>2. Good(TickLid(cd)) /\ Same(cd, TickLid(cd))
    BY <1>1, BesideGood
  <1>3. ASSUME NEW c, Good(c) PROVE Good(CompleteCddaSeek(c)) /\ Same(c, CompleteCddaSeek(c))
    <2>1. Beside(c, CompleteCddaSeek(c))
      BY <1>3 DEF Beside, CompleteCddaSeek, Good, Fine, CdFields, IsCd, Same
    <2> QED BY <1>3, <2>1, BesideGood
  <1> QED BY <1>2, <1>3, SpindownGood DEF Same

\* What `d` is when the interrupt of the event `e` is latched in `c`.
Follows(c, e, d) ==
  /\ IsCd(d) /\ d.irq = e.irq /\ d.mask = c.mask /\ d.reading = c.reading
  /\ e.irq = DataReady => ~d.news
  /\ e.irq # DataReady => (d.news <=> c.news) /\ (d.deferred <=> c.deferred)
  /\ IF e.then = NoFollowup
     THEN d.pending = c.pending
     ELSE \E x : /\ EventOK(x) /\ x.cmd = e.then.cmd /\ x.irq = e.then.irq
                /\ ~Promises(x)
                /\ d.pending = c.pending \cup {x}

LEMMA LatchFollows ==
  ASSUME NEW c, IsCd(c), NEW e, EventOK(e)
  PROVE  Follows(c, e, Latched(c, e))
  <1> DEFINE a == IF e.irq = DataReady
                  THEN [SnapToNewest(c) EXCEPT !.deferred = FALSE, !.news = FALSE] ELSE c
             l == [a EXCEPT !.irq = e.irq, !.busy = FALSE]
             new == Event(e.then.cmd, e.then.irq, FALSE)
             due == e.then.delay
             h == IF e.then = NoFollowup THEN l ELSE Insert(l, new, due)
             d == Latched(c, e)
  <1>1. /\ IsCd(a) /\ a.mask = c.mask /\ a.reading = c.reading
        /\ a.pending = c.pending
        /\ e.irq = DataReady => a.news = FALSE
        /\ e.irq # DataReady => a.news = c.news /\ a.deferred = c.deferred
    BY DEF SnapToNewest, CdFields, IsCd
  <1>2. d = IF c.boot /\ e.irq = Acknowledge
            THEN [h EXCEPT !.boot = FALSE, !.lid = Delay["lid"]] ELSE h
    BY DEF Latched
  <1> HIDE DEF a
  <1>3. /\ IsCd(l) /\ l.mask = a.mask /\ l.reading = a.reading
        /\ l.pending = a.pending /\ l.news = a.news /\ l.deferred = a.deferred
        /\ l.irq = e.irq
    BY <1>1 DEF CdFields, IsCd
  <1> HIDE DEF l
  <1>4. CASE e.then = NoFollowup
    BY <1>1, <1>2, <1>3, <1>4 DEF CdFields, IsCd, Follows
  <1>5. CASE e.then # NoFollowup
    <2>1. EventOK(new) /\ new.cmd = e.then.cmd /\ new.irq = e.then.irq /\ ~Promises(new)
      BY <1>5 DEF EventOK, Event, EventFields, Promises, NoFollowup, Deferred, DataReady, None
    <2>2. h = Insert(l, new, due)
      BY <1>5
    <2> HIDE DEF new, h, due
    <2>7. IsCd(l) /\ EventOK(new)
      BY <1>3, <2>1
    <2>3. PICK x : /\ EventOK(x) /\ x.cmd = new.cmd /\ x.irq = new.irq /\ x.then = new.then
                   /\ h = [l EXCEPT !.pending = l.pending \cup {x}]
      BY <2>2, <2>7, InsertIs
    <2>4. /\ IsCd(h) /\ h.mask = l.mask /\ h.reading = l.reading
          /\ h.pending = l.pending \cup {x} /\ h.news = l.news /\ h.deferred = l.deferred
          /\ h.irq = l.irq
      BY <1>3, <2>3 DEF CdFields, IsCd
    <2>5. /\ IsCd(d) /\ d.mask = h.mask /\ d.reading = h.reading
          /\ d.pending = h.pending /\ d.news = h.news /\ d.deferred = h.deferred
          /\ d.irq = h.irq
      BY <1>2, <2>4 DEF CdFields, IsCd
    <2> HIDE DEF d
    <2>6. ~Promises(x)
      BY <2>1, <2>3 DEF Promises
    <2> QED BY <1>1, <1>3, <1>5, <2>1, <2>3, <2>4, <2>5, <2>6 DEF Follows, d
  <1> QED BY <1>4, <1>5

\* An event that is no sector's leaves the queue.
LEMMA WithoutIs ==
  ASSUME Good(cd), NEW e \in cd.pending
  PROVE  LET d == Without(e)
         IN  /\ IsCd(d) /\ d.pending = cd.pending \ {e} /\ Same(cd, d)
             /\ d.reading = cd.reading /\ d.news = cd.news /\ d.deferred = cd.deferred
             /\ EventOK(e)
  BY DEF Good, Fine, CdFields, IsCd, Same, Without

\* A response or a held INT1 goes out: the sector that a response promised
\* takes its place in the queue.
LEMMA ResponseGood ==
  ASSUME Good(cd), NEW e \in cd.pending, ~IsSector(e), e.irq # DataReady \/ cd.reading,
         NEW c, c.pending = cd.pending \ {e}, c.mask = cd.mask,
         c.reading = cd.reading, c.news = cd.news, c.deferred = cd.deferred,
         NEW d, Follows(c, e, d)
  PROVE  Good(d) /\ d.irq = e.irq /\ d.mask = cd.mask
  <1>1. EventOK(e) /\ e.irq # None
    BY DEF Good, Fine, EventOK, IrqTypes, None, DataReady, Complete, Acknowledge, Error
  <1>2. /\ IsCd(d) /\ d.irq = e.irq /\ d.mask = cd.mask /\ d.reading = cd.reading
    BY DEF Follows
  <1>3. Held(d)
    <2>1. CASE e.irq = DataReady
      BY <2>1 DEF Held, Follows
    <2>2. CASE e.irq # DataReady
      <3>1. (d.news <=> cd.news) /\ (d.deferred <=> cd.deferred)
        BY <2>2 DEF Follows
      <3>2. \A f \in cd.pending : f.cmd = Deferred => f \in d.pending
        BY <1>1, <2>2 DEF Follows, EventOK
      <3> QED BY <1>1, <1>2, <3>1, <3>2 DEF Good, Held
    <2> QED BY <2>1, <2>2
  <1>4. CASE e.then = NoFollowup
    <2>1. ~Promises(e) /\ d.pending = cd.pending \ {e}
      BY <1>4 DEF Promises, NoFollowup, None, DataReady, Follows
    <2>2. Fine(d)
      BY <1>2, <2>1 DEF Good, Fine
    <2>3. Stream(d)
      BY <1>2, <2>1 DEF Good, Stream, OneSector, NoSector
    <2> QED BY <1>2, <1>3, <2>2, <2>3 DEF Good
  <1>5. CASE e.then # NoFollowup
    <2>1. PICK x : /\ EventOK(x) /\ x.cmd = e.then.cmd /\ x.irq = e.then.irq
                   /\ ~Promises(x)
                   /\ d.pending = (cd.pending \ {e}) \cup {x}
      BY <1>5 DEF Follows
    <2>2. IsSector(x) <=> Promises(e)
      BY <1>1, <2>1 DEF IsSector, Promises, EventOK
    <2>3. Fine(d)
      BY <1>2, <2>1 DEF Good, Fine
    <2>4. Stream(d)
      <3>1. CASE cd.reading /\ Promises(e)
        <4>1. \A f \in cd.pending \ {e} : ~IsSector(f) /\ ~Promises(f)
          BY <3>1 DEF Good, Stream, OneSector
        <4> QED BY <1>2, <2>1, <2>2, <3>1, <4>1 DEF Stream, OneSector
      <3>2. CASE cd.reading /\ ~Promises(e)
        <4>1. PICK g \in cd.pending : /\ IsSector(g) <=> ~Promises(g)
                                      /\ \A f \in cd.pending \ {g} : ~IsSector(f) /\ ~Promises(f)
          BY <3>2 DEF Good, Stream, OneSector
        <4>2. g \in d.pending /\ \A f \in d.pending \ {g} : ~IsSector(f) /\ ~Promises(f)
          BY <2>1, <2>2, <3>2, <4>1
        <4> QED BY <1>2, <3>2, <4>1, <4>2 DEF Stream, OneSector
      <3>3. CASE ~cd.reading
        BY <1>2, <2>1, <2>2, <3>3 DEF Good, Stream, NoSector
      <3> QED BY <3>1, <3>2, <3>3
    <2> QED BY <1>2, <1>3, <2>3, <2>4 DEF Good
  <1> QED BY <1>2, <1>4, <1>5

\* A sector's INT1 goes out with the landing: no news is left to announce.
LEMMA SectorGood ==
  ASSUME NEW c, Fine(c), Stream(c), NEW e, EventOK(e), ~Promises(e), e.irq = DataReady,
         NEW d, Follows(c, e, d)
  PROVE  Good(d) /\ d.irq = e.irq /\ d.mask = c.mask
  <1>1. /\ IsCd(d) /\ d.irq = e.irq /\ d.mask = c.mask /\ d.reading = c.reading /\ ~d.news
    BY DEF Follows
  <1>2. CASE e.then = NoFollowup
    BY <1>1, <1>2 DEF Good, Fine, Stream, Held, OneSector, NoSector, Follows
  <1>3. CASE e.then # NoFollowup
    <2>1. PICK x : /\ EventOK(x) /\ x.irq = e.then.irq /\ ~Promises(x)
                   /\ d.pending = c.pending \cup {x}
      BY <1>3 DEF Follows
    <2>2. ~IsSector(x)
      BY <2>1 DEF IsSector, Promises
    <2>3. Fine(d)
      BY <1>1, <2>1 DEF Fine
    <2>4. Stream(d)
      BY <1>1, <2>1, <2>2 DEF Stream, OneSector, NoSector
    <2> QED BY <1>1, <2>3, <2>4 DEF Good, Held
  <1> QED BY <1>2, <1>3

\* What a sector does to the fields that the invariant reads.
LEMMA LoadIs ==
  ASSUME NEW c, IsCd(c)
  PROVE  /\ IsCd(LoadNextSector(c)) /\ Same(c, LoadNextSector(c))
         /\ LoadNextSector(c).pending = c.pending
         /\ LoadNextSector(c).deferred = c.deferred
         /\ PastEnd => ~LoadNextSector(c).reading
         /\ ~PastEnd => LoadNextSector(c).reading = c.reading
         /\ ~PastEnd /\ ~Tells => LoadNextSector(c).news = c.news
  <1> DEFINE passed == [c EXCEPT !.head = @ + 1]
             pushed == PushSector(passed, c.head)
  <1>1. IsCd(passed) /\ \A f \in CdFields \ {"head"} : passed[f] = c[f]
    BY DEF CdFields, IsCd
  <1>2. /\ IsCd(pushed)
        /\ \A f \in {"irq", "mask", "pending", "deferred", "reading", "news"} : pushed[f] = c[f]
    BY <1>1 DEF CdFields, IsCd, PushSector
  <1> HIDE DEF pushed
  <1>3. LoadNextSector(c) =
          IF PastEnd THEN [passed EXCEPT !.fifo = <<>>, !.ready = FALSE, !.armed = FALSE,
                                         !.reading = FALSE, !.moved = FALSE]
          ELSE IF Kind = "audio"
               THEN [passed EXCEPT !.fifo = <<>>, !.ready = FALSE, !.armed = FALSE]
          ELSE IF Tells THEN [pushed EXCEPT !.news = TRUE] ELSE passed
    BY <1>1 DEF LoadNextSector, CdFields, IsCd, pushed
  <1>4. CASE PastEnd
    BY <1>1, <1>3, <1>4 DEF CdFields, IsCd, Same
  <1>5. CASE ~PastEnd /\ Kind = "audio"
    BY <1>1, <1>3, <1>5 DEF CdFields, IsCd, Same
  <1>6. CASE ~PastEnd /\ Kind # "audio" /\ Tells
    <2>1. LoadNextSector(c) = [pushed EXCEPT !.news = TRUE]
      BY <1>3, <1>6
    <2> QED BY <1>2, <1>6, <2>1 DEF CdFields, IsCd, Same
  <1>7. CASE ~PastEnd /\ Kind # "audio" /\ ~Tells
    BY <1>1, <1>3, <1>7 DEF CdFields, IsCd, Same
  <1> QED BY <1>4, <1>5, <1>6, <1>7

\* A sector lands: one more is scheduled for as long as the disc lasts, and
\* under a latched interrupt its INT1 is held.
LEMMA LandedGood ==
  ASSUME Good(cd), NEW e \in cd.pending, IsSector(e), cd.reading,
         NEW d, d = Landed(e)
  PROVE  /\ Fine(d) /\ Stream(d) /\ Same(cd, d)
         /\ cd.irq # None \/ ~Tells => Good(d)
         /\ EventOK(e) /\ ~Promises(e)
  <1> DEFINE c      == Without(e)
             loaded == LoadNextSector(c)
             held   == IF cd.irq # None /\ Tells THEN [loaded EXCEPT !.deferred = TRUE] ELSE loaded
             moved  == [held EXCEPT !.moved = FALSE]
             new    == Event("Read", DataReady, FALSE)
             due    == IF e.due + Delay["sector"] > 0
                       THEN e.due + Delay["sector"] ELSE Delay["sector"]
  <1>1. /\ IsCd(c) /\ c.pending = cd.pending \ {e} /\ Same(cd, c)
        /\ c.reading = cd.reading /\ c.news = cd.news /\ c.deferred = cd.deferred
        /\ EventOK(e)
    BY WithoutIs
  <1>2. /\ ~Promises(e)
        /\ \A f \in c.pending : EventOK(f) /\ ~IsSector(f) /\ ~Promises(f)
    BY <1>1 DEF Good, Fine, Stream, OneSector, EventOK, IsSector, Acknowledge, DataReady
  <1>3. /\ IsCd(loaded) /\ Same(cd, loaded) /\ loaded.pending = c.pending
        /\ loaded.deferred = cd.deferred
        /\ PastEnd => ~loaded.reading
        /\ ~PastEnd => loaded.reading = cd.reading
        /\ ~PastEnd /\ ~Tells => loaded.news = cd.news
    <2> HIDE DEF c
    <2> QED BY <1>1, LoadIs DEF Same
  <1>4. d = IF ~loaded.reading THEN held ELSE Insert(moved, new, due)
    BY DEF Landed
  <1> HIDE DEF c, loaded
  <1>5. /\ IsCd(held) /\ Same(cd, held) /\ held.pending = c.pending
        /\ held.reading = loaded.reading /\ held.news = loaded.news
        /\ cd.irq # None /\ Tells => held.deferred
        /\ ~Tells => held.deferred = cd.deferred
    BY <1>3 DEF CdFields, IsCd, Same
  <1> HIDE DEF held
  <1>6. CASE ~loaded.reading
    BY <1>1, <1>2, <1>4, <1>5, <1>6 DEF Good, Fine, Stream, NoSector, Held
  <1>7. CASE loaded.reading
    <2>1. /\ EventOK(new) /\ ~Promises(new) /\ IsSector(new)
      BY DEF EventOK, Event, EventFields, Promises, NoFollowup, Deferred, DataReady, None,
             IrqTypes, IsSector
    <2> HIDE DEF new, due
    <2>2. IsCd(moved) /\ \A f \in CdFields \ {"moved"} : moved[f] = held[f]
      BY <1>5 DEF CdFields, IsCd
    <2> HIDE DEF moved
    <2>3. PICK x : /\ EventOK(x) /\ x.cmd = new.cmd /\ x.irq = new.irq /\ x.then = new.then
                   /\ Insert(moved, new, due) = [moved EXCEPT !.pending = moved.pending \cup {x}]
      BY <2>1, <2>2, InsertIs
    <2>4. IsSector(x) /\ ~Promises(x)
      BY <2>1, <2>3 DEF IsSector, Promises
    <2>5. /\ IsCd(d) /\ Same(cd, d) /\ d.pending = c.pending \cup {x}
          /\ d.reading = held.reading /\ d.news = held.news /\ d.deferred = held.deferred
      <3>1. d = [moved EXCEPT !.pending = moved.pending \cup {x}]
        BY <1>4, <1>7, <2>3
      <3>2. IsCd(d) /\ \A f \in CdFields \ {"moved", "pending"} : d[f] = held[f]
        BY <2>2, <3>1 DEF CdFields, IsCd
      <3>3. d.pending = held.pending \cup {x}
        BY <2>2, <3>1 DEF CdFields, IsCd
      <3> QED BY <1>5, <3>2, <3>3 DEF CdFields, Same
    <2>6. Fine(d)
      BY <1>2, <2>3, <2>5 DEF Fine
    <2>7. Stream(d)
      BY <1>2, <1>5, <1>7, <2>4, <2>5 DEF Stream, OneSector
    <2>8. ASSUME cd.irq # None \/ ~Tells PROVE Held(d)
      <3>1. CASE Tells
        BY <1>5, <2>5, <2>8, <3>1 DEF Held, Same
      <3>2. CASE ~Tells
        <4>1. (d.news <=> cd.news) /\ (d.deferred <=> cd.deferred) /\ (d.reading <=> cd.reading)
          BY <1>3, <1>5, <1>7, <2>5, <3>2
        <4>2. \A f \in cd.pending : f.cmd = Deferred => f \in d.pending
          BY <1>1, <2>5 DEF IsSector
        <4> QED BY <2>5, <4>1, <4>2 DEF Good, Held, Same
      <3> QED BY <3>1, <3>2
    <2> QED BY <1>1, <1>2, <2>5, <2>6, <2>7, <2>8 DEF Good
  <1> QED BY <1>6, <1>7

-----------------------------------------------------------------------------
(* The steps. *)

CpuFields == {"istat", "written", "told"}

Inv == Good(cd) /\ DOMAIN cpu = CpuFields /\ UnmaskedInterruptIsSignalled

\* A step that leaves the interrupt alone and tells the CPU no less.
LEMMA QuietStep ==
  ASSUME Inv, Good(cd'), Same(cd, cd'), DOMAIN cpu' = CpuFields, cpu.told => cpu'.told
  PROVE  Inv'
  BY DEF Inv, Same, UnmaskedInterruptIsSignalled

\* What Raise makes of the CPU's side.
LEMMA RaiseTells ==
  ASSUME Inv, NEW c, NEW e, Raise(c, e), Good(cd'), cd'.mask = cd.mask
  PROVE  Inv'
  <1>1. DOMAIN cpu' = CpuFields /\ (cpu'.told <=> cd.mask)
    BY DEF Raise, Inv, CpuFields
  <1> QED BY <1>1 DEF Inv, UnmaskedInterruptIsSignalled

LEMMA RoundInv ==
  ASSUME Inv, NEW e \in cd.pending,
         \/ HoldBack(e) \/ WaitForSector(e) \/ DropStale(e) \/ KeepHolding(e)
         \/ DeliverResponse(e) \/ DeliverHeldInt1(e) \/ ReadSector(e)
  PROVE  Inv'
  <1>0. PICK c : c = Without(e)
    OBVIOUS
  <1>1. /\ IsCd(c) /\ c.pending = cd.pending \ {e} /\ Same(cd, c)
        /\ c.reading = cd.reading /\ c.news = cd.news /\ c.deferred = cd.deferred
        /\ EventOK(e) /\ Good(cd)
    BY <1>0, WithoutIs DEF Inv
  <1>2. ASSUME HoldBack(e) PROVE Inv'
    <2>1. PICK x : /\ EventOK(x) /\ x.cmd = e.cmd /\ x.irq = e.irq /\ x.then = e.then
                   /\ Insert(c, e, Delay["reschedule"]) =
                        [c EXCEPT !.pending = c.pending \cup {x}]
      <3>1. IsCd(c) /\ EventOK(e)
        BY <1>1
      <3>2. \A due : \E x :
               /\ EventOK(x) /\ x.cmd = e.cmd /\ x.irq = e.irq /\ x.then = e.then
               /\ Insert(c, e, due) = [c EXCEPT !.pending = c.pending \cup {x}]
        BY <3>1, InsertIs
      <3> QED BY <3>2
    <2>0. cd' = [c EXCEPT !.pending = c.pending \cup {x}]
      BY <1>0, <1>2, <2>1 DEF HoldBack
    <2>2. /\ IsCd(cd') /\ Same(cd, cd') /\ cd'.pending = (cd.pending \ {e}) \cup {x}
          /\ cd'.reading = cd.reading /\ cd'.news = cd.news /\ cd'.deferred = cd.deferred
      BY <1>1, <2>0 DEF CdFields, IsCd, Same
    <2>3. (IsSector(x) <=> IsSector(e)) /\ (Promises(x) <=> Promises(e))
      BY <2>1 DEF IsSector, Promises
    <2>4. Fine(cd')
      BY <1>1, <2>1, <2>2 DEF Good, Fine
    <2>5. Stream(cd')
      BY <1>1, <2>2, <2>3 DEF Good, Stream, OneSector, NoSector
    <2>6. Held(cd')
      BY <1>1, <2>1, <2>2 DEF Good, Held, Same
    <2> QED BY <1>2, <2>2, <2>4, <2>5, <2>6, QuietStep DEF HoldBack, Good, Inv
  <1>3. ASSUME WaitForSector(e) PROVE Inv'
    BY <1>3, QuietStep DEF WaitForSector, Inv, Same
  <1>4. ASSUME DropStale(e) PROVE Inv'
    <2>1. cd' = c /\ ~cd.reading /\ cpu' = cpu
      BY <1>0, <1>4 DEF DropStale
    <2>2. Good(c)
      BY <1>1, <2>1 DEF Good, Fine, Stream, NoSector, Held
    <2> QED BY <1>1, <2>1, <2>2, QuietStep DEF Inv
  <1>5. ASSUME KeepHolding(e) PROVE Inv'
    <2>1. /\ IsCd(cd') /\ cd'.pending = c.pending /\ Same(cd, cd') /\ cpu' = cpu
          /\ cd'.reading = cd.reading /\ cd'.deferred /\ cd'.irq # None
      BY <1>0, <1>1, <1>5 DEF KeepHolding, CdFields, IsCd, Same
    <2>2. ~IsSector(e) /\ ~Promises(e)
      BY <1>1, <1>5 DEF KeepHolding, IsSector, EventOK, DataReady, Acknowledge
    <2>3. Good(cd')
      BY <1>1, <2>1, <2>2 DEF Good, Fine, Stream, OneSector, NoSector, Held
    <2> QED BY <2>1, <2>3, QuietStep DEF Inv
  <1>6. ASSUME DeliverResponse(e) \/ DeliverHeldInt1(e) PROVE Inv'
    <2>1. /\ Raise(c, e) /\ ~IsSector(e)
          /\ e.irq # DataReady \/ cd.reading
      BY <1>0, <1>6 DEF DeliverResponse, DeliverHeldInt1, IsSector
    <2>2. Follows(c, e, cd')
      BY <1>1, <2>1, LatchFollows DEF Raise
    <2>3. Good(cd') /\ cd'.mask = cd.mask
      BY <1>1, <2>1, <2>2, ResponseGood DEF Same
    <2> QED BY <2>1, <2>3, RaiseTells
  <1>7. ASSUME ReadSector(e) PROVE Inv'
    <2> DEFINE d == Landed(e)
    <2>1. /\ Fine(d) /\ Stream(d) /\ Same(cd, d) /\ EventOK(e) /\ ~Promises(e)
          /\ cd.irq # None \/ ~Tells => Good(d)
          /\ e.irq = DataReady
      BY <1>1, <1>7, LandedGood DEF ReadSector, IsSector
    <2>2. CASE Tells /\ cd.irq = None
      <3>1. Raise(d, e)
        BY <1>7, <2>2 DEF ReadSector
      <3>2. Follows(d, e, cd')
        BY <2>1, <3>1, LatchFollows DEF Raise, Fine
      <3>3. Good(cd') /\ cd'.mask = cd.mask
        BY <2>1, <3>2, SectorGood DEF Same
      <3> QED BY <3>1, <3>3, RaiseTells
    <2>3. CASE ~(Tells /\ cd.irq = None)
      <3>1. cd' = d /\ cpu' = cpu
        BY <1>7, <2>3 DEF ReadSector
      <3> QED BY <2>1, <2>3, <3>1, QuietStep DEF Inv
    <2> QED BY <2>2, <2>3
  <1> QED BY <1>2, <1>3, <1>4, <1>5, <1>6, <1>7

LEMMA AcknowledgeInv ==
  ASSUME Inv, AcknowledgeInterrupt
  PROVE  Inv'
  <1>1. Good(cd) /\ cpu' = cpu
    BY DEF Inv, AcknowledgeInterrupt
  <1>2. CASE ~(cd.deferred /\ cd.reading)
    <2>1. cd' = [cd EXCEPT !.irq = None]
      BY <1>2 DEF AcknowledgeInterrupt
    <2>2. /\ IsCd(cd') /\ cd'.irq = None /\ cd'.pending = cd.pending
          /\ cd'.reading = cd.reading /\ cd'.news = cd.news /\ cd'.deferred = cd.deferred
      BY <1>1, <2>1 DEF Good, Fine, CdFields, IsCd
    <2>3. Good(cd')
      BY <1>1, <1>2, <2>2 DEF Good, Fine, Stream, OneSector, NoSector, Held
    <2> QED BY <1>1, <2>2, <2>3 DEF Inv, UnmaskedInterruptIsSignalled
  <1>3. CASE cd.deferred /\ cd.reading
    <2>0. PICK c, new : /\ c = [cd EXCEPT !.irq = None, !.deferred = FALSE]
                        /\ new = Event(Deferred, DataReady, FALSE)
      OBVIOUS
    <2>1. /\ IsCd(c) /\ c.irq = None /\ c.pending = cd.pending /\ c.reading = cd.reading
      BY <1>1, <2>0 DEF Good, Fine, CdFields, IsCd
    <2>2. EventOK(new) /\ new.cmd = Deferred /\ ~IsSector(new) /\ ~Promises(new)
      BY <2>0 DEF EventOK, Event, EventFields, Promises, NoFollowup, Deferred, DataReady, None,
                  IrqTypes, IsSector
    <2>3. cd' = Insert(c, new, Delay["deferred"])
      BY <1>3, <2>0 DEF AcknowledgeInterrupt
    <2>4. PICK x : /\ EventOK(x) /\ x.cmd = new.cmd /\ x.irq = new.irq /\ x.then = new.then
                   /\ Insert(c, new, Delay["deferred"]) =
                        [c EXCEPT !.pending = c.pending \cup {x}]
      <3>1. IsCd(c) /\ EventOK(new)
        BY <2>1, <2>2
      <3>2. \A due : \E x :
               /\ EventOK(x) /\ x.cmd = new.cmd /\ x.irq = new.irq /\ x.then = new.then
               /\ Insert(c, new, due) = [c EXCEPT !.pending = c.pending \cup {x}]
        BY <3>1, InsertIs
      <3> QED BY <3>2
    <2>5. /\ IsCd(cd') /\ cd'.irq = None /\ cd'.pending = cd.pending \cup {x}
          /\ cd'.reading = cd.reading
      BY <2>1, <2>3, <2>4 DEF CdFields, IsCd
    <2>6. ~IsSector(x) /\ ~Promises(x) /\ x.cmd = Deferred
      BY <2>2, <2>4 DEF IsSector, Promises
    <2>7. Good(cd')
      BY <1>1, <2>4, <2>5, <2>6 DEF Good, Fine, Stream, OneSector, NoSector, Held
    <2> QED BY <1>1, <2>5, <2>7 DEF Inv, UnmaskedInterruptIsSignalled
  <1> QED BY <1>2, <1>3

Sooner(e) == [e EXCEPT !.due = @ - 1]

\* The passing of time moves the deadlines and nothing else.
LEMMA AdvanceInv ==
  ASSUME Inv, Advance
  PROVE  Inv'
  <1>1. /\ IsCd(cd') /\ Same(cd, cd') /\ cd'.reading = cd.reading
        /\ cd'.news = cd.news /\ cd'.deferred = cd.deferred
        /\ cd'.pending = {Sooner(e) : e \in cd.pending}
        /\ cpu' = cpu /\ Good(cd)
    BY DEF Advance, Inv, Good, Fine, CdFields, IsCd, Same, Sooner
  <1>2. \A e \in cd.pending : /\ EventOK(Sooner(e)) /\ Sooner(e).cmd = e.cmd
                             /\ Sooner(e).irq = e.irq /\ Sooner(e).then = e.then
    BY <1>1 DEF Good, Fine, EventOK, EventFields, Promises, Sooner
  <1>3. \A e \in cd.pending : /\ IsSector(Sooner(e)) <=> IsSector(e)
                             /\ Promises(Sooner(e)) <=> Promises(e)
    BY <1>2 DEF IsSector, Promises
  <1>4. Fine(cd')
    BY <1>1, <1>2 DEF Fine
  <1>5. Stream(cd')
    <2>1. CASE cd.reading
      <3>1. PICK g \in cd.pending : /\ IsSector(g) <=> ~Promises(g)
                                    /\ \A f \in cd.pending \ {g} : ~IsSector(f) /\ ~Promises(f)
        BY <1>1, <2>1 DEF Good, Stream, OneSector
      <3>2. cd'.pending = {Sooner(e) : e \in cd.pending}
        BY <1>1
      <3>3. \A f \in cd'.pending \ {Sooner(g)} : ~IsSector(f) /\ ~Promises(f)
        <4>1. ASSUME NEW f \in cd'.pending, f # Sooner(g) PROVE ~IsSector(f) /\ ~Promises(f)
          <5>1. PICK e \in cd.pending : f = Sooner(e)
            BY <3>2
          <5>2. e # g
            BY <4>1, <5>1
          <5> QED BY <1>2, <3>1, <5>1, <5>2 DEF IsSector, Promises
        <4> QED BY <4>1
      <3>4. Sooner(g) \in cd'.pending
        BY <3>2
      <3>5. IsSector(Sooner(g)) <=> ~Promises(Sooner(g))
        BY <1>2, <3>1 DEF IsSector, Promises
      <3> QED BY <1>1, <2>1, <3>3, <3>4, <3>5 DEF Stream, OneSector
    <2>2. CASE ~cd.reading
      <3>1. \A e \in cd.pending : ~IsSector(e) /\ ~Promises(e)
        BY <1>1, <2>2 DEF Good, Stream, NoSector
      <3>2. \A f \in cd'.pending : ~IsSector(f) /\ ~Promises(f)
        BY <1>1, <1>2, <3>1 DEF IsSector, Promises
      <3> QED BY <1>1, <2>2, <3>2 DEF Stream, NoSector
    <2> QED BY <2>1, <2>2
  <1>6. Held(cd')
    BY <1>1, <1>2 DEF Good, Held, Same
  <1> QED BY <1>1, <1>4, <1>5, <1>6, QuietStep DEF Good, Inv

LEMMA NextInv ==
  ASSUME Inv, [Next]_vars
  PROVE  Inv'
  <1>1. Good(cd) /\ DOMAIN cpu = CpuFields
    BY DEF Inv
  <1>2. ASSUME NEW cmd \in Commands, WriteCommand(cmd) PROVE Inv'
    <2>1. Good(cd') /\ Same(cd, cd')
      BY <1>1, <1>2, ResultGood DEF WriteCommand
    <2>2. DOMAIN cpu' = CpuFields /\ (cpu.told => cpu'.told)
      BY <1>1, <1>2 DEF WriteCommand, CpuFields
    <2> QED BY <2>1, <2>2, QuietStep
  <1>3. ASSUME NEW enabled \in BOOLEAN, WriteInterruptEnable(enabled) PROVE Inv'
    <2>1. /\ IsCd(cd') /\ cd'.irq = cd.irq /\ (cd'.mask <=> enabled)
          /\ cd'.pending = cd.pending
          /\ cd'.reading = cd.reading /\ cd'.news = cd.news /\ cd'.deferred = cd.deferred
      BY <1>1, <1>3 DEF WriteInterruptEnable, Good, Fine, CdFields, IsCd
    <2>2. Good(cd')
      BY <1>1, <2>1 DEF Good, Fine, Stream, OneSector, NoSector, Held
    <2>3. DOMAIN cpu' = CpuFields /\ (enabled /\ cd.irq # None => cpu'.told)
      BY <1>1, <1>3 DEF WriteInterruptEnable, CpuFields
    <2> QED BY <2>1, <2>2, <2>3 DEF Inv, UnmaskedInterruptIsSignalled
  <1>4. ASSUME ClearIStat PROVE Inv'
    BY <1>1, <1>4, QuietStep DEF ClearIStat, CpuFields, Same
  <1>5. ASSUME RequestData \/ ReadDataPort \/ PumpCdda \/ \E n \in 1..Parts : DmaBurst(n)
        PROVE  Inv'
    <2>1. Beside(cd, cd') /\ cpu' = cpu
      <3>1. IsCd(cd)
        BY <1>1 DEF Good, Fine
      <3>2. CASE RequestData
        BY <3>1, <3>2 DEF RequestData, Beside, CdFields, IsCd, Same
      <3>3. CASE ReadDataPort
        BY <3>1, <3>3 DEF ReadDataPort, NextSector, Beside, CdFields, IsCd, Same
      <3>4. CASE PumpCdda
        BY <3>1, <3>4 DEF PumpCdda, HaltCdda, Beside, CdFields, IsCd, Same
      <3>5. ASSUME NEW n \in 1..Parts, DmaBurst(n) PROVE Beside(cd, cd') /\ cpu' = cpu
        BY <3>1, <3>5 DEF DmaBurst, NextSector, Beside, CdFields, IsCd, Same
      <3> QED BY <1>5, <3>2, <3>3, <3>4, <3>5
    <2> QED BY <1>1, <2>1, BesideGood, QuietStep
  <1>6. ASSUME ImageStalls \/ ImageSupplies \/ EndTick \/ UNCHANGED vars PROVE Inv'
    BY <1>1, <1>6, QuietStep DEF ImageStalls, ImageSupplies, EndTick, vars, Same
  <1>7. ASSUME TickDrive PROVE Inv'
    <2>1. Good(cd') /\ Same(cd, cd') /\ cpu' = cpu
      BY <1>1, <1>7, DriveGood DEF TickDrive
    <2> QED BY <1>1, <2>1, QuietStep
  <1> QED BY <1>2, <1>3, <1>4, <1>5, <1>6, <1>7, AcknowledgeInv, AdvanceInv, RoundInv
          DEF Next, TickRound

LEMMA InitInv == Init => Inv
  <1> SUFFICES ASSUME Init PROVE Inv
    OBVIOUS
  <1>1. /\ IsCd(cd) /\ cd.pending = {} /\ ~cd.reading /\ cd.irq = None
        /\ DOMAIN cpu = CpuFields
    BY DEF Init, IsCd, CdFields, CpuFields
  <1> QED BY <1>1 DEF Inv, Good, Fine, Stream, NoSector, Held, UnmaskedInterruptIsSignalled

LEMMA Invariance == Spec => []Inv
  BY InitInv, NextInv, PTL DEF Spec

\* The drive never loses its stream of sectors and never runs two: whatever
\* commands overlap, a read has one delivery queued or promised.
THEOREM OneStream == Spec => []StreamIsSingle
  <1>1. Inv => StreamIsSingle
    BY DEF Inv, Good, Stream, OneSector, NoSector, StreamIsSingle
  <1> QED BY <1>1, Invariance, PTL

\* A sector that landed under a latched interrupt keeps its claim to an INT1.
THEOREM HeldInt1Kept == Spec => []HeldInt1IsNotLost
  <1>1. Inv => HeldInt1IsNotLost
    BY DEF Inv, Good, Held, HeldInt1IsNotLost
  <1> QED BY <1>1, Invariance, PTL

\* The CPU has been told of every latched interrupt that is enabled.
THEOREM Signalled == Spec => []UnmaskedInterruptIsSignalled
  <1>1. Inv => UnmaskedInterruptIsSignalled
    BY DEF Inv
  <1> QED BY <1>1, Invariance, PTL

-----------------------------------------------------------------------------
(* Types, times and the sector ring.  As above, a property of one          *)
(* controller record: what each method keeps of it is a lemma of its own.  *)

\* No single delay is longer than Long, and no sum of them that a handler
\* schedules is longer than Soon.
Long == NoTime \div 10
Soon == NoTime \div 2

\* Every set of the queue's ranks has a highest: a place behind them can be found.
Ranked(q) == \A T \in SUBSET {e.rank : e \in q} : T # {} => \E m \in T : \A t \in T : t <= m

Filed(e) ==
  /\ DOMAIN e = EventFields /\ e.irq \in IrqTypes
  /\ e.due \in -MaxLate..NoTime /\ e.rank \in Nat
  /\ e.then \in Followups /\ e.then.delay <= Soon

Queued(q) == Ranked(q) /\ \A e \in q : Filed(e)

\* The drive's deadlines and registers.
Drive(c) ==
  /\ c.disc \in Discs /\ c.irq \in IrqTypes \cup {None} /\ c.mask \in BOOLEAN
  /\ c.state \in {"stopped", "standby", "lidOpen", "rescan", "prepare"}
  /\ c.lid = NoTime \/ c.lid \in -MaxLate..Long
  /\ c.brake = NoTime \/ c.brake \in -MaxLate..Long
  /\ c.seek = NoTime \/ c.seek \in -MaxLate..Soon
  /\ c.head \in Nat /\ c.setloc \in Nat \cup {Unset} /\ c.reads \in Nat

\* A sector of the read in progress, or what is left of it.
OfRead(s, c) ==
  /\ s \in Seq([at : Nat, read : Nat]) /\ s # <<>> /\ Len(s) <= Parts
  /\ s[1].read = c.reads /\ \A part \in 1..Len(s) : s[part] = s[1]

\* What is buffered is the read's, in the disc's order.
Ordered(c) ==
  /\ c.ring \in Seq(Seq([at : Nat, read : Nat])) /\ Len(c.ring) < Buffers
  /\ c.fifo = <<>> \/ OfRead(c.fifo, c)
  /\ \A i \in 1..Len(c.ring) :
       /\ OfRead(c.ring[i], c)
       /\ c.fifo # <<>> => c.fifo[1].at < c.ring[i][1].at
       /\ \A j \in 1..Len(c.ring) : i < j => c.ring[i][1].at < c.ring[j][1].at

\* No data sector lies between the newest of them and the head.
NoneSince(s, c) ==
  /\ s[1].at < c.head
  /\ \A i \in s[1].at + 1..c.head - 1 : i < Len(c.disc) => c.disc[i + 1] # "data"

Newest(c) ==
  IF c.ring # <<>> THEN NoneSince(c.ring[Len(c.ring)], c)
  ELSE c.fifo # <<>> => NoneSince(c.fifo, c)

Settled(c) ==
  /\ IsCd(c) /\ Queued(c.pending) /\ Drive(c) /\ Ordered(c)
  /\ c.reading => Newest(c)

\* Only these fields change.
Only(fields, c, d) == IsCd(d) /\ \A f \in CdFields \ fields : d[f] = c[f]

LEMMA Sizes ==
  Long \in Nat \ {0} /\ Soon = 5 * Long /\ NoTime = 10 * Long /\ MaxLate \in Nat
BY SMT, BufferAssumption DEF NoTime, Long, Soon

LEMMA Delays ==
  ASSUME NEW name \in DelayNames
  PROVE  Delay[name] \in 1..Long
BY DelayAssumption DEF Long

\* The kinds of interrupt are numbers.
LEMMA Kinds ==
  /\ NoFollowup \in Followups /\ NoFollowup.delay <= Soon /\ NoFollowup.delay = 0
  /\ {Acknowledge, Complete, Error, DataReady} = IrqTypes
<1>1. NoFollowup.delay = 0 /\ NoFollowup.cmd = "none" /\ NoFollowup.irq = None
      /\ NoFollowup \in [cmd : {"none"}, delay : {0}, irq : {None}]
  BY DEF NoFollowup
<1>2. NoFollowup \in Followups
  BY <1>1 DEF Followups, NoFollowup
<1>3. 0 <= Soon
  BY Sizes
<1> QED
  BY <1>1, <1>2, <1>3 DEF IrqTypes

\* insert_pending_event finds a place.
LEMMA RankIs ==
  ASSUME NEW c, Queued(c.pending), NEW due
  PROVE  /\ RankBehind(c, due) \in Nat
         /\ \A f \in c.pending : f.due = due => f.rank < RankBehind(c, due)
<1>1. PICK ties : ties = {f.rank : f \in {g \in c.pending : g.due = due}}
  OBVIOUS
<1>2. ties \subseteq {e.rank : e \in c.pending} /\ ties \subseteq Nat
  BY <1>1 DEF Queued, Filed
<1>3. \E r \in {0} \cup {t + 1 : t \in ties} : \A t \in ties : t < r
  <2>1. CASE ties = {}
    BY <2>1
  <2>2. CASE ties # {}
    <3>1. PICK m \in ties : \A t \in ties : t <= m
      BY <1>2, <2>2 DEF Queued, Ranked
    <3>2. (\A t \in ties : t < m + 1) /\ m + 1 \in {t + 1 : t \in ties}
      BY <1>2, <3>1
    <3> QED
      BY <3>2
  <2> QED
    BY <2>1, <2>2
<1>4. RankBehind(c, due) = CHOOSE r \in {0} \cup {t + 1 : t \in ties} : \A t \in ties : t < r
  BY <1>1 DEF RankBehind
<1>5. /\ RankBehind(c, due) \in {0} \cup {t + 1 : t \in ties}
      /\ \A t \in ties : t < RankBehind(c, due)
  BY <1>3, <1>4
<1>6. RankBehind(c, due) \in Nat
  BY <1>2, <1>5
<1>7. \A f \in c.pending : f.due = due => f.rank \in ties
  BY <1>1
<1> QED
  BY <1>5, <1>6, <1>7

\* Taking events out keeps the ranks in order, and so does one event more.
LEMMA RankedKept ==
  ASSUME NEW q, Queued(q)
  PROVE  /\ \A p : {e.rank : e \in p} \subseteq {e.rank : e \in q} => Ranked(p)
         /\ \A x : Filed(x) => Queued(q \cup {x})
<1>1. ASSUME NEW p, {e.rank : e \in p} \subseteq {e.rank : e \in q}
      PROVE  Ranked(p)
  <2>1. SUBSET {e.rank : e \in p} \subseteq SUBSET {e.rank : e \in q}
    BY <1>1
  <2> QED
    BY <2>1 DEF Queued, Ranked
<1>2. ASSUME NEW x, Filed(x)
      PROVE  Queued(q \cup {x})
  <2>1. ASSUME NEW T \in SUBSET {e.rank : e \in q \cup {x}}, T # {}
        PROVE  \E m \in T : \A t \in T : t <= m
    <3>1. T \subseteq Nat
      BY <1>2, <2>1 DEF Queued, Filed
    <3>2. T \ {x.rank} \in SUBSET {e.rank : e \in q}
      BY <2>1
    <3>3. CASE T \ {x.rank} = {}
      <4>1. T = {x.rank} /\ x.rank \in Nat
        BY <2>1, <3>1, <3>3
      <4> QED
        BY <4>1
    <3>4. CASE T \ {x.rank} # {}
      <4>1. PICK m \in T \ {x.rank} : \A t \in T \ {x.rank} : t <= m
        BY <3>2, <3>4 DEF Queued, Ranked
      <4>2. CASE x.rank \in T /\ m < x.rank
        <5>1. ASSUME NEW t \in T PROVE t <= x.rank
          <6>1. t \in Nat /\ m \in Nat /\ x.rank \in Nat
            BY <3>1, <4>1, <4>2
          <6>2. t = x.rank \/ t <= m
            BY <4>1
          <6> QED
            BY <4>2, <6>1, <6>2
        <5> QED
          BY <4>2, <5>1
      <4>3. CASE ~(x.rank \in T /\ m < x.rank)
        <5>1. ASSUME NEW t \in T PROVE t <= m
          <6>1. t \in Nat /\ m \in Nat
            BY <3>1, <4>1
          <6>2. t \in T \ {x.rank} \/ (t = x.rank /\ ~(m < x.rank))
            BY <4>3
          <6> QED
            BY <4>1, <6>1, <6>2
        <5> QED
          BY <4>1, <5>1
      <4> QED
        BY <4>2, <4>3
    <3> QED
      BY <3>3, <3>4
  <2> QED
    BY <1>2, <2>1 DEF Queued, Ranked
<1> QED
  BY <1>1, <1>2

\* A queue whose events are the old ones or these without their followups.
LEMMA QueueShrinks ==
  ASSUME NEW q, Queued(q), NEW p,
         \A x \in p : \E e \in q : x \in {e, [e EXCEPT !.then = NoFollowup]}
  PROVE  Queued(p)
<1>1. ASSUME NEW x \in p
      PROVE  Filed(x) /\ x.rank \in {e.rank : e \in q}
  <2>1. PICK e \in q : x \in {e, [e EXCEPT !.then = NoFollowup]}
    OBVIOUS
  <2>2. Filed(e)
    BY DEF Queued
  <2> QED
    BY <2>1, <2>2, Kinds DEF Filed, EventFields
<1> QED
  BY <1>1, RankedKept DEF Queued

LEMMA NewFiled ==
  ASSUME NEW cmd, NEW irq \in IrqTypes, NEW first,
         NEW e, e = Event(cmd, irq, first)
  PROVE  /\ DOMAIN e = EventFields /\ e.irq \in IrqTypes
         /\ e.then \in Followups /\ e.then.delay <= Soon
<1>1. DOMAIN e = EventFields /\ e.irq = irq /\ e.then = NoFollowup
  BY DEF Event, EventFields
<1> QED
  BY <1>1, Kinds

LEMMA InsertQueued ==
  ASSUME NEW c, IsCd(c), Queued(c.pending), NEW due \in -MaxLate..NoTime,
         NEW e, DOMAIN e = EventFields, e.irq \in IrqTypes,
         e.then \in Followups, e.then.delay <= Soon
  PROVE  Only({"pending"}, c, Insert(c, e, due)) /\ Queued(Insert(c, e, due).pending)
<1> DEFINE x == [e EXCEPT !.due = due, !.rank = RankBehind(c, due)]
<1>1. Insert(c, e, due) = [c EXCEPT !.pending = c.pending \cup {x}]
  BY DEF Insert
<1>2. Filed(x)
  BY RankIs DEF Filed, EventFields
<1> HIDE DEF x
<1>3. Queued(c.pending \cup {x})
  BY <1>2, RankedKept
<1> QED
  BY <1>1, <1>3 DEF Only, IsCd, CdFields

\* What a change of the queue alone leaves true.
LEMMA OnlyQueue ==
  ASSUME NEW c, Settled(c), NEW d, Only({"pending"}, c, d), Queued(d.pending)
  PROVE  Settled(d)
<1>1. /\ IsCd(d) /\ d.irq = c.irq /\ d.mask = c.mask /\ d.state = c.state /\ d.lid = c.lid
      /\ d.brake = c.brake /\ d.seek = c.seek /\ d.head = c.head /\ d.setloc = c.setloc
      /\ d.reads = c.reads /\ d.ring = c.ring /\ d.fifo = c.fifo /\ d.disc = c.disc
      /\ d.reading = c.reading
  BY DEF Only, CdFields
<1>2. \A s : (OfRead(s, d) <=> OfRead(s, c)) /\ (NoneSince(s, d) <=> NoneSince(s, c))
  BY <1>1 DEF OfRead, NoneSince
<1>3. Drive(d)
  BY <1>1 DEF Settled, Drive
<1>4. Ordered(d)
  BY <1>1, <1>2 DEF Settled, Ordered
<1>5. c.reading => Newest(d)
  BY <1>1, <1>2 DEF Settled, Newest
<1> QED
  BY <1>1, <1>3, <1>4, <1>5 DEF Settled

\* Fields that the invariant does not read, and those of the drive.
Loose ==
  {"busy", "deferred", "polls", "moved", "aimed", "xa", "ready", "armed", "motor",
   "boot", "playing", "onAudio", "news"}
Driven == Loose \cup {"state", "lid", "brake", "seek", "setloc", "mask", "irq"}

LEMMA DrivenSettled ==
  ASSUME NEW c, Settled(c), NEW d, Only(Driven, c, d), Drive(d)
  PROVE  Settled(d)
<1>1. /\ IsCd(d) /\ d.pending = c.pending /\ d.head = c.head
      /\ d.reads = c.reads /\ d.ring = c.ring /\ d.fifo = c.fifo /\ d.disc = c.disc
      /\ d.reading = c.reading
  BY DEF Only, CdFields, Driven, Loose
<1>2. \A s : (OfRead(s, d) <=> OfRead(s, c)) /\ (NoneSince(s, d) <=> NoneSince(s, c))
  BY <1>1 DEF OfRead, NoneSince
<1>3. Ordered(d)
  BY <1>1, <1>2 DEF Settled, Ordered
<1>4. c.reading => Newest(d)
  BY <1>1, <1>2 DEF Settled, Newest
<1> QED
  BY <1>1, <1>3, <1>4 DEF Settled

LEMMA LooseSettled ==
  ASSUME NEW c, Settled(c), NEW d, Only(Loose, c, d)
  PROVE  Settled(d)
<1>1. Only(Driven, c, d)
  BY DEF Only, Driven
<1>2. /\ d.disc = c.disc /\ d.irq = c.irq /\ d.mask = c.mask /\ d.state = c.state /\ d.lid = c.lid
      /\ d.brake = c.brake /\ d.seek = c.seek /\ d.head = c.head /\ d.setloc = c.setloc
      /\ d.reads = c.reads
  BY DEF Only, CdFields, Loose
<1>3. Drive(d)
  BY <1>2 DEF Settled, Drive
<1> QED
  BY <1>1, <1>3, DrivenSettled

\* The first response's delay, and what a head costs before it moves.
LEMMA ResponseDelay == FirstResponseDelay \in 0..2 * Long
<1>1. /\ Delay["ackNoDisc"] \in 1..Long /\ Delay["ack"] \in 1..Long
      /\ Delay["cdda"] \in 1..Long
  BY Delays DEF DelayNames
<1>2. PICK a, b : /\ a = (IF cd.disc = NoDisc THEN Delay["ackNoDisc"] ELSE Delay["ack"])
                  /\ b = (IF cd.playing THEN Delay["cdda"] ELSE 0)
  OBVIOUS
<1>3. a \in 0..Long /\ b \in 0..Long
  BY <1>1, <1>2, Sizes
<1>4. a + b \in 0..2 * Long
  BY <1>3, Sizes
<1> QED
  BY <1>2, <1>4 DEF FirstResponseDelay

LEMMA PenaltyBounded ==
  ASSUME NEW c, Drive(c)
  PROVE  HeadPenalty(c) \in 0..3 * Long
<1>1. /\ Delay["spinUp"] \in 1..Long /\ Delay["restart"] \in 1..Long
      /\ Delay["settle"] \in 1..Long
  BY Delays DEF DelayNames
<1>2. CASE c.brake # NoTime
  <2>1. PICK b : b = (IF c.brake > 0 THEN c.brake ELSE 0)
    OBVIOUS
  <2>2. b \in 0..Long
    BY <1>2, <2>1, Sizes DEF Drive
  <2>3. b + Delay["spinUp"] + Delay["restart"] \in 0..3 * Long
    BY <1>1, <2>2, Sizes
  <2> QED
    BY <1>2, <2>1, <2>3 DEF HeadPenalty
<1>3. CASE c.brake = NoTime
  BY <1>1, <1>3, Sizes DEF HeadPenalty
<1> QED
  BY <1>2, <1>3

LEMMA FirstSettled ==
  ASSUME NEW c, Settled(c), NEW cmd, NEW irq \in IrqTypes, NEW extra \in 0..2 * Long
  PROVE  /\ Settled(ScheduleFirst(c, cmd, irq, extra))
         /\ Only({"pending"}, c, ScheduleFirst(c, cmd, irq, extra))
<1>1. FirstResponseDelay + extra \in -MaxLate..NoTime
  BY ResponseDelay, Sizes
<1>2. PICK e, due : e = Event(cmd, irq, TRUE) /\ due = FirstResponseDelay + extra
  OBVIOUS
<1>3. /\ DOMAIN e = EventFields /\ e.irq \in IrqTypes
      /\ e.then \in Followups /\ e.then.delay <= Soon
  BY <1>2, NewFiled
<1>4. Only({"pending"}, c, Insert(c, e, due)) /\ Queued(Insert(c, e, due).pending)
  BY <1>1, <1>2, <1>3, InsertQueued DEF Settled
<1> QED
  BY <1>2, <1>4, OnlyQueue DEF ScheduleFirst

LEMMA RespondSettled ==
  ASSUME NEW c, Settled(c), NEW cmd
  PROVE  /\ Settled(Respond(c, cmd)) /\ Only({"pending"}, c, Respond(c, cmd))
         /\ Settled(Refuse(c, cmd)) /\ Only({"pending"}, c, Refuse(c, cmd))
<1>1. 0 \in 0..2 * Long /\ Acknowledge \in IrqTypes /\ Error \in IrqTypes
  BY Sizes, Kinds
<1> QED
  BY <1>1, FirstSettled DEF Respond, Refuse

LEMMA ChainSettled ==
  ASSUME NEW c, Settled(c), NEW cmd \in Commands, NEW irq \in IrqTypes, NEW delay \in 0..Soon
  PROVE  /\ Settled(ChainFollowup(c, cmd, irq, delay))
         /\ Only({"pending"}, c, ChainFollowup(c, cmd, irq, delay))
<1> DEFINE d    == ChainFollowup(c, cmd, irq, delay)
           free == {e \in c.pending : e.irq = Acknowledge /\ e.then = NoFollowup}
           last == {e \in free : \A f \in free \ {e} : Before(f, e)}
           ack  == CHOOSE e \in last : TRUE
           x    == [ack EXCEPT !.then = [cmd |-> cmd, delay |-> delay, irq |-> irq]]
<1>1. CASE last = {}
  <2>1. d = Insert(c, Event(cmd, irq, FALSE), delay)
    BY <1>1 DEF ChainFollowup
  <2>2. PICK e : e = Event(cmd, irq, FALSE)
    OBVIOUS
  <2>3. /\ DOMAIN e = EventFields /\ e.irq \in IrqTypes
        /\ e.then \in Followups /\ e.then.delay <= Soon
    BY <2>2, NewFiled
  <2>4. delay \in -MaxLate..NoTime
    BY Sizes
  <2>5. Only({"pending"}, c, Insert(c, e, delay)) /\ Queued(Insert(c, e, delay).pending)
    BY <2>3, <2>4, InsertQueued DEF Settled
  <2> QED
    BY <2>1, <2>2, <2>5, OnlyQueue
<1>2. CASE last # {}
  <2>1. ack \in c.pending
    BY <1>2
  <2>2. d = [c EXCEPT !.pending = (c.pending \ {ack}) \cup {x}]
    BY <1>2 DEF ChainFollowup
  <2> HIDE DEF ack
  <2>3. [cmd |-> cmd, delay |-> delay, irq |-> irq] \in Followups /\ delay <= Soon
    BY Sizes DEF Followups
  <2>4. Filed(x)
    BY <2>1, <2>3 DEF Settled, Queued, Filed, EventFields
  <2>5. Queued(c.pending \ {ack})
    BY QueueShrinks DEF Settled
  <2> HIDE DEF x
  <2>6. Queued((c.pending \ {ack}) \cup {x})
    BY <2>4, <2>5, RankedKept
  <2>7. d.pending = (c.pending \ {ack}) \cup {x} /\ Only({"pending"}, c, d)
    BY <2>2 DEF Settled, Only, IsCd, CdFields
  <2> QED
    BY <2>6, <2>7, OnlyQueue
<1> QED
  BY <1>1, <1>2

LEMMA DropSettled ==
  ASSUME NEW c, Settled(c), NEW cmd, NEW irq
  PROVE  Settled(DropPending(c, cmd, irq)) /\ Only({"pending"}, c, DropPending(c, cmd, irq))
<1> DEFINE d == DropPending(c, cmd, irq)
<1>1. Only({"pending"}, c, d)
  BY DEF DropPending, Settled, Only, IsCd, CdFields
<1>2. \A x \in d.pending : \E e \in c.pending : x \in {e, [e EXCEPT !.then = NoFollowup]}
  BY DEF DropPending, Settled, IsCd, CdFields
<1>3. Queued(d.pending)
  BY <1>2, QueueShrinks DEF Settled
<1> QED
  BY <1>1, <1>3, OnlyQueue

LEMMA CancelSettled ==
  ASSUME NEW c, Settled(c)
  PROVE  /\ Settled(CancelSectors(c))
         /\ Only({"pending", "deferred", "news"}, c, CancelSectors(c))
<1> DEFINE d == CancelSectors(c)
           b == [c EXCEPT !.deferred = FALSE, !.news = FALSE]
<1>1. Only({"pending"}, b, d) /\ Only({"pending", "deferred", "news"}, c, d)
  BY DEF CancelSectors, Settled, Only, IsCd, CdFields
<1>2. \A x \in d.pending : \E e \in c.pending : x \in {e, [e EXCEPT !.then = NoFollowup]}
  BY DEF CancelSectors, Settled, IsCd, CdFields
<1>3. Queued(d.pending)
  BY <1>2, QueueShrinks DEF Settled
<1>4. Settled(b)
  <2>1. Only(Loose, c, b)
    BY DEF Settled, Only, IsCd, CdFields, Loose
  <2> QED
    BY <2>1, LooseSettled
<1> QED
  BY <1>1, <1>3, <1>4, OnlyQueue

\* A drive that does not read may have its head anywhere.
LEMMA StopSettled ==
  ASSUME NEW c, Settled(c)
  PROVE  /\ Settled(StopReading(c)) /\ StopReading(c).reading = FALSE
         /\ Only({"pending", "deferred", "news", "reading"}, c, StopReading(c))
<1> DEFINE b == CancelSectors(c)
           d == StopReading(c)
<1>1. Settled(b) /\ Only({"pending", "deferred", "news"}, c, b)
  BY CancelSettled
<1>2. d = [b EXCEPT !.reading = FALSE]
  BY DEF StopReading
<1> HIDE DEF b, d
<1>3. /\ IsCd(d) /\ d.reading = FALSE /\ \A f \in CdFields \ {"reading"} : d[f] = b[f]
  BY <1>1, <1>2 DEF Settled, IsCd, CdFields
<1>4. Drive(d)
  BY <1>1, <1>3 DEF Settled, Drive, CdFields
<1>5. \A s : OfRead(s, d) <=> OfRead(s, b)
  BY <1>3 DEF OfRead, CdFields
<1>6. Ordered(d) /\ d.pending = b.pending
  BY <1>1, <1>3, <1>5 DEF Settled, Ordered, CdFields
<1>7. Only({"pending", "deferred", "news", "reading"}, c, d)
  BY <1>1, <1>3 DEF Only
<1> QED
  BY <1>1, <1>3, <1>4, <1>6, <1>7 DEF Settled, d

LEMMA ClearSettled ==
  ASSUME NEW c, Settled(c)
  PROVE  /\ Settled(ClearDataFifo(c))
         /\ ClearDataFifo(c).fifo = <<>> /\ ClearDataFifo(c).ring = <<>>
         /\ Only({"fifo", "ring", "ready", "armed"}, c, ClearDataFifo(c))
<1> DEFINE d == ClearDataFifo(c)
<1>1. /\ Only({"fifo", "ring", "ready", "armed"}, c, d) /\ d.fifo = <<>> /\ d.ring = <<>>
  BY DEF ClearDataFifo, Settled, Only, IsCd, CdFields
<1>2. IsCd(d) /\ d.pending = c.pending /\ Drive(d)
  BY <1>1 DEF Only, Settled, Drive, CdFields
<1>3. Ordered(d) /\ Newest(d)
  BY <1>1, BufferAssumption DEF Ordered, Newest
<1> QED
  BY <1>1, <1>2, <1>3 DEF Settled

LEMMA HaltSettled ==
  ASSUME NEW c, Settled(c)
  PROVE  Settled(HaltCdda(c)) /\ Only({"playing", "seek"}, c, HaltCdda(c))
<1> DEFINE d == HaltCdda(c)
<1>1. Only({"playing", "seek"}, c, d) /\ d.seek = NoTime
  BY DEF HaltCdda, Settled, Only, IsCd, CdFields
<1>2. Drive(d) /\ Only(Driven, c, d)
  BY <1>1 DEF Only, Settled, Drive, CdFields, Driven, Loose
<1> QED
  BY <1>1, <1>2, DrivenSettled

LEMMA SpindownSettled ==
  ASSUME NEW c, Settled(c)
  PROVE  Settled(UpdateSpindown(c)) /\ Only({"brake"}, c, UpdateSpindown(c))
<1> DEFINE d == UpdateSpindown(c)
<1>1. Only({"brake"}, c, d) /\ d.brake \in {c.brake, NoTime}
  BY DEF UpdateSpindown, Settled, Only, IsCd, CdFields
<1>2. Drive(d) /\ Only(Driven, c, d)
  BY <1>1 DEF Only, Settled, Drive, CdFields, Driven, Loose
<1> QED
  BY <1>1, <1>2, DrivenSettled

LEMMA HeadSettled ==
  ASSUME NEW c, Settled(c)
  PROVE  /\ Settled(HeadOnData(c))
         /\ Only({"pending", "brake", "motor", "onAudio"}, c, HeadOnData(c))
<1> DEFINE b == IF c.brake # NoTime THEN DropPending(c, "Stop", Complete) ELSE c
           d == HeadOnData(c)
<1>1. Settled(b) /\ Only({"pending"}, c, b)
  <2>1. Only({"pending"}, c, c)
    BY DEF Settled, Only
  <2> QED
    BY <2>1, DropSettled
<1>2. d = [b EXCEPT !.brake = NoTime, !.motor = TRUE, !.onAudio = FALSE]
  BY DEF HeadOnData
<1> HIDE DEF b, d
<1>3. /\ Only({"brake", "motor", "onAudio"}, b, d) /\ d.brake = NoTime
  BY <1>1, <1>2 DEF Settled, Only, IsCd, CdFields
<1>4. Drive(d) /\ Only(Driven, b, d)
  BY <1>1, <1>3 DEF Only, Settled, Drive, CdFields, Driven, Loose
<1>5. Settled(d)
  BY <1>1, <1>4, DrivenSettled
<1>6. Only({"pending", "brake", "motor", "onAudio"}, c, d)
  BY <1>1, <1>3 DEF Only
<1> QED
  BY <1>5, <1>6 DEF d

LEMMA EmptySettled ==
  ASSUME NEW d, IsCd(d), Queued(d.pending), Drive(d), d.fifo = <<>>, d.ring = <<>>
  PROVE  Settled(d)
BY BufferAssumption DEF Settled, Ordered, Newest

-----------------------------------------------------------------------------
(* The commands' handlers, again. *)

LEMMA BeginSettled == Settled(cd) => Settled(Begin)
<1> SUFFICES ASSUME Settled(cd) PROVE Settled(Begin)
  OBVIOUS
<1>1. PICK a, b : a = UpdateSpindown(cd) /\ b = [a EXCEPT !.busy = TRUE]
  OBVIOUS
<1>2. Settled(a)
  BY <1>1, SpindownSettled
<1>3. Only(Loose, a, b)
  BY <1>1, <1>2 DEF Settled, Only, IsCd, CdFields, Loose
<1>4. Settled(b)
  BY <1>2, <1>3, LooseSettled
<1>5. Begin = DropPending(b, "Pause", Complete)
  BY <1>1 DEF Begin
<1> QED
  BY <1>4, <1>5, DropSettled

\* Two responses and nothing else.
LEMMA TwiceSettled ==
  ASSUME NEW c, Settled(c), NEW cmd \in Commands, NEW irq \in IrqTypes, NEW delay \in 0..Soon
  PROVE  Settled(ChainFollowup(Respond(c, cmd), cmd, irq, delay))
BY RespondSettled, ChainSettled

LEMMA OneDelay ==
  ASSUME NEW name \in DelayNames
  PROVE  Delay[name] \in 0..Soon /\ Delay[name] \in 0..2 * Long
BY Delays, Sizes

LEMMA PlainSettled ==
  ASSUME NEW c, Settled(c)
  PROVE  /\ Settled(GetStat(c)) /\ Settled(MotorOn(c)) /\ Settled(GetID(c))
         /\ Settled(ReadTOC(c)) /\ Settled(SetSession(c))
         /\ \A t \in Targets : Settled(SetLoc(c, t))
         /\ \A xa \in BOOLEAN : Settled(SetMode(c, xa))
         /\ \A irq \in {Acknowledge, Error} : Settled(Query(c, irq))
<1>0. Acknowledge \in IrqTypes /\ Complete \in IrqTypes /\ Error \in IrqTypes
  BY Kinds
<1>1. Settled(GetStat(c))
  <2>1. PICK polls, b, extra :
          /\ polls = (c.polls + 1) % MaintenanceEvery
          /\ b = [c EXCEPT !.polls = polls]
          /\ extra = IF c.disc # NoDisc /\ polls = 0 THEN Delay["maintenance"] ELSE 0
    OBVIOUS
  <2>2. Only(Loose, c, b)
    BY <2>1 DEF Settled, Only, IsCd, CdFields, Loose
  <2>3. "maintenance" \in DelayNames
    BY DEF DelayNames
  <2>4. extra \in 0..2 * Long
    BY <2>1, <2>3, OneDelay, Sizes
  <2>5. GetStat(c) = ScheduleFirst(b, "GetStat", Acknowledge, extra)
    BY <2>1 DEF GetStat
  <2> QED
    BY <1>0, <2>2, <2>4, <2>5, LooseSettled, FirstSettled
<1>2. Settled(MotorOn(c))
  <2>1. PICK b : b = [c EXCEPT !.motor = TRUE, !.brake = NoTime, !.state = "standby"]
    OBVIOUS
  <2>2. Only({"motor", "brake", "state"}, c, b) /\ b.brake = NoTime /\ b.state = "standby"
    BY <2>1 DEF Settled, Only, IsCd, CdFields
  <2>3. Only(Driven, c, b) /\ Drive(b)
    BY <2>2 DEF Settled, Only, CdFields, Driven, Loose, Drive
  <2> QED
    BY <2>1, <2>3, DrivenSettled, RespondSettled DEF MotorOn
<1>3. "getid" \in DelayNames /\ "toc" \in DelayNames /\ "session" \in DelayNames
      /\ "GetID" \in Commands /\ "ReadTOC" \in Commands /\ "SetSession" \in Commands
  BY DEF DelayNames, Commands
<1>4. Settled(GetID(c))
  BY <1>0, <1>3, TwiceSettled, OneDelay DEF GetID
<1>5. Settled(ReadTOC(c))
  BY <1>0, <1>3, TwiceSettled, OneDelay DEF ReadTOC
<1>6. Settled(SetSession(c))
  BY <1>0, <1>3, TwiceSettled, OneDelay, RespondSettled DEF SetSession
<1>7. ASSUME NEW t \in Targets PROVE Settled(SetLoc(c, t))
  <2>1. PICK b : b = [c EXCEPT !.setloc = t, !.aimed = TRUE]
    OBVIOUS
  <2>2. Only({"setloc", "aimed"}, c, b) /\ b.setloc \in Nat
    BY <2>1, DiscAssumption DEF Settled, Only, IsCd, CdFields
  <2>3. Only(Driven, c, b) /\ Drive(b)
    BY <2>2 DEF Settled, Only, CdFields, Driven, Loose, Drive
  <2> QED
    BY <2>1, <2>3, DrivenSettled, RespondSettled DEF SetLoc
<1>8. ASSUME NEW xa \in BOOLEAN PROVE Settled(SetMode(c, xa))
  <2>1. PICK b : b = [c EXCEPT !.xa = xa]
    OBVIOUS
  <2>2. Only(Loose, c, b)
    BY <2>1 DEF Settled, Only, IsCd, CdFields, Loose
  <2> QED
    BY <2>1, <2>2, LooseSettled, RespondSettled DEF SetMode
<1>9. ASSUME NEW irq \in {Acknowledge, Error} PROVE Settled(Query(c, irq))
  BY <1>0, FirstSettled, Sizes DEF Query
<1> QED
  BY <1>1, <1>2, <1>4, <1>5, <1>6, <1>7, <1>8, <1>9

LEMMA StopCommandSettled ==
  ASSUME NEW c, Settled(c)
  PROVE  Settled(Stop(c))
<1>1. PICK spinning, until, a, b, delay :
        /\ spinning = (c.motor \/ c.brake # NoTime)
        /\ until = IF c.brake # NoTime THEN c.brake ELSE Delay["spinDown"]
        /\ a = HaltCdda(StopReading(c))
        /\ b = [a EXCEPT !.motor = FALSE, !.state = "stopped", !.lid = NoTime,
                         !.boot = FALSE, !.moved = FALSE, !.onAudio = FALSE,
                         !.brake = IF spinning THEN until ELSE @]
        /\ delay = IF ~spinning THEN Delay["stop"]
                   ELSE IF until > FirstResponseDelay THEN until - FirstResponseDelay ELSE 0
  OBVIOUS
<1>2. Stop(c) = ChainFollowup(Respond(b, "Stop"), "Stop", Complete, delay)
  BY <1>1 DEF Stop
<1>3. Settled(a)
  BY <1>1, StopSettled, HaltSettled
<1>4. "spinDown" \in DelayNames /\ "stop" \in DelayNames /\ "Stop" \in Commands
  BY DEF DelayNames, Commands
<1>5. until \in -MaxLate..Long
  <2>1. Delay["spinDown"] \in -MaxLate..Long
    BY <1>4, Delays, Sizes
  <2> QED
    BY <1>1, <2>1 DEF Settled, Drive
<1>6. delay \in 0..Soon
  <2>1. Delay["stop"] \in 0..Soon
    BY <1>4, OneDelay
  <2> QED
    BY <1>1, <1>5, <2>1, ResponseDelay, Sizes
<1>7. /\ Only({"motor", "state", "lid", "boot", "moved", "onAudio", "brake"}, a, b)
      /\ b.state = "stopped" /\ b.lid = NoTime /\ b.brake \in {until, a.brake}
  BY <1>1, <1>3 DEF Settled, Only, IsCd, CdFields
<1>8. Only(Driven, a, b)
  BY <1>7 DEF Only, Driven, Loose
<1>9. Drive(b)
  BY <1>3, <1>5, <1>7 DEF Settled, Only, CdFields, Drive
<1> QED
  BY <1>2, <1>3, <1>4, <1>6, <1>8, <1>9, DrivenSettled, TwiceSettled, Kinds

LEMMA PauseSettled ==
  ASSUME NEW c, Settled(c)
  PROVE  Settled(Pause(c))
<1>1. PICK extra, a, b, delay :
        /\ extra = IF c.disc # NoDisc /\ ~cd.playing THEN Delay["pauseAck"] ELSE 0
        /\ a = HaltCdda(StopReading(c))
        /\ b = [a EXCEPT !.moved = FALSE]
        /\ delay = IF c.reading THEN Delay["pauseRead"] ELSE Delay["pause"]
  OBVIOUS
<1>2. Pause(c) = IF c.reading /\ c.moved
                 THEN ScheduleFirst(c, "Pause", Error, extra)
                 ELSE ChainFollowup(ScheduleFirst(b, "Pause", Acknowledge, extra),
                                    "Pause", Complete, delay)
  BY <1>1 DEF Pause
<1>3. Settled(a)
  BY <1>1, StopSettled, HaltSettled
<1>4. "pauseAck" \in DelayNames /\ "pauseRead" \in DelayNames /\ "pause" \in DelayNames
      /\ "Pause" \in Commands
  BY DEF DelayNames, Commands
<1>5. extra \in 0..2 * Long /\ delay \in 0..Soon
  BY <1>1, <1>4, OneDelay, Sizes
<1>6. Only(Loose, a, b)
  BY <1>1, <1>3 DEF Settled, Only, IsCd, CdFields, Loose
<1>7. Settled(b)
  BY <1>3, <1>6, LooseSettled
<1>8. Acknowledge \in IrqTypes /\ Complete \in IrqTypes /\ Error \in IrqTypes
  BY Kinds
<1>9. Settled(ScheduleFirst(c, "Pause", Error, extra))
  BY <1>5, <1>8, FirstSettled
<1>10. Settled(ScheduleFirst(b, "Pause", Acknowledge, extra))
  BY <1>5, <1>7, <1>8, FirstSettled
<1> QED
  BY <1>2, <1>4, <1>5, <1>8, <1>9, <1>10, ChainSettled

LEMMA InitSettled ==
  ASSUME NEW c, Settled(c)
  PROVE  Settled(InitDrive(c))
<1>1. PICK a, b :
        /\ a = HaltCdda(ClearDataFifo(StopReading(c)))
        /\ b = [a EXCEPT !.moved = FALSE, !.brake = NoTime, !.onAudio = FALSE,
                         !.motor = TRUE, !.state = "rescan", !.lid = NoTime, !.boot = TRUE]
  OBVIOUS
<1>2. InitDrive(c) = Respond(b, "Init")
  BY <1>1 DEF InitDrive
<1>3. Settled(a)
  BY <1>1, StopSettled, ClearSettled, HaltSettled
<1>4. /\ Only({"motor", "state", "lid", "boot", "moved", "onAudio", "brake"}, a, b)
      /\ b.state = "rescan" /\ b.lid = NoTime /\ b.brake = NoTime
  BY <1>1, <1>3 DEF Settled, Only, IsCd, CdFields
<1>5. Only(Driven, a, b)
  BY <1>4 DEF Only, Driven, Loose
<1>6. Drive(b)
  BY <1>3, <1>4 DEF Settled, Only, CdFields, Drive
<1> QED
  BY <1>2, <1>3, <1>5, <1>6, DrivenSettled, RespondSettled

LEMMA ResetSettled ==
  ASSUME NEW c, Settled(c)
  PROVE  Settled(Reset(c))
<1>1. PICK dropped, a, b :
        /\ dropped = DropPending(DropPending(c, "Reset", Acknowledge), "Reset", Complete)
        /\ a = HaltCdda(ClearDataFifo(StopReading(dropped)))
        /\ b = [a EXCEPT !.aimed = FALSE, !.moved = FALSE, !.xa = FALSE, !.motor = TRUE,
                         !.brake = NoTime, !.onAudio = FALSE, !.state = "standby",
                         !.lid = NoTime, !.boot = FALSE]
  OBVIOUS
<1>2. \/ Reset(c) = ScheduleFirst(b, "Reset", Complete, 0)
      \/ Reset(c) = ChainFollowup(Respond(b, "Reset"), "Reset", Complete, Delay["reset"])
  BY <1>1 DEF Reset
<1>3. Settled(a)
  BY <1>1, DropSettled, StopSettled, ClearSettled, HaltSettled
<1>4. /\ Only({"aimed", "xa", "motor", "state", "lid", "boot", "moved", "onAudio", "brake"}, a, b)
      /\ b.state = "standby" /\ b.lid = NoTime /\ b.brake = NoTime
  BY <1>1, <1>3 DEF Settled, Only, IsCd, CdFields
<1>5. Only(Driven, a, b)
  BY <1>4 DEF Only, Driven, Loose
<1>6. Drive(b)
  BY <1>3, <1>4 DEF Settled, Only, CdFields, Drive
<1>7. Settled(b)
  BY <1>3, <1>5, <1>6, DrivenSettled
<1>8. "reset" \in DelayNames /\ "Reset" \in Commands /\ Complete \in IrqTypes
      /\ 0 \in 0..2 * Long
  BY Kinds, Sizes DEF DelayNames, Commands
<1> QED
  BY <1>2, <1>7, <1>8, FirstSettled, TwiceSettled, OneDelay

LEMMA SeekSettled ==
  ASSUME NEW c, Settled(c)
  PROVE  Settled(Seek(c))
<1>1. PICK a, b, h, p, delay :
        /\ a = HaltCdda(StopReading(c))
        /\ b = [a EXCEPT !.moved = FALSE]
        /\ h = HeadOnData(Respond(b, "Seek"))
        /\ p = [h EXCEPT !.head = Location(c), !.aimed = FALSE]
        /\ delay = Delay["travel"] + HeadPenalty(c)
  OBVIOUS
<1>2. Seek(c) = ChainFollowup(p, "Seek", Complete, delay)
  BY <1>1 DEF Seek
<1>3. Settled(a) /\ ~a.reading
  <2>1. Settled(StopReading(c)) /\ StopReading(c).reading = FALSE
    BY StopSettled
  <2>2. Settled(a) /\ Only({"playing", "seek"}, StopReading(c), a)
    BY <1>1, <2>1, HaltSettled
  <2> QED
    BY <2>1, <2>2 DEF Only, CdFields
<1>4. Only(Loose, a, b)
  BY <1>1, <1>3 DEF Settled, Only, IsCd, CdFields, Loose
<1>5. Settled(b) /\ ~b.reading
  BY <1>3, <1>4, LooseSettled DEF Only, CdFields, Loose
<1>6. Settled(h) /\ ~h.reading
  <2>1. Settled(Respond(b, "Seek")) /\ Only({"pending"}, b, Respond(b, "Seek"))
    BY <1>5, RespondSettled
  <2>2. Settled(h) /\ Only({"pending", "brake", "motor", "onAudio"}, Respond(b, "Seek"), h)
    BY <1>1, <2>1, HeadSettled
  <2>3. h.reading = b.reading
    BY <2>1, <2>2 DEF Only, CdFields
  <2> QED
    BY <1>5, <2>2, <2>3
<1>7. Location(c) \in Nat
  BY DEF Settled, Drive, Location
<1>8. /\ Only({"head", "aimed"}, h, p) /\ p.head \in Nat
  BY <1>1, <1>6, <1>7 DEF Settled, Only, IsCd, CdFields
<1>9. /\ IsCd(p) /\ p.pending = h.pending /\ p.reading = h.reading
      /\ p.ring = h.ring /\ p.fifo = h.fifo /\ p.reads = h.reads
  BY <1>8 DEF Only, CdFields
<1>10. Drive(p)
  BY <1>6, <1>8 DEF Settled, Only, CdFields, Drive
<1>11. \A s : OfRead(s, p) <=> OfRead(s, h)
  BY <1>9 DEF OfRead
<1>12. Ordered(p)
  BY <1>6, <1>9, <1>11 DEF Settled, Ordered
<1>13. Settled(p)
  BY <1>6, <1>9, <1>10, <1>12 DEF Settled
<1>14. delay \in 0..Soon
  <2>1. Delay["travel"] \in 1..Long
    BY Delays DEF DelayNames
  <2>2. HeadPenalty(c) \in 0..3 * Long
    BY PenaltyBounded DEF Settled
  <2> QED
    BY <1>1, <2>1, <2>2, Sizes
<1>15. "Seek" \in Commands /\ Complete \in IrqTypes
  BY Kinds DEF Commands
<1> QED
  BY <1>2, <1>13, <1>14, <1>15, ChainSettled

LEMMA PlaySettled ==
  ASSUME NEW c, Settled(c), NEW start, start.head \in Nat
  PROVE  Settled(Play(c, start))
<1>1. PICK settle, a, b :
        /\ settle = IF c.onAudio THEN 0 ELSE Delay["settle"]
        /\ a = ClearDataFifo(StopReading(c))
        /\ b = [a EXCEPT !.head = start.head, !.aimed = start.aimed, !.motor = TRUE,
                         !.playing = FALSE, !.brake = NoTime, !.onAudio = TRUE,
                         !.seek = Delay["travel"] + settle]
  OBVIOUS
<1>2. Play(c, start) = Refuse(c, "Play") \/ Play(c, start) = Respond(b, "Play")
  BY <1>1 DEF Play
<1>3. Settled(a) /\ a.fifo = <<>> /\ a.ring = <<>>
  BY <1>1, StopSettled, ClearSettled
<1>4. Delay["travel"] \in 1..Long /\ Delay["settle"] \in 1..Long
  BY Delays DEF DelayNames
<1>5. Delay["travel"] + settle \in -MaxLate..Soon
  BY <1>1, <1>4, Sizes
<1>6. /\ Only({"head", "aimed", "motor", "playing", "brake", "onAudio", "seek"}, a, b)
      /\ b.head = start.head /\ b.brake = NoTime /\ b.seek = Delay["travel"] + settle
  BY <1>1, <1>3 DEF Settled, Only, IsCd, CdFields
<1>7. Drive(b)
  BY <1>3, <1>5, <1>6 DEF Settled, Only, CdFields, Drive
<1>8. IsCd(b) /\ b.pending = a.pending /\ b.fifo = <<>> /\ b.ring = <<>>
  BY <1>3, <1>6 DEF Only, CdFields
<1>9. Settled(b)
  BY <1>3, <1>7, <1>8, EmptySettled DEF Settled
<1> QED
  BY <1>2, <1>9, RespondSettled

\* A read starts with nothing buffered, so that its head may go anywhere.
LEMMA ReadSettled ==
  ASSUME NEW c, Settled(c)
  PROVE  Settled(Read(c))
<1>0. Error \in IrqTypes /\ DataReady \in IrqTypes /\ "Read" \in Commands
      /\ "noDisc" \in DelayNames
  BY Kinds DEF Commands, DelayNames
<1>1. CASE c.disc = NoDisc
  BY <1>0, <1>1, TwiceSettled, OneDelay DEF Read
<1>2. CASE c.disc # NoDisc
  <2>1. PICK a, b, h, p, delay :
          /\ a = HaltCdda(ClearDataFifo(CancelSectors(c)))
          /\ b = [a EXCEPT !.reading = TRUE, !.reads = @ + 1]
          /\ h = HeadOnData(Respond(b, "Read"))
          /\ p = IF c.aimed \/ c.head = 0
                 THEN [h EXCEPT !.head = Location(c), !.aimed = FALSE,
                                !.moved = @ \/ c.aimed]
                 ELSE h
          /\ delay = Delay["firstSector"] + HeadPenalty(b)
                       + (IF c.aimed THEN Delay["travel"] ELSE 0)
    OBVIOUS
  <2>2. Read(c) = ChainFollowup(p, "Read", DataReady, delay)
    BY <1>2, <2>1 DEF Read
  <2>3. Settled(a) /\ a.fifo = <<>> /\ a.ring = <<>>
    <3>1. PICK k : k = ClearDataFifo(CancelSectors(c))
      OBVIOUS
    <3>2. Settled(k) /\ k.fifo = <<>> /\ k.ring = <<>>
      BY <3>1, CancelSettled, ClearSettled
    <3>3. Settled(a) /\ Only({"playing", "seek"}, k, a)
      BY <2>1, <3>1, <3>2, HaltSettled
    <3> QED
      BY <3>2, <3>3 DEF Only, CdFields
  <2>4. /\ Only({"reading", "reads"}, a, b) /\ b.reads = a.reads + 1
    BY <2>1, <2>3 DEF Settled, Only, IsCd, CdFields
  <2>5. Drive(b)
    BY <2>3, <2>4 DEF Settled, Only, CdFields, Drive
  <2>6. Settled(b) /\ b.fifo = <<>> /\ b.ring = <<>>
    <3>1. IsCd(b) /\ b.pending = a.pending /\ b.fifo = <<>> /\ b.ring = <<>>
      BY <2>3, <2>4 DEF Only, CdFields
    <3> QED
      BY <2>3, <2>5, <3>1, EmptySettled DEF Settled
  <2>7. Settled(h) /\ h.fifo = <<>> /\ h.ring = <<>>
    <3>1. Settled(Respond(b, "Read")) /\ Only({"pending"}, b, Respond(b, "Read"))
      BY <2>6, RespondSettled
    <3>2. Settled(h) /\ Only({"pending", "brake", "motor", "onAudio"}, Respond(b, "Read"), h)
      BY <2>1, <3>1, HeadSettled
    <3>3. h.fifo = b.fifo /\ h.ring = b.ring
      BY <3>1, <3>2 DEF Only, CdFields
    <3> QED
      BY <2>6, <3>2, <3>3
  <2>8. Settled(p)
    <3>1. CASE ~(c.aimed \/ c.head = 0)
      BY <2>1, <2>7, <3>1
    <3>2. CASE c.aimed \/ c.head = 0
      <4>1. Location(c) \in Nat
        BY DEF Settled, Drive, Location
      <4>2. Only({"head", "aimed", "moved"}, h, p) /\ p.head \in Nat
        BY <2>1, <2>7, <3>2, <4>1 DEF Settled, Only, IsCd, CdFields
      <4>3. Drive(p)
        BY <2>7, <4>2 DEF Settled, Only, CdFields, Drive
      <4>4. IsCd(p) /\ p.pending = h.pending /\ p.fifo = <<>> /\ p.ring = <<>>
        BY <2>7, <4>2 DEF Only, CdFields
      <4> QED
        BY <2>7, <4>3, <4>4, EmptySettled DEF Settled
    <3> QED
      BY <3>1, <3>2
  <2>9. delay \in 0..Soon
    <3>1. Delay["travel"] \in 1..Long /\ Delay["firstSector"] \in 1..Long
      BY Delays DEF DelayNames
    <3>2. HeadPenalty(b) \in 0..3 * Long
      BY <2>5, PenaltyBounded
    <3> QED
      BY <2>1, <3>1, <3>2, Sizes
  <2> QED
    BY <1>0, <2>2, <2>8, <2>9, ChainSettled
<1> QED
  BY <1>1, <1>2

\* Where a Play may start.
LEMMA StartsAreHeads ==
  ASSUME NEW c, Settled(c), NEW start \in Starts(c)
  PROVE  start.head \in Nat
<1>1. TrackStarts \subseteq Nat
  BY DEF TrackStarts
<1> QED
  BY <1>1 DEF Starts, Settled, Drive

LEMMA ResultSettled ==
  ASSUME Settled(cd), NEW cmd \in Commands, NEW d \in Result(cmd)
  PROVE  Settled(d)
<1>1. PICK b : b = Begin
  OBVIOUS
<1>2. Settled(b)
  BY <1>1, BeginSettled
<1>3. \/ d \in {GetStat(b), MotorOn(b), GetID(b), ReadTOC(b), SetSession(b)}
      \/ \E t \in Targets : d = SetLoc(b, t)
      \/ \E xa \in BOOLEAN : d = SetMode(b, xa)
      \/ \E irq \in {Acknowledge, Error} : d = Query(b, irq)
      \/ d \in {Read(b), Stop(b), Pause(b), InitDrive(b), Reset(b), Seek(b)}
      \/ d = Refuse(b, "Play") \/ \E s \in Starts(b) : d = Play(b, s)
  BY <1>1 DEF Commands, Result
<1>4. CASE d \in {GetStat(b), MotorOn(b), GetID(b), ReadTOC(b), SetSession(b)}
  BY <1>2, <1>4, PlainSettled
<1>5. CASE \/ \E t \in Targets : d = SetLoc(b, t)
           \/ \E xa \in BOOLEAN : d = SetMode(b, xa)
           \/ \E irq \in {Acknowledge, Error} : d = Query(b, irq)
  BY <1>2, <1>5, PlainSettled
<1>6. CASE d \in {Read(b), Stop(b), Pause(b), InitDrive(b), Reset(b), Seek(b)}
  BY <1>2, <1>6, ReadSettled, StopCommandSettled, PauseSettled, InitSettled, ResetSettled,
     SeekSettled
<1>7. CASE d = Refuse(b, "Play") \/ \E s \in Starts(b) : d = Play(b, s)
  BY <1>2, <1>7, RespondSettled, PlaySettled, StartsAreHeads
<1> QED
  BY <1>3, <1>4, <1>5, <1>6, <1>7

-----------------------------------------------------------------------------
(* The sector FIFO and its ring. *)

LEMMA PartIs ==
  ASSUME NEW c, NEW s, OfRead(s, c)
  PROVE  1 \in 1..Len(s) /\ s[1].at \in Nat
<1> DEFINE S == [at : Nat, read : Nat]
<1>1. s \in Seq(S) /\ s # <<>>
  BY DEF OfRead
<1> HIDE DEF S
<1>2. Len(s) \in Nat \ {0}
  BY <1>1, EmptySeq
<1>3. 1 \in 1..Len(s) /\ s[1] \in S
  BY <1>1, <1>2
<1> QED
  BY <1>3 DEF S

LEMMA NewestIs ==
  ASSUME NEW c, Settled(c), c.ring # <<>>
  PROVE  Len(c.ring) \in 1..Len(c.ring) /\ OfRead(c.ring[Len(c.ring)], c)
<1> DEFINE S == Seq([at : Nat, read : Nat])
<1>1. c.ring \in Seq(S)
  BY DEF Settled, Ordered
<1> HIDE DEF S
<1>2. Len(c.ring) \in Nat \ {0}
  BY <1>1, EmptySeq
<1>3. Len(c.ring) \in 1..Len(c.ring)
  BY <1>2
<1> QED
  BY <1>3 DEF Settled, Ordered

\* What is left of a sector is of the same read and place.
LEMMA Remainder ==
  ASSUME NEW c, NEW s, OfRead(s, c), NEW k \in Nat \ {0}
  PROVE  LET t == SubSeq(s, k, Len(s))
         IN  t = <<>> \/ (OfRead(t, c) /\ t[1] = s[1])
<1> DEFINE t == SubSeq(s, k, Len(s))
<1>1. s \in Seq([at : Nat, read : Nat]) /\ Len(s) \in Nat
  BY DEF OfRead
<1>2. CASE k > Len(s)
  BY <1>1, <1>2
<1>3. CASE k <= Len(s)
  <2>1. /\ t \in Seq([at : Nat, read : Nat]) /\ Len(t) = Len(s) - k + 1
        /\ \A i \in 1..Len(t) : t[i] = s[k + i - 1]
    <3> DEFINE S == [at : Nat, read : Nat]
    <3>1. s \in Seq(S)
      BY <1>1
    <3> HIDE DEF S
    <3>2. \A i \in k..Len(s) : s[i] \in S
      <4>1. \A i \in k..Len(s) : i \in 1..Len(s)
        BY <1>1
      <4> QED
        BY <3>1, <4>1
    <3>3. /\ t \in Seq(S) /\ Len(t) = (IF k <= Len(s) THEN Len(s) - k + 1 ELSE 0)
          /\ \A i \in 1..Len(s) - k + 1 : t[i] = s[k + i - 1]
      BY <1>1, <3>2, SubSeqProperties
    <3> QED
      BY <1>3, <3>3 DEF S
  <2> HIDE DEF t
  <2>2. \A i \in 1..Len(t) : t[i] = s[1]
    <3>1. \A i \in 1..Len(t) : k + i - 1 \in 1..Len(s)
      BY <1>1, <1>3, <2>1
    <3> QED
      BY <2>1, <3>1 DEF OfRead
  <2>3. 1 \in 1..Len(t) /\ Len(t) <= Parts
    BY <1>1, <1>3, <2>1, BufferAssumption DEF OfRead
  <2>4. t # <<>>
    BY <2>1, <2>3
  <2>5. t[1] = s[1] /\ \A i \in 1..Len(t) : t[i] = t[1]
    BY <2>2, <2>3
  <2>6. OfRead(t, c)
    BY <2>1, <2>3, <2>4, <2>5 DEF OfRead
  <2> QED
    BY <2>5, <2>6 DEF t
<1> QED
  BY <1>1, <1>2, <1>3

Buffered == {"fifo", "ring", "ready", "armed"}

\* Software drains the FIFO, a part of a sector at a time.
LEMMA DrainedSettled ==
  ASSUME NEW c, Settled(c), NEW d, Only(Buffered, c, d), d.ring = c.ring, c.fifo # <<>>,
         \/ d.fifo = <<>>
         \/ OfRead(d.fifo, c) /\ d.fifo[1] = c.fifo[1]
  PROVE  Settled(d)
<1>1. /\ IsCd(d) /\ d.irq = c.irq /\ d.mask = c.mask /\ d.state = c.state /\ d.lid = c.lid
      /\ d.brake = c.brake /\ d.seek = c.seek /\ d.head = c.head /\ d.setloc = c.setloc
      /\ d.reads = c.reads /\ d.disc = c.disc /\ d.pending = c.pending
      /\ d.reading = c.reading
  BY DEF Only, CdFields, Buffered
<1>2. \A s : (OfRead(s, d) <=> OfRead(s, c)) /\ (NoneSince(s, d) <=> NoneSince(s, c))
  BY <1>1 DEF OfRead, NoneSince
<1>3. Drive(d)
  BY <1>1 DEF Settled, Drive
<1>4. Ordered(d)
  BY <1>2 DEF Settled, Ordered
<1>5. c.reading => Newest(d)
  <2>1. d.fifo # <<>> => (NoneSince(d.fifo, c) <=> NoneSince(c.fifo, c))
    BY DEF NoneSince
  <2> QED
    BY <1>2, <2>1 DEF Settled, Newest
<1> QED
  BY <1>1, <1>3, <1>4, <1>5 DEF Settled

\* The oldest sector of the ring comes under software's hands.
LEMMA AdvancedSettled ==
  ASSUME NEW c, Settled(c), NEW d, Only(Buffered, c, d),
         c.ring # <<>>, d.ring = Tail(c.ring),
         \/ d.fifo = <<>>
         \/ OfRead(d.fifo, c) /\ d.fifo[1] = c.ring[1][1]
  PROVE  Settled(d)
<1>1. /\ IsCd(d) /\ d.irq = c.irq /\ d.mask = c.mask /\ d.state = c.state /\ d.lid = c.lid
      /\ d.brake = c.brake /\ d.seek = c.seek /\ d.head = c.head /\ d.setloc = c.setloc
      /\ d.reads = c.reads /\ d.disc = c.disc /\ d.pending = c.pending
      /\ d.reading = c.reading
  BY DEF Only, CdFields, Buffered
<1>2. \A s : (OfRead(s, d) <=> OfRead(s, c)) /\ (NoneSince(s, d) <=> NoneSince(s, c))
  BY <1>1 DEF OfRead, NoneSince
<1>3. Drive(d)
  BY <1>1 DEF Settled, Drive
<1>4. /\ c.ring \in Seq(Seq([at : Nat, read : Nat])) /\ Len(c.ring) \in Nat \ {0}
      /\ Len(c.ring) < Buffers
  BY DEF Settled, Ordered
<1>5. /\ d.ring \in Seq(Seq([at : Nat, read : Nat])) /\ Len(d.ring) = Len(c.ring) - 1
      /\ \A i \in 1..Len(d.ring) : d.ring[i] = c.ring[i + 1]
      /\ \A i \in 1..Len(d.ring) : i + 1 \in 1..Len(c.ring)
      /\ 1 \in 1..Len(c.ring)
  BY <1>4
<1>6. Ordered(d)
  <2>1. Len(d.ring) < Buffers
    BY <1>4, <1>5, BufferAssumption
  <2>2. d.fifo = <<>> \/ OfRead(d.fifo, d)
    BY <1>2
  <2>3. ASSUME NEW i \in 1..Len(d.ring)
        PROVE  /\ OfRead(d.ring[i], d)
               /\ d.fifo # <<>> => d.fifo[1].at < d.ring[i][1].at
               /\ \A j \in 1..Len(d.ring) : i < j => d.ring[i][1].at < d.ring[j][1].at
    <3>1. i + 1 \in 1..Len(c.ring) /\ d.ring[i] = c.ring[i + 1] /\ 1 < i + 1
      BY <1>5
    <3>2. OfRead(d.ring[i], d) /\ c.ring[1][1].at < d.ring[i][1].at
      BY <1>2, <1>5, <3>1 DEF Settled, Ordered
    <3>3. ASSUME NEW j \in 1..Len(d.ring), i < j
          PROVE  d.ring[i][1].at < d.ring[j][1].at
      <4>1. j + 1 \in 1..Len(c.ring) /\ d.ring[j] = c.ring[j + 1] /\ i + 1 < j + 1
        BY <1>5, <3>3
      <4> QED
        BY <3>1, <4>1 DEF Settled, Ordered
    <3> QED
      BY <3>2, <3>3
  <2> QED
    BY <1>5, <2>1, <2>2, <2>3 DEF Ordered
<1>7. ASSUME c.reading PROVE Newest(d)
  <2>1. NoneSince(c.ring[Len(c.ring)], c)
    BY <1>7 DEF Settled, Newest
  <2>2. CASE d.ring # <<>>
    <3>1. Len(d.ring) \in 1..Len(d.ring)
      BY <1>5, <2>2
    <3>2. d.ring[Len(d.ring)] = c.ring[Len(d.ring) + 1] /\ Len(d.ring) + 1 = Len(c.ring)
      BY <1>4, <1>5, <3>1
    <3> QED
      BY <1>2, <2>1, <2>2, <3>2 DEF Newest
  <2>3. CASE d.ring = <<>>
    <3>1. Len(d.ring) = 0
      BY <2>3, EmptySeq
    <3>2. Len(c.ring) = 1
      BY <1>4, <1>5, <3>1
    <3>3. d.fifo # <<>> => NoneSince(d.fifo, c)
      BY <2>1, <3>2 DEF NoneSince
    <3> QED
      BY <1>2, <2>3, <3>3 DEF Newest
  <2> QED
    BY <2>2, <2>3
<1> QED
  BY <1>1, <1>3, <1>6, <1>7 DEF Settled

\* Nothing is buffered any more.
LEMMA DrySettled ==
  ASSUME NEW c, Settled(c), NEW d, Only(Buffered, c, d), d.ring = <<>>, d.fifo = <<>>
  PROVE  Settled(d)
<1>1. Drive(d) /\ IsCd(d) /\ d.pending = c.pending
  BY DEF Only, Settled, Drive, CdFields, Buffered
<1> QED
  BY <1>1, EmptySettled DEF Settled

LEMMA NextSectorIs ==
  ASSUME NEW c, Settled(c)
  PROVE  /\ Only(Buffered, c, NextSector(c))
         /\ IF c.ring = <<>>
            THEN NextSector(c).fifo = <<>> /\ NextSector(c).ring = <<>>
            ELSE /\ NextSector(c).fifo = c.ring[1] /\ NextSector(c).ring = Tail(c.ring)
                 /\ OfRead(c.ring[1], c)
<1>1. c.ring # <<>> => OfRead(c.ring[1], c)
  BY DEF Settled, Ordered
<1>2. CASE c.ring = <<>>
  BY <1>2 DEF Settled, NextSector, Only, IsCd, CdFields, Buffered
<1>3. CASE c.ring # <<>>
  <2>1. NextSector(c) = [c EXCEPT !.fifo = c.ring[1], !.ring = Tail(c.ring), !.armed = FALSE,
                                  !.ready = TRUE]
    BY <1>3 DEF NextSector
  <2> QED
    BY <1>1, <1>3, <2>1 DEF Settled, Only, IsCd, CdFields, Buffered
<1> QED
  BY <1>2, <1>3

LEMMA DataPortSettled ==
  ASSUME Settled(cd), ReadDataPort
  PROVE  Settled(cd')
<1>1. CASE ~cd.armed
  <2>1. Only(Loose, cd, cd')
    BY <1>1 DEF ReadDataPort, Settled, Only, IsCd, CdFields, Loose
  <2> QED
    BY <2>1, LooseSettled
<1>2. CASE cd.armed /\ Len(cd.fifo) > 1
  <2>1. cd.fifo # <<>>
    BY <1>2
  <2>2. OfRead(cd.fifo, cd)
    BY <2>1 DEF Settled, Ordered
  <2>3. Tail(cd.fifo) = SubSeq(cd.fifo, 2, Len(cd.fifo)) /\ Tail(cd.fifo) # <<>>
    <3> DEFINE S == [at : Nat, read : Nat]
               s == cd.fifo
    <3>1. s \in Seq(S) /\ s # <<>> /\ Len(s) > 1
      BY <1>2, <2>2 DEF OfRead
    <3> HIDE DEF S, s
    <3>2. Tail(s) = SubSeq(s, 2, Len(s))
      BY <3>1, TailIsSubSeq
    <3>3. Len(Tail(s)) = Len(s) - 1 /\ Len(s) \in Nat
      BY <3>1, HeadTailProperties, LenProperties
    <3>4. Len(<<>>) = 0
      BY EmptySeq
    <3>5. Tail(s) # <<>>
      <4>1. Len(Tail(s)) # 0
        BY <3>1, <3>3
      <4> QED
        BY <3>4, <4>1, Zenon
    <3> QED
      BY <3>2, <3>5 DEF s
  <2>4. OfRead(Tail(cd.fifo), cd) /\ Tail(cd.fifo)[1] = cd.fifo[1]
    <3>1. 2 \in Nat \ {0}
      OBVIOUS
    <3> QED
      BY <2>2, <2>3, <3>1, Remainder
  <2>5. cd' = [cd EXCEPT !.fifo = Tail(cd.fifo)]
    BY <1>2 DEF ReadDataPort
  <2>6. Only(Buffered, cd, cd') /\ cd'.ring = cd.ring /\ cd'.fifo = Tail(cd.fifo)
    BY <2>5 DEF Settled, Only, IsCd, CdFields, Buffered
  <2> QED
    BY <2>1, <2>4, <2>6, DrainedSettled
<1>3. CASE cd.armed /\ ~(Len(cd.fifo) > 1)
  <2>1. cd' = NextSector(cd)
    BY <1>3 DEF ReadDataPort
  <2> QED
    BY <2>1, NextSectorIs, AdvancedSettled, DrySettled
<1> QED
  BY <1>1, <1>2, <1>3

LEMMA BurstSettled ==
  ASSUME Settled(cd), NEW n \in 1..Parts, DmaBurst(n)
  PROVE  Settled(cd')
<1>1. cd.fifo # <<>> /\ OfRead(cd.fifo, cd) /\ n \in Nat \ {0}
  BY BufferAssumption DEF DmaBurst, Settled, Ordered
<1>2. Len(cd.fifo) \in Nat
  BY <1>1 DEF OfRead
<1>3. CASE n < Len(cd.fifo)
  <2>1. PICK t : t = SubSeq(cd.fifo, n + 1, Len(cd.fifo))
    OBVIOUS
  <2>2. t = <<>> \/ (OfRead(t, cd) /\ t[1] = cd.fifo[1])
    <3>1. n + 1 \in Nat \ {0}
      BY <1>1
    <3> QED
      BY <1>1, <2>1, <3>1, Remainder
  <2>3. cd' = [cd EXCEPT !.fifo = t]
    BY <1>3, <2>1 DEF DmaBurst
  <2>4. Only(Buffered, cd, cd') /\ cd'.ring = cd.ring /\ cd'.fifo = t
    BY <2>3 DEF Settled, Only, IsCd, CdFields, Buffered
  <2> QED
    BY <1>1, <2>2, <2>4, DrainedSettled
<1>4. CASE ~(n < Len(cd.fifo))
  <2>1. PICK c, k, t : /\ c = NextSector(cd) /\ k = n - Len(cd.fifo) + 1
                       /\ t = SubSeq(c.fifo, k, Len(c.fifo))
    OBVIOUS
  <2>2. k \in Nat \ {0}
    BY <1>1, <1>2, <1>4, <2>1
  <2>3. cd' = [c EXCEPT !.fifo = t]
    BY <1>4, <2>1 DEF DmaBurst
  <2>4. Only(Buffered, cd, c)
    BY <2>1, NextSectorIs
  <2>5. Only(Buffered, cd, cd') /\ cd'.ring = c.ring /\ cd'.fifo = t
    BY <2>3, <2>4 DEF Settled, Only, IsCd, CdFields, Buffered
  <2>6. CASE cd.ring = <<>>
    <3>1. c.fifo = <<>> /\ c.ring = <<>>
      BY <2>1, <2>6, NextSectorIs
    <3>2. t = <<>>
      BY <2>1, <2>2, <3>1
    <3> QED
      BY <2>5, <3>1, <3>2, DrySettled
  <2>7. CASE cd.ring # <<>>
    <3>1. c.fifo = cd.ring[1] /\ c.ring = Tail(cd.ring) /\ OfRead(cd.ring[1], cd)
      BY <2>1, <2>7, NextSectorIs
    <3>2. t = <<>> \/ (OfRead(t, cd) /\ t[1] = cd.ring[1][1])
      <4>1. t = SubSeq(cd.ring[1], k, Len(cd.ring[1]))
        BY <2>1, <3>1
      <4> QED
        BY <2>2, <3>1, <4>1, Remainder
    <3> QED
      BY <2>5, <2>7, <3>1, <3>2, AdvancedSettled
  <2> QED
    BY <2>6, <2>7
<1> QED
  BY <1>3, <1>4

-----------------------------------------------------------------------------
(* The CPU's accesses, the clock and the drive's own machinery. *)

LEMMA TickDriveSettled ==
  ASSUME Settled(cd), TickDrive
  PROVE  Settled(cd')
<1>1. PICK a, b : a = TickLid(cd) /\ b = UpdateSpindown(a)
  OBVIOUS
<1>2. /\ Delay["lidPoll"] \in 1..Long /\ Delay["rescan"] \in 1..Long
      /\ Delay["spin"] \in 1..Long /\ Delay["lidSeek"] \in 1..Long
  BY Delays DEF DelayNames
<1>3. /\ Only({"lid", "state", "motor"}, cd, a)
      /\ a.lid \in {cd.lid, NoTime} \cup 1..Long
      /\ a.state \in {"stopped", "standby", "lidOpen", "rescan", "prepare"}
  <2>1. CASE cd.lid >= 0
    BY <1>1, <2>1 DEF TickLid, Settled, Only, IsCd, CdFields, Drive
  <2>2. CASE ~(cd.lid >= 0) /\ cd.state = "stopped"
    BY <1>1, <2>2 DEF TickLid, Settled, Only, IsCd, CdFields, Drive
  <2>3. CASE ~(cd.lid >= 0) /\ cd.state = "standby"
    BY <1>1, <2>3 DEF TickLid, Settled, Only, IsCd, CdFields, Drive
  <2>4. CASE ~(cd.lid >= 0) /\ cd.state = "lidOpen"
    BY <1>1, <1>2, <2>4 DEF TickLid, Settled, Only, IsCd, CdFields, Drive
  <2>5. CASE ~(cd.lid >= 0) /\ cd.state = "rescan"
    BY <1>1, <1>2, <2>5 DEF TickLid, Settled, Only, IsCd, CdFields, Drive
  <2>6. CASE ~(cd.lid >= 0) /\ cd.state = "prepare"
    BY <1>1, <1>2, <2>6 DEF TickLid, Settled, Only, IsCd, CdFields, Drive
  <2>7. cd.state \in {"stopped", "standby", "lidOpen", "rescan", "prepare"}
    BY DEF Settled, Drive
  <2> QED
    BY <2>1, <2>2, <2>3, <2>4, <2>5, <2>6, <2>7
<1>4. Drive(a)
  BY <1>3, Sizes DEF Settled, Only, CdFields, Drive
<1>5. Settled(a)
  <2>1. Only(Driven, cd, a)
    BY <1>3 DEF Only, Driven, Loose
  <2> QED
    BY <1>4, <2>1, DrivenSettled
<1>6. Settled(b)
  BY <1>1, <1>5, SpindownSettled
<1>7. cd' = IF b.seek <= 0 THEN [b EXCEPT !.seek = NoTime, !.playing = TRUE] ELSE b
  BY <1>1 DEF TickDrive, CompleteCddaSeek
<1>8. Only({"seek", "playing"}, b, cd') /\ cd'.seek \in {b.seek, NoTime}
  BY <1>6, <1>7 DEF Settled, Only, IsCd, CdFields
<1>9. Drive(cd') /\ Only(Driven, b, cd')
  BY <1>6, <1>8 DEF Settled, Only, CdFields, Drive, Driven, Loose
<1> QED
  BY <1>6, <1>9, DrivenSettled

LEMMA AcknowledgeSettled ==
  ASSUME Settled(cd), AcknowledgeInterrupt
  PROVE  Settled(cd')
<1>1. CASE ~(cd.deferred /\ cd.reading)
  <2>1. cd' = [cd EXCEPT !.irq = None]
    BY <1>1 DEF AcknowledgeInterrupt
  <2>2. Only({"irq"}, cd, cd') /\ cd'.irq = None
    BY <2>1 DEF Settled, Only, IsCd, CdFields
  <2>3. Drive(cd') /\ Only(Driven, cd, cd')
    BY <2>2 DEF Settled, Only, CdFields, Drive, Driven, Loose
  <2> QED
    BY <2>3, DrivenSettled
<1>2. CASE cd.deferred /\ cd.reading
  <2>1. PICK c, e, due : /\ c = [cd EXCEPT !.irq = None, !.deferred = FALSE]
                         /\ e = Event(Deferred, DataReady, FALSE) /\ due = Delay["deferred"]
    OBVIOUS
  <2>2. cd' = Insert(c, e, due)
    BY <1>2, <2>1 DEF AcknowledgeInterrupt
  <2>3. Only({"irq", "deferred"}, cd, c) /\ c.irq = None
    BY <2>1 DEF Settled, Only, IsCd, CdFields
  <2>4. Drive(c) /\ Only(Driven, cd, c)
    BY <2>3 DEF Settled, Only, CdFields, Drive, Driven, Loose
  <2>5. Settled(c)
    BY <2>4, DrivenSettled
  <2>6. /\ DOMAIN e = EventFields /\ e.irq \in IrqTypes
        /\ e.then \in Followups /\ e.then.delay <= Soon
    BY <2>1, NewFiled, Kinds
  <2>7. due \in -MaxLate..NoTime
    <3>1. due \in 1..Long
      BY <2>1, Delays DEF DelayNames
    <3> QED
      BY <3>1, Sizes
  <2>8. Only({"pending"}, c, cd') /\ Queued(cd'.pending)
    BY <2>2, <2>5, <2>6, <2>7, InsertQueued DEF Settled
  <2> QED
    BY <2>5, <2>8, OnlyQueue
<1> QED
  BY <1>1, <1>2

\* The head moves over a sector that holds no data.
LEMMA NothingPassed ==
  ASSUME NEW c, NEW d, NEW s, Drive(c), OfRead(s, c), NoneSince(s, c),
         d.head = c.head + 1, d.disc = c.disc, d.reads = c.reads,
         c.head < Len(c.disc) => c.disc[c.head + 1] # "data"
  PROVE  NoneSince(s, d)
<1>1. c.head \in Nat /\ s[1].at \in Nat
  BY PartIs DEF Drive
<1>2. s[1].at < d.head
  BY <1>1 DEF NoneSince
<1>3. ASSUME NEW i \in s[1].at + 1..d.head - 1, i < Len(d.disc)
      PROVE  d.disc[i + 1] # "data"
  <2>1. i = c.head \/ i \in s[1].at + 1..c.head - 1
    BY <1>1
  <2> QED
    BY <1>3, <2>1 DEF NoneSince
<1> QED
  BY <1>2, <1>3 DEF NoneSince

LEMMA PumpSettled ==
  ASSUME Settled(cd), PumpCdda
  PROVE  Settled(cd')
<1>1. CASE ~(cd.head < Len(cd.disc) /\ cd.disc[cd.head + 1] = "audio")
  BY <1>1, HaltSettled DEF PumpCdda
<1>2. CASE cd.head < Len(cd.disc) /\ cd.disc[cd.head + 1] = "audio"
  <2>1. cd' = [cd EXCEPT !.head = cd.head + 1]
    BY <1>2 DEF PumpCdda
  <2>2. Only({"head"}, cd, cd') /\ cd'.head = cd.head + 1
    BY <2>1 DEF Settled, Only, IsCd, CdFields
  <2>3. /\ IsCd(cd') /\ cd'.pending = cd.pending /\ cd'.reading = cd.reading
        /\ cd'.ring = cd.ring /\ cd'.fifo = cd.fifo /\ cd'.reads = cd.reads /\ cd'.disc = cd.disc
    BY <2>2 DEF Only, CdFields
  <2>4. Drive(cd')
    BY <2>2 DEF Settled, Only, CdFields, Drive
  <2>5. \A s : OfRead(s, cd') <=> OfRead(s, cd)
    BY <2>3 DEF OfRead
  <2>6. Ordered(cd')
    BY <2>3, <2>5 DEF Settled, Ordered
  <2>7. \A s : OfRead(s, cd) /\ NoneSince(s, cd) => NoneSince(s, cd')
    BY <1>2, <2>2, <2>3, NothingPassed DEF Settled
  <2>8. cd.fifo # <<>> => OfRead(cd.fifo, cd)
    BY DEF Settled, Ordered
  <2>9. cd.ring # <<>> => OfRead(cd.ring[Len(cd.ring)], cd)
    BY NewestIs
  <2>10. cd.reading => Newest(cd')
    BY <2>3, <2>7, <2>8, <2>9 DEF Settled, Newest
  <2> QED
    BY <2>3, <2>4, <2>6, <2>10 DEF Settled
<1> QED
  BY <1>1, <1>2

LEMMA AdvanceSettled ==
  ASSUME Settled(cd), Advance
  PROVE  Settled(cd')
<1>1. /\ cd'.pending = {Sooner(e) : e \in cd.pending}
      /\ cd'.lid = Later(cd.lid) /\ cd'.brake = Later(cd.brake) /\ cd'.seek = Later(cd.seek)
      /\ Only({"pending", "lid", "brake", "seek"}, cd, cd')
  BY DEF Advance, Sooner, Settled, Only, IsCd, CdFields
<1>2. PICK c : c = [cd EXCEPT !.lid = Later(cd.lid), !.brake = Later(cd.brake),
                              !.seek = Later(cd.seek)]
  OBVIOUS
<1>3. /\ c.lid = Later(cd.lid) /\ c.brake = Later(cd.brake) /\ c.seek = Later(cd.seek)
      /\ Only({"lid", "brake", "seek"}, cd, c)
  BY <1>2 DEF Settled, Only, IsCd, CdFields
<1>4. ASSUME NEW t \in Int, t > -MaxLate, NEW n \in Nat, t = NoTime \/ t \in -MaxLate..n
      PROVE  Later(t) = NoTime \/ Later(t) \in -MaxLate..n
  BY <1>4, Sizes DEF Later
<1>5. cd.lid > -MaxLate /\ cd.brake > -MaxLate /\ cd.seek > -MaxLate
  BY DEF Advance
<1>6. /\ c.lid = NoTime \/ c.lid \in -MaxLate..Long
      /\ c.brake = NoTime \/ c.brake \in -MaxLate..Long
      /\ c.seek = NoTime \/ c.seek \in -MaxLate..Soon
  <2>1. /\ cd.lid \in Int /\ cd.brake \in Int /\ cd.seek \in Int
        /\ cd.lid = NoTime \/ cd.lid \in -MaxLate..Long
        /\ cd.brake = NoTime \/ cd.brake \in -MaxLate..Long
        /\ cd.seek = NoTime \/ cd.seek \in -MaxLate..Soon
    BY Sizes DEF Settled, Drive
  <2>2. Long \in Nat /\ Soon \in Nat
    BY Sizes
  <2>3. c.lid = NoTime \/ c.lid \in -MaxLate..Long
    BY <1>3, <1>4, <1>5, <2>1, <2>2
  <2>4. c.brake = NoTime \/ c.brake \in -MaxLate..Long
    BY <1>3, <1>4, <1>5, <2>1, <2>2
  <2>5. c.seek = NoTime \/ c.seek \in -MaxLate..Soon
    BY <1>3, <1>4, <1>5, <2>1, <2>2
  <2> QED
    BY <2>3, <2>4, <2>5
<1>7. Drive(c) /\ Only(Driven, cd, c)
  BY <1>3, <1>6 DEF Settled, Only, CdFields, Drive, Driven, Loose
<1>8. Settled(c)
  BY <1>7, DrivenSettled
<1>9. Queued(cd'.pending)
  <2>1. \A e \in cd.pending : Filed(Sooner(e)) /\ Sooner(e).rank = e.rank
    <3>1. ASSUME NEW e \in cd.pending
          PROVE  Filed(Sooner(e)) /\ Sooner(e).rank = e.rank
      <4>1. Filed(e) /\ e.due > -MaxLate
        BY DEF Advance, Settled, Queued
      <4>2. e.due - 1 \in -MaxLate..NoTime
        BY <4>1, Sizes DEF Filed
      <4> QED
        BY <4>1, <4>2 DEF Filed, Sooner, EventFields
    <3> QED
      BY <3>1
  <2>2. {e.rank : e \in cd'.pending} \subseteq {e.rank : e \in cd.pending}
    BY <1>1, <2>1
  <2> QED
    BY <1>1, <2>1, <2>2, RankedKept DEF Settled, Queued
<1>10. Only({"pending"}, c, cd')
  BY <1>1, <1>3 DEF Only, CdFields
<1> QED
  BY <1>8, <1>9, <1>10, OnlyQueue

-----------------------------------------------------------------------------
(* The rounds of the tick. *)

LEMMA WithoutSettled ==
  ASSUME Settled(cd), NEW e \in cd.pending
  PROVE  Settled(Without(e)) /\ Only({"pending"}, cd, Without(e)) /\ Filed(e)
<1>1. Only({"pending"}, cd, Without(e)) /\ Without(e).pending = cd.pending \ {e}
  BY DEF Without, Settled, Only, IsCd, CdFields
<1>2. Queued(cd.pending)
  BY DEF Settled
<1>3. Queued(Without(e).pending)
  BY <1>1, <1>2, QueueShrinks
<1> QED
  BY <1>1, <1>2, <1>3, OnlyQueue DEF Queued

LEMMA HoldBackSettled ==
  ASSUME Settled(cd), NEW e \in cd.pending, HoldBack(e)
  PROVE  Settled(cd')
<1>1. PICK c, due : c = Without(e) /\ due = Delay["reschedule"]
  OBVIOUS
<1>2. Settled(c) /\ Filed(e)
  BY <1>1, WithoutSettled
<1>3. due \in -MaxLate..NoTime
  <2>1. due \in 1..Long
    BY <1>1, Delays DEF DelayNames
  <2> QED
    BY <2>1, Sizes
<1>4. Only({"pending"}, c, Insert(c, e, due)) /\ Queued(Insert(c, e, due).pending)
  BY <1>2, <1>3, InsertQueued DEF Settled, Filed
<1> QED
  BY <1>1, <1>2, <1>4, OnlyQueue DEF HoldBack

LEMMA KeepHoldingSettled ==
  ASSUME Settled(cd), NEW e \in cd.pending, KeepHolding(e)
  PROVE  Settled(cd')
<1>1. Settled(Without(e))
  BY WithoutSettled
<1>2. Only(Loose, Without(e), cd')
  BY <1>1 DEF KeepHolding, Settled, Only, IsCd, CdFields, Loose
<1> QED
  BY <1>1, <1>2, LooseSettled

\* The INT1's snap leaves the newest sector alone in the FIFO.
LEMMA SnapSettled ==
  ASSUME NEW c, Settled(c)
  PROVE  /\ Settled(SnapToNewest(c)) /\ SnapToNewest(c).ring = <<>>
         /\ Only({"fifo", "ring", "ready"}, c, SnapToNewest(c))
         /\ Newest(c) => Newest(SnapToNewest(c))
<1>1. CASE c.ring = <<>>
  BY <1>1 DEF SnapToNewest, Settled, Only
<1>2. CASE c.ring # <<>>
  <2>1. PICK s, d : s = c.ring[Len(c.ring)] /\ d = SnapToNewest(c)
    OBVIOUS
  <2>2. d = [c EXCEPT !.fifo = s, !.ring = <<>>, !.ready = TRUE]
    BY <1>2, <2>1 DEF SnapToNewest
  <2>3. /\ Only({"fifo", "ring", "ready"}, c, d) /\ d.fifo = s /\ d.ring = <<>>
    BY <2>2 DEF Settled, Only, IsCd, CdFields
  <2>4. /\ IsCd(d) /\ d.pending = c.pending /\ d.reading = c.reading /\ d.head = c.head
        /\ d.reads = c.reads /\ d.disc = c.disc /\ Drive(d)
    BY <2>3 DEF Only, Settled, Drive, CdFields
  <2>5. OfRead(s, d)
    BY <1>2, <2>1, <2>4, NewestIs DEF OfRead
  <2>6. Ordered(d)
    BY <2>3, <2>5, BufferAssumption DEF Ordered
  <2>7. Newest(c) => Newest(d)
    BY <1>2, <2>1, <2>3, <2>4 DEF Newest, NoneSince
  <2> QED
    BY <2>1, <2>3, <2>4, <2>6, <2>7 DEF Settled
<1> QED
  BY <1>1, <1>2

\* Latching an interrupt.  (The newest sector is also the newest past the end of the
\* disc, where the drive reads no more.)
LEMMA LatchSettled ==
  ASSUME NEW c, Settled(c), NEW e, Filed(e), EventOK(e)
  PROVE  /\ Settled(Latched(c, e))
         /\ e.irq = DataReady =>
              /\ Latched(c, e).ring = <<>> /\ Latched(c, e).head = c.head
              /\ Latched(c, e).disc = c.disc /\ Latched(c, e).reads = c.reads
              /\ Newest(c) => Newest(Latched(c, e))
<1>1. PICK s, a, b, d, r :
        /\ s = SnapToNewest(c)
        /\ a = IF e.irq = DataReady THEN [s EXCEPT !.deferred = FALSE, !.news = FALSE] ELSE c
        /\ b = [a EXCEPT !.irq = e.irq, !.busy = FALSE]
        /\ d = IF e.then = NoFollowup THEN b
               ELSE Insert(b, Event(e.then.cmd, e.then.irq, FALSE), e.then.delay)
        /\ r = IF c.boot /\ e.irq = Acknowledge
               THEN [d EXCEPT !.boot = FALSE, !.lid = Delay["lid"]] ELSE d
  OBVIOUS
<1>2. r = Latched(c, e)
  BY <1>1 DEF Latched
<1>3. /\ Settled(s) /\ s.ring = <<>> /\ Only({"fifo", "ring", "ready"}, c, s)
      /\ Newest(c) => Newest(s)
  BY <1>1, SnapSettled
<1>4. /\ Settled(a)
      /\ e.irq = DataReady => Only(Loose, s, a)
  <2>1. e.irq = DataReady => Only(Loose, s, a)
    BY <1>1, <1>3 DEF Settled, Only, IsCd, CdFields, Loose
  <2> QED
    BY <1>1, <1>3, <2>1, LooseSettled
<1>5. Only({"irq", "busy"}, a, b) /\ b.irq = e.irq
  BY <1>1, <1>4 DEF Settled, Only, IsCd, CdFields
<1>6. Settled(b)
  <2>1. Drive(b) /\ Only(Driven, a, b)
    BY <1>4, <1>5 DEF Settled, Only, CdFields, Drive, Driven, Loose, Filed
  <2> QED
    BY <1>4, <2>1, DrivenSettled
<1>7. Settled(d) /\ Only({"pending"}, b, d)
  <2>1. CASE e.then = NoFollowup
    BY <1>1, <1>6, <2>1 DEF Settled, Only
  <2>2. CASE e.then # NoFollowup
    <3>1. PICK x : x = Event(e.then.cmd, e.then.irq, FALSE)
      OBVIOUS
    <3>2. e.then.irq \in IrqTypes
      BY <2>2 DEF EventOK
    <3>3. /\ DOMAIN x = EventFields /\ x.irq \in IrqTypes
          /\ x.then \in Followups /\ x.then.delay <= Soon
      BY <3>1, <3>2, NewFiled
    <3>4. e.then.delay \in -MaxLate..NoTime
      BY Sizes DEF Filed, Followups
    <3>5. d = Insert(b, x, e.then.delay)
      BY <1>1, <2>2, <3>1
    <3>6. Only({"pending"}, b, d) /\ Queued(d.pending)
      BY <1>6, <3>3, <3>4, <3>5, InsertQueued DEF Settled
    <3> QED
      BY <1>6, <3>6, OnlyQueue
  <2> QED
    BY <2>1, <2>2
<1>8. Settled(r) /\ Only({"boot", "lid"}, d, r)
  <2>1. CASE c.boot /\ e.irq = Acknowledge
    <3>1. Delay["lid"] \in 1..Long
      BY Delays DEF DelayNames
    <3>2. Only({"boot", "lid"}, d, r) /\ r.lid = Delay["lid"]
      BY <1>1, <1>7, <2>1 DEF Settled, Only, IsCd, CdFields
    <3>3. Delay["lid"] \in -MaxLate..Long
      BY <3>1, Sizes
    <3>4. Drive(r) /\ Only(Driven, d, r)
      BY <1>7, <3>2, <3>3 DEF Settled, Only, CdFields, Drive, Driven, Loose
    <3> QED
      BY <1>7, <3>2, <3>4, DrivenSettled
  <2>2. CASE ~(c.boot /\ e.irq = Acknowledge)
    BY <1>1, <1>7, <2>2 DEF Settled, Only
  <2> QED
    BY <2>1, <2>2
<1>9. ASSUME e.irq = DataReady
      PROVE  /\ r.ring = <<>> /\ r.head = c.head /\ r.disc = c.disc /\ r.reads = c.reads
             /\ Newest(c) => Newest(r)
  <2>1. /\ r.ring = s.ring /\ r.fifo = s.fifo /\ r.head = s.head /\ r.disc = s.disc
        /\ r.reads = s.reads
    <3>1. Only(Loose, s, a)
      BY <1>4, <1>9
    <3> QED
      BY <3>1, <1>5, <1>7, <1>8 DEF Only, CdFields, Loose
  <2>2. s.head = c.head /\ s.disc = c.disc /\ s.reads = c.reads
    BY <1>3 DEF Only, CdFields
  <2>3. Newest(s) => Newest(r)
    BY <2>1 DEF Newest, NoneSince
  <2> QED
    BY <1>3, <2>1, <2>2, <2>3
<1> QED
  BY <1>2, <1>8, <1>9

-----------------------------------------------------------------------------
(* A sector lands. *)

\* A sector goes by that is not stored: the head moves, the FIFO may be emptied.
LEMMA PassedSettled ==
  ASSUME NEW c, Settled(c), Newest(c), NEW d,
         Only({"head", "fifo", "ready", "armed", "reading", "moved"}, c, d),
         d.head = c.head + 1, d.fifo \in {c.fifo, <<>>},
         c.head < Len(c.disc) => c.disc[c.head + 1] # "data"
  PROVE  Settled(d) /\ Newest(d)
<1>1. /\ IsCd(d) /\ d.pending = c.pending /\ d.ring = c.ring
      /\ d.reads = c.reads /\ d.disc = c.disc /\ Drive(d)
  BY DEF Settled, Drive, Only, CdFields
<1>2. \A s : OfRead(s, d) <=> OfRead(s, c)
  BY <1>1 DEF OfRead
<1>3. Ordered(d)
  BY <1>1, <1>2 DEF Settled, Ordered
<1>4. \A s : OfRead(s, c) /\ NoneSince(s, c) => NoneSince(s, d)
  BY <1>1, NothingPassed DEF Settled
<1>5. c.fifo # <<>> => OfRead(c.fifo, c)
  BY DEF Settled, Ordered
<1>6. c.ring # <<>> => OfRead(c.ring[Len(c.ring)], c)
  BY NewestIs
<1>7. Newest(d)
  BY <1>1, <1>4, <1>5, <1>6 DEF Newest
<1> QED
  BY <1>1, <1>3, <1>7 DEF Settled

\* What is buffered lies before the head.
LEMMA BufferedBefore ==
  ASSUME NEW c, Settled(c), Newest(c)
  PROVE  /\ c.fifo # <<>> => c.fifo[1].at < c.head
         /\ \A i \in 1..Len(c.ring) : c.ring[i][1].at < c.head
<1>1. c.head \in Nat
  BY DEF Settled, Drive
<1>2. CASE c.ring = <<>>
  BY <1>2, EmptySeq DEF Newest, NoneSince
<1>3. CASE c.ring # <<>>
  <2>1. PICK n : n = Len(c.ring)
    OBVIOUS
  <2>2. n \in 1..Len(c.ring) /\ OfRead(c.ring[n], c) /\ c.ring[n][1].at < c.head
    BY <1>3, <2>1, NewestIs DEF Newest, NoneSince
  <2>3. c.ring[n][1].at \in Nat
    BY <2>2, PartIs
  <2>4. ASSUME NEW i \in 1..Len(c.ring)
        PROVE  c.ring[i][1].at < c.head
    <3>1. i = n \/ i < n
      BY <2>1, <2>2
    <3>2. c.ring[i][1].at \in Nat
      BY PartIs DEF Settled, Ordered
    <3>3. i < n => c.ring[i][1].at < c.ring[n][1].at
      BY <2>2 DEF Settled, Ordered
    <3> QED
      BY <1>1, <2>2, <2>3, <3>1, <3>2, <3>3
  <2>5. ASSUME c.fifo # <<>>
        PROVE  c.fifo[1].at < c.head
    <3>1. c.fifo[1].at \in Nat
      BY <2>5, PartIs DEF Settled, Ordered
    <3>2. c.fifo[1].at < c.ring[n][1].at
      BY <2>2, <2>5 DEF Settled, Ordered
    <3> QED
      BY <1>1, <2>2, <2>3, <3>1, <3>2
  <2> QED
    BY <2>4, <2>5
<1> QED
  BY <1>2, <1>3

\* The room push_sector makes keeps the order.
LEMMA KeptOrdered ==
  ASSUME NEW c, Ordered(c), NEW kept,
         kept = (IF Len(c.ring) < Buffers - 1 THEN c.ring ELSE Tail(c.ring))
  PROVE  /\ kept \in Seq(Seq([at : Nat, read : Nat])) /\ Len(kept) < Buffers - 1
         /\ \A i \in 1..Len(kept) :
              /\ OfRead(kept[i], c)
              /\ kept[i] \in {c.ring[j] : j \in 1..Len(c.ring)}
              /\ c.fifo # <<>> => c.fifo[1].at < kept[i][1].at
              /\ \A j \in 1..Len(kept) : i < j => kept[i][1].at < kept[j][1].at
<1> DEFINE S == Seq([at : Nat, read : Nat])
<1>1. c.ring \in Seq(S) /\ Len(c.ring) < Buffers
  BY DEF Ordered
<1>2. CASE Len(c.ring) < Buffers - 1
  BY <1>1, <1>2 DEF Ordered
<1>3. CASE ~(Len(c.ring) < Buffers - 1)
  <2> HIDE DEF S
  <2>1. Len(c.ring) \in Nat /\ Len(c.ring) = Buffers - 1 /\ Buffers \in Nat \ {0, 1}
    BY <1>1, <1>3, BufferAssumption, LenProperties
  <2>2. c.ring # <<>>
    BY <2>1, EmptySeq
  <2>3. kept = Tail(c.ring)
    BY <1>3
  <2>4. /\ kept \in Seq(S) /\ Len(kept) = Len(c.ring) - 1
        /\ \A i \in 1..Len(kept) : kept[i] = c.ring[i + 1]
    BY <1>1, <2>2, <2>3, HeadTailProperties
  <2>5. \A i \in 1..Len(kept) : i + 1 \in 1..Len(c.ring)
    BY <2>1, <2>4
  <2>6. ASSUME NEW i \in 1..Len(kept)
        PROVE  /\ OfRead(kept[i], c)
               /\ kept[i] \in {c.ring[j] : j \in 1..Len(c.ring)}
               /\ c.fifo # <<>> => c.fifo[1].at < kept[i][1].at
               /\ \A j \in 1..Len(kept) : i < j => kept[i][1].at < kept[j][1].at
    <3>1. i + 1 \in 1..Len(c.ring) /\ kept[i] = c.ring[i + 1]
      BY <2>4, <2>5
    <3>2. ASSUME NEW j \in 1..Len(kept), i < j
          PROVE  kept[i][1].at < kept[j][1].at
      <4>1. j + 1 \in 1..Len(c.ring) /\ kept[j] = c.ring[j + 1] /\ i + 1 < j + 1
        BY <2>4, <2>5, <3>2
      <4> QED
        BY <3>1, <4>1 DEF Ordered
    <3> QED
      BY <3>1, <3>2 DEF Ordered
  <2> QED
    BY <2>1, <2>4, <2>6 DEF S
<1> QED
  BY <1>2, <1>3

\* A data sector is stored, behind the others or in their place.
LEMMA StoredSettled ==
  ASSUME NEW c, Settled(c), Newest(c), NEW d,
         NEW p, Only({"head"}, c, p), p.head = c.head + 1,
         NEW q, q = PushSector(p, c.head), Only({"news"}, q, d)
  PROVE  Settled(d) /\ Newest(d) /\ Only({"fifo", "ring", "ready", "head", "news"}, c, d)
<1>1. PICK sector, kept :
        /\ sector = [part \in 1..Parts |-> [at |-> c.head, read |-> p.reads]]
        /\ kept = IF Len(c.ring) < Buffers - 1 THEN c.ring ELSE Tail(c.ring)
  OBVIOUS
<1>2. p.ring = c.ring /\ p.fifo = c.fifo /\ p.reads = c.reads
  BY DEF Only, CdFields
<1>2a. IsCd(p)
  BY DEF Only
<1>3. q = IF c.fifo = <<>> /\ c.ring = <<>>
          THEN [p EXCEPT !.fifo = sector, !.ready = TRUE]
          ELSE [p EXCEPT !.ring = Append(kept, sector)]
  BY <1>1, <1>2 DEF PushSector
<1>4. /\ Only({"fifo", "ring", "ready", "head", "news"}, c, d) /\ d.head = c.head + 1
      /\ IF c.fifo = <<>> /\ c.ring = <<>>
         THEN d.fifo = sector /\ d.ring = c.ring
         ELSE d.fifo = c.fifo /\ d.ring = Append(kept, sector)
  <2>1. CASE c.fifo = <<>> /\ c.ring = <<>>
    <3>1. q = [p EXCEPT !.fifo = sector, !.ready = TRUE]
      BY <1>3, <2>1
    <3>2. Only({"fifo", "ready"}, p, q) /\ q.fifo = sector
      BY <1>2a, <3>1 DEF Only, IsCd, CdFields
    <3> QED
      BY <1>2, <2>1, <3>2 DEF Only, CdFields
  <2>2. CASE ~(c.fifo = <<>> /\ c.ring = <<>>)
    <3>1. q = [p EXCEPT !.ring = Append(kept, sector)]
      BY <1>3, <2>2
    <3> DEFINE ring == Append(kept, sector)
    <3> HIDE DEF ring
    <3>2. Only({"ring"}, p, q) /\ q.ring = ring
      BY <1>2a, <3>1 DEF Only, IsCd, CdFields, ring
    <3> QED
      BY <1>2, <2>2, <3>2 DEF Only, CdFields, ring
  <2> QED
    BY <2>1, <2>2
<1>5. /\ IsCd(d) /\ d.pending = c.pending /\ d.reads = c.reads /\ d.disc = c.disc /\ Drive(d)
  BY <1>4 DEF Settled, Drive, Only, CdFields
<1>6. c.head \in Nat /\ c.reads \in Nat /\ Parts \in Nat \ {0} /\ Buffers \in Nat \ {0, 1}
  BY BufferAssumption DEF Settled, Drive
<1>7. /\ OfRead(sector, d) /\ sector[1].at = c.head
      /\ sector \in Seq([at : Nat, read : Nat])
  <2>1. sector \in [1..Parts -> [at : Nat, read : Nat]]
    BY <1>1, <1>2, <1>6
  <2>2. sector \in Seq([at : Nat, read : Nat]) /\ Len(sector) = Parts
    <3> DEFINE S == [at : Nat, read : Nat]
    <3>1. sector \in [1..Parts -> S] /\ Parts \in Nat
      BY <1>6, <2>1
    <3> HIDE DEF S
    <3>2. sector \in Seq(S) /\ Len(sector) = Parts
      BY <3>1
    <3> QED
      BY <3>2 DEF S
  <2>3. /\ 1 \in 1..Parts /\ sector[1] = [at |-> c.head, read |-> c.reads]
        /\ \A part \in 1..Parts : sector[part] = sector[1]
    BY <1>1, <1>2, <1>6
  <2>4. sector # <<>>
    BY <1>6, <2>2, EmptySeq
  <2> QED
    BY <1>5, <2>2, <2>3, <2>4 DEF OfRead
<1>8. NoneSince(sector, d)
  BY <1>4, <1>6, <1>7 DEF NoneSince
<1>9. \A s : OfRead(s, d) <=> OfRead(s, c)
  BY <1>5 DEF OfRead
<1>10. CASE c.fifo = <<>> /\ c.ring = <<>>
  <2>1. d.fifo = sector /\ d.ring = <<>>
    BY <1>4, <1>10
  <2>2. Ordered(d)
    BY <1>6, <1>7, <2>1 DEF Ordered
  <2>3. Newest(d)
    BY <1>8, <2>1 DEF Newest
  <2> QED
    BY <1>4, <1>5, <2>2, <2>3 DEF Settled
<1>11. CASE ~(c.fifo = <<>> /\ c.ring = <<>>)
  <2> DEFINE S == Seq([at : Nat, read : Nat])
  <2>1. /\ kept \in Seq(S) /\ Len(kept) < Buffers - 1
        /\ \A i \in 1..Len(kept) :
             /\ OfRead(kept[i], c)
             /\ kept[i] \in {c.ring[j] : j \in 1..Len(c.ring)}
             /\ c.fifo # <<>> => c.fifo[1].at < kept[i][1].at
             /\ \A j \in 1..Len(kept) : i < j => kept[i][1].at < kept[j][1].at
    BY <1>1, KeptOrdered DEF Settled
  <2>2. sector \in S /\ d.fifo = c.fifo /\ d.ring = Append(kept, sector)
    BY <1>4, <1>7, <1>11
  <2> HIDE DEF S
  <2>3. /\ d.ring \in Seq(S) /\ Len(d.ring) = Len(kept) + 1 /\ d.ring # <<>>
        /\ \A i \in 1..Len(kept) : d.ring[i] = kept[i]
        /\ d.ring[Len(kept) + 1] = sector
        /\ Len(kept) \in Nat
    BY <2>1, <2>2, AppendProperties, LenProperties
  <2>4. /\ c.fifo # <<>> => c.fifo[1].at < c.head
        /\ \A i \in 1..Len(kept) : kept[i][1].at < c.head
    BY <2>1, BufferedBefore
  <2>5. ASSUME NEW i \in 1..Len(d.ring)
        PROVE  /\ OfRead(d.ring[i], d)
               /\ d.fifo # <<>> => d.fifo[1].at < d.ring[i][1].at
               /\ \A j \in 1..Len(d.ring) : i < j => d.ring[i][1].at < d.ring[j][1].at
    <3>1. CASE i \in 1..Len(kept)
      <4>1. OfRead(d.ring[i], d) /\ (d.fifo # <<>> => d.fifo[1].at < d.ring[i][1].at)
        BY <1>9, <2>1, <2>2, <2>3, <3>1
      <4>2. ASSUME NEW j \in 1..Len(d.ring), i < j
            PROVE  d.ring[i][1].at < d.ring[j][1].at
        <5>1. j \in 1..Len(kept) \/ j = Len(kept) + 1
          BY <2>3
        <5> QED
          BY <1>7, <2>1, <2>3, <2>4, <3>1, <4>2, <5>1
      <4> QED
        BY <4>1, <4>2
    <3>2. CASE i = Len(kept) + 1
      <4>1. d.ring[i] = sector
        BY <2>3, <3>2
      <4>2. \A j \in 1..Len(d.ring) : ~(i < j)
        BY <2>3, <3>2
      <4> QED
        BY <1>7, <2>2, <2>4, <4>1, <4>2
    <3> QED
      BY <2>3, <3>1, <3>2
  <2>6. Ordered(d)
    <3>1. Len(d.ring) < Buffers
      BY <1>6, <2>1, <2>3
    <3>2. d.fifo = <<>> \/ OfRead(d.fifo, d)
      BY <1>9, <2>2 DEF Settled, Ordered
    <3> QED
      BY <2>3, <2>5, <3>1, <3>2 DEF Ordered, S
  <2>7. Newest(d)
    BY <1>8, <2>3 DEF Newest
  <2> QED
    BY <1>4, <1>5, <2>6, <2>7 DEF Settled
<1> QED
  BY <1>10, <1>11

LEMMA LoadSettled ==
  ASSUME NEW c, Settled(c), Newest(c), c.head = cd.head, c.disc = cd.disc
  PROVE  /\ Settled(LoadNextSector(c)) /\ Newest(LoadNextSector(c))
         /\ LoadNextSector(c).reads = c.reads /\ LoadNextSector(c).disc = c.disc
<1>1. PICK p, m, d : /\ p = [c EXCEPT !.head = c.head + 1]
                     /\ m = [p EXCEPT !.fifo = <<>>, !.ready = FALSE, !.armed = FALSE]
                     /\ d = LoadNextSector(c)
  OBVIOUS
<1>2. /\ Only({"head"}, c, p) /\ p.head = c.head + 1
      /\ Only({"head", "fifo", "ready", "armed"}, c, m) /\ m.head = c.head + 1 /\ m.fifo = <<>>
  BY <1>1 DEF Settled, Only, IsCd, CdFields
<1>3. Only({"head", "fifo", "ready", "armed", "reading", "moved"}, c, p)
      /\ p.fifo = c.fifo
  BY <1>2 DEF Only, CdFields
<1>4. CASE PastEnd
  <2>1. d = [m EXCEPT !.reading = FALSE, !.moved = FALSE]
    BY <1>1, <1>4 DEF LoadNextSector
  <2>2. /\ Only({"head", "fifo", "ready", "armed", "reading", "moved"}, c, d)
        /\ d.head = c.head + 1 /\ d.fifo = <<>>
    BY <1>2, <2>1 DEF Only, IsCd, CdFields
  <2>3. ~(c.head < Len(c.disc))
    <3>1. Len(c.disc) \in Nat /\ c.head \in Nat
      BY DiscAssumption, LenProperties DEF Settled, Drive
    <3> QED
      BY <1>4, <3>1 DEF PastEnd
  <2>4. Settled(d) /\ Newest(d)
    BY <2>2, <2>3, PassedSettled
  <2> QED
    BY <1>1, <2>2, <2>4 DEF Only, CdFields
<1>5. CASE ~PastEnd /\ Kind = "audio"
  <2>1. d = m
    BY <1>1, <1>5 DEF LoadNextSector
  <2>2. /\ Only({"head", "fifo", "ready", "armed", "reading", "moved"}, c, d)
        /\ d.head = c.head + 1 /\ d.fifo = <<>>
    BY <1>2, <2>1 DEF Only
  <2>3. c.disc[c.head + 1] # "data"
    BY <1>5 DEF Kind
  <2>4. Settled(d) /\ Newest(d)
    BY <2>2, <2>3, PassedSettled
  <2> QED
    BY <1>1, <2>2, <2>4 DEF Only, CdFields
<1>6. CASE ~PastEnd /\ Kind # "audio" /\ Tells
  <2>1. PICK q : q = PushSector(p, c.head)
    OBVIOUS
  <2>2. d = [q EXCEPT !.news = TRUE]
    BY <1>1, <1>6, <2>1 DEF LoadNextSector
  <2>3. IsCd(q)
    BY <1>2, <2>1 DEF PushSector, Only, IsCd, CdFields
  <2>4. Only({"news"}, q, d)
    BY <2>2, <2>3 DEF Only, IsCd, CdFields
  <2>5. Settled(d) /\ Newest(d) /\ Only({"fifo", "ring", "ready", "head", "news"}, c, d)
    BY <1>2, <2>1, <2>4, StoredSettled
  <2> QED
    BY <1>1, <2>5 DEF Only, CdFields
<1>7. CASE ~PastEnd /\ Kind # "audio" /\ ~Tells
  <2>1. d = p
    BY <1>1, <1>7 DEF LoadNextSector
  <2>2. c.disc[c.head + 1] # "data"
    BY <1>7 DEF Tells, Kind
  <2>3. Settled(d) /\ Newest(d)
    BY <1>2, <1>3, <2>1, <2>2, PassedSettled
  <2> QED
    BY <1>1, <1>3, <2>1, <2>3 DEF Only, CdFields
<1> QED
  BY <1>4, <1>5, <1>6, <1>7


LEMMA LandedSettled ==
  ASSUME Settled(cd), cd.reading, NEW e \in cd.pending, e.due < 0
  PROVE  /\ Settled(Landed(e)) /\ Newest(Landed(e))
         /\ Landed(e).reads = cd.reads /\ Landed(e).disc = cd.disc
<1>1. PICK c, a, b, m, x, next, due :
        /\ c = Without(e)
        /\ a = LoadNextSector(c)
        /\ b = IF cd.irq # None /\ Tells THEN [a EXCEPT !.deferred = TRUE] ELSE a
        /\ m = [b EXCEPT !.moved = FALSE]
        /\ x = Event("Read", DataReady, FALSE)
        /\ next = e.due + Delay["sector"]
        /\ due = IF next > 0 THEN next ELSE Delay["sector"]
  OBVIOUS
<1>2. Landed(e) = IF ~a.reading THEN b ELSE Insert(m, x, due)
  BY <1>1 DEF Landed
<1>3. Settled(c) /\ Filed(e) /\ Newest(c) /\ Only({"pending"}, cd, c)
  <2>1. Settled(c) /\ Filed(e) /\ Only({"pending"}, cd, c)
    BY <1>1, WithoutSettled
  <2> QED
    BY <2>1 DEF Settled, Only, CdFields
<1>4. c.head = cd.head /\ c.disc = cd.disc /\ c.reads = cd.reads
  BY <1>3 DEF Only, CdFields
<1>5. Settled(a) /\ Newest(a) /\ a.reads = cd.reads /\ a.disc = cd.disc
  BY <1>1, <1>3, <1>4, LoadSettled
<1>6. Only(Loose, a, b)
  BY <1>1, <1>5 DEF Settled, Only, IsCd, CdFields, Loose
<1>7. Settled(b) /\ Only(Loose, b, m)
  BY <1>1, <1>5, <1>6, LooseSettled DEF Settled, Only, IsCd, CdFields, Loose
<1>8. Settled(m)
  BY <1>7, LooseSettled
<1>9. ASSUME NEW d, Only(Loose, a, d) \/ Only(Loose \cup {"pending"}, a, d)
      PROVE  Newest(d) /\ d.reads = a.reads /\ d.disc = a.disc
  <2>1. /\ d.ring = a.ring /\ d.fifo = a.fifo /\ d.head = a.head /\ d.disc = a.disc
        /\ d.reads = a.reads
    BY <1>9 DEF Only, CdFields, Loose
  <2> QED
    BY <1>5, <2>1 DEF Newest, NoneSince
<1>10. CASE ~a.reading
  BY <1>2, <1>5, <1>6, <1>7, <1>9, <1>10
<1>11. CASE a.reading
  <2>1. due \in -MaxLate..NoTime
    <3>1. Delay["sector"] \in 1..Long
      BY Delays DEF DelayNames
    <3>2. e.due \in Int
      BY <1>3, Sizes DEF Filed
    <3> QED
      BY <1>1, <3>1, <3>2, Sizes
  <2>2. /\ DOMAIN x = EventFields /\ x.irq \in IrqTypes
        /\ x.then \in Followups /\ x.then.delay <= Soon
    BY <1>1, NewFiled, Kinds
  <2>3. PICK d : d = Insert(m, x, due)
    OBVIOUS
  <2>4. Only({"pending"}, m, d) /\ Queued(d.pending)
    BY <1>8, <2>1, <2>2, <2>3, InsertQueued DEF Settled
  <2>5. Settled(d)
    BY <1>8, <2>4, OnlyQueue
  <2>6. Only(Loose \cup {"pending"}, a, d)
    BY <1>6, <1>7, <2>4 DEF Only
  <2> QED
    BY <1>2, <1>5, <1>9, <1>11, <2>3, <2>5, <2>6
<1> QED
  BY <1>10, <1>11

\* What the INT1 says of the FIFO.
Announces(c) == c.ring = <<>> /\ Newest(c)

\* A round of the tick keeps the invariant, and an INT1 announces the newest sector.
LEMMA RoundSettled ==
  ASSUME Good(cd), Settled(cd), NEW e \in cd.pending,
         \/ HoldBack(e) \/ WaitForSector(e) \/ DropStale(e) \/ KeepHolding(e)
         \/ DeliverResponse(e) \/ DeliverHeldInt1(e) \/ ReadSector(e)
  PROVE  /\ Settled(cd')
         /\ Int1 => Announces(cd') /\ cd'.reads = cd.reads /\ cd'.disc = cd.disc
<1> DEFINE Goal == /\ Settled(cd')
                   /\ Int1 => Announces(cd') /\ cd'.reads = cd.reads /\ cd'.disc = cd.disc
<1>1. PICK c : c = Without(e)
  OBVIOUS
<1>2. Settled(c) /\ Only({"pending"}, cd, c) /\ Filed(e) /\ EventOK(e)
  BY <1>1, WithoutSettled DEF Good, Fine
<1>3. /\ c.irq = cd.irq /\ c.reads = cd.reads /\ c.disc = cd.disc /\ c.reading = cd.reading
  BY <1>2 DEF Only, CdFields
<1>4. CASE HoldBack(e)
  <2>1. cd.irq # None
    BY <1>4 DEF HoldBack
  <2> QED
    BY <1>4, <2>1, HoldBackSettled DEF Int1
<1>5. CASE WaitForSector(e)
  <2>1. cd' = cd
    BY <1>5 DEF WaitForSector
  <2> QED
    BY <2>1 DEF Int1, None, DataReady
<1>6. CASE DropStale(e)
  <2>1. cd' = c
    BY <1>1, <1>6 DEF DropStale
  <2> QED
    BY <1>2, <1>3, <2>1 DEF Int1, None, DataReady
<1>7. CASE KeepHolding(e)
  <2>1. cd.irq # None
    BY <1>7 DEF KeepHolding
  <2> QED
    BY <1>7, <2>1, KeepHoldingSettled DEF Int1
<1>8. CASE DeliverResponse(e) \/ DeliverHeldInt1(e)
  <2>1. /\ cd' = Latched(c, e)
        /\ e.irq = DataReady => cd.reading
    BY <1>1, <1>8 DEF DeliverResponse, DeliverHeldInt1, Raise
  <2>2. Settled(cd') /\ (e.irq = DataReady => Announces(cd') /\ cd'.reads = cd.reads /\ cd'.disc = cd.disc)
    BY <1>2, <1>3, <2>1, LatchSettled DEF Settled, Announces
  <2>3. e.irq = cd'.irq
    <3>1. Fine(c)
      BY <1>1 DEF Good, Fine, Without, IsCd, CdFields
    <3>2. Follows(c, e, cd')
      BY <1>2, <2>1, <3>1, LatchFollows DEF Fine
    <3> QED
      BY <3>2 DEF Follows
  <2> QED
    BY <2>2, <2>3 DEF Int1
<1>9. CASE ReadSector(e)
  <2>1. PICK d : d = Landed(e)
    OBVIOUS
  <2>2. Settled(d) /\ Newest(d) /\ d.reads = cd.reads /\ d.disc = cd.disc
    BY <1>9, <2>1, LandedSettled DEF ReadSector, DueFront
  <2>3. CASE Tells /\ cd.irq = None
    <3>1. cd' = Latched(d, e) /\ e.irq = DataReady
      BY <1>9, <2>1, <2>3 DEF ReadSector, Raise, IsSector
    <3> QED
      BY <1>2, <2>2, <3>1, LatchSettled DEF Announces
  <2>4. CASE ~(Tells /\ cd.irq = None)
    <3>1. cd' = d
      BY <1>9, <2>1, <2>4 DEF ReadSector
    <3>2. Same(cd, d)
      BY <1>9, <2>1, LandedGood DEF ReadSector
    <3> QED
      BY <2>2, <3>1, <3>2 DEF Int1, Same, None, DataReady
  <2> QED
    BY <2>3, <2>4
<1> QED
  BY <1>4, <1>5, <1>6, <1>7, <1>8, <1>9


\* The rest of the state.
CpuOK ==
  /\ ticking \in BOOLEAN /\ stalled \in BOOLEAN
  /\ cpu \in [istat : BOOLEAN, written : 0..Len(Script), told : BOOLEAN]

Tidy == Settled(cd) /\ CpuOK

LEMMA RaiseTyped ==
  ASSUME CpuOK, cd.mask \in BOOLEAN, NEW c, NEW e, Raise(c, e)
  PROVE  CpuOK'
<1>1. ticking' = FALSE /\ stalled' = stalled
      /\ cpu' = [cpu EXCEPT !.istat = cpu.istat \/ cd.mask, !.told = cd.mask]
  BY DEF Raise
<1>2. cpu.istat \/ cd.mask \in BOOLEAN
  BY DEF CpuOK
<1>3. cpu' \in [istat : BOOLEAN, written : 0..Len(Script), told : BOOLEAN]
  BY <1>1, <1>2 DEF CpuOK
<1> QED
  BY <1>1, <1>3 DEF CpuOK

LEMMA RoundTyped ==
  ASSUME CpuOK, cd.mask \in BOOLEAN, NEW e \in cd.pending,
         \/ HoldBack(e) \/ WaitForSector(e) \/ DropStale(e) \/ KeepHolding(e)
         \/ DeliverResponse(e) \/ DeliverHeldInt1(e) \/ ReadSector(e)
  PROVE  CpuOK'
<1>1. CASE HoldBack(e) \/ WaitForSector(e) \/ DropStale(e) \/ KeepHolding(e)
  BY <1>1 DEF HoldBack, WaitForSector, DropStale, KeepHolding, CpuOK
<1>2. CASE DeliverResponse(e) \/ DeliverHeldInt1(e)
  <2>1. Raise(Without(e), e)
    BY <1>2 DEF DeliverResponse, DeliverHeldInt1
  <2> QED
    BY <2>1, RaiseTyped
<1>3. CASE ReadSector(e)
  <2>1. CASE Tells /\ cd.irq = None
    <3>1. Raise(Landed(e), e)
      BY <1>3, <2>1 DEF ReadSector
    <3> QED
      BY <3>1, RaiseTyped
  <2>2. CASE ~(Tells /\ cd.irq = None)
    <3>1. UNCHANGED <<ticking, stalled, cpu>>
      BY <1>3, <2>2 DEF ReadSector
    <3> QED
      BY <3>1 DEF CpuOK
  <2> QED
    BY <2>1, <2>2
<1> QED
  BY <1>1, <1>2, <1>3

\* Every step keeps the invariant, and no step but a round of the tick latches an INT1.
LEMMA NextTidy ==
  ASSUME Inv, Tidy, [Next]_vars
  PROVE  /\ Tidy'
         /\ Int1 => Announces(cd') /\ cd'.reads = cd.reads /\ cd'.disc = cd.disc
<1>1. /\ Good(cd) /\ Settled(cd) /\ CpuOK /\ cd.mask \in BOOLEAN /\ IsCd(cd)
  BY DEF Inv, Tidy, Settled, Drive
<1>2. Int1 => cd'.irq # None /\ cd'.irq # cd.irq
  BY DEF Int1, None, DataReady
<1>3. ASSUME NEW cmd \in Commands, WriteCommand(cmd)
      PROVE  Tidy' /\ ~Int1
  <2>1. Settled(cd') /\ Same(cd, cd')
    BY <1>1, <1>3, ResultSettled, ResultGood DEF WriteCommand
  <2>2. CpuOK'
    <3>1. /\ cpu' = [cpu EXCEPT !.written = cpu.written + 1] /\ cpu.written < Len(Script)
          /\ UNCHANGED <<ticking, stalled>>
      BY <1>3 DEF WriteCommand
    <3>2. Len(Script) \in Nat
      BY ScriptAssumption, LenProperties
    <3>3. cpu.written + 1 \in 0..Len(Script)
      BY <1>1, <3>1, <3>2 DEF CpuOK
    <3> QED
      BY <1>1, <3>1, <3>3 DEF CpuOK
  <2> QED
    BY <1>2, <2>1, <2>2 DEF Tidy, Same
<1>4. ASSUME NEW enabled \in BOOLEAN, WriteInterruptEnable(enabled)
      PROVE  Tidy' /\ ~Int1
  <2>1. Only({"mask"}, cd, cd') /\ cd'.mask \in BOOLEAN
    BY <1>1, <1>4 DEF WriteInterruptEnable, Only, IsCd, CdFields
  <2>2. Drive(cd') /\ Only(Driven, cd, cd') /\ cd'.irq = cd.irq
    BY <1>1, <2>1 DEF Settled, Only, CdFields, Drive, Driven, Loose
  <2>3. CpuOK'
    BY <1>1, <1>4 DEF WriteInterruptEnable, CpuOK
  <2> QED
    BY <1>1, <1>2, <2>2, <2>3, DrivenSettled DEF Tidy
<1>5. CASE AcknowledgeInterrupt
  <2>1. Settled(cd')
    BY <1>1, <1>5, AcknowledgeSettled
  <2>2. CpuOK' /\ cd'.irq = None
    BY <1>1, <1>5 DEF AcknowledgeInterrupt, CpuOK, Insert, IsCd, CdFields
  <2> QED
    BY <1>2, <2>1, <2>2 DEF Tidy
<1>6. CASE ClearIStat \/ ImageStalls \/ ImageSupplies \/ EndTick \/ UNCHANGED vars
  <2>1. cd' = cd /\ CpuOK'
    BY <1>1, <1>6 DEF ClearIStat, ImageStalls, ImageSupplies, EndTick, vars, CpuOK
  <2> QED
    BY <1>1, <1>2, <2>1 DEF Tidy
<1>7. CASE RequestData
  <2>1. Only(Loose, cd, cd') /\ CpuOK' /\ cd'.irq = cd.irq
    BY <1>1, <1>7 DEF RequestData, Only, IsCd, CdFields, Loose, CpuOK
  <2> QED
    BY <1>1, <1>2, <2>1, LooseSettled DEF Tidy
<1>8. CASE ReadDataPort \/ \E n \in 1..Parts : DmaBurst(n)
  <2>1. Settled(cd')
    BY <1>1, <1>8, DataPortSettled, BurstSettled
  <2>2. CpuOK'
    BY <1>1, <1>8 DEF ReadDataPort, DmaBurst, CpuOK
  <2>3. cd'.irq = cd.irq
    <3>1. CASE ReadDataPort
      BY <1>1, <3>1 DEF ReadDataPort, NextSector, IsCd, CdFields
    <3>2. ASSUME NEW n \in 1..Parts, DmaBurst(n)
          PROVE  cd'.irq = cd.irq
      BY <1>1, <3>2 DEF DmaBurst, NextSector, IsCd, CdFields
    <3> QED
      BY <1>8, <3>1, <3>2
  <2> QED
    BY <1>2, <2>1, <2>2, <2>3 DEF Tidy
<1>9. CASE PumpCdda
  <2>1. Settled(cd')
    BY <1>1, <1>9, PumpSettled
  <2>2. CpuOK' /\ cd'.irq = cd.irq
    BY <1>1, <1>9 DEF PumpCdda, HaltCdda, CpuOK, IsCd, CdFields
  <2> QED
    BY <1>2, <2>1, <2>2 DEF Tidy
<1>10. CASE Advance
  <2>1. Settled(cd')
    BY <1>1, <1>10, AdvanceSettled
  <2>2. CpuOK' /\ cd'.irq = cd.irq
    BY <1>1, <1>10 DEF Advance, CpuOK, IsCd, CdFields
  <2> QED
    BY <1>2, <2>1, <2>2 DEF Tidy
<1>11. CASE TickDrive
  <2>1. Settled(cd')
    BY <1>1, <1>11, TickDriveSettled
  <2>2. CpuOK'
    BY <1>1, <1>11 DEF TickDrive, CpuOK
  <2>3. Same(cd, cd')
    BY <1>1, <1>11, DriveGood DEF TickDrive
  <2> QED
    BY <1>2, <2>1, <2>2, <2>3 DEF Tidy, Same
<1>12. ASSUME NEW e \in cd.pending,
              \/ HoldBack(e) \/ WaitForSector(e) \/ DropStale(e) \/ KeepHolding(e)
              \/ DeliverResponse(e) \/ DeliverHeldInt1(e) \/ ReadSector(e)
       PROVE  /\ Tidy'
              /\ Int1 => Announces(cd') /\ cd'.reads = cd.reads /\ cd'.disc = cd.disc
  BY <1>1, <1>12, RoundSettled, RoundTyped DEF Tidy
<1> QED
  BY <1>3, <1>4, <1>5, <1>6, <1>7, <1>8, <1>9, <1>10, <1>11, <1>12 DEF Next, TickRound

LEMMA InitTidy == Init => Tidy
<1> SUFFICES ASSUME Init PROVE Tidy
  OBVIOUS
<1>1. /\ IsCd(cd) /\ cd.pending = {} /\ cd.fifo = <<>> /\ cd.ring = <<>>
      /\ cd.disc \in Discs /\ cd.irq = None /\ cd.mask = TRUE
      /\ cd.state \in {"stopped", "standby"}
      /\ cd.lid = NoTime /\ cd.brake = NoTime /\ cd.seek = NoTime
      /\ cd.head = 0 /\ cd.setloc = Unset /\ cd.reads = 0
  BY DEF Init, IsCd, CdFields
<1>2. Drive(cd)
  <2>1. cd.irq \in IrqTypes \cup {None} /\ cd.setloc \in Nat \cup {Unset} /\ cd.mask \in BOOLEAN
    BY <1>1
  <2>2. cd.head \in Nat /\ cd.reads \in Nat
    BY <1>1
  <2> QED
    BY <1>1, <2>1, <2>2, Zenon DEF Drive
<1>3. Queued(cd.pending)
  BY <1>1 DEF Queued, Ranked
<1>4. CpuOK
  <2>1. Len(Script) \in Nat
    BY ScriptAssumption, LenProperties
  <2>2. /\ ticking = FALSE /\ stalled = FALSE
        /\ cpu = [istat |-> FALSE, written |-> 0, told |-> FALSE]
    BY DEF Init
  <2>3. 0 \in 0..Len(Script)
    BY <2>1
  <2> QED
    BY <2>2, <2>3 DEF CpuOK
<1> QED
  BY <1>1, <1>2, <1>3, <1>4, EmptySettled DEF Tidy

LEMMA Tidiness == Spec => [](Inv /\ Tidy)
<1>1. Spec => []Inv
  BY Invariance
<1>2. Init => Tidy
  BY InitTidy
<1>3. Inv /\ Tidy /\ [Next]_vars => Tidy'
  BY NextTidy
<1> QED
  BY <1>1, <1>2, <1>3, PTL DEF Spec

\* The queue's events, the drive's deadlines and the buffers stay within their
\* types: a deadline is never further than NoTime, and the ring never holds more than
\* its buffers, however commands, late ticks and stalls follow each other.
THEOREM TypeCorrect == Spec => []TypeOK
<1>1. Tidy => TypeOK
  <2> SUFFICES ASSUME Tidy PROVE TypeOK
    OBVIOUS
  <2>1. /\ Settled(cd) /\ CpuOK /\ Drive(cd) /\ Ordered(cd)
        /\ \A e \in cd.pending : Filed(e)
    BY DEF Tidy, Settled, Queued
  <2>2. {cd.lid, cd.brake, cd.seek} \subseteq -MaxLate..NoTime
    BY <2>1, Sizes DEF Drive
  <2>3. Len(cd.ring) < Buffers /\ Len(cd.fifo) <= Parts
    <3>1. Len(<<>>) = 0 /\ 0 <= Parts
      BY EmptySeq, BufferAssumption
    <3> QED
      BY <2>1, <3>1 DEF Ordered, OfRead
  <2> QED
    BY <2>1, <2>2, <2>3 DEF TypeOK, CpuOK, Drive, Filed
<1> QED
  BY <1>1, Tidiness, PTL

\* No command leaves an old read's sector for the new read's interrupt, and what is
\* buffered is in the disc's order.
THEOREM BufferOfOneStream == Spec => []BufferIsOneStream
<1>1. Tidy => BufferIsOneStream
  <2> SUFFICES ASSUME Ordered(cd) PROVE BufferIsOneStream
    BY DEF Tidy, Settled
  <2> DEFINE S   == [at : Nat, read : Nat]
             all == (IF cd.fifo = <<>> THEN <<>> ELSE <<cd.fifo>>) \o cd.ring
  <2>1. /\ cd.ring \in Seq(Seq(S))
        /\ cd.fifo = <<>> \/ OfRead(cd.fifo, cd)
        /\ \A i \in 1..Len(cd.ring) :
             /\ OfRead(cd.ring[i], cd)
             /\ cd.fifo # <<>> => cd.fifo[1].at < cd.ring[i][1].at
             /\ \A j \in 1..Len(cd.ring) : i < j => cd.ring[i][1].at < cd.ring[j][1].at
    BY DEF Ordered
  <2>2. /\ all \in Seq(Seq(S))
        /\ \A i \in 1..Len(all) : OfRead(all[i], cd)
        /\ \A i, j \in 1..Len(all) : i < j => all[i][1].at < all[j][1].at
    <3>1. CASE cd.fifo = <<>>
      <4>1. all = <<>> \o cd.ring
        BY <3>1
      <4> HIDE DEF S, all
      <4>2. all = cd.ring
        BY <2>1, <4>1, ConcatEmptySeq
      <4> QED
        BY <2>1, <4>2
    <3>2. CASE cd.fifo # <<>>
      <4>1. all = <<cd.fifo>> \o cd.ring
        BY <3>2
      <4>2. cd.fifo \in Seq(S)
        BY <2>1, <3>2 DEF OfRead
      <4> HIDE DEF S, all
      <4>3. /\ all \in Seq(Seq(S)) /\ Len(all) = Len(cd.ring) + 1
            /\ all[1] = cd.fifo
            /\ \A i \in 2..Len(all) : all[i] = cd.ring[i - 1] /\ i - 1 \in 1..Len(cd.ring)
            /\ Len(cd.ring) \in Nat
        BY <2>1, <4>1, <4>2, ConcatProperties, LenProperties
      <4>4. \A i \in 1..Len(all) : i = 1 \/ i \in 2..Len(all)
        BY <4>3
      <4>5. \A i \in 1..Len(all) : OfRead(all[i], cd)
        BY <2>1, <3>2, <4>3, <4>4
      <4>6. ASSUME NEW i \in 1..Len(all), NEW j \in 1..Len(all), i < j
            PROVE  all[i][1].at < all[j][1].at
        <5>1. j \in 2..Len(all)
          BY <4>3, <4>6
        <5>2. CASE i = 1
          BY <2>1, <3>2, <4>3, <5>1, <5>2
        <5>3. CASE i \in 2..Len(all)
          <6>1. i - 1 < j - 1
            BY <4>6, <4>3, <5>1, <5>3
          <6> QED
            BY <2>1, <4>3, <5>1, <5>3, <6>1
        <5> QED
          BY <4>4, <5>2, <5>3
      <4> QED
        BY <4>3, <4>5, <4>6
    <3> QED
      BY <3>1, <3>2
  <2> HIDE DEF all
  <2>3. DOMAIN all = 1..Len(all)
    BY <2>2, LenProperties
  <2>4. ASSUME NEW i \in DOMAIN all, NEW part \in DOMAIN all[i]
        PROVE  all[i][part] = all[i][1] /\ all[i][1].read = cd.reads
    <3>1. OfRead(all[i], cd)
      BY <2>2, <2>3
    <3>2. DOMAIN all[i] = 1..Len(all[i])
      BY <3>1, LenProperties DEF OfRead
    <3> QED
      BY <3>1, <3>2 DEF OfRead
  <2> QED
    BY <2>2, <2>3, <2>4 DEF BufferIsOneStream, all
<1> QED
  BY <1>1, Tidiness, PTL

\* Every INT1, whether it is the sector's own or one that was held under another
\* interrupt, points software at the newest data sector of the read, with no backlog.
THEOREM AnnouncedCurrent == Spec => AnnouncedSectorIsCurrent
<1> DEFINE Current == Int1 => /\ cd'.ring = <<>>
                              /\ cd'.fifo # <<>> =>
                                   /\ cd'.fifo[1].read = cd.reads
                                   /\ \A i \in cd'.fifo[1].at + 1..cd'.head - 1 :
                                        i < Len(cd.disc) => cd.disc[i + 1] # "data"
<1>1. ASSUME Inv, Tidy, [Next]_vars PROVE Current
  <2> SUFFICES ASSUME Int1 PROVE Current
    OBVIOUS
  <2>1. /\ Settled(cd') /\ Announces(cd') /\ cd'.reads = cd.reads /\ cd'.disc = cd.disc
    BY <1>1, NextTidy DEF Tidy
  <2>2. cd'.fifo # <<>> => OfRead(cd'.fifo, cd') /\ NoneSince(cd'.fifo, cd')
    BY <2>1 DEF Announces, Newest, Settled, Ordered
  <2> QED
    BY <2>1, <2>2 DEF Announces, OfRead, NoneSince
<1>2. Spec => [][Current]_vars
  BY <1>1, Tidiness, PTL DEF Spec
<1> QED
  BY <1>2 DEF AnnouncedSectorIsCurrent

=============================================================================
