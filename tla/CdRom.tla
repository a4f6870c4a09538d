------------------------------- MODULE CdRom -------------------------------
(***************************************************************************)
(* The CD-ROM controller of emulator-core/src/cdrom.rs and cdrom/idle.rs:  *)
(* the queue of pending responses and sector deliveries, the one latched   *)
(* interrupt, the sector ring, and the drive's motor, lid and CD-DA head,  *)
(* driven by the commands software writes and by the bus's tick.           *)
(*                                                                         *)
(* `cd` is the struct CdRom; the operators named after its methods take    *)
(* and return such a record.  A time is the clocks still to go to it, so a *)
(* deadline is in the past when it is negative.  One call of the tick is a *)
(* TickDrive and one step per round of its loop; nothing else happens      *)
(* before the loop ends.  Response bytes, volume and the XA decoder are    *)
(* left out; a command that only answers and sets registers is "Query".    *)
(***************************************************************************)
EXTENDS Integers, Sequences

CONSTANTS
  Discs,             \* the discs the machine can be started with, as the kinds
                     \* of their sectors
  Buffers,           \* SECTOR_BUFFERS
  Parts,             \* reads that drain one sector from the data FIFO
  Delay,             \* the delays of cdrom/timing.rs by name
  MaintenanceEvery,  \* a GetStat in so many is answered late
  Script,            \* bound of the model: the n-th command software writes is
                     \* one of Script[n]
  Targets,           \* the sectors SetLoc aims at
  MaxLate            \* bound of the model: how late a tick, or a sector of an
                     \* image that is still being fetched, can be

DelayNames ==
  {"ack", "ackNoDisc", "maintenance", "cdda", "pauseAck", "reschedule",
   "deferred", "noDisc", "getid", "reset", "stop", "spinDown", "spinUp",
   "restart", "pause", "pauseRead", "toc", "session", "firstSector", "sector",
   "travel", "settle", "lid", "rescan", "spin", "lidSeek", "lidPoll"}

Commands ==
  {"GetStat", "SetLoc", "SetMode", "Read", "MotorOn", "Stop", "Pause", "Init",
   "Reset", "Seek", "Play", "GetID", "ReadTOC", "SetSession", "Query"}

NoTime == 1000000

\* disc_present is false.
NoDisc == <<>>

ASSUME DelayAssumption ==
  Delay \in [DelayNames -> 1..(NoTime \div 10)]
ASSUME BufferAssumption ==
  /\ Buffers \in Nat \ {0, 1} /\ Parts \in Nat \ {0}
  /\ MaxLate \in Nat /\ MaintenanceEvery \in Nat \ {0}
ASSUME ScriptAssumption == Script \in Seq(SUBSET Commands)
ASSUME DiscAssumption ==
  /\ Targets \subseteq Nat
  /\ \A d \in Discs : d \in Seq({"data", "xa", "audio"})

\* IrqType; None is an interrupt flag of zero.
None == 0
DataReady == 1
Complete == 2
Acknowledge == 3
Error == 5
IrqTypes == {DataReady, Complete, Acknowledge, Error}

\* PendingEvent::command of the INT1 for a sector that landed earlier.
Deferred == "deferred"

\* setloc_msf before the first SetLoc is 0:00:00, which reads as sector 0.
Unset == -1

NoFollowup == [cmd |-> "none", delay |-> 0, irq |-> None]

VARIABLES
  cd,       \* the controller; its `reads` and `news` are histories: how many
            \* reads were started, and whether a sector has landed in this read
            \* since its last INT1
  ticking,  \* the tick's loop is running
  stalled,  \* the image cannot supply the sector under the head yet
  cpu       \* istat: the CD-ROM bit of I_STAT; written: commands so far;
            \* told: I_STAT was raised since the interrupt was latched

vars == <<cd, ticking, stalled, cpu>>

Init ==
  /\ \E disc \in Discs :
       cd = [disc |-> disc, pending |-> {}, irq |-> None, mask |-> TRUE,
             busy |-> FALSE, deferred |-> FALSE, polls |-> 0,
             reading |-> FALSE, moved |-> FALSE, head |-> 0,
             setloc |-> Unset, aimed |-> FALSE, xa |-> FALSE,
             fifo |-> <<>>, ring |-> <<>>, ready |-> FALSE, armed |-> FALSE,
             motor |-> disc # NoDisc, brake |-> NoTime,
             state |-> IF disc = NoDisc THEN "stopped" ELSE "standby",
             lid |-> NoTime, boot |-> FALSE,
             seek |-> NoTime, playing |-> FALSE, onAudio |-> FALSE,
             reads |-> 0, news |-> FALSE]
  /\ ticking = FALSE
  /\ stalled = FALSE
  /\ cpu = [istat |-> FALSE, written |-> 0, told |-> FALSE]

-----------------------------------------------------------------------------
\* The queue of pending events: sorted by deadline, and among equal deadlines
\* by insertion, which `rank` counts.

Event(cmd, irq, first) ==
  [cmd |-> cmd, irq |-> irq, due |-> 0, rank |-> 0, then |-> NoFollowup, first |-> first]

Before(e, f) == e.due < f.due \/ (e.due = f.due /\ e.rank < f.rank)

IsFront(c, e) == e \in c.pending /\ \A f \in c.pending \ {e} : Before(e, f)

\* insert_pending_event: behind the events of the same deadline.
RankBehind(c, due) ==
  LET ties == {f.rank : f \in {g \in c.pending : g.due = due}}
  IN  CHOOSE r \in {0} \cup {t + 1 : t \in ties} : \A t \in ties : t < r

Insert(c, e, due) ==
  [c EXCEPT !.pending = @ \cup {[e EXCEPT !.due = due, !.rank = RankBehind(c, due)]}]

\* The end of the first response's delay, for a command written now.  `cd` is
\* the controller as it was when the command came, `c` what its handler has
\* made of it so far: cmd_issued_during_cdda is latched before the handler.
FirstResponseDelay ==
  (IF cd.disc = NoDisc THEN Delay["ackNoDisc"] ELSE Delay["ack"])
    + (IF cd.playing THEN Delay["cdda"] ELSE 0)

ScheduleFirst(c, cmd, irq, extra) ==
  Insert(c, Event(cmd, irq, TRUE), FirstResponseDelay + extra)

Respond(c, cmd) == ScheduleFirst(c, cmd, Acknowledge, 0)

Refuse(c, cmd) == ScheduleFirst(c, cmd, Error, 0)

\* chain_followup: behind the last acknowledge that carries none yet; without
\* one, straight into the queue.
ChainFollowup(c, cmd, irq, delay) ==
  LET free == {e \in c.pending : e.irq = Acknowledge /\ e.then = NoFollowup}
      last == {e \in free : \A f \in free \ {e} : Before(f, e)}
      ack  == CHOOSE e \in last : TRUE
  IN  IF last = {}
      THEN Insert(c, Event(cmd, irq, FALSE), delay)
      ELSE [c EXCEPT !.pending =
              (@ \ {ack}) \cup {[ack EXCEPT !.then = [cmd |-> cmd, delay |-> delay, irq |-> irq]]}]

\* drop_pending_command_irq: the responses of one command and kind leave the
\* queue, wherever they hang.
DropPending(c, cmd, irq) ==
  [c EXCEPT !.pending =
     {IF e.then.cmd = cmd /\ e.then.irq = irq THEN [e EXCEPT !.then = NoFollowup] ELSE e :
        e \in {f \in c.pending : ~(f.cmd = cmd /\ f.irq = irq)}}]

\* cancel_pending_data_ready_events: no sector of the old stream comes any more.
CancelSectors(c) ==
  [c EXCEPT !.deferred = FALSE, !.news = FALSE,
            !.pending =
     {IF e.then.irq = DataReady THEN [e EXCEPT !.then = NoFollowup] ELSE e :
        e \in {f \in c.pending : f.irq # DataReady}}]

\* clear_data_fifo.
ClearDataFifo(c) ==
  [c EXCEPT !.fifo = <<>>, !.ring = <<>>, !.ready = FALSE, !.armed = FALSE]

\* halt_cdda: neither the track nor a seek on its way to one goes on.
HaltCdda(c) == [c EXCEPT !.playing = FALSE, !.seek = NoTime]

StopReadingKeepsEvents(c) == [c EXCEPT !.reading = FALSE, !.deferred = FALSE]

StopReading(c) == [CancelSectors(c) EXCEPT !.reading = FALSE]

\* update_spindown.
UpdateSpindown(c) == IF c.brake <= 0 THEN [c EXCEPT !.brake = NoTime] ELSE c

\* data_head_penalty: what the head costs before a data operation, and what it
\* does to the drive.  A Stop still spinning down is interrupted: its second
\* response never comes.
HeadPenalty(c) ==
  IF c.brake # NoTime
  THEN (IF c.brake > 0 THEN c.brake ELSE 0) + Delay["spinUp"] + Delay["restart"]
  ELSE IF ~c.motor THEN Delay["spinUp"]
  ELSE IF c.onAudio THEN Delay["settle"] ELSE 0

HeadOnData(c) ==
  [(IF c.brake # NoTime THEN DropPending(c, "Stop", Complete) ELSE c)
     EXCEPT !.brake = NoTime, !.motor = TRUE, !.onAudio = FALSE]

-----------------------------------------------------------------------------
\* The commands' handlers.

GetStat(c) ==
  LET polls == (c.polls + 1) % MaintenanceEvery
  IN  ScheduleFirst([c EXCEPT !.polls = polls], "GetStat", Acknowledge,
                    IF c.disc # NoDisc /\ polls = 0 THEN Delay["maintenance"] ELSE 0)

SetLoc(c, target) ==
  Respond([c EXCEPT !.setloc = target, !.aimed = TRUE], "SetLoc")

Location(c) == IF c.setloc = Unset THEN 0 ELSE c.setloc

SetMode(c, xa) == Respond([c EXCEPT !.xa = xa], "SetMode")

ReadKeepsBuffers(c) ==
  IF c.disc = NoDisc
  THEN ChainFollowup(Respond(c, "Read"), "Read", Error, Delay["noDisc"])
  ELSE LET begun == [HaltCdda(CancelSectors(c))
                       EXCEPT !.reading = TRUE, !.reads = @ + 1]
           onData == HeadOnData(Respond(begun, "Read"))
           seek   == IF c.aimed THEN Delay["travel"] ELSE 0
           placed == IF c.aimed \/ c.head = 0
                     THEN [onData EXCEPT !.head = Location(c), !.aimed = FALSE,
                                         !.moved = @ \/ c.aimed]
                     ELSE onData
       IN  ChainFollowup(placed, "Read", DataReady,
                         Delay["firstSector"] + HeadPenalty(begun) + seek)

\* ReadN and ReadS.  The first sector is chained to the acknowledge.
Read(c) ==
  IF c.disc = NoDisc
  THEN ChainFollowup(Respond(c, "Read"), "Read", Error, Delay["noDisc"])
  ELSE LET begun == [HaltCdda(ClearDataFifo(CancelSectors(c)))
                       EXCEPT !.reading = TRUE, !.reads = @ + 1]
           onData == HeadOnData(Respond(begun, "Read"))
           seek   == IF c.aimed THEN Delay["travel"] ELSE 0
           placed == IF c.aimed \/ c.head = 0
                     THEN [onData EXCEPT !.head = Location(c), !.aimed = FALSE,
                                         !.moved = @ \/ c.aimed]
                     ELSE onData
       IN  ChainFollowup(placed, "Read", DataReady,
                         Delay["firstSector"] + HeadPenalty(begun) + seek)

MotorOn(c) ==
  Respond([c EXCEPT !.motor = TRUE, !.brake = NoTime, !.state = "standby"], "MotorOn")

\* A spinning drive completes when it has spun down.
Stop(c) ==
  LET spinning == c.motor \/ c.brake # NoTime
      until    == IF c.brake # NoTime THEN c.brake ELSE Delay["spinDown"]
      halted   == [HaltCdda(StopReading(c))
                     EXCEPT !.motor = FALSE, !.state = "stopped", !.lid = NoTime,
                            !.boot = FALSE, !.moved = FALSE, !.onAudio = FALSE,
                            !.brake = IF spinning THEN until ELSE @]
      delay    == IF ~spinning THEN Delay["stop"]
                  ELSE IF until > FirstResponseDelay THEN until - FirstResponseDelay ELSE 0
  IN  ChainFollowup(Respond(halted, "Stop"), "Stop", Complete, delay)

\* A Pause is refused while the head travels to the first sector of a read.
Pause(c) ==
  LET extra == IF c.disc # NoDisc /\ ~cd.playing THEN Delay["pauseAck"] ELSE 0
      halted == [HaltCdda(StopReading(c)) EXCEPT !.moved = FALSE]
  IN  IF c.reading /\ c.moved
      THEN ScheduleFirst(c, "Pause", Error, extra)
      ELSE ChainFollowup(ScheduleFirst(halted, "Pause", Acknowledge, extra), "Pause", Complete,
                         IF c.reading THEN Delay["pauseRead"] ELSE Delay["pause"])

\* An Init answers once; the lid machine does the rest after the acknowledge.
InitDrive(c) ==
  Respond([HaltCdda(ClearDataFifo(StopReading(c)))
             EXCEPT !.moved = FALSE, !.brake = NoTime, !.onAudio = FALSE, !.motor = TRUE,
                    !.state = "rescan", !.lid = NoTime, !.boot = TRUE], "Init")

\* A Reset over a Reset whose acknowledge has gone out answers with the
\* completion alone.
Reset(c) ==
  LET Mine(e, irq) == e.cmd = "Reset" /\ e.irq = irq
      acking     == \E e \in c.pending : Mine(e, Acknowledge)
      completing == \E e \in c.pending : Mine(e, Complete) \/ Mine(e.then, Complete)
      dropped == DropPending(DropPending(c, "Reset", Acknowledge), "Reset", Complete)
      halted  == [HaltCdda(ClearDataFifo(StopReading(dropped)))
                    EXCEPT !.aimed = FALSE, !.moved = FALSE, !.xa = FALSE, !.motor = TRUE,
                           !.brake = NoTime, !.onAudio = FALSE, !.state = "standby",
                           !.lid = NoTime, !.boot = FALSE]
  IN  IF completing /\ ~acking
      THEN ScheduleFirst(halted, "Reset", Complete, 0)
      ELSE ChainFollowup(Respond(halted, "Reset"), "Reset", Complete, Delay["reset"])

\* SeekL and SeekP.
Seek(c) ==
  LET halted == [HaltCdda(StopReading(c)) EXCEPT !.moved = FALSE]
      placed == [HeadOnData(Respond(halted, "Seek")) EXCEPT !.head = Location(c), !.aimed = FALSE]
  IN  ChainFollowup(placed, "Seek", Complete, Delay["travel"] + HeadPenalty(c))

\* The disc's tracks: where a run of one kind of sector starts.
Track(kind) == IF kind = "audio" THEN "audio" ELSE "data"
TrackStarts ==
  {i \in 0..Len(cd.disc) - 1 : i = 0 \/ Track(cd.disc[i]) # Track(cd.disc[i + 1])}

\* Where Play starts: at a track, at the head for track 0, and without a track at
\* the last SetLoc.
Starts(c) ==
  {[head |-> t, aimed |-> FALSE] : t \in TrackStarts}
    \cup {[head |-> c.head, aimed |-> c.aimed],
          [head |-> IF c.setloc # Unset THEN c.setloc ELSE c.head, aimed |-> FALSE]}

Play(c, start) ==
  IF c.disc = NoDisc THEN Refuse(c, "Play")
  ELSE LET settle == IF c.onAudio THEN 0 ELSE Delay["settle"]
       IN  Respond([ClearDataFifo(StopReading(c))
                      EXCEPT !.head = start.head, !.aimed = start.aimed,
                             !.motor = TRUE, !.playing = FALSE, !.brake = NoTime,
                             !.onAudio = TRUE, !.seek = Delay["travel"] + settle], "Play")

\* The commands with a second response and nothing else.
GetID(c) ==
  ChainFollowup(Respond(c, "GetID"), "GetID",
                IF c.disc = NoDisc THEN Error ELSE Complete, Delay["getid"])

ReadTOC(c) == ChainFollowup(Respond(c, "ReadTOC"), "ReadTOC", Complete, Delay["toc"])

SetSession(c) ==
  IF c.disc = NoDisc THEN Refuse(c, "SetSession")
  ELSE ChainFollowup(Respond(c, "SetSession"), "SetSession", Complete, Delay["session"])

\* GetTN, GetTD, GetParam, GetLoc, SetFilter, Mute and Test: one answer, and no
\* state that this module keeps.  Those that ask the disc may be refused.
Query(c, irq) == ScheduleFirst(c, "Query", irq, 0)

\* queue_command's part before the handler: a command replaces the second
\* response of a Pause.
Begin == DropPending([UpdateSpindown(cd) EXCEPT !.busy = TRUE], "Pause", Complete)

Result(cmd) ==
  CASE cmd = "GetStat"    -> {GetStat(Begin)}
    [] cmd = "SetLoc"     -> {SetLoc(Begin, t) : t \in Targets}
    [] cmd = "SetMode"    -> {SetMode(Begin, xa) : xa \in BOOLEAN}
    [] cmd = "Read"       -> {Read(Begin)}
    [] cmd = "MotorOn"    -> {MotorOn(Begin)}
    [] cmd = "Stop"       -> {Stop(Begin)}
    [] cmd = "Pause"      -> {Pause(Begin)}
    [] cmd = "Init"       -> {InitDrive(Begin)}
    [] cmd = "Reset"      -> {Reset(Begin)}
    [] cmd = "Seek"       -> {Seek(Begin)}
    [] cmd = "Play"       -> {Play(Begin, s) : s \in Starts(Begin)} \cup {Refuse(Begin, "Play")}
    [] cmd = "GetID"      -> {GetID(Begin)}
    [] cmd = "ReadTOC"    -> {ReadTOC(Begin)}
    [] cmd = "SetSession" -> {SetSession(Begin)}
    [] cmd = "Query"      -> {Query(Begin, irq) : irq \in {Acknowledge, Error}}

\* write8_at on the command port.
WriteCommand(cmd) ==
  /\ ~ticking
  /\ cpu.written < Len(Script) /\ cmd \in Script[cpu.written + 1]
  /\ cd' \in Result(cmd)
  /\ cpu' = [cpu EXCEPT !.written = @ + 1]
  /\ UNCHANGED <<ticking, stalled>>

-----------------------------------------------------------------------------
\* The CPU's other accesses.

\* The interrupt flag register: an acknowledge of every bit.  A held INT1 goes
\* out a little later.
AcknowledgeInterrupt ==
  /\ ~ticking
  /\ cd.irq # None
  /\ cd' = IF cd.deferred /\ cd.reading
           THEN Insert([cd EXCEPT !.irq = None, !.deferred = FALSE],
                       Event(Deferred, DataReady, FALSE), Delay["deferred"])
           ELSE [cd EXCEPT !.irq = None]
  /\ UNCHANGED <<ticking, stalled, cpu>>

WriteInterruptEnableSilently(enabled) ==
  /\ ~ticking
  /\ cd' = [cd EXCEPT !.mask = enabled]
  /\ UNCHANGED <<ticking, stalled, cpu>>

\* The interrupt enable register: enabling a latched interrupt signals it.
WriteInterruptEnable(enabled) ==
  /\ ~ticking
  /\ cd' = [cd EXCEPT !.mask = enabled]
  /\ cpu' = IF enabled /\ cd.irq # None
            THEN [cpu EXCEPT !.istat = TRUE, !.told = TRUE]
            ELSE cpu
  /\ UNCHANGED <<ticking, stalled>>

\* The CPU clears the CD-ROM bit of I_STAT.
ClearIStat ==
  /\ ~ticking
  /\ cpu.istat
  /\ cpu' = [cpu EXCEPT !.istat = FALSE]
  /\ UNCHANGED <<cd, ticking, stalled>>

\* The request register asks for the data.
RequestData ==
  /\ ~ticking
  /\ ~cd.armed
  /\ cd' = [cd EXCEPT !.armed = TRUE]
  /\ UNCHANGED <<ticking, stalled, cpu>>

\* The last byte of a sector is taken: advance_to_next_sector brings the oldest
\* of the ring.
NextSector(c) ==
  IF c.ring = <<>>
  THEN [c EXCEPT !.fifo = <<>>, !.armed = FALSE, !.ready = FALSE]
  ELSE [c EXCEPT !.fifo = Head(c.ring), !.ring = Tail(@), !.armed = FALSE, !.ready = TRUE]

\* pop_data_fifo_byte: the data port.
ReadDataPort ==
  /\ ~ticking
  /\ cd' = IF ~cd.armed THEN [cd EXCEPT !.ready = FALSE]
           ELSE IF Len(cd.fifo) > 1 THEN [cd EXCEPT !.fifo = Tail(@)] ELSE NextSector(cd)
  /\ UNCHANGED <<ticking, stalled, cpu>>

\* run_dma_cdrom: `n` reads in one burst, without the request latch, that may
\* run into the next sector.  (An empty FIFO completes the channel and nothing
\* is read.)
DmaBurst(n) ==
  /\ ~ticking
  /\ cd.fifo # <<>>
  /\ cd' = IF n < Len(cd.fifo)
           THEN [cd EXCEPT !.fifo = SubSeq(@, n + 1, Len(@))]
           ELSE [NextSector(cd) EXCEPT !.fifo = SubSeq(@, n - Len(cd.fifo) + 1, Len(@))]
  /\ UNCHANGED <<ticking, stalled, cpu>>

\* pump_cdda_samples, a sector of them: the head walks the audio track and the
\* playback ends where the track does.
PumpCdda ==
  /\ ~ticking
  /\ cd.playing
  /\ cd' = IF cd.head < Len(cd.disc) /\ cd.disc[cd.head + 1] = "audio"
           THEN [cd EXCEPT !.head = @ + 1]
           ELSE HaltCdda(cd)
  /\ UNCHANGED <<ticking, stalled, cpu>>

-----------------------------------------------------------------------------
\* The clock, and an image that is still being fetched.

Later(t) == IF t = NoTime THEN NoTime ELSE t - 1

Advance ==
  /\ ~ticking
  /\ \A t \in {e.due : e \in cd.pending} \cup {cd.lid, cd.brake, cd.seek} : t > -MaxLate
  /\ cd' = [cd EXCEPT !.pending = {[e EXCEPT !.due = @ - 1] : e \in cd.pending},
                      !.lid = Later(@), !.brake = Later(@), !.seek = Later(@)]
  /\ UNCHANGED <<ticking, stalled, cpu>>

\* sectors_ready turns false as the head moves on and true as bytes arrive.
ImageStalls == cd.reading /\ ~ticking /\ ~stalled /\ stalled' = TRUE /\ UNCHANGED <<cd, ticking, cpu>>
ImageSupplies == stalled /\ stalled' = FALSE /\ UNCHANGED <<cd, ticking, cpu>>

-----------------------------------------------------------------------------
\* tick_with_irq_pending, which the bus calls when idle_until has passed.

\* tick_lid_state_machine: at most one transition, since each plants the next
\* in the future.
TickLid(c) ==
  IF c.lid >= 0 THEN c
  ELSE CASE c.state = "stopped"  -> [c EXCEPT !.lid = NoTime]
         [] c.state = "standby"  -> [c EXCEPT !.lid = NoTime,
                                              !.state = IF c.disc = NoDisc THEN "lidOpen" ELSE @]
         [] c.state = "lidOpen" -> IF c.disc = NoDisc
                                    THEN [c EXCEPT !.lid = Delay["lidPoll"]]
                                    ELSE [c EXCEPT !.lid = Delay["rescan"], !.state = "rescan"]
         [] c.state = "rescan"   -> [c EXCEPT !.lid = Delay["spin"], !.state = "prepare", !.motor = TRUE]
         [] OTHER (* prepare *)  -> [c EXCEPT !.lid = Delay["lidSeek"], !.state = "standby"]

CompleteCddaSeek(c) ==
  IF c.seek <= 0 THEN [c EXCEPT !.seek = NoTime, !.playing = TRUE] ELSE c

TickDrive ==
  /\ ~ticking
  /\ cd.lid < 0 \/ cd.seek <= 0 \/ cd.brake <= 0 \/ \E e \in cd.pending : e.due < 0
  /\ ticking' = TRUE
  /\ cd' = CompleteCddaSeek(UpdateSpindown(TickLid(cd)))
  /\ UNCHANGED <<stalled, cpu>>

\* The front of the queue is due: a round of the loop.
DueFront(e) == ticking /\ IsFront(cd, e) /\ e.due < 0

IsSector(e) == e.irq = DataReady /\ e.cmd # Deferred

Awaited(e) == IsSector(e) /\ cd.reading /\ stalled

Without(e) == [cd EXCEPT !.pending = @ \ {e}]

EndTick ==
  /\ ticking
  /\ \A e \in cd.pending : e.due >= 0
  /\ ticking' = FALSE
  /\ UNCHANGED <<cd, stalled, cpu>>

\* A command's response waits for the latched interrupt's acknowledge.
HoldBack(e) ==
  /\ DueFront(e)
  /\ cd.irq # None /\ e.irq # DataReady
  /\ cd' = Insert(Without(e), e, Delay["reschedule"])
  /\ ticking' = FALSE
  /\ UNCHANGED <<stalled, cpu>>

WaitForSector(e) ==
  /\ DueFront(e)
  /\ Awaited(e)
  /\ ticking' = FALSE
  /\ UNCHANGED <<cd, stalled, cpu>>

\* The stream ended between this event's scheduling and now.
DropStale(e) ==
  /\ DueFront(e)
  /\ e.irq = DataReady /\ ~cd.reading
  /\ cd' = Without(e)
  /\ UNCHANGED <<ticking, stalled, cpu>>

KeepHoldingForgets(e) ==
  /\ DueFront(e)
  /\ e.cmd = Deferred /\ cd.reading /\ cd.irq # None
  /\ cd' = Without(e)
  /\ UNCHANGED <<ticking, stalled, cpu>>

\* Another interrupt got in before the held INT1, which waits on.
KeepHolding(e) ==
  /\ DueFront(e)
  /\ e.cmd = Deferred /\ cd.reading
  /\ cd.irq # None
  /\ cd' = [Without(e) EXCEPT !.deferred = TRUE]
  /\ UNCHANGED <<ticking, stalled, cpu>>

SnapToFirst(c) == c

SnapToNewest(c) ==
  IF c.ring = <<>> THEN c
  ELSE [c EXCEPT !.fifo = c.ring[Len(c.ring)], !.ring = <<>>, !.ready = TRUE]

Latched(c, e) ==
  LET announced == IF e.irq = DataReady
                   THEN [SnapToNewest(c) EXCEPT !.deferred = FALSE, !.news = FALSE] ELSE c
      latched == [announced EXCEPT !.irq = e.irq, !.busy = FALSE]
      chained == IF e.then = NoFollowup THEN latched
                 ELSE Insert(latched, Event(e.then.cmd, e.then.irq, FALSE), e.then.delay)
  IN  IF c.boot /\ e.irq = Acknowledge
      THEN [chained EXCEPT !.boot = FALSE, !.lid = Delay["lid"]] ELSE chained

Raise(c, e) ==
  /\ cd' = Latched(c, e)
  /\ ticking' = FALSE
  /\ cpu' = [cpu EXCEPT !.istat = @ \/ cd.mask, !.told = cd.mask]
  /\ UNCHANGED stalled

DeliverResponse(e) ==
  /\ DueFront(e)
  /\ cd.irq = None /\ e.irq # DataReady
  /\ Raise(Without(e), e)

DeliverHeldInt1(e) ==
  /\ DueFront(e)
  /\ cd.irq = None /\ e.cmd = Deferred /\ cd.reading
  /\ Raise(Without(e), e)

PushSectorUnbounded(c, at) ==
  LET sector == [part \in 1..Parts |-> [at |-> at, read |-> c.reads]]
  IN  IF c.fifo = <<>> /\ c.ring = <<>> THEN [c EXCEPT !.fifo = sector, !.ready = TRUE]
      ELSE [c EXCEPT !.ring = Append(@, sector)]

\* push_sector: behind the sector software is draining, over the oldest of a
\* full ring.
PushSector(c, at) ==
  LET sector == [part \in 1..Parts |-> [at |-> at, read |-> c.reads]]
      kept   == IF Len(c.ring) < Buffers - 1 THEN c.ring ELSE Tail(c.ring)
  IN  IF c.fifo = <<>> /\ c.ring = <<>>
      THEN [c EXCEPT !.fifo = sector, !.ready = TRUE]
      ELSE [c EXCEPT !.ring = Append(kept, sector)]

\* load_next_sector.  Past the end of the disc the read stops, with an INT1.
PastEnd == cd.head >= Len(cd.disc)
Kind == cd.disc[cd.head + 1]
Tells == PastEnd \/ (Kind # "audio" /\ ~(Kind = "xa" /\ cd.xa))

LoadNextSector(c) ==
  LET passed == [c EXCEPT !.head = @ + 1]
      empty  == [passed EXCEPT !.fifo = <<>>, !.ready = FALSE, !.armed = FALSE]
  IN  IF PastEnd THEN [empty EXCEPT !.reading = FALSE, !.moved = FALSE]
      ELSE IF Kind = "audio" THEN empty
      ELSE IF Tells THEN [PushSector(passed, c.head) EXCEPT !.news = TRUE]
      ELSE passed

\* The sector lands whatever the CPU does; the next one follows a period after
\* this one's own deadline, or after now when the tick is that late.
Landed(e) ==
  LET loaded == LoadNextSector(Without(e))
      held   == IF cd.irq # None /\ Tells THEN [loaded EXCEPT !.deferred = TRUE] ELSE loaded
      next   == e.due + Delay["sector"]
  IN  IF ~loaded.reading THEN held
      ELSE Insert([held EXCEPT !.moved = FALSE], Event("Read", DataReady, FALSE),
                  IF next > 0 THEN next ELSE Delay["sector"])

ReadSector(e) ==
  /\ DueFront(e)
  /\ IsSector(e) /\ cd.reading /\ ~stalled
  /\ IF Tells /\ cd.irq = None
     THEN Raise(Landed(e), e)
     ELSE cd' = Landed(e) /\ UNCHANGED <<ticking, stalled, cpu>>

-----------------------------------------------------------------------------
TickRound ==
  \/ TickDrive
  \/ EndTick
  \/ \E e \in cd.pending :
       \/ HoldBack(e) \/ WaitForSector(e) \/ DropStale(e) \/ KeepHolding(e)
       \/ DeliverResponse(e) \/ DeliverHeldInt1(e) \/ ReadSector(e)

Next ==
  \/ TickRound
  \/ \E cmd \in Commands : WriteCommand(cmd)
  \/ AcknowledgeInterrupt
  \/ \E enabled \in BOOLEAN : WriteInterruptEnable(enabled)
  \/ ClearIStat
  \/ RequestData
  \/ ReadDataPort
  \/ \E n \in 1..Parts : DmaBurst(n)
  \/ PumpCdda
  \/ Advance
  \/ ImageStalls
  \/ ImageSupplies

Spec == Init /\ [][Next]_vars

-----------------------------------------------------------------------------
Followups == [cmd : Commands \cup {"none"}, delay : Nat, irq : IrqTypes \cup {None}]

\* The controller, the CPU's side and the queue's events have their types, and the
\* sector ring never grows beyond its buffers.
TypeOK ==
  /\ ticking \in BOOLEAN /\ stalled \in BOOLEAN
  /\ cpu \in [istat : BOOLEAN, written : 0..Len(Script), told : BOOLEAN]
  /\ cd.irq \in IrqTypes \cup {None}
  /\ cd.state \in {"stopped", "standby", "lidOpen", "rescan", "prepare"}
  /\ {cd.lid, cd.brake, cd.seek} \subseteq -MaxLate..NoTime
  /\ Len(cd.ring) < Buffers /\ Len(cd.fifo) <= Parts
  /\ \A e \in cd.pending :
       /\ e.irq \in IrqTypes /\ e.due \in -MaxLate..NoTime /\ e.rank \in Nat
       /\ e.then \in Followups

\* Does e's acknowledge carry the first sector of a read?
Promises(e) == e.then.irq = DataReady

\* A read has one next sector: one delivery is queued, or promised to an
\* acknowledge, while the drive reads, and none when it does not.  Two would
\* deliver at twice the rate for ever after; none would hang the game.
StreamIsSingle ==
  IF cd.reading
  THEN \E e \in cd.pending :
         /\ IsSector(e) <=> ~Promises(e)
         /\ \A f \in cd.pending \ {e} : ~IsSector(f) /\ ~Promises(f)
  ELSE \A e \in cd.pending : ~IsSector(e) /\ ~Promises(e)

\* A sector that landed under a latched interrupt is announced sooner or later:
\* its INT1 waits for the acknowledge, or is queued behind it.
HeldInt1IsNotLost ==
  cd.news /\ cd.reading =>
    (cd.deferred /\ cd.irq # None) \/ \E e \in cd.pending : e.cmd = Deferred

\* A latched interrupt that is enabled has been signalled to the CPU, whichever
\* of the latch and the enable came last: no later event would signal it.
UnmaskedInterruptIsSignalled == cd.irq # None /\ cd.mask => cpu.told

\* What is buffered is of the read in progress and in the disc's order: no
\* command leaves an old read's sector for the new read's interrupt.
BufferIsOneStream ==
  LET all == (IF cd.fifo = <<>> THEN <<>> ELSE <<cd.fifo>>) \o cd.ring
  IN  /\ \A i \in DOMAIN all : \A part \in DOMAIN all[i] :
           all[i][part] = all[i][1] /\ all[i][1].read = cd.reads
      /\ \A i, j \in DOMAIN all : i < j => all[i][1].at < all[j][1].at

\* The step latches an INT1.
Int1 == cd.irq = None /\ cd'.irq = DataReady

\* An INT1 points software at the newest data sector, and keeps no backlog.
AnnouncedSectorIsCurrent ==
  [][Int1 => /\ cd'.ring = <<>>
             /\ cd'.fifo # <<>> =>
                  /\ cd'.fifo[1].read = cd.reads
                  /\ \A i \in cd'.fifo[1].at + 1..cd'.head - 1 :
                       i < Len(cd.disc) => cd.disc[i + 1] # "data"]_vars

=============================================================================
