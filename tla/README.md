# PSoXide in TLA+

PSoXide is a PlayStation emulator in Rust: `src/emu` holds the emulator proper,
`src/sdk` and `src/crates` what it shares with guest programs, `src/tools` its batch
tools. This directory models the part of it where timing, order and shared state decide
whether a game runs and keeps its saves: the event scheduler, the DMA controller and its
channels, the lazily advanced counters, the serial port with its memory cards, the
built-in kernel's card driver and backup unit, the CD-ROM controller, the card files of the
desktop player and the save slots of the browser's. TLC checks every model on a small
instance; TLAPS proves the safety properties of the scheduler, of the bus's event core, of the
MDEC's channels, of the GPU's list walk, of the serial port with its cards, of the CD-ROM
controller, of the card files and of the browser's slots for every value of their constants.

Paths below are relative to the repository's root unless they begin with
`emulator-core/`, which stands for `src/emu/crates/emulator-core/src/`.

## 1. Inventory

### How the machine runs

The emulator is single-threaded and deterministic, but it is not sequential in any
useful sense: one `Bus` owns every device, the CPU borrows it for each access, and what a
device does is spread over the moments somebody looks at it. There are four such
moments, and most of the hard behaviour of the code lies in their order:

1. **an access**: a load or store reaches a device's registers. The device may first
   have to catch up with the clock (timers, SIO0), and the store may start a transfer. A
   CD burst and an OTC clear hold the bus within the store and carry the clock past other
   deadlines, with no drain between;
2. **a tick**: `Bus::tick` adds an instruction's clocks and drains the scheduler's due
   events, but for the CD-ROM's; `Bus::add_cycles` adds clocks and drains nothing;
3. **a branch boundary**: `drain_scheduler_events_post_op` takes the rest, the CD-ROM
   slot included, and services the timers;
4. **an event's service**: within a drain, with the clock standing still, a completion
   clears its channel's busy bit and may end another channel's transfer too (the MDEC's
   output ends its input). The drain gathers the rising edges of the DMA interrupt and
   raises it at its end.

Blocks of instructions run between boundaries, so that events are noticed late by up to a
block. What must not depend on this lateness is what most of the properties are about.

Interrupts are edges: a device sets its bit in `I_STAT` once, software acknowledges it,
and an edge that is merged into another or compared with a stale level is gone for good.

### Components

| component | state | operations | talks to |
|---|---|---|---|
| event scheduler (`scheduler.rs`) | a deadline per slot, a bit mask of the pending ones, their cached minimum | schedule, cancel, take a slot if due, take the next due | the bus |
| DMA registers (`dma.rs`, `irq.rs`) | CHCR, BCR, MADR per channel, DPCR, DICR; I_STAT and I_MASK | stores, completion notices, rising edges | the bus |
| bus event core (`bus.rs`) | the clock, the waiting GPU kick, the drain's gathered DMA edge | kicks, clock advance, drains, VBlank | everything |
| MDEC and DMA 0/1 (`mdec.rs`, `bus.rs`) | command, input and output queues, the parked kick | command, parameter and control stores, DMA in and out, decode on demand | scheduler, DMA |
| GPU list walk (`bus.rs`, `gpu.rs`) | the walker's position, setup clocks, the 16-word FIFO, drawing time, the cached quiet span | kick, per-cycle steps and three batches of them, stop, DPCR | scheduler, GPU |
| root counters (`timers.rs`, `bus.rs`) | three counters with mode, target and holds; the clock they have reached; the quiet bound | lazy advance, accesses, syncs with the beam | VBlank, GP1, I_STAT |
| SIO0, pads, cards (`sio.rs`, `pad.rs`) | registers, the byte on the wire and the one queued, /ACK deadlines; each device's position in its command | stores, late ticks, plugging | scheduler, host |
| CD-ROM controller (`cdrom.rs`) | a queue of pending responses with deadlines, interrupt flag, sector ring, drive state | commands, acknowledge, sector arrival | scheduler, DMA 3, SPU |
| memory timing (`bus/memory_timing.rs`, `bus/timing.rs`, `bus/mmio_fast.rs`) | the four-entry posted write queue, fetch state, cost tables | every access | CPU |
| idle and batch skipping (`bus/idle.rs`, `cpu/idle.rs`, `gpu/idle.rs`, `cdrom/idle.rs`) | detected polling loops | skipping identical iterations | CPU, scheduler |
| CPU, blocks, I-cache (`cpu.rs`, `cpu/block.rs`, `cpu/icache.rs`) | registers, cached blocks with line generations | execute, invalidate, exceptions | bus |
| native tier (`src/emu/crates/psoxide-jit`) | compiled blocks | compile, enter, leave | CPU |
| GPU drawing (`gpu/raster.rs`, `vram.rs`, `src/emu/crates/psx-gpu-render`) | VRAM | draw | GPU FIFO |
| GPU interrupt quirk (`gpu/irq_quirk.rs`) | a small detector | observe commands | GPU |
| SPU (`spu.rs`) | voices, RAM, transfer FIFO | sample clock, DMA 4 | scheduler, CD-ROM |
| card driver (`hle_card.rs`) | a request, its result and the turn per port, the command in flight, the `_new_card` flag | request, VBlank (end and start of a command), the bytes of a command, reset, start, stop | SIO0, backup unit |
| backup unit (`hle_bu.rs`) | per slot a cached directory, the position of its loading, a sector buffer and a background job; the file function in progress; the one background transfer | `_bu_init`, `_card_load`, `_card_info`, open, find, read, write, erase, undelete, rename, format | card driver, the game's calls and events |
| rest of the HLE kernel (`hle_*.rs`) | the BIOS's own tables, threads, events | system calls, exceptions | CPU |
| boot (`fastboot.rs`, `entry_state.rs`, `system_cnf.rs`) | none kept | read a disc, set the entry state | CPU |
| SIO1 (`sio1.rs`) | registers | stores | none |
| card files (`frontend/src/app.rs`, `app/slots.rs`, `psoxide-settings/src/paths.rs`) | a directory per game, the card in port 1 with its dirty mark, the path behind it | launch, reset, flush, state load, adoption of an older id, exit | SIO0's card |
| browser slots (`frontend/src/app/slots.rs`, `web_files.rs`) | the pending operation, the sheet, IndexedDB's records | save, load, export, delete, import, list; a boot forgets the sheet | IndexedDB, the running machine |
| save-state format (`snapshot.rs`, `slots.rs` of `psoxide-settings`) | none kept | serialise every device, write one file | every device |
| front end (`src/emu/crates/frontend`) | menu, session, pacing, audio ring, input | user events, frames | the emulator |
| browser disc (`frontend/src/web_disc.rs`, `web_stream.rs`) | chunks, requests in flight | request, arrive, fail, evict | CD-ROM |
| settings, library, disc images, diagnostics, SDK, tools | files and logs | parsing and reporting | front end |

### What is hard, and what makes each component correct

- **Scheduler.** Every fast path of the bus trusts one cached number. It is right when it
  is the least pending deadline after any order of calls, and invisible: each call
  returns what a plain set of deadlines would.
- **DMA and drains.** A busy bit is a promise that something will clear it. A channel is
  correct when a started transfer always has an event, a retry or a documented refusal
  behind it; when no interrupt edge is lost among three places that can raise it; when
  VBlank keeps its period however late drains come; and when a drain that used its early
  out left nothing behind.
- **MDEC.** DMA 0 stays busy until the frame it fed has been drained by DMA 1, in slices
  that do not end where macroblocks do. No macroblock may be lost or delivered twice, and
  a kick parked on the decoder's request must start when the request comes.
- **GPU list.** Thousands of clocks are run as one subtraction. That is right when it
  ends in the state the per-clock loop ends in; when the remembered span is dropped by
  everything that could shorten it; and when a store in the middle of a node neither
  tears a packet nor leaves the walker and the GPU waiting for each other.
- **Timers.** A counter that cannot interrupt soon is left behind and caught up later.
  Nobody may be able to tell: same interrupts at the same boundaries, same registers.
- **Serial port.** Nothing clocks it; its event must always be at its next deadline, and
  catching up late must equal catching up at once. A card stores complete requests only,
  whatever breaks them off.
- **Card driver and backup unit.** A file call is dozens of card commands, each of which
  the next frame may end, with the game running in between and calling again. The cached
  directory must be the card's whenever it counts as loaded, a file must be whole on the
  card after each single frame that is written, a write reported done must be there, and
  no call may wait for ever.
- **CD-ROM.** Responses wait for an acknowledge behind their deadlines and are put back
  when it is missing; their order must survive. Sectors go on arriving; the one announced
  must be the newest, and a stopped stream must not deliver.
- **Card files.** A save is in the emulated card long before it is in a file, and the
  card's dirty mark is cleared when its bytes are copied out, before they are on the disk.
  Launches, resets, loads and exits in any order must lose no save by themselves and never
  write one game's card into another's directory.
- **Browser slots.** An answer comes frames after its question, when another game may run
  and another operation wait. It must not be restored into that game, and every operation
  must be answered, because the next is refused until then.
- **Browser disc.** Answers come late, twice or never.
- **Memory timing, blocks, idle skipping.** Each is an optimisation with a reference
  behaviour, like the timers and the list walk.

`PROJECT.json` lists each hazard at its line, with the properties that watch it, or the
reason none does yet.

## 2. Plan

The order is that of what depends on what: the scheduler, the bus on it, then the devices
whose protocols run over both.

| step | modules | state |
|---|---|---|
| 1 | `DeadlineQueue`, `Scheduler`, `EventQueue` (abstract), `SchedulerProofs` | checked and proved |
| 2 | `DmaRegisters`, `BusDma`, `BusDmaProofs` | checked and proved |
| 3 | `MdecDma`, `MdecDmaProofs` | checked and proved |
| 4 | `GpuListWalk`, `GpuListWalkProofs` | checked; all but the liveness proved |
| 5 | `LazyTimers` | checked; it carries its own abstract twin |
| 6 | `MemoryCard`, `SerialPort`, `SerialPortProofs` | checked and proved |
| 7 | `CdRom`, `CdRomProofs` | checked and proved |
| 8 | `CardFile`, `CardFileProofs` | checked and proved |
| 9 | `WebSlots`, `WebSlotsProofs` | checked; all but the liveness proved |
| 10 | `CardDriver`, `BackupUnit`: the built-in kernel's card driver with its timeouts, and the file calls over it | checked |
| 11 | `WriteQueue`, `IdleSkip`: optimisations against their references | open |
| 12 | `ChunkCache`: the browser's disc; `VideoTiming`: region changes, MADR and BCR in flight | open |

Theorems to come, in order: for `LazyTimers`, its types with the bound on a VBlank-synced counter,
which needs bounds on quotients by variable periods; for `BackupUnit`, that a job is always one
the driver will carry on, for which each handler needs a lemma of its own.

## 3. The modules and the code

Devices of the code are Rust structs whose methods take `&mut self`. In the models a
struct is a record, a method that others call is an operator from record to record named
after it, and an action is a whole handler: what software or time does, with everything
that follows from it before anybody else has a turn. Each mapped definition that a
mutant in `PROJECT.json` names has a variant beside it with a plausible mistake
(`RearmVBlankFromNow`, `AdvanceCounterUnmasked`, `StopReadingKeepsEvents`): no action uses it, and
TLC finds the property violated once it takes the definition's place.

### DeadlineQueue, Scheduler, EventQueue (`emulator-core/scheduler.rs`)

`DeadlineQueue` is `struct Scheduler` as a value: `targets`, `pending` (the bit mask) and
`earliest` (the cached minimum), with `Schedule`, `Cancel`, `Remove`, `NextDue` and
`DueInclusive`. Every module that owns a queue extends it. `Scheduler` makes a state
machine of it: one action per method, the caller's clock, and the last call with what it
returned. `EventQueue` is what the code promises without its cache: a function from the
slots with an event to their deadlines. `Scheduler` implements it with the substitution
`deadline <- [s \in queue.pending |-> queue.targets[s]]`; the calls and their answers are
part of both, so that the refinement compares answers and not only states.

A deadline that would pass the end of the 64-bit clock saturates at `MaxTime`; a tie is
broken by slot number. `NextDue` takes only what is *strictly* before the clock, and
`DueInclusive` also what is on it; the difference is the code's.

### DmaRegisters, BusDma (`emulator-core/dma.rs`, `irq.rs`, `bus.rs`)

`DmaRegisters` has DICR with its computed master flag, the channels' start bits and
variants, and the rising edge that becomes an interrupt. `BusDma` is the event core:
`bus` is the part of `struct Bus` concerned; `KickGpu`, `KickCd`, `KickSpu` and `KickOtc`
are the arms of `run_dma_channel`; `Advance` is `advance_cycles` with its retry of a
waiting GPU kick; `DrainVBlank`, `DrainSlot` and `FinishDrain` are the loops of
`drain_scheduler_events_inner` taken one round a step, so that the state between rounds
is a state. `Tick` and `BranchBoundary` start a drain or leave by its early out;
`AddCycles` moves the clock alone, which is how events become late. A device's request
line is free to change between instructions.

Three histories carry what the properties need: which kicks have moved their payload
(`granted`), which were turned away for good (`refused`), and whether software has
acknowledged IRQ3 since the master flag rose (`acked`).

### MdecDma (`emulator-core/mdec.rs`, the MDEC arms of `bus.rs`)

A compressed word is data or padding; `BlockWords` of data make a macroblock, which
decodes to `OutWords` words when somebody asks. The decoder's command, parameter and
control stores, the data port, both channels' kicks, both completions and the clocks of a
reset are actions; each store to an MDEC register ends with
`service_mdec_dma_request`, as in the code. Completion events are taken at any time after
they were scheduled, because their delay depends on BCR, which is not kept.

### GpuListWalk (`emulator-core/bus.rs`, `gpu.rs`, `gpu/commands.rs`)

A list is a sequence of nodes, a node a sequence of words known by what they are for; a
program (`Programs`) is the lists that software links, what else it does and how often.
`StepCycle` is one clock: drawing time decays, the FIFO hands on what is ready, the walker
fetches. `Advance` is the code's way to run `n` of them: the cached quiet span, the quiet
batch, the push run, and the single step when none applies. A store pays a clock before
it reaches the bus and forgets the span, as any I/O access does. The walk's completion
event, like the MDEC's, is taken at any later time.
`SendsPackets` is what software owes the walker for its lists to arrive whole; the code does
not check it, and no action does either.

### LazyTimers (`emulator-core/timers.rs`, the services of `bus.rs`)

One of the three counters runs twice: `lazy` as the code runs it, caught up by register
accesses, VBlank, writes to GP1 and only those boundaries that the quiet bound does not
skip; `eager` advanced at every boundary. The beam position decides what counts and what
is reset; its times are kept small by taking off whole scanlines (`Rebased`), which
changes no difference and no phase. The other two counters of the bank appear as
boundaries that advance the bank although this counter would not have asked for it.

### MemoryCard, SerialPort (`emulator-core/pad.rs`, `sio.rs`, the SIO0 services of `bus.rs`)

`MemoryCard` is what a card and a pad do with a byte: the card's three commands with their
one-byte lag, running checksum, flag byte and commit. Reads and writes are checked against
`ReadReply` and `WriteRequest`, which say what a whole conversation looks like and do not
use the state machine: their checksum counts how many of the bytes have each bit (`Parity`). `SerialPort` is SIO0 around it: the byte on the wire and the one
queued behind it, /ACK, its pulse and its interrupt, CTRL's select, reset, acknowledge
and forced receive, devices plugged and unplugged at any time.

Deadlines are kept as clocks to go, so that states repeat; one is due at zero or below.
An action of software is what `Bus::read*`/`write*` make of it: SIO0 catches up, the
store acts, SIO0 catches up again, and the scheduler's event is set to its next deadline
(`Served`). `BranchBoundary` is the event being taken; `MaxLate` is how late. The history
`told` keeps, per port, the bytes of the current conversation both ways and what the card
should hold.

### CdRom (`emulator-core/cdrom.rs`, `cdrom/idle.rs`)

`cd` is `struct CdRom`: the queue of pending responses and sector arrivals, the one
latched interrupt, the sector ring and data FIFO, the motor, the lid, and the CD-DA head.
Each command software can write is an action with its whole handler; `AcknowledgeInterrupt`,
`WriteInterruptEnable`, `ReadDataPort` and `DmaBurst` are the other stores and reads. One call
of the controller's tick is a `TickDrive` and one step per round of its loop, so that the
put-back of a response that finds an interrupt latched is a state of its own; nothing else
happens until the loop ends. `stalled` is an image that cannot supply the sector yet, as a
streamed browser disc cannot.

Times are kept as clocks to go, and an event's `rank` is its place among those of the same
deadline: the code's sorted insertion. A second response waits, as in the code, on the
acknowledge it follows (`ChainFollowup`). Two histories, `reads` and `news`, tell which
read a sector belongs to and whether one has landed since the last INT1.

What the model shows of the code's details and no property forbids: a held INT1 that is
already queued for its delay survives the next sector, so that two INT1s follow each other
with one sector between them; the last sector of a disc under a late handler loses its
held INT1, because the read stops; an audio track in a data read empties a FIFO that was
announced and not drained; a follow-up of two overlapping commands may hang on the other's
acknowledge; Stop's INT2 comes even when a MotorOn, Play, Init or Reset has cut its
spin-down short.

### CardFile (`frontend/src/app.rs`, `app/slots.rs`, `psoxide-settings/src/paths.rs`)

A card is the set of saves on it, a file absent, torn or whole; `disk` is every game's
directory with the one it had under an older id, `app` what runs, its card and
`memcard_port1_path`. An action is a whole operation of the player: `Start` (which adopts
older directories), `Launch` with its flush, adoption, the copy that precedes the built-in
kernel, and the read, `LaunchExe`, `BootExample`, `LoadSlot`, `Exit`. Each file operation
inside one may fail, and one that writes may leave a torn file, so that a crash in the
middle of an operation is that failure followed by `Crash`; `GuestSaves` stands for the
traffic of `SerialPort`. The history `lost` has the saves that a failure, a crash, a
missing flush or a missing file took, and `EverySaveIsKept` exempts those and no others: a
flush that succeeds takes none.

As the code stands, `BootExample` replaces the machine without a flush, and no caller
flushes while a game runs, although the comment on `flush_memcard_port1` speaks of one; a
card that could not be read is a blank card, which the next flush writes over the file; a
failed adoption is tried again at each start.

### CardDriver, BackupUnit (`emulator-core/hle_card.rs`, `hle_bu.rs`, `hle_bios.rs`)

`CardDriver` has the driver's kernel variables (`kvar` of `hle_card.rs`) as a record `d` and
its functions as operators on it. The bytes of a command are those of `SerialPort` and
`MemoryCard`; here a command has the three moments at which others can tell how far it is:
the FLAG byte is checked, a write is in the card, the last answer is in. The frame that ends
a command may find it at any of them.

`BackupUnit` is everything above. All of the kernel's progress is in kernel RAM, so the
model has it in one record `ram`, and each function of `hle_bu.rs` is an operator from `ram`
to a reply: the new `ram`, and `wait` (the code's `None`) or how the call came out. A
function that waits is run again from its beginning, as in the code: `dispatch` leaves the
program counter on the trap (`Retry`), and the phases in `ram.fn`, `phase`, `index` and `toc`
say where it was. What the end of a command carries on in the background (`LowLevelDone`)
is part of the step that ends it. `Then` is sequencing: it hands a reply on to what comes
after it. The steps are a call of the guest (`Guest`), its retry,
the frame (`VBlank`), and the command's moments (`CardAnswers`, `CardStores`, `CommandEnds`).

A card is its frames: header, directory, broken-sector list, test frame, data. A block is one
sector of data; names, sizes and bytes are small values, and a file's bytes are the number
of the call that wrote them. `claim` is what the game knows of its last write, and `hist.cut`
the cards on which an erase was cut short; both observe and decide nothing.

`QuietReset` says that the game calls `InitCARD2` and `_bu_init` only while nothing is under
way, as the initialisation that they are; `StateSpec` adds `SaveState` and `LoadState`, which
restores `ram` and puts port 1's card of *now* beside it.

### WebSlots (`frontend/src/app/slots.rs`, `web_files.rs`)

The player's operations, the promises that answer them, and the frame that handles the
answers. IndexedDB is external: transactions run in the order they were made but for
readers, which overtake readers; a save asks for persistent storage first, for any length
of time; any transaction may fail, and a delete may be aborted at its commit, which
`slotDelete` does not listen for. `pending`, `web` (the sheet) and `events` are the
fields of the same names. `Forgotten` is `slot_game_changed`, which asks for a new listing.

`hist` has what the properties exempt: whether a game was booted while a request was out
(`crossed`), a delete aborted without an answer (`hung`), and a listing overtaken by a
save or delete that it does not show (`overtaken`).

## 4. The runs

All runs are exhaustive over their bounds. "Small" values keep the relations between the
code's values that decide which case applies; where a bound removes a case it is named
here. States are distinct ones.

| run | module, configuration | states | what it shows |
|---|---|---|---|
| `scheduler` | `MCScheduler`, `Scheduler.cfg` | 82,449 | `EarliestIsExact`; the queue implements `EventQueue` |
| `bus_dma` | `MCBusDma`, `BusDma.cfg` | 1,192,536 | waiting GPU kicks against CD bursts over two VBlanks; two completions in one drain with DICR changed around them |
| `mdec_dma` | `MCMdecDma`, `MdecDma.cfg` | 378,868 | frames with padding anywhere, cut short or empty, in slices of one and three words |
| `gpu_list` | `MCGpuListWalk`, `GpuListWalk.cfg` | 20,436 | lists stopped, paused and kicked again at every clock; packets over two nodes and a node larger than the FIFO |
| `timers` | `MCLazyTimers`, `LazyTimers.cfg` | 329,280 | lazy and eager counters over three-line fields |
| `serial_port` | `MCSerialPort`, `SerialPort.cfg` | 212,466 | every conversation with a card and a pad, broken off anywhere |
| `cdrom` | `MCCdRom`, `CdRom.cfg` | 2,504,864 | a read drained, acknowledged, masked and interrupted by commands at every clock |
| `card_file` | `MCCardFile`, `CardFile.cfg` | 592,996 | launches, saves, loads, exits, failures and crashes in any order |
| `web_slots` | `MCWebSlots`, `WebSlots.cfg` | 873,757 | operations, boots and answers crossing in every order |
| `backup_unit` | `MCBackupUnit`, `BackupUnit.cfg` | 53,193 | file calls, formats and background transfers cut short at every command |
| `bu_state` | `MCBackupUnit`, `BuState.cfg` | | a violation, see section 7 |
| `web_import` | `MCWebSlots`, `WebImport.cfg` | | a violation |

**scheduler.** Three slots, so that a tie has a higher and a lower one and a bystander; a
clock of six values, the last of which is both the saturated deadline and "none pending".
The delays reach it from every clock. The exclusion masks are none, one slot and two.
`ImplementsEventQueue` is checked as a property of the step relation.

**bus_dma.** All four channels and VBlank, two channels to a behaviour, because channels
meet only in the queue, in DICR and in the clock, and a pair shows each meeting. The
constraint `OnePair` tells the pairs by their transfer length. GPU and CD: transfers of two
clocks and a CD hold of three, which passes both VBlanks (at clock 2 and each third one
after), with DICR's master enable on once it is written; instructions up to clock 2, and
whatever follows from them. SPU and OTC: two scheduled completions in one drain, and DICR
turned on and off around them up to clock 5. `BusyHasAnEnd`, `DmaInterruptNotLost` and
`VBlankKeepsItsGrid` hold, and are proved in general for any set of the four channels
(section 6); the proofs have neither the constraint nor these values. The view drops the
stored deadlines of slots that are not pending, which no operator reads.

**mdec_dma.** Two data words to a macroblock and two output words from it are the least
that can be split; slices of one and three are shorter and longer than that. A real
macroblock gives at least eight output words, so that several slices always fall into one;
here a slice also spans two, which is the harder case. Streams: padding alone, a
macroblock with the beginning of another behind it, and padding before, between and behind two. Channels are stopped and
kicked again and DPCR changes at any point; the CPU may feed a frame itself and read the
data port in between. `FrameIsConserved` balances what was taken, what is queued and what
was given. `InputKeepsItsTime` says when a parked kick starts and when a frame's transfer may
end. `InputBusyHasAnEnd` excludes frames that software drained through the data
port: then nothing ends the input transfer in the code either. A read of the port that finds
only a macroblock cut short drops it and gives nothing, and is a drain all the same
(`hist.ported`): the proof asked for that case, and the second stream is there for it.

**gpu_list.** Two programs: one of whole-packet lists, stopped, paused and interrupted by
manual transfers, and one of lists that continue a packet in the next node or link a node
larger than the FIFO, paused by DPCR. A FIFO of four words instead of sixteen and packets
of two, so that a node fills it and a front command's extra room (the allowance) matters;
setup of two clocks, and one for an empty node, where the code has fifteen and eight or
nine. Instructions of one, two and five clocks end inside, at and behind each span. Five
stores bound what software does. `BatchingChangesNothing` compares the batched advance with
the plain loop from every reachable state, which is what the code's `VERIFY_BUS_CLOCK`
asserts at run time on the states it happens to meet; `TypeOK` also says that a remembered
span is the one a recomputation would find (`QuietCacheIsSound`). `ListsArriveWhole` and `TransferEnds`
leave out walks that a completion event from *before* the kick has cut in the middle of a
node: that event comes late because the drain had not run, and the code does not tell it
from the walk's own.

**timers.** A counter of five values, a prescaler of two, three-clock scanlines and
three-line fields, with all clock sources and the syncs that reset, pause, wait for or
are released by a blank. Of the mode words two or three per counter are
written: interrupting and silent ones, one-shot, repeating and toggling, reset at target
and free-running. `MaxHeld` is 0: a read never finds an earlier read's stall still to be
served. A counter that cannot interrupt skips boundaries even with a read's hold pending,
which the per-boundary counter serves earlier; `exact` records that this has happened, and
`LazyIsEager` compares only the interrupts from there until the two meet again. Elsewhere
it compares all of both, but for the reached-target flag that one advance over target and
wrap leaves clear. `TypeOK` also bounds a VBlank-synced line counter by its field.

**serial_port.** A card of one frame of two bytes: frame numbers 0 and 1 are one on the
card and one beyond it. A byte, the wait for /ACK and its pulse take one clock each and a
boundary is up to one clock late; what matters is that an access or a boundary can fall
before, on and after each deadline. `CtrlValues` are "selected with the /ACK interrupt on",
"the other port", and "released with a forced receive". `Listening` limits what software
sends to the bytes that make a difference where the device is. One upset: a plug,
unplug or rebuild, or a switch of port with /JOYN held, in every state. `TypeOK` also says
that a port that is not selected has nothing on the wire or to come and that the scheduler
holds SIO0's next deadline (`EventIsArmed`). `LateServiceChangesNothing` compares one late
service with one at every clock. `CardIsFaithful` is both directions: a card
holds what complete requests told it, and a read returns what it holds. The view hides
whether a byte has been received and the interrupt bit, which only software reads.

**cdrom.** A disc of a data, an XA, a data and an audio sector, or none; a ring of two
sectors where the code has eight, so that it is full and overrun within the disc; a sector
drained in two reads. A sector takes two clocks and every other delay one, so that
sectors, acknowledgements, second responses and lids tie, pass and follow each other. The
script is SetMode or SetLoc, then any other command, then one of five into the running
stream. A tick is up to two clocks late, which is a whole sector. SetLoc aims at the XA
sector's successor, and no SetLoc reads from the start. The interrupt is masked only while
nothing is read and before the third command (`MaskedOnlyAtRest`), which is when the
order of latch and enable can differ. `StreamIsSingle` and `HeldInt1IsNotLost` say that the
stream neither doubles nor dies, whatever is put back or held. The view hides the status register's bits and I_STAT,
which only software reads.

**card_file.** Two discs and an executable, two saves, any file operation failing or torn,
and each start from an empty, a current or an older directory with and without its own
copy. Two discs are what it takes to write into the wrong directory; a second save tells
an old file from a new one.

**backup_unit.** One slot, three blocks (a first, a middle and a last one), one entry in the
broken list, two names; a card full with one file, a new one and one that nobody formatted;
two calls out of all that the model has, with every size and both kinds of handle. Each
call is up to nine commands, and each of these may be ended by the frame at any of its
moments, refused, or left in the background. Two calls are the least that can disagree: the
second works with the cache, the card and the jobs that the first left, whole or cut short;
an open and a write through it are two as well. (With three calls, 616,387 states, the
safety properties hold too; the liveness property makes that run long, and every mutant is
found with two.) `FilesAreWhole` and `FilesAreKept` leave out an erase under way and cards
where one was cut short, for the reason in section 7. `CacheIsTheCard` leaves out the edit
that is being written.

**web_slots.** Two games with the quick slot and one numbered slot, full or empty from an
earlier visit; two operations, two changes of game and one failed transaction. Two
operations are what it takes for answers to cross, and two changes to return to the
first game. `MachineRunsItsGame` also says when an export is loaded over the running machine
(`ExportLoadsOnlyAfterABoot`): only if a game was booted while a request was out.
`SheetIsTheStore` compares the sheet with the store once all is answered.

### Deadlock and fairness

Deadlock is checked in every run but those of `CdRom`, `WebSlots` and `BackupUnit`, where
software and the player may have used up their script, operations or calls and nothing is
under way; after `StopCARD2` the driver does nothing more.

Three modules state fairness. `GpuListWalk`: `WF_vars(\E n \in Ticks : Tick(n))` says that
the CPU goes on executing instructions, each of which adds clocks, and `WF_vars(EventDue)`
that a due event is taken, which `Bus::tick` does after every instruction. `WebSlots`:
`WF_vars(Persisted)` and `WF_vars(Transaction)` say that the browser answers each request,
`WF_vars(PollWebSlots)` that frames go on, each of which polls. `BackupUnit`: `WF_vars(VBlank)`
says that frames go on, each of which raises the VBlank interrupt, and `WF_vars(Retry)` that
the CPU runs the trap it stands on again; the answers of the card have no fairness, because
the frame ends a command that gets none. None asks software or the player to do anything:
`TransferEnds` claims an end only for a channel that software leaves enabled, `AnswerComes` an
answer to what was asked, and `EveryCallReturns` an end to the calls and background writes
under way while the driver is not stopped.

## 5. What is not modelled

In the modelled components: MADR and BCR while a transfer is on its way; DICR's bus-error
bit; a change of video region; the MDEC's arithmetic and status bits; GP0(1F), polylines,
downloads, block mode and the CPU's own words in the GPU walk, and the RAM contention of
a moving walk; the timers' diagnostic counters and `sync_clock_to`; MODE, BAUD, the per-byte
/ACK tables and their override, the slow pad and the pad's payload and configuration; the
CD-ROM's response bytes, parameter FIFO, partial acknowledges, volume and XA decoding, a
disc inserted after power-on and `cdrom/timing.rs`'s arithmetic; the card picker of the
desktop player; the busy mark and pictures of the browser's sheet and the checks on damaged
or foreign bytes. Of the card driver and the backup unit: the bytes of a command below the
three moments (`SerialPort` has them), `nextfile` and the modes of a search, wildcards, broken
sectors that are replaced, `_card_wait` and `_card_status`, the callbacks a game may call
itself (A7h to AAh), unaligned sizes, the guest's memory that a read fills, and two slots at
once.

Open, as the plan lists them: the write queue, idle
skipping, the browser's disc. The validity of a compiled block (`cpu/block.rs`) is a
statement about instructions, which no module has.

Left out: pixels, samples and instruction semantics, which are arithmetic the repository
covers with its own hardware tests; the native tier, whose correctness is that of generated
machine code; parsing of files and images; the save-state format, which is serialisation and
one atomic write; windows, drawing and wording of the front end; diagnostics; the SDK and
the tools, which are programs of their own.

## 6. What is proved

`tlapm` checks eight modules of proofs, for every value of the constants that the named
assumptions allow. They prove every invariant and every action property that the passing runs
check, but for those of `LazyTimers` and `BackupUnit`. TLC found each inductive invariant true
of the small instance before it was proved.

**SchedulerProofs**: `TypeCorrect`, `CacheIsExact` and `Refinement`. It begins with lemmas about
the queue's operators. A nonempty set of naturals has a least element (by well-founded
induction), hence the minimum over the pending slots exists; `Remove`, `Cancel` and `Schedule`
keep the type and the exactness of the cached minimum, the shortcut of `Schedule` included;
`NextDue` is `NoSlot` only if nothing is late, and otherwise the first of what is. (The bus
owns a queue too: `BusDmaProofs` begins with the same lemmas, about its own constants.) The
invariant is `TypeOK /\ EarliestIsExact`. It is inductive because each method's lemma needs
nothing but the exactness of the queue it is given, and the refinement needs it in one place:
the early out of `take_due_excluding` returns "nothing" without looking, and only an exact
cache makes that the abstract queue's answer.

**BusDmaProofs**: `TypeCorrect`, `NoChannelHangs`, `NoInterruptLost`, `VBlankDoesNotDrift`
and `DrainIsComplete`. The inductive invariant `IInv` is

- `TypeOK`;
- `Sound(bus, {})`: the cached minimum is exact, VBlank is pending on its grid, only an
  instance with the GPU waits for it, and every busy channel has an end. The second
  argument is the set of channels being worked on: within a kick or a completion the
  channel itself may be without one, and the lemma about each method says what it may
  assume and what it restores;
- `drain.edge \/ Reported(bus)`: a raised master flag shows in I_STAT or has been
  acknowledged, or the drain under way has gathered the edge and owes the interrupt;
- `OnCpu => ~drain.edge`: no drain ends owing one;
- past its first loop, a drain has left VBlank strictly in the future.

None of the properties is inductive alone: `DmaInterruptNotLost` says nothing in the middle
of a drain, and `DrainLeavesNothingOverdue` needs the exact cache for the early out and the
last conjunct for VBlank. There is one lemma per method of `Bus` (`GrantSound`,
`KickSound`, `AdvanceSound`, `CompleteSound`, ...) and one per group of actions.

**MdecDmaProofs**: `TypeCorrect`, `FrameConserved`, `InputEnds` and `InputOnTime` (an action
property), for streams, slices and macroblocks of any length. The inductive invariant is
`Sound(System) /\ Timely(System)`, where

- `Sound` is what is kept of a frame: types; only a decode or a table command expects
  parameters (`Coded`); what was taken and what the decoder holds are what was given (`Kept`,
  which is `FrameIsConserved`); a frame that the CPU still feeds is untouched until somebody
  runs the decoder (`Fresh`), without which the balance would not survive a kick taking over;
- `Timely` is what is kept of channel 0's transfer: its end (`Ends`); that an event of its own,
  while it carries a frame, belongs to a frame without output left (`Emptied`); and that a
  parked kick has no event of its own, only one of an earlier transfer (`Parked`).
  `InputKeepsItsTime` follows from these for each step.

Both are properties of a system record, because the methods of `Bus` and `Mdec` take and
return one: each method has a lemma that says what it returns. The loop of `dma_read_out` runs
any number of times; `ReadOutStays` meets it once, by looking at the first word that would
break a property, which needs only that a set of naturals has a least element.

**GpuListWalkProofs**: `TypesHold`, `BatchesAreClocks`, `FifoIsBounded` and `PacketsArrive`, for a
FIFO, packets, uploads, setups and drawing of any length, instructions of any number of clocks
and any set of programs. The first two have the inductive invariant `TypesAndSpan`:

- `System \in States(software.lists)`: the types, tightened to what a walk can be: drawing time
  is at most one primitive's and a setup is shorter than `Forever`; a header is due only with a
  node to come and no word left; a channel started in list mode has a list;
- `Sound(System)`: a remembered span is what a recomputation would find (`QuietCacheIsSound`).
  `TypeOK` says the same of the span, but cannot be kept without the tighter types: an admission
  needs its node, and a span that a batch shortens must not be one without an end;
- the program is one of `Programs` but for the stores it has made.

A batch and the clocks it stands for are compared as *runs*: functions from 0..n whose every
value is the step of the one before. Such a run exists and is unique (`RunExists`,
`RunsAgree`), what a step keeps the run keeps (`RunStays`), and `Iterate` is its last value.
None of this is an induction theorem with an operator for a parameter: a first place where a
run would go wrong is a least element of a set of naturals. Each way of doing many clocks at once
then has its lemma: a quiet batch is as many clocks that only count (`QuietBatchIsClocks`) and
leaves the span that much shorter (`QuietShortens`); a push run is as many clocks that only
queue a word; the FIFO's own decay is as many clocks of drawing with a drain after each
(`ClocksInOne`); the loop of `advance_cycles_slow` strings such stretches together
(`LoopIsClocks`), and `AdvanceIs` puts the cached span and the retry of a waiting kick around it.

`PacketsArrive` is the theorem about `ListsArriveWhole`. It is a statement about software too,
so it has a hypothesis: every program `SendsPackets`, that is, either each of its nodes is made
of whole packets, with the pixels of an upload, and has at most one word more than the FIFO's
depth (`NodesAreWhole`), or its lists are, packets going on in the next node as they like, and
it never stops one (`ListsAreWhole`). The run's programs are of both kinds, and TLC evaluates
the hypothesis on them (`PacketsAssumption` of `MCGpuListWalk`). Without it the property is
false: section 7 has the node larger than the FIFO. `FifoIsBounded` is the part that needs no
hypothesis. The inductive invariant `ListsArriving` adds to `TypesAndSpan`

- `Shape`: the FIFO is within its room; nothing in it could be taken and was not, which is why
  a word finds room when it *fits* behind the allowance of the head (`FitsHasRoom`); a kick waits
  only without a walk; and an event pending while a started walk goes on is an earlier
  transfer's, so that a late event is the only one that can cut a node;
- for programs of whole nodes, `ByNodes`: what is left of the admitted node fits, and with it
  the FIFO's contents are whole packets (`Whole`), so that a stop, which pushes it all at once,
  finds room for each word; no walk that was cut by its stop has words left;
- for programs of whole lists, `ByLists`: the FIFO, the node and the nodes to come, joined, are
  whole packets, and no walk is without its start bit.

`Packets` says where packets may end in a sequence (`cuts`), so that taking one from the
front (`TakeWhole`), moving a word from the walk to the FIFO (`WordMoves`) and admitting a node
(`PacketsJoin`) need no recursion over the sequence. The invariant is shown to be kept by one
clock (`StepKeeps`) and by each operation of software; that it survives batches is
`AdvanceIs`, whose right-hand side has clocks only.

**SerialPortProofs**: `TypeCorrect`, `LateIsSame` and `CardsAreFaithful`, for cards of any size,
any delays and any lateness. The inductive invariant `Inv` is

- `Sound(System)`: at most one deadline is pending (`Lone`); a port that is released has nothing
  to come and its devices wait for an address (`Released`); and each card is `Traced`: the
  conversation so far has the bytes that belong to its phase, they name its frame, its answers
  are the beginning of the reply, its buffer is what was sent and its running checksum theirs;
- `InTime(sio)`: no deadline is further away than its delay or later than `MaxLate`;
- `EventIsArmed`.

`CardIsFaithful` alone is not inductive: a frame is stored only at its last byte, and that the
buffer then holds what was sent and the checksum is theirs is what `Traced` carries from byte
to byte. `TraceGrows` and `CardKeeps` go through the phases; `ParityOfMore` says that one more
exclusive or makes the parity of one more byte. Whole reads (`WholeReply`) and reads under way
(`HeardIsReply`) give the property. For `LateIsSame`, a tick is four turns of its loop, and no
more are ever needed (`TickedIs`, `TickedRests`: the byte, the one queued behind it, the /ACK and its
pulse); a turn that has something to do does the same `n` clocks late
(`TurnShifted`), and one with nothing to do does nothing; `ClocksAre` then counts the clocks of
`Iterate`, again by the least one that would disagree.

**CdRomProofs**: the whole controller, under every order of commands, ticks, acknowledges and
stalls, for any discs, delays, ring and script. There are two inductive invariants, because the
stream is about the shape of the events and the rest about times and buffers. `Inv`, for
`OneStream`, `HeldInt1Kept` and `Signalled`, is

- `Good(cd)`, which is `Fine` (the fields of the controller and of its pending events, and that
  only an acknowledge promises a sector), `Stream` (one next sector queued or promised
  while the drive reads, and none otherwise) and `Held` (the INT1 of a sector that landed under a
  latched interrupt is behind an acknowledge or in the queue);
- the fields of `cpu`;
- `UnmaskedInterruptIsSignalled`.

The properties alone are not inductive: a promised sector becomes a queued one when its
acknowledge is delivered, and a held INT1 becomes a queued one when software acknowledges,
which `Stream` and `Held` need the shape of the events to follow. `Tidy`, for `TypeCorrect`,
`BufferOfOneStream` and the action property `AnnouncedCurrent`, is `Settled(cd)` with the fields
of `cpu`:

- `Queued`: every event has its fields in their types, and there is a place behind any set of
  them, so that an insertion finds its rank;
- `Drive`: the drive's own deadlines and registers;
- `Ordered`: what is in the FIFO and the ring are parts of whole sectors of the read in
  progress, each behind the one before it on the disc, and one place of the ring is free;
- `Newest`: while the drive reads, no data sector lies between the newest buffered one and the
  head. This is what an INT1 tells of once the backlog is dropped (`AnnouncedSectorIsCurrent`).

There is one lemma per method and handler, each of the form "from a good controller to a good
controller", so that the step lemmas are lists of citations. `DelayAssumption` bounds each delay
by a tenth of `NoTime`, the time that stands for "none", because a handler may add some up.

**CardFileProofs**: `TypeCorrect`, `CardInvariant`, `SavesAreKept`, `SavesStayHome` and the
action property `OriginalStays`. The inductive
invariant is `TypeOK`, the finiteness of the saves made (the next save's number is their
count), `Owned` (the running card and every file of a directory, the older
one's included, hold their own game's saves only, the older card none made since),
`HasAllOf` (the running card has every save its file has, but for lost ones) and
`EverySaveIsKept`. A flush that succeeds writes off nothing, so `EverySaveIsKept` needs
`HasAllOf` to know that it overwrites nothing either. `NoForeignSave` alone is not
inductive, because an adoption copies from the older directory, of which it says nothing.
`OriginalIsKept` is about a save that a flush could overwrite; it needs `Safe`
beside it: the disc that runs was backed up before its card could be flushed
(`RunningIsGuarded`), and a backup that exists is of the original as long as the card has it
(`BackupFirst`), so that an adoption never puts a later copy where the first belongs. The
lemmas are about the file operations (`Copies`, `Adoptions`, `Flushes`) and
then one per action; they hold for any games and number of saves, with and without
failures.

**WebSlotsProofs**: `TypeCorrect`, `OnlyItsOwnState` and `SheetComesRight`, for any games, slots,
operations, boots and failed transactions. `Typed` has the types and that every request,
answer and record names a game, a slot and a save that belong together. On it rest

- `Alone`, for `MachineRunsItsGame`: until a boot comes between a request and its answer, at
  most one request of the player is out, wherever it is (asking, in the queue, answered), and
  it is the one `pending` names;
- `Settling`, for `SheetIsTheStore`: as long as no transaction has failed, the store has what the
  last answered write of each slot says (`LastWrites`), the pending save is on its way
  (`SaveIsOut`), and unless a listing was overtaken something will still set the sheet right: a
  listing, a save whose answer asks for one, or, slot by slot, the answer to a write
  (`SheetSettles`). When nothing is under way only the last remains, which is the property.

The theorems rest on the named assumptions of the modules alone. Those about the bus hold
for transfers of any length, any VBlank period, any number of channels out of the four and
any clock bound; `ClockAssumption` says that the clock stays far enough from the end of its
range for a deadline not to saturate, which a 64-bit clock does. `BlockAssumption` has a
macroblock decode to at least two words, as every real one does. `TimesAssumption` keeps the list walk's costs below
`Forever`, which stands for the `u32::MAX` of a span without an end. The `NoneAssumption` of
`SerialPort` and of `WebSlots` only keeps the value that stands for Rust's `None` apart from the
values that stand for `Some`; the other assumptions say that numbers are numbers and that what
may be written is a subset of what exists.

Only model-checked:

- `LazyTimers` (`TypeOK`, `LazyIsEager`). Both walk over scanlines and fields by division, and the
  timers' arithmetic divides by variable periods, which the SMT solver does not decide;
- `CardDriver` with `BackupUnit` (`TypeOK`, `CacheIsTheCard`, `FilesAreWhole`, `DoneIsOnTheCard`). It
  is a matter of size: a step is a chain of replies through a dozen handlers, and each needs
  its lemma;
- `TransferEnds`, `AnswerComes` and `EveryCallReturns`, which are liveness and out of the proof
  system's reach.

## 7. Where the code departs from what it says

Each of these runs checks one property, which states what a comment of the code says of
it, and finds a behaviour of the code that does otherwise.

- **bu_state** (`FilesAreKept`, `frontend/src/app/slots.rs`, `try_restore`): "loading a state
  must never roll back what the player saved to the card since". The card is the file's, but
  the kernel RAM of the state brings the directory cache of then. The attached card does not
  say it was changed, so nothing reads its directory again; the next create takes a block
  that a save made since is in, and overwrites that save's directory frame.
- **web_import** (`ImportNeverReplaces`, `frontend/src/app/slots.rs`, `import_bytes`): "It
  never replaces a save." The free slot is looked up on the sheet, which in the browser is
  empty until the game's listing is answered, and stays empty if it fails; the import then
  replaces the save in slot 1.

Others were met while modelling and have no run of their own. With a property that the
module states, and the constants under which TLC shows it violated:

- `GpuRequestIsServed` (`BusDma` with `Channels = {2}`, manual mode, DICR's master always on;
  the end of `advance_cycles_slow`): a pending GpuDma event is taken as proof that the waiting
  kick's payload ran. It may belong to the transfer before: kick, turn DPCR off, kick again;
  the old event then ends the new transfer with nothing moved.
- `LoadNeverRollsBack` (`CardFile` with `FilesFail = FALSE`; `try_restore`): a state's card is
  replaced by the file's; an executable has no file, so that each load gives it a blank card.
  A flush that failed just before does the same to a disc.
- `FramesStayReadable` (`BackupUnit`, one full card, two erases): `erase` adds 50h to every
  block of the chain whatever its state is. An erase that a frame ends after a later block
  was marked leaves the first one in use; repeated, it makes F2h or F3h of that block, which
  no directory load accepts.
- `InitIsAllowedNewCards` (`Slots = {0, 1}`, new cards, `_card_info` and `_bu_init`, `QuietReset =
  FALSE`): `_new_card` is one flag for both slots and the end of any command clears it, so the
  end of slot 2's command takes it from the header read of slot 1 that was to have it.
- `DoneIsOnTheCard` with `Slots = {0, 1}` and asynchronous writes: the background transfer is one
  record while `busy` is per slot. A second write replaces the first one's file, count and
  buffer, and a handle's event reports sectors done that no command wrote.
- `DoneIsOnTheCard` with `QuietReset = FALSE`: `_bu_init` has no busy check. Under a background
  write the driver refuses its header read, the cache is cleared, and the write takes its
  next block from the cleared chain, to be reported done.
- `CacheIsTheCard` with `QuietReset = FALSE`: `InitCARD2` drops the requests and leaves the
  backup unit's pending mark, phase and job. A directory load it cut short goes on at the next
  `_bu_init` with an old outcome and an old buffer, taken for a directory frame.
- `CacheIsTheCard` with `AutoFormat = TRUE` (A(ADh)) and an unformatted card: `write_format` marks
  the cache loaded while the load that formats still waits for the header. The retried open
  creates its file then and takes the end of the header read for that of its first directory
  frame, which is never written.

And without a property: a DMA 0 kick parked on DPCR is not started by the store to DPCR but
by the next MDEC store (`InputKeepsItsTime` says that this is the only way to strand one);
stopping a list inside a node larger than the FIFO pushes the rest without looking for room;
one advance of a counter over target and wrap leaves the reached-target flag clear where
per-boundary advances set it (`LazyIsEager` allows exactly that); the CD-ROM's second INT1 of
section 3; a memory card's status byte, which is its dirty mark, so that a frame beyond the
card after a good write answers Good; and an export whose pending mark an older game's answer
takes is loaded over the running machine (`ExportLoadsOnlyAfterABoot` says that it takes a boot
in between).
