---------------------------- MODULE BackupUnit ----------------------------
(***************************************************************************)
(* The backup unit of the built-in kernel (emulator-core's hle_bu.rs) over *)
(* its card driver: the directory cache of each slot and its loading, the  *)
(* "bu" file device, and the background transfers that the end of a        *)
(* command carries on.                                                     *)
(*                                                                         *)
(* The kernel is one record, ram, since all of its progress is in kernel   *)
(* RAM and a save state restores all of it at once.  A guest call that     *)
(* needs the card is retried until it has its answer; each retry, and each *)
(* end of a command, is one whole handler here.  A handler is an operator  *)
(* from ram to a reply: the new ram, and "wait" or how it came out.        *)
(*                                                                         *)
(* Blocks are numbered from 0 as directory entries are.  A block is one    *)
(* sector of file data, no sector is broken, and the guest transfers from  *)
(* one buffer per call: what a read leaves in its memory is not kept.      *)
(***************************************************************************)
EXTENDS CardDriver, FiniteSets, FiniteSetsExt, Sequences

CONSTANTS
  Slots,         \* the ports with a card, which the guest calls
  Entries,       \* directory entries, and blocks, of a card
  BrokenEntries, \* frames of the broken sector list
  Names,         \* names the guest gives its files
  Functions,     \* the kernel functions the guest calls
  AutoFormat,    \* A(ADh)'s flag
  FirstCards,    \* what the cards may be when the machine starts
  QuietReset,    \* the guest calls InitCARD2 and _bu_init only while nothing is under way
  MaxCalls,      \* bound: calls the guest makes
  MaxStates      \* bound: states saved and loaded

ASSUME SlotsAssumption == Slots \subseteq Ports /\ Slots # {}
ASSUME SizesAssumption == Entries \in Nat \ {0} /\ BrokenEntries \in Nat \ {0}
ASSUME BoundsAssumption == MaxCalls \in Nat /\ MaxStates \in Nat
ASSUME FlagsAssumption == {AutoFormat, QuietReset} \subseteq BOOLEAN

VARIABLES
  ram,    \* the kernel's variables
  card,   \* the card of each port
  call,   \* the guest's call that is waiting, or NoCall
  saved,  \* the save state: the ram, call and cards it was made with, or NoState
  hist    \* calls and states so far; the cards an erase was cut short on

vars == <<ram, card, call, saved, hist>>

-----------------------------------------------------------------------------
(* The card: a header, the directory, the broken list, the write test      *)
(* frame, then the blocks.                                                 *)

Blocks  == 0..(Entries - 1)
NoNext  == Entries
NoName  == "no name"
None    == "none"

Header     == 0
DirFrame(i) == i + 1
BrokenFrames == (Entries + 1)..(Entries + BrokenEntries)
TestFrame  == Entries + BrokenEntries + 1
Data(i)    == TestFrame + 1 + i
Sectors    == 0..Data(Entries - 1)

\* Allocation states.
FirstBlock  == \h51
MiddleBlock == \h52
LastBlock   == \h53
FreeBlock   == \hA0
DeletedFirst == \hA1
InUse   == {FirstBlock, MiddleBlock, LastBlock}
Unused  == \hA0..\hA3
Deleted == \hA1..\hA3

Entry(state, next, name, size) ==
  [kind |-> "entry", state |-> state, next |-> next, name |-> name, size |-> size]
FreeEntry == Entry(FreeBlock, NoNext, NoName, 0)
ZeroEntry == Entry(0, 0, NoName, 0)

MC    == [kind |-> "mc"]
Blank == [kind |-> "blank"]     \* no "MC", no checksum: what no format wrote
NoBad == [kind |-> "none"]
Bytes(n) == [kind |-> "data", of |-> n]

Names0 == Names \cup {NoName}
EntryType == [kind : {"entry"}, state : 0..\hFF, next : 0..Entries, name : Names0,
              size : 0..Entries]
Frames == {MC, Blank, NoBad} \cup EntryType \cup {Bytes(n) : n \in 0..MaxCalls}

\* MemoryCard::new and from_bytes: only a card that has no file is new.
Formatted(dir) ==
  [x \in Sectors |->
     IF x = Header THEN MC
     ELSE IF x \in BrokenFrames THEN NoBad
     ELSE IF x >= TestFrame THEN Blank ELSE dir[x - 1]]
NewCard       == [in |-> TRUE, new |-> TRUE, frame |-> Formatted([i \in Blocks |-> FreeEntry])]
FileCard(dir) == [in |-> TRUE, new |-> FALSE, frame |-> Formatted(dir)]
BlankCard     == [in |-> TRUE, new |-> FALSE, frame |-> [x \in Sectors |-> Blank]]
NoCard        == [in |-> FALSE, new |-> FALSE, frame |-> [x \in Sectors |-> Blank]]

Directory(p) == [i \in Blocks |-> card[p].frame[DirFrame(i)]]

-----------------------------------------------------------------------------
(* The kernel.                                                             *)

NoFile     == [first |-> NoNext, size |-> 0, pos |-> 0, async |-> FALSE]
NoTransfer == [port |-> 0, done |-> 0, total |-> 0, from |-> Buffer, out |-> FALSE]
NoClaim    == [told |-> "nothing", sectors |-> {}, from |-> Buffer]

\* Slots start as clear_cache leaves them; the file handle of a port is the one FCB the
\* guest has open there, and claim is what it knows of its last write.
BootRam ==
  [drv |-> StartedDriver,
   loaded |-> [p \in Ports |-> FALSE],   pending |-> [p \in Ports |-> FALSE],
   phase |-> [p \in Ports |-> "header"], index |-> [p \in Ports |-> 0],
   toc |-> [p \in Ports |-> 0],          job |-> [p \in Ports |-> None],
   cache |-> [p \in Ports |-> [i \in Blocks |-> ZeroEntry]],
   buffer |-> [p \in Ports |-> Blank],
   fn |-> [phase |-> "idle", index |-> 0, aux |-> 0, dirty |-> {}, last |-> 0],
   initSlot |-> 0, async |-> NoTransfer,
   file |-> [p \in Ports |-> NoFile], claim |-> [p \in Ports |-> NoClaim]]

Reply(k, out) == [k |-> k, out |-> out]

\* Goes on with x.  (F(x); this way x is worked out once, however often F looks at it.)
Then(x, F(_)) == CHOOSE y \in {F(z) : z \in {x}} : TRUE

Wait(k) == Reply(k, "wait")
Failed(out) == out \notin {"wait", "ok"}

ClearCacheStillLoaded(k, p) ==
  [k EXCEPT !.cache[p] = [i \in Blocks |-> ZeroEntry]]
ClearCache(k, p) ==
  [k EXCEPT !.cache[p] = [i \in Blocks |-> ZeroEntry], !.loaded[p] = FALSE]

\* notify: the SwCARD event; the guest takes an error for the write it waits for there.
Notify(k, p, outcome) ==
  IF outcome # "ok" /\ k.claim[p].told = "waiting"
    THEN [k EXCEPT !.claim[p].told = "failed"] ELSE k

\* The event of the file handle: done okay.
HandleEvent(k, p) ==
  IF k.claim[p].told = "waiting" THEN [k EXCEPT !.claim[p].told = "done"] ELSE k

\* transfer, its first call: ask the driver, or be refused.
Ask(k, p, operation, sector, from) ==
  IF Idle(k.drv, p)
    THEN Wait([k EXCEPT !.drv = Request(@, p, operation, sector, from), !.pending[p] = TRUE])
    ELSE Reply(k, "error")

\* transfer, its later calls: wait for the driver, then Take(k, outcome).
Drive(k, p, Begin(_), Take(_, _)) ==
  CASE ~k.pending[p]    -> Begin(k)
    [] ~Idle(k.drv, p)  -> Wait(k)
    [] OTHER            -> Then([k EXCEPT !.pending[p] = FALSE],
                                LAMBDA j : Take(j, j.drv.result[p]))

-----------------------------------------------------------------------------
(* write_format: the broken list, the directory, the write test frame and  *)
(* last the header.                                                        *)

FormatOrder ==
  [j \in 1..BrokenEntries |-> Entries + j] \o [j \in 1..Entries |-> j] \o <<TestFrame, Header>>
FormatFrame(x) ==
  IF x \in {Header, TestFrame} THEN MC ELSE IF x \in BrokenFrames THEN NoBad ELSE FreeEntry

FormatFailed(k, p, out) == Reply(ClearCache([k EXCEPT !.toc[p] = 0], p), out)

FormatBegin(k, p) ==
  IF k.toc[p] = Len(FormatOrder)
    THEN Reply([k EXCEPT !.toc[p] = 0, !.loaded[p] = TRUE,
                         !.cache[p] = [i \in Blocks |-> FreeEntry]], "ok")
    ELSE LET x == FormatOrder[k.toc[p] + 1]
             a == Ask([k EXCEPT !.buffer[p] = FormatFrame(x)], p, "write", x, Buffer)
         IN IF a.out = "error" THEN FormatFailed(a.k, p, "error") ELSE a

FormatTake(k, p, outcome) ==
  IF outcome = "ok" THEN FormatBegin([k EXCEPT !.toc[p] = @ + 1], p)
                    ELSE FormatFailed(k, p, outcome)

WriteFormat(k, p) ==
  LET Begin(j) == FormatBegin(j, p)
      Take(j, o) == FormatTake(j, p, o)
  IN Drive(k, p, Begin, Take)

-----------------------------------------------------------------------------
(* load_directory                                                          *)

LoadFailed(k, p, out) ==
  Reply([ClearCache(k, p) EXCEPT !.phase[p] = "header", !.index[p] = 0], out)

\* The request of the phase the load is in, told _new_card where allow_new_card is.
LoadBegin(k, p) ==
  LET allowed == [k EXCEPT !.drv.newCard = TRUE]
      a == CASE k.phase[p] = "header" -> Ask(allowed, p, "read", Header, Buffer)
             [] k.phase[p] = "test"   -> Ask(allowed, p, "write", TestFrame, Buffer)
             [] k.phase[p] = "format" -> FormatBegin(k, p)
             [] OTHER                 -> Ask(k, p, "read", k.index[p], Buffer)
  IN IF Failed(a.out) THEN LoadFailed(a.k, p, a.out) ELSE a

LoadNext(k, p, phase, index) ==
  Then([k EXCEPT !.phase[p] = phase, !.index[p] = index], LAMBDA j : LoadBegin(j, p))

HeaderRead(k, p, test) ==
  CASE k.buffer[p] = MC /\ test       -> LoadNext(k, p, "test", k.index[p])
    [] k.buffer[p] = MC /\ ~test      -> LoadNext(k, p, "directory", 1)
    [] k.buffer[p] # MC /\ AutoFormat /\ k.index[p] = 0
                                      -> LoadNext(k, p, "format", 1)
    [] OTHER                          -> LoadFailed(k, p, "changed")

\* directory_frame_ok, then the next frame.
DirectoryRead(k, p) ==
  LET f == k.buffer[p]
      i == k.index[p]
  IN IF f.kind = "entry" /\ f.state \in InUse \cup Unused
       THEN LoadNext([k EXCEPT !.cache[p][i - 1] = f], p,
                     IF i = Entries THEN "broken" ELSE "directory", i + 1)
       ELSE LoadFailed(k, p, "error")

BrokenRead(k, p) ==
  CASE k.buffer[p] = Blank -> LoadFailed(k, p, "error")
    [] k.buffer[p] # Blank /\ k.index[p] < Entries + BrokenEntries
         -> LoadNext(k, p, "broken", k.index[p] + 1)
    [] OTHER -> Reply([k EXCEPT !.loaded[p] = TRUE, !.phase[p] = "header", !.index[p] = 0], "ok")

LoadTake(k, p, outcome, test) ==
  LET FormatEnds(r) == CASE r.out = "wait" -> r
                         [] r.out = "ok"   -> LoadNext(r.k, p, "header", k.index[p])
                         [] OTHER          -> LoadFailed(r.k, p, r.out)
  IN IF k.phase[p] = "format" THEN Then(FormatTake(k, p, outcome), FormatEnds)
     ELSE IF outcome # "ok" THEN LoadFailed(k, p, outcome)
     ELSE CASE k.phase[p] = "header"    -> HeaderRead(k, p, test)
            [] k.phase[p] = "test"      -> LoadNext(k, p, "directory", 1)
            [] k.phase[p] = "directory" -> DirectoryRead(k, p)
            [] k.phase[p] = "broken"    -> BrokenRead(k, p)

LoadDirectory(k, p, test) ==
  LET Begin(j) == LoadBegin(j, p)
      Take(j, o) == LoadTake(j, p, o, test)
  IN Drive(k, p, Begin, Take)

\* bu_init: one slot after the other, whatever came of the first.
BuInit(k) ==
  LET End(r) == IF r.out = "wait" THEN r ELSE Reply([r.k EXCEPT !.initSlot = 0], "ok")
  IN Then(LoadDirectory(k, k.initSlot, TRUE), LAMBDA one :
       IF one.out # "wait" /\ k.initSlot = 0
         THEN Then(LoadDirectory([one.k EXCEPT !.initSlot = 1], 1, TRUE), End)
         ELSE End(one))

Busy(k, p) == k.job[p] # None \/ ~Idle(k.drv, p)

BackgroundStep(k, p) ==
  Then(LoadDirectory(k, p, FALSE), LAMBDA r :
    IF r.out = "wait" THEN r.k ELSE Notify([r.k EXCEPT !.job[p] = None], p, r.out))

CardLoad(k, p) ==
  IF Busy(k, p) \/ k.pending[p]
    THEN Reply(k, "error")
    ELSE Reply(BackgroundStep([k EXCEPT !.job[p] = "load"], p), "ok")

CardInfo(k, p) ==
  IF Busy(k, p)
    THEN Reply(k, "error")
    ELSE Reply([k EXCEPT !.job[p] = "info", !.drv = Request(@, p, "info", 0, Buffer)], "ok")

-----------------------------------------------------------------------------
(* The "bu" device.  A call c names its function, its slot and what it     *)
(* needs; k.fn is the file function in progress.                           *)

\* reset, then the answer: done, fail, and fail_io, which drops the cache.
Reset(k) ==
  [k EXCEPT !.fn = [phase |-> "idle", index |-> 0, aux |-> 0, dirty |-> {}, last |-> NoNext]]
Done(k) == Reply(Reset(k), "ok")
Fail(k) == Reply(Reset(k), "fail")
FailIoKeepingTheCache(k, p) == Fail(k)
FailIo(k, p) == Fail([k EXCEPT !.loaded[p] = FALSE])

\* find_entry (the guest uses no wildcard): the first of a state and a name, or NoNext.
FindEntry(k, p, state, name) ==
  LET found == {i \in Blocks : k.cache[p][i].state = state /\ k.cache[p][i].name = name}
  IN IF found = {} THEN NoNext ELSE Min(found)

\* The entry n steps along the chain from first, NoNext once the chain has ended.
Along(k, p, first) ==
  LET at[n \in 0..Entries] ==
        IF n = 0 THEN first
        ELSE IF at[n - 1] = NoNext THEN NoNext ELSE k.cache[p][at[n - 1]].next
  IN at

\* chain: the entries of a file.
Chain(k, p, first) == {Along(k, p, first)[n] : n \in 0..Entries} \ {NoNext}

\* attach_file
Attach(k, c, first) ==
  [k EXCEPT !.file[c.slot] = [first |-> first, size |-> k.cache[c.slot][first].size,
                              pos |-> 0, async |-> c.async]]

\* write_toc: the dirty frames in ascending order, the last entry's after the others.
NextFrameAscending(fn) == Min(fn.dirty)
NextFrame(fn) ==
  IF fn.dirty \ {fn.last} # {} THEN Min(fn.dirty \ {fn.last}) ELSE fn.last
WriteTocBegin(k, p) ==
  LET i == NextFrame(k.fn) IN
  IF k.fn.dirty = {}
    THEN Reply([k EXCEPT !.fn.last = NoNext], "ok")
    ELSE Ask([k EXCEPT !.buffer[p] = k.cache[p][i]], p, "write", DirFrame(i), Buffer)
WriteTocTake(k, p, outcome) ==
  IF outcome = "ok"
    THEN WriteTocBegin([k EXCEPT !.fn.dirty = @ \ {NextFrame(k.fn)}], p)
    ELSE Reply([k EXCEPT !.fn.dirty = {}], outcome)
WriteToc(k, p) ==
  LET Begin(j) == WriteTocBegin(j, p)
      Take(j, o) == WriteTocTake(j, p, o)
  IN Drive(k, p, Begin, Take)

\* The frames are marked and written; then After answers the call.
WriteEdit(k, p, After(_)) ==
  Then(WriteToc([k EXCEPT !.fn.phase = "write"], p), LAMBDA r :
    CASE r.out = "wait" -> r
      [] r.out = "ok"   -> After(r.k)
      [] OTHER          -> FailIo(r.k, p))

\* ensure_directory, then Found(k) with the cache, or the failure.
WithDirectory(k, p, Found(_)) ==
  LET j == [k EXCEPT !.fn.phase = "directory"] IN
  Then(IF k.loaded[p] THEN Reply(j, "ok") ELSE LoadDirectory(j, p, FALSE), LAMBDA r :
    CASE r.out = "wait" -> r
      [] r.out = "ok"   -> Found(r.k)
      [] OTHER          -> Fail(r.k))

\* The sector 0 read of a synchronous open and of firstfile: a card that says it was
\* changed has its directory loaded again.
WithCheck(k, p, Found(_)) ==
  LET Begin(j) == Then(Ask(j, p, "read", Header, Buffer), LAMBDA a :
                         IF Failed(a.out) THEN Fail(a.k) ELSE a)
      Take(j, outcome) ==
        IF outcome \in {"ok", "changed"}
          THEN WithDirectory([j EXCEPT !.loaded[p] = @ /\ outcome = "ok"], p, Found)
          ELSE Fail(j)
  IN Drive([k EXCEPT !.fn.phase = "check"], p, Begin, Take)

\* create_file: the blocks chain in ascending order, the first carries name and size.
CreateFile(k, c) ==
  LET p == c.slot
      free == {i \in Blocks : k.cache[p][i].state \in Unused}
      new == CHOOSE b \in SUBSET free :
               Cardinality(b) = c.blocks /\ \A i \in b, j \in free \ b : i < j
      After(i) == {j \in new : j > i}
      NextOf(i) == IF After(i) = {} THEN NoNext ELSE Min(After(i))
      Made(i) == IF i = Min(new) THEN Entry(FirstBlock, NextOf(i), c.name, c.blocks)
                 ELSE Entry(IF After(i) = {} THEN LastBlock ELSE MiddleBlock, NextOf(i), NoName, 0)
      made == [k EXCEPT !.cache[p] = [i \in Blocks |-> IF i \in new THEN Made(i) ELSE @[i]],
                        !.fn.dirty = new, !.fn.last = Min(new), !.fn.aux = Min(new)]
      Created(j) == Done(Attach(j, c, j.fn.aux))
  IN IF FindEntry(k, p, FirstBlock, c.name) # NoNext \/ Cardinality(free) < c.blocks
       THEN Fail(k)
       ELSE WriteEdit(made, p, Created)

OpenFile(k, c) ==
  LET first == FindEntry(k, c.slot, FirstBlock, c.name) IN
  CASE c.blocks > 0                      -> CreateFile(k, c)
    [] c.blocks = 0 /\ first # NoNext    -> Done(Attach(k, c, first))
    [] OTHER                             -> Fail(k)

Open(k, c) ==
  LET p == c.slot
      Found(j) == OpenFile(j, c)
      Created(j) == Done(Attach(j, c, j.fn.aux))
  IN CASE k.fn.phase = "idle" /\ Busy(k, p) -> Fail(k)
       [] k.fn.phase = "write"              -> WriteEdit(k, p, Created)
       [] k.fn.phase = "directory" \/ (k.fn.phase = "idle" /\ c.async /\ ~Busy(k, p))
                                            -> WithDirectory(k, p, Found)
       [] OTHER                             -> WithCheck(k, p, Found)

FirstFile(k, c) ==
  LET Found(j) == Done(j) IN
  CASE k.fn.phase = "idle" /\ Busy(k, c.slot) -> Reply(k, "fail")
    [] k.fn.phase = "directory"               -> WithDirectory(k, c.slot, Found)
    [] OTHER                                  -> WithCheck(k, c.slot, Found)

\* edit_directory: Edit(k) changes the cache and marks the frames, or fails.
EditDirectory(k, p, Edit(_)) ==
  CASE k.fn.phase = "idle" /\ Busy(k, p) -> Fail(k)
    [] k.fn.phase = "write"              -> WriteEdit(k, p, Done)
    [] OTHER                             -> WithDirectory(k, p, Edit)

\* The states of a file's blocks moved by an offset, the first block written last.
Moved(k, p, first, State(_)) ==
  LET blocks == Chain(k, p, first) IN
  WriteEdit([k EXCEPT !.cache[p] = [i \in Blocks |-> IF i \in blocks
                                      THEN [@[i] EXCEPT !.state = State(@)] ELSE @[i]],
                      !.fn.dirty = blocks, !.fn.last = first], p, Done)

Erase(k, c) ==
  LET Erased(state) == state + \h50
      Edit(j) == LET first == FindEntry(j, c.slot, FirstBlock, c.name)
                 IN IF first = NoNext THEN Fail(j) ELSE Moved(j, c.slot, first, Erased)
  IN EditDirectory(k, c.slot, Edit)

Undelete(k, c) ==
  LET Restored(state) == state - \h50
      Edit(j) == LET first == FindEntry(j, c.slot, DeletedFirst, c.name)
                     whole == \A i \in Chain(j, c.slot, first) :
                                j.cache[c.slot][i].state \in Deleted
                 IN IF first = NoNext THEN Fail(j)
                    ELSE IF ~whole THEN Fail(j)
                    ELSE Moved(j, c.slot, first, Restored)
  IN EditDirectory(k, c.slot, Edit)

Rename(k, c) ==
  LET Edit(j) == LET first == FindEntry(j, c.slot, FirstBlock, c.name)
                     taken == FindEntry(j, c.slot, FirstBlock, c.to) # NoNext
                 IN IF first = NoNext \/ taken THEN Fail(j)
                    ELSE WriteEdit([j EXCEPT !.cache[c.slot][first].name = c.to,
                                             !.fn.dirty = {first}], c.slot, Done)
  IN EditDirectory(k, c.slot, Edit)

Format(k, c) ==
  IF k.fn.phase = "idle" /\ Busy(k, c.slot) THEN Fail(k)
  ELSE Then(WriteFormat([k EXCEPT !.fn.phase = "format"], c.slot), LAMBDA r :
         CASE r.out = "wait" -> r
           [] r.out = "ok"   -> Done(r.k)
           [] OTHER          -> Fail(r.k))

-----------------------------------------------------------------------------
(* read and write, and what the end of a command carries on.               *)

\* file_sector: NoNext's sector stands for a chain that ends early.
FileSector(k, p, f, n) == Along(k, p, f.first)[f.pos + n]

\* The call writes these sectors, as the guest sees it.
Claim(k, c, total, from) ==
  IF c.fn = "read" THEN NoClaim
  ELSE [told |-> "waiting", from |-> from,
        sectors |-> {Data(i) : i \in {FileSector(k, c.slot, k.file[c.slot], n) :
                                        n \in 0..(total - 1)} \ {NoNext}}]

WriteFailed(k, p) ==
  IF k.claim[p].told = "waiting" THEN [k EXCEPT !.claim[p].told = "failed"] ELSE k

SyncBegin(k, c) ==
  LET p == c.slot
      f == k.file[p]
      i == FileSector(k, p, f, k.fn.index)
      a == Ask(k, p, c.fn, Data(i), c.from)
  IN IF k.fn.index = k.fn.aux
       THEN Done(HandleEvent([k EXCEPT !.file[p].pos = @ + k.fn.aux], p))
       ELSE IF i = NoNext THEN Fail(WriteFailed(k, p))
       ELSE IF Failed(a.out) THEN Fail(WriteFailed(a.k, p)) ELSE a

ReadWriteSync(k, c) ==
  LET Begin(j) == SyncBegin(j, c)
      Take(j, outcome) == IF outcome = "ok" THEN SyncBegin([j EXCEPT !.fn.index = @ + 1], c)
                                            ELSE Fail(WriteFailed(j, c.slot))
  IN Drive(k, c.slot, Begin, Take)

\* The transfer of p's job is over.
JobEndsKeepingIt(k, p, outcome) == Notify([k EXCEPT !.async.out = FALSE], p, outcome)
JobEnds(k, p, outcome) ==
  Notify([k EXCEPT !.job[p] = None, !.async.out = FALSE], p, outcome)

\* The sector that is out did not go well.
WentWrongIfChanged(k, p) == k.async.out /\ k.drv.result[p] = "changed"
WentWrong(k, p) == k.async.out /\ k.drv.result[p] # "ok"

\* file_step: the one record k.async says whose file, whichever port the command that
\* ended was on.
FileStep(k, p) ==
  LET a == k.async
      f == k.file[a.port]
      n == IF a.out THEN a.done + 1 ELSE a.done
      i == FileSector(k, p, f, n)
      j == [k EXCEPT !.async.done = n]
      moved == [j EXCEPT !.file[a.port].pos = @ + a.total, !.async.out = FALSE]
  IN CASE WentWrong(k, p) -> JobEnds([k EXCEPT !.loaded[p] = FALSE], p, k.drv.result[p])
       [] ~WentWrong(k, p) /\ n = a.total ->
            (CASE k.job[p] = "read" -> HandleEvent([moved EXCEPT !.job[p] = None], a.port)
               [] k.job[p] = "write" /\ Idle(k.drv, a.port) ->
                    [moved EXCEPT !.job[p] = "probe",
                                  !.drv = Request(@, a.port, "info", 0, Buffer)]
               [] OTHER -> JobEnds(moved, p, "error"))
       [] OTHER ->
            IF i = NoNext \/ ~Idle(k.drv, a.port)
              THEN JobEnds(j, p, "error")
              ELSE [j EXCEPT !.async.out = TRUE,
                             !.drv = Request(@, a.port, k.job[p], Data(i), a.from)]

ReadWrite(k, c) ==
  LET p == c.slot
      f == k.file[p]
      total == Min({c.blocks, f.size - f.pos})
      claimed == [k EXCEPT !.claim[p] = Claim(k, c, total, c.from)]
  IN CASE k.fn.phase = "transfer" -> ReadWriteSync(k, c)
       [] k.fn.phase = "idle" /\ (Busy(k, p) \/ ~k.loaded[p] \/ f.pos >= f.size) -> Fail(k)
       [] OTHER ->
            IF f.async
              THEN Reply(FileStep([Reset(claimed) EXCEPT
                                     !.job[p] = c.fn,
                                     !.async = [port |-> p, done |-> 0, total |-> total,
                                                from |-> c.from, out |-> FALSE]], p), "ok")
              ELSE ReadWriteSync([claimed EXCEPT !.fn.phase = "transfer", !.fn.aux = total,
                                                 !.fn.index = 0], c)

\* low_level_done
LowLevelDone(k, p) ==
  LET over == Notify([k EXCEPT !.job[p] = None], p, k.drv.result[p]) IN
  CASE k.job[p] = "info" -> over
    [] k.job[p] = "load" -> BackgroundStep(k, p)
    [] k.job[p] \in {"read", "write"} -> FileStep(k, p)
    [] k.job[p] = "probe" ->
         IF k.drv.result[p] = "ok" THEN HandleEvent(over, k.async.port) ELSE over
    [] OTHER -> k

\* finish, with what the backup unit makes of it.
Finish(k, outcome) ==
  Then([k EXCEPT !.drv = Ended(@, outcome)], LAMBDA j : LowLevelDone(j, k.drv.active))
Timeout(k) == IF k.drv.active = NoPort THEN k ELSE Finish(k, "timeout")

-----------------------------------------------------------------------------
(* The machine.                                                            *)

NoCall  == [fn |-> None, slot |-> 0, name |-> NoName, to |-> NoName, blocks |-> 0,
            async |-> FALSE, from |-> Buffer]
NoState == [at |-> 0]

\* What the guest calls with; a write's bytes are the number of the call.
FileCalls(p, n) ==
  {[NoCall EXCEPT !.fn = fn, !.slot = p, !.name = x] :
     fn \in {"erase", "undelete"} \cap Functions, x \in Names}
  \cup {[NoCall EXCEPT !.fn = "rename", !.slot = p, !.name = x, !.to = y] :
          x \in Names, y \in Names}
  \cup {[NoCall EXCEPT !.fn = "open", !.slot = p, !.name = x, !.blocks = b, !.async = s] :
          x \in Names, b \in 0..Entries, s \in BOOLEAN}
  \cup {[NoCall EXCEPT !.fn = fn, !.slot = p, !.blocks = b, !.from = Bytes(n)] :
          fn \in {"read", "write"}, b \in 1..Entries}
Calls(p, n) ==
  {[NoCall EXCEPT !.fn = fn, !.slot = p] :
     fn \in {"bu_init", "card_load", "card_info", "card_clear", "firstfile", "format",
             "init_card", "start_card", "stop_card"}} \cup FileCalls(p, n)

\* One call, or one retry of it.  "card_clear" is what games do to a new card:
\* _new_card, then _card_write to the write test frame.
Serve(k, c) ==
  CASE c.fn = "bu_init"    -> BuInit(k)
    [] c.fn = "card_load"  -> CardLoad(k, c.slot)
    [] c.fn = "card_info"  -> CardInfo(k, c.slot)
    [] c.fn = "card_clear" ->
         LET allowed == [k EXCEPT !.drv.newCard = TRUE]
         IN IF Idle(k.drv, c.slot)
              THEN Reply([allowed EXCEPT !.drv = Request(@, c.slot, "write", TestFrame, Bytes(0))],
                         "ok")
              ELSE Reply(allowed, "error")
    [] c.fn = "open"       -> Open(k, c)
    [] c.fn = "firstfile"  -> FirstFile(k, c)
    [] c.fn \in {"read", "write"} -> ReadWrite(k, c)
    [] c.fn = "erase"      -> Erase(k, c)
    [] c.fn = "undelete"   -> Undelete(k, c)
    [] c.fn = "rename"     -> Rename(k, c)
    [] c.fn = "format"     -> Format(k, c)
    [] c.fn = "init_card"  -> Reply([k EXCEPT !.drv = InitCard(@)], "ok")
    [] c.fn = "start_card" -> Reply([k EXCEPT !.drv = StartCard(@)], "ok")
    [] c.fn = "stop_card"  -> Reply([Timeout(k) EXCEPT !.drv.started = FALSE], "ok")

\* The reply r to call c: the guest has it, or waits.  An erase that fails once it writes
\* was cut short.
Served(c, r) ==
  /\ ram' = r.k
  /\ call' = IF r.out = "wait" THEN c ELSE NoCall
  /\ hist' = [hist EXCEPT !.cut = IF c.fn = "erase" /\ ram.fn.phase = "write" /\ r.out = "fail"
                                    THEN @ \cup {c.slot} ELSE @,
                          !.calls = IF call = NoCall THEN @ + 1 ELSE @]
  /\ UNCHANGED <<card, saved>>

\* The guest's view of its last write ends with its next call to the port.
Forgotten(k, p) ==
  IF k.claim[p].told = "waiting" THEN k ELSE [k EXCEPT !.claim[p] = NoClaim]

Init ==
  /\ ram = BootRam
  /\ card \in [Ports -> FirstCards \cup {NoCard}]
  /\ \A p \in Ports : card[p] = NoCard <=> p \notin Slots
  /\ call = NoCall
  /\ saved = NoState
  /\ hist = [calls |-> 0, states |-> 0, cut |-> {}]

\* The guest calls a kernel function.  It reads and writes what it opened, and resets the
\* driver between two commands (SerialPort has a command cut between two bytes).
Guest ==
  /\ call = NoCall
  /\ hist.calls < MaxCalls
  /\ \E p \in Slots : \E c \in {x \in Calls(p, hist.calls + 1) : x.fn \in Functions} :
       /\ c.fn \in {"read", "write"} => ram.file[p].first # NoNext
       /\ c.fn = "init_card" => ram.drv.active = NoPort
       /\ c.fn \in {"init_card", "bu_init"} /\ QuietReset => \A q \in Ports : ~Busy(ram, q)
       /\ Served(c, Serve(Forgotten(ram, p), c))

Retry == call # NoCall /\ \E r \in {Serve(ram, call)} : Served(call, r)

\* vblank
VBlank ==
  /\ ram.drv.started
  /\ \E k \in {Timeout(ram)} : ram' = [k EXCEPT !.drv = TakeTurn(@)]
  /\ UNCHANGED <<card, call, saved, hist>>

InFlight(step) == ram.drv.active # NoPort /\ ram.drv.step = step /\ card[ram.drv.active].in
Active == ram.drv.active

\* advance, bytes 1 and 2: the FLAG byte, where the info command ends too.
CardAnswers ==
  /\ InFlight("sent")
  /\ ram' = IF FlagError(ram.drv, card[Active].new) THEN Finish(ram, "changed")
            ELSE IF ram.drv.op[Active] = "info" THEN Finish(ram, "ok")
            ELSE [ram EXCEPT !.drv.step = "checked"]
  /\ UNCHANGED <<card, call, saved, hist>>

\* advance, byte 134 of a write: the card has the frame, and is new no longer.
CardStores ==
  /\ InFlight("checked")
  /\ ram.drv.op[Active] = "write"
  /\ LET d == ram.drv
         frame == IF d.from[Active] = Buffer THEN ram.buffer[Active] ELSE d.from[Active]
     IN card' = [card EXCEPT ![Active].frame[d.sector[Active]] = frame, ![Active].new = FALSE]
  /\ ram' = [ram EXCEPT !.drv.step = "stored"]
  /\ UNCHANGED <<call, saved, hist>>

\* handler, the last byte: a read has filled its buffer.
CommandEnds ==
  /\ InFlight(IF ram.drv.op[Active] = "write" THEN "stored" ELSE "checked")
  /\ ram' = LET d == ram.drv IN
            IF d.op[Active] = "read" /\ d.from[Active] = Buffer
              THEN Finish([ram EXCEPT !.buffer[Active] = card[Active].frame[d.sector[Active]]],
                          "ok")
              ELSE Finish(ram, "ok")
  /\ UNCHANGED <<card, call, saved, hist>>

\* A save state takes the kernel's RAM, the guest and the cards.  Loading it puts the first
\* port's card back in from its file, as it is now: a command it was in the middle of gets
\* no further answer.
SaveState ==
  /\ hist.states < MaxStates
  /\ saved' = [at |-> 1, ram |-> ram, call |-> call, card |-> card]
  /\ hist' = [hist EXCEPT !.states = @ + 1]
  /\ UNCHANGED <<ram, card, call>>
LoadState ==
  /\ saved # NoState
  /\ hist.states < 2 * MaxStates
  /\ ram' = IF saved.ram.drv.active = 0 THEN [saved.ram EXCEPT !.drv.step = "dead"]
                                        ELSE saved.ram
  /\ call' = saved.call
  /\ card' = [saved.card EXCEPT ![0] = card[0]]
  /\ hist' = [hist EXCEPT !.states = @ + 1]
  /\ UNCHANGED saved

Next == Guest \/ Retry \/ VBlank \/ CardAnswers \/ CardStores \/ CommandEnds

Spec == Init /\ [][Next]_vars

\* The same machine with save states.
StateSpec == Init /\ [][Next \/ SaveState \/ LoadState]_vars

\* VBlank is an event of the machine, and the CPU runs the trap again as long as it waits.
FairSpec == Spec /\ WF_vars(VBlank) /\ WF_vars(Retry)

-----------------------------------------------------------------------------
(* Properties.                                                             *)

FrameState(k) ==
  /\ k.drv \in DriverType(Sectors, Frames)
  /\ k.loaded \in [Ports -> BOOLEAN] /\ k.pending \in [Ports -> BOOLEAN]
  /\ k.phase \in [Ports -> {"header", "test", "directory", "broken", "format"}]
  /\ k.index \in [Ports -> 0..(Entries + BrokenEntries)]
  /\ k.toc \in [Ports -> 0..Len(FormatOrder)]
  /\ k.job \in [Ports -> {None, "info", "load", "read", "write", "probe"}]
  /\ \A p \in Ports : k.cache[p] \in [Blocks -> EntryType] /\ k.buffer[p] \in Frames
  /\ k.fn.phase \in {"idle", "check", "directory", "write", "format", "transfer"}
  /\ k.fn.dirty \subseteq Blocks /\ k.fn.last \in 0..NoNext
  /\ {k.fn.index, k.fn.aux} \subseteq 0..Entries /\ k.initSlot \in Ports

\* A job of a slot has its request with the driver, or is the directory load whose
\* request has come back to a waiting bu_init; a slot without either has no job.
JobsAreDriven(k) ==
  \A p \in Ports :
    /\ k.job[p] # None => ~Idle(k.drv, p)
    /\ k.drv.active = p => ~Idle(k.drv, p)
    /\ k.pending[p] => k.job[p] = "load" \/ call.fn = "bu_init" \/ call.slot = p

\* The kernel's variables have their types, and a background job is always one the driver
\* will carry on: low_level_done is its only way forward.
TypeOK ==
  /\ FrameState(ram) /\ JobsAreDriven(ram)
  /\ \A p \in Ports : card[p].frame \in [Sectors -> Frames]
  /\ hist.calls \in 0..MaxCalls /\ hist.cut \subseteq Ports

Editing(p) == call.slot = p /\ ram.fn.phase \in {"write", "format"}

\* load_directory answers ok "when the cache is valid", and fail_io drops it "so the next
\* call reloads the directory": but for the edit under way, a cache that counts as loaded
\* is the card's directory, whatever call failed, was refused or timed out in between.
CacheIsTheCard ==
  \A p \in Slots : ram.loaded[p] /\ ~Editing(p) => ram.cache[p] = Directory(p)

\* The blocks of a card's file in order: the chain from its first block.
FileBlocks(dir, i) ==
  LET at[n \in 0..Entries] ==
        IF n = 0 THEN i ELSE IF at[n - 1] = NoNext THEN NoNext ELSE dir[at[n - 1]].next
  IN at
IsFile(dir, i) == dir[i].kind = "entry" /\ dir[i].state = FirstBlock
Files(dir) == {i \in Blocks : IsFile(dir, i)}
FileIsWhole(dir, i) ==
  LET b == FileBlocks(dir, i)
      n == dir[i].size
  IN /\ n > 0 /\ \A m \in 1..(n - 1) : b[m] # NoNext
     /\ b[n] = NoNext
     /\ \A m \in 1..(n - 1) :
          dir[b[m]].state = IF m = n - 1 THEN LastBlock ELSE MiddleBlock
Owned(dir, i) == {FileBlocks(dir, i)[n] : n \in 0..Entries} \ {NoNext}

\* A file on the card has all of its blocks and shares none, at every moment of every
\* create, undelete, rename and format and wherever a frame's end cuts one short: "the
\* first block of a file goes last".  An erase is left out: it, too, writes the first
\* block last, and a cut one leaves a file with deleted blocks.
FilesAreWhole ==
  \A p \in Slots \ hist.cut :
    ~(call.fn = "erase" /\ Editing(p)) =>
      LET dir == Directory(p) IN
      /\ \A i \in Files(dir) : FileIsWhole(dir, i)
      /\ \A i, j \in Files(dir) : i # j => Owned(dir, i) \cap Owned(dir, j) = {}

\* A file goes from the card, or changes its blocks, only by the call that names it or a
\* format: no create, no load and no background job, with any timeouts and refusals before
\* it, works on a directory that is not the card's.
Asked(p, i) ==
  /\ call.slot = p
  /\ \/ call.fn \in {"erase", "rename"} /\ call.name = card[p].frame[DirFrame(i)].name
     \/ call.fn = "format"
FilesAreKept ==
  [][\A p \in Slots \ hist.cut : \A i \in Files(Directory(p)) :
       Directory(p)'[i] # Directory(p)[i] => Asked(p, i)]_vars

\* A write the guest was told is done is on the card, every sector of it: the event of the
\* file handle is "card file handle done okay" (file_step).
DoneIsOnTheCard ==
  \A p \in Slots :
    ram.claim[p].told = "done" =>
      \A x \in ram.claim[p].sectors : card[p].frame[x] = ram.claim[p].from

\* A call that waits for the card has its answer in the end, and a background write its
\* event, while the driver runs: each request gets its turn, and a frame ends it.  (Of the
\* calls still to come there is a bound, so that what waits cannot be taken over by another.)
Waiting == call # NoCall \/ \E p \in Slots : ram.claim[p].told = "waiting"
EveryCallReturns == Waiting /\ ram.drv.started ~> ~Waiting \/ ~ram.drv.started

\* "The card is told _new_card before its sector 0 read and that write, so its changed
\* flag does not fail them" (load_directory): bu_init never takes a changed card's refusal.
\* Untrue with two slots: the flag is one, and the other slot's command takes it.
InitIsAllowedNewCards ==
  \A p \in Slots : call.fn = "bu_init" /\ ram.pending[p] /\ Idle(ram.drv, p)
                   => ram.drv.result[p] # "changed"

\* "erase: the file's blocks become deleted blocks (51h to A1h, 52h to A2h, 53h to A3h)":
\* every directory frame keeps one of the states the directory load accepts.  Untrue of an
\* erase that was cut short and is repeated.
FramesStayReadable ==
  \A p \in Slots : \A i \in Blocks :
    Directory(p)[i].kind = "entry" => Directory(p)[i].state \in InUse \cup Unused
=============================================================================
