----------------------------- MODULE WebSlots -----------------------------
(***************************************************************************)
(* The browser player's save slots (frontend/src/app/slots.rs and          *)
(* web_files.rs): a slot lives in IndexedDB, every operation on it is a    *)
(* promise, its answer is an event the next frame handles, and by then the *)
(* running game may be another one.                                        *)
(*                                                                         *)
(* IndexedDB is external and modelled by its contract: transactions on the *)
(* one object store run in the order they were made, except that readers   *)
(* overtake readers; a save asks for persistent storage first, which may   *)
(* take any time; any transaction may fail.                                *)
(*                                                                         *)
(* A save is a value that names its game; packing, pictures and the checks *)
(* on damaged or foreign bytes are left out, as is the sheet's busy mark,  *)
(* which only greys its buttons.                                           *)
(***************************************************************************)
EXTENDS Integers, Sequences, SequencesExt, FiniteSets

CONSTANTS
  Games,
  LastSlot,    \* slots are 0 (the quick slot) to LastSlot
  None,
  MaxOps,      \* bound: operations the player asks for
  MaxChanges,  \* bound: games booted or unloaded
  MaxFaults    \* bound: transactions that fail

ASSUME GamesAssumption == None \notin Games
ASSUME BoundsAssumption == {LastSlot, MaxOps, MaxChanges, MaxFaults} \subseteq Nat

VARIABLES
  game,      \* current_game
  machine,   \* the game the running machine's state belongs to
  pending,   \* slots.pending: the operation waiting on storage
  web,       \* slots.web: what each slot held when last listed; the sheet shows it
  asking,    \* saves waiting for navigator.storage.persist
  queue,     \* transactions, oldest first
  events,    \* SLOT_EVENTS
  store,     \* the slots of every game
  hist       \* what happened, for the properties and the bounds

vars == <<game, machine, pending, web, asking, queue, events, store, hist>>

Slots == 0..LastSlot
\* Save n of a game; 0 is one from an earlier visit.
Saves == Games \X (0..MaxOps)
Sheet == [Slots -> Saves \cup {None}]
Empty == [s \in Slots |-> None]

-----------------------------------------------------------------------------
(* Requests.                                                               *)

\* What the player asks for; the code's Save is an import when it comes from a file.
WebOp == {"save", "load", "export", "delete", "import"}
Operation == [op : WebOp, save : Saves \cup {None}]
ASSUME NoneAssumption == None \notin Operation

\* `save` is what a put stores or a get found, `got` what a listing found,
\* `why` what the player asked for.
Call == [do : {"put", "get", "delete", "list"}, game : Games, slot : Slots,
         save : Saves \cup {None}, got : Sheet,
         why : WebOp \cup {"list"}, again : BOOLEAN]
Request(do, g, slot, save, why) ==
  [do |-> do, game |-> g, slot |-> slot, save |-> save, got |-> Empty, why |-> why,
   again |-> FALSE]
List(g) == Request("list", g, 0, None, "list")
Reading(c) == c.do \in {"get", "list"}

Pending(op, save) == [op |-> op, save |-> save]

\* Every operation is refused without a game and while another one waits.
Ask(op, slot, save, do) ==
  /\ game # None /\ pending = None
  /\ hist.ops < MaxOps
  /\ pending' = Pending(op, save)
  /\ LET c == Request(do, game, slot, save, op)
     IN IF do = "put" THEN asking' = asking \cup {c} /\ UNCHANGED queue
                      ELSE queue' = Append(queue, c) /\ UNCHANGED asking
  /\ hist' = [hist EXCEPT !.ops = @ + 1]
  /\ UNCHANGED <<game, machine, web, events, store>>

NewSave == <<game, hist.ops + 1>>

SaveSlot(s)   == Ask("save", s, NewSave, "put")
LoadSlot(s)   == Ask("load", s, None, "get")
ExportSlot(s) == Ask("export", s, None, "get")
DeleteSlot(s) == Ask("delete", s, None, "delete")

\* import_bytes: a save file of this game goes to the first numbered slot that
\* the sheet shows empty.
ImportInto(s) == s # 0 /\ web[s] = None /\ \A t \in 1..(s - 1) : web[t] # None
ImportSlot == \E s \in Slots : ImportInto(s) /\ Ask("import", s, NewSave, "put")

-----------------------------------------------------------------------------
(* The running game.                                                       *)

ForgottenKeepsSheet(g) ==
  /\ UNCHANGED web
  /\ pending' = None
  /\ queue' = Append(queue, List(g))

\* slot_game_changed
Forgotten(g) ==
  /\ web' = Empty
  /\ pending' = None
  /\ queue' = Append(queue, List(g))

Outstanding == asking # {} \/ (\E i \in DOMAIN queue : queue[i].do # "list")
                           \/ (\E i \in DOMAIN events : events[i].call.do # "list")

\* set_web_current_game: a boot, or the restart of a disc still streaming, is done.
ChangeGame(g) ==
  /\ hist.changes < MaxChanges
  /\ game' = g /\ machine' = g
  /\ Forgotten(g)
  /\ hist' = [hist EXCEPT !.changes = @ + 1, !.crossed = @ \/ Outstanding]
  /\ UNCHANGED <<asking, events, store>>

\* A restart that fails leaves no game (restart_loaded_web_game,
\* poll_pending_web_boot).
Unload ==
  /\ game # None
  /\ hist.changes < MaxChanges
  /\ game' = None /\ machine' = None
  /\ hist' = [hist EXCEPT !.changes = @ + 1]
  /\ UNCHANGED <<pending, web, asking, queue, events, store>>

-----------------------------------------------------------------------------
(* Storage.                                                                *)

\* slotPut makes its transaction once _persist has answered.
Persisted ==
  \E c \in asking :
    /\ asking' = asking \ {c}
    /\ queue' = Append(queue, c)
    /\ UNCHANGED <<game, machine, pending, web, events, store, hist>>

\* A transaction waits for the older ones unless both only read.
Runs(i) == i = 1 \/ \A j \in 1..i : Reading(queue[j])

Answer(c, ok) == events' = Append(events, [call |-> c, ok |-> ok])

\* What a reader has read; one that finds the quick slot empty looks for a save
\* from before slots in a transaction of its own.
Read(c) == IF c.do = "list" THEN [c EXCEPT !.got = store[c.game], !.again = TRUE]
                            ELSE [c EXCEPT !.save = store[c.game][c.slot], !.again = TRUE]
LooksAgain(c) == ~c.again /\ (c.do = "list" \/ c.slot = 0) /\ store[c.game][0] = None

Reads(i) ==
  LET c == queue[i]
      r == IF c.again THEN c ELSE Read(c)
  IN /\ Reading(c)
     /\ IF LooksAgain(c)
          THEN queue' = Append(RemoveAt(queue, i), r) /\ UNCHANGED events
          ELSE queue' = RemoveAt(queue, i) /\ Answer(r, TRUE)
     /\ UNCHANGED <<store, hist>>

Writes(i) ==
  LET c == queue[i]
      held == store[c.game][c.slot]
  IN /\ ~Reading(c)
     /\ queue' = RemoveAt(queue, i)
     /\ store' = [store EXCEPT ![c.game][c.slot] = c.save]
     /\ hist' = [hist EXCEPT !.replaced = @ \/ (c.why = "import" /\ held # None)]
     /\ Answer(c, TRUE)

\* A transaction that fails changes nothing.  slotDelete, unlike slotPut, has no
\* onabort: a delete aborted at its commit is never answered.
Fails(i) ==
  /\ hist.faults < MaxFaults
  /\ queue' = RemoveAt(queue, i)
  /\ \/ Answer(queue[i], FALSE) /\ hist' = [hist EXCEPT !.faults = @ + 1]
     \/ /\ queue[i].do = "delete"
        /\ hist' = [hist EXCEPT !.faults = @ + 1, !.hung = TRUE]
        /\ UNCHANGED events
  /\ UNCHANGED store

Transaction ==
  \E i \in DOMAIN queue :
    /\ Runs(i)
    /\ Reads(i) \/ Writes(i) \/ Fails(i)
    /\ UNCHANGED <<game, machine, pending, web, asking>>

-----------------------------------------------------------------------------
(* poll_web_slots.                                                         *)

Handled(c) == events # <<>> /\ events[1].call.do = c /\ events' = Tail(events)
Current == events[1].call.game = game
Ok == events[1].ok

\* The answer to a write of slot s is among the events still to be handled.
Coming(s) == \E i \in 2..Len(events) :
  /\ events[i].call.game = game /\ events[i].call.slot = s /\ ~Reading(events[i].call)

Listed ==
  /\ Handled("list")
  /\ LET got == events[1].call.got
     IN IF Current /\ Ok
          THEN /\ web' = got
               /\ hist' = [hist EXCEPT !.overtaken = ~\A s \in Slots : got[s] = store[game][s]
                                                                      \/ Coming(s)]
          ELSE UNCHANGED <<web, hist>>
  /\ UNCHANGED <<game, machine, pending, asking, queue, store>>

SavedWithoutRelist ==
  /\ Handled("put")
  /\ pending' = None
  /\ web' = IF Current /\ Ok /\ pending # None /\ pending.op \in {"save", "import"}
              THEN [web EXCEPT ![events[1].call.slot] = pending.save] ELSE web
  /\ UNCHANGED <<game, machine, asking, queue, store, hist>>

SavedErrorKeepsPending ==
  /\ Handled("put")
  /\ IF Current /\ Ok
       THEN IF pending # None /\ pending.op \in {"save", "import"}
              THEN /\ web' = [web EXCEPT ![events[1].call.slot] = pending.save]
                   /\ pending' = None /\ UNCHANGED queue
              ELSE Forgotten(game)
       ELSE UNCHANGED <<pending, web, queue>>
  /\ UNCHANGED <<game, machine, asking, store, hist>>

\* Whatever was pending is taken, before the game is looked at.
Saved ==
  /\ Handled("put")
  /\ IF Current /\ Ok
       THEN IF pending # None /\ pending.op \in {"save", "import"}
              THEN /\ web' = [web EXCEPT ![events[1].call.slot] = pending.save]
                   /\ pending' = None /\ UNCHANGED queue
              ELSE Forgotten(game)
       ELSE pending' = None /\ UNCHANGED <<web, queue>>
  /\ UNCHANGED <<game, machine, asking, store, hist>>

LoadedIntoAnyGame ==
  /\ Handled("get")
  /\ pending' = None
  /\ machine' = IF Ok /\ events[1].call.save # None THEN events[1].call.save[1] ELSE machine
  /\ UNCHANGED <<game, web, asking, queue, store, hist>>

\* An export hands the bytes over; any other answer is restored.
Loaded ==
  /\ Handled("get")
  /\ pending' = None
  /\ LET found    == events[1].call.save
         restores == Current /\ Ok /\ found # None /\ ~(pending # None /\ pending.op = "export")
     IN /\ machine' = IF restores THEN found[1] ELSE machine
        /\ hist' = [hist EXCEPT !.exportLoaded =
                      @ \/ (restores /\ events[1].call.why = "export")]
  /\ UNCHANGED <<game, web, asking, queue, store>>

Deleted ==
  /\ Handled("delete")
  /\ pending' = None
  /\ web' = IF Current /\ Ok THEN [web EXCEPT ![events[1].call.slot] = None] ELSE web
  /\ UNCHANGED <<game, machine, asking, queue, store, hist>>

PollWebSlots == Listed \/ Saved \/ Loaded \/ Deleted

-----------------------------------------------------------------------------
\* An earlier visit left each game's slots full, or there was none.
Init ==
  /\ game = None /\ machine = None /\ pending = None
  /\ web = Empty
  /\ asking = {} /\ queue = <<>> /\ events = <<>>
  /\ store \in {[g \in Games |-> IF g \in full THEN [s \in Slots |-> <<g, 0>>] ELSE Empty] :
                full \in SUBSET Games}
  /\ hist = [ops |-> 0, changes |-> 0, faults |-> 0, crossed |-> FALSE, hung |-> FALSE,
             overtaken |-> FALSE, replaced |-> FALSE, exportLoaded |-> FALSE]

Player ==
  \/ \E s \in Slots : SaveSlot(s) \/ LoadSlot(s) \/ ExportSlot(s) \/ DeleteSlot(s)
  \/ ImportSlot
  \/ \E g \in Games : ChangeGame(g)
  \/ Unload

Next == Player \/ Persisted \/ Transaction \/ PollWebSlots

\* The browser answers every request, and every frame polls; the player may do
\* nothing at all.
Fairness == WF_vars(Persisted) /\ WF_vars(Transaction) /\ WF_vars(PollWebSlots)

Spec == Init /\ [][Next]_vars /\ Fairness

-----------------------------------------------------------------------------
(* Properties.                                                             *)

\* Types; a sheet never shows another game's save.
TypeOK ==
  /\ game \in Games \cup {None} /\ machine \in Games \cup {None}
  /\ pending = None \/ pending \in Operation
  /\ web \in Sheet
  /\ asking \subseteq Call /\ queue \in Seq(Call)
  /\ events \in Seq([call : Call, ok : BOOLEAN])
  /\ store \in [Games -> Sheet]
  /\ game # None => \A s \in Slots : web[s] # None => web[s][1] = game

\* A slot being exported is loaded over the running machine only if a game was
\* booted while a request was out: then the answer to the older request takes the
\* export out of `pending`, and the bytes that follow are taken for a load.
ExportLoadsOnlyAfterABoot == hist.exportLoaded => hist.crossed

\* The machine always holds the state of the game that is current: a load asked
\* of one game is never restored into another that was booted before the answer
\* came ("Load cancelled: a different game is running now"), and an export is not
\* restored at all but in the case above.
MachineRunsItsGame == machine = game /\ ExportLoadsOnlyAfterABoot

\* Once every request was answered, the sheet shows what the slots hold, however
\* boots, saves, deletes and answers to the game before crossed, unless a
\* transaction failed or a listing was overtaken by the save or delete it missed.
SheetIsTheStore ==
  /\ game # None /\ asking = {} /\ queue = <<>> /\ events = <<>>
  /\ hist.faults = 0 /\ ~hist.overtaken
  => web = store[game]

\* Every operation is answered, so that the next one is not refused for ever
\* ("Still saving. One moment."), unless a delete was aborted at its commit.
AnswerComes == pending # None ~> pending = None \/ hist.hung

\* Importing a save file "never replaces a save" (app/slots.rs:267).  Untrue: the
\* free slot is looked up on the sheet, which is empty until the game's listing
\* has come, and stays so if it failed.
ImportNeverReplaces == ~hist.replaced
=============================================================================
