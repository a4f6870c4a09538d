----------------------------- MODULE CardFile -----------------------------
(***************************************************************************)
(* The desktop player's memory card file (frontend/src/app.rs and          *)
(* app/slots.rs, psoxide-settings/src/paths.rs): a card is read from the   *)
(* game's directory when its disc is launched, lives in the machine while  *)
(* the game runs, and is written back at the next launch, load or exit if  *)
(* the game wrote to it.  A directory saved under an older id of the game  *)
(* is adopted first, and a card older than the built-in kernel is copied   *)
(* once before that kernel can write to it.                                *)
(*                                                                         *)
(* A card's content is the set of saves on it; the serial traffic that     *)
(* puts them there is SerialPort's.  Every file operation may fail, and    *)
(* one that writes may leave a torn file: a crash in the middle of one is  *)
(* that failure followed by Crash.                                         *)
(***************************************************************************)
EXTENDS Integers, FiniteSets

CONSTANTS
  Discs,      \* games on a disc: each has a card file
  Exes,       \* games that are a side-loaded executable: none has
  None,
  FilesFail,  \* whether operations on files may fail
  MaxSaves    \* bound: saves the games make between them

ASSUME GamesAssumption == Discs \cap Exes = {} /\ None \notin Discs \cup Exes
ASSUME SavesAssumption == MaxSaves \in Nat /\ FilesFail \in BOOLEAN

VARIABLES
  disk,   \* the directory of every game
  app,    \* AppState: what is running and which card it holds
  hist    \* the saves made so far, and those a failure or a missing flush took

vars == <<disk, app, hist>>

Games == Discs \cup Exes

\* Save 0 of a disc is the one made before the built-in kernel.
Original(g) == <<g, 0>>
Saves == Games \X (0..MaxSaves)

-----------------------------------------------------------------------------
(* Files.                                                                  *)

Absent == [is |-> "absent", saves |-> {}]
Torn   == [is |-> "torn", saves |-> {}]
Whole(saves) == [is |-> "whole", saves |-> saves]
Content == {Absent, Torn} \cup {Whole(saves) : saves \in SUBSET Saves}

Failed(outcomes) == IF FilesFail THEN outcomes ELSE {}

\* A game's directory, with the one it had under its older id.
Dir == [card : Content, backup : Content, marked : BOOLEAN,
        oldCard : Content, oldBackup : Content]

\* fs::copy where the target must not exist yet: what it makes, and what it may
\* leave behind.
Copied(from, to) == IF from.is # "absent" /\ to.is = "absent" THEN from ELSE to
Copies(from, to) ==
  IF from.is # "absent" /\ to.is = "absent"
    THEN {from} \cup Failed({Torn, to})
    ELSE {to}

\* adopt_legacy_game_dir: no file already there is copied over, and the marker is
\* written once every file is there.  (A call stops at the copy that fails: both
\* torn is two calls.)
With(dir, card, backup) == [dir EXCEPT !.card = card, !.backup = backup]
Adopted(dir) == [With(dir, Copied(dir.oldCard, dir.card), Copied(dir.oldBackup, dir.backup))
                   EXCEPT !.marked = TRUE]
Adoptions(dir) ==
  IF dir.marked \/ (dir.oldCard.is = "absent" /\ dir.oldBackup.is = "absent")
    THEN {dir}
    ELSE {Adopted(dir)} \cup {With(dir, c, b) : c \in Copies(dir.oldCard, dir.card),
                                                b \in Copies(dir.oldBackup, dir.backup)}

PreservedEveryLaunch(dir) ==
  IF dir.card.is = "absent" THEN dir ELSE [dir EXCEPT !.backup = dir.card]

\* preserve_pre_hle_memcard
Preserved(dir) == [dir EXCEPT !.backup = Copied(dir.card, dir.backup)]
PreserveFailures(dir) ==
  {[dir EXCEPT !.backup = b] : b \in Copies(dir.card, dir.backup) \ {dir.card}}

\* fs::read(path).unwrap_or_default(): a file that cannot be read, or is not a
\* card's length, is a blank card.
Reads(content) == {content.saves} \cup Failed({{}})

-----------------------------------------------------------------------------
(* The card in the machine.                                                *)

Card   == [in : BOOLEAN, saves : SUBSET Saves, dirty : BOOLEAN]
NoCard == [in |-> FALSE, saves |-> {}, dirty |-> FALSE]
Attached(saves) == [in |-> TRUE, saves |-> saves, dirty |-> FALSE]

App  == [up : BOOLEAN, game : Games \cup {None}, path : Discs \cup {None}, card : Card]
Down == [up |-> FALSE, game |-> None, path |-> None, card |-> NoCard]
Running(game, path, card) == [up |-> TRUE, game |-> game, path |-> path, card |-> card]

\* flush_memcard_port1: the snapshot clears the dirty mark, then the file is
\* written over, which may fail before or after it was truncated.
Flushing == app.path # None /\ app.card.dirty
Flushes(d) ==
  IF Flushing
    THEN {[d EXCEPT ![app.path].card = c] :
            c \in {Whole(app.card.saves)} \cup Failed({d[app.path].card, Torn})}
    ELSE {d}
Flushed == IF Flushing THEN [app EXCEPT !.card.dirty = FALSE] ELSE app

\* The saves a flush was asked to keep or found in the file, and did not leave
\* there: none unless it failed.
Unflushed(d) ==
  IF Flushing /\ d[app.path].card # Whole(app.card.saves)
    THEN (disk[app.path].card.saves \cup app.card.saves) \ d[app.path].card.saves
    ELSE {}

Lose(saves) == hist' = [hist EXCEPT !.lost = @ \cup (saves \cap hist.made)]

-----------------------------------------------------------------------------
(* Operations.                                                             *)

\* What a player may have on disk before the program first runs: nothing, a card
\* in place, or a directory under an older id, with or without its own copy.
FirstDirs(g) ==
  LET card == Whole({Original(g)})
      dir(c, oc, ob) == [card |-> c, backup |-> Absent, marked |-> FALSE,
                         oldCard |-> oc, oldBackup |-> ob]
  IN {dir(Absent, Absent, Absent), dir(card, Absent, Absent),
      dir(Absent, card, Absent), dir(Absent, card, card)}

Init ==
  /\ disk \in [Discs -> UNION {FirstDirs(g) : g \in Discs}]
  /\ \A g \in Discs : disk[g] \in FirstDirs(g)
  /\ app = Down
  /\ hist = [made |-> {}, lost |-> {}]

\* AppState::new adopts the data of every game of the library.
Start ==
  /\ ~app.up
  /\ app' = Running(None, None, NoCard)
  /\ disk' \in [Discs -> UNION {Adoptions(disk[g]) : g \in Discs}]
  /\ \A g \in Discs : disk'[g] \in Adoptions(disk[g])
  /\ UNCHANGED hist

\* The game writes a save to the card.  A card no file stands behind never
\* reaches one.
GuestSaves ==
  /\ app.card.in
  /\ Cardinality(hist.made) < MaxSaves
  /\ \E save \in {<<app.game, Cardinality(hist.made) + 1>>} :
       /\ app' = [app EXCEPT !.card.saves = @ \cup {save}, !.card.dirty = TRUE]
       /\ hist' = [made |-> hist.made \cup {save},
                   lost |-> IF app.path = None THEN hist.lost \cup {save} ELSE hist.lost]
  /\ UNCHANGED disk

\* launch_entry on a disc, a Reset of the running game included.  The old machine
\* stays if the disc does not boot or its card cannot be copied.
Launch(g) ==
  /\ app.up
  /\ \E dir \in Adoptions(disk[g]) : \E d \in Flushes([disk EXCEPT ![g] = dir]) :
       \/ /\ \E kept \in {d[g]} \cup PreserveFailures(d[g]) : disk' = [d EXCEPT ![g] = kept]
          /\ app' = Flushed
          /\ Lose(Unflushed(d))
       \/ \E saves \in Reads(d[g].card) :
            /\ disk' = [d EXCEPT ![g] = Preserved(d[g])]
            /\ app' = Running(g, g, Attached(saves))
            /\ Lose(Unflushed(d) \cup (d[g].card.saves \ saves))

LaunchExeKeepsPath(x) ==
  /\ app.up
  /\ disk' \in Flushes(disk)
  /\ app' \in {Flushed, Running(x, app.path, NoCard)}
  /\ Lose(Unflushed(disk'))

\* launch_entry on an executable, which may not load.
LaunchExe(x) ==
  /\ app.up
  /\ disk' \in Flushes(disk)
  /\ app' \in {Flushed, Running(x, None, NoCard)}
  /\ Lose(Unflushed(disk'))

\* swap_in_booted for a built-in example, load_embedded_playtest_disc for the
\* editor's Play: the machine is replaced and no flush comes before it.
BootExample ==
  /\ app.up
  /\ app' = Running(None, app.path, NoCard)
  /\ Lose(IF Flushing THEN app.card.saves \ disk[app.path].card.saves ELSE {})
  /\ UNCHANGED disk

LoadSlotUnguarded ==
  /\ app.up
  /\ disk' \in Flushes(disk)
  /\ app' = [app EXCEPT !.card = Attached({})]
  /\ UNCHANGED hist

LoadSlotWithoutFlush ==
  /\ app.up /\ app.game # None
  /\ app' = [app EXCEPT !.card =
               Attached(IF app.path = None THEN {} ELSE disk[app.path].card.saves)]
  /\ UNCHANGED <<disk, hist>>

\* try_restore, past its checks: the state's own card is replaced by the file's,
\* and by a blank one where there is no file.
LoadSlot ==
  /\ app.up /\ app.game # None
  /\ disk' \in Flushes(disk)
  /\ IF app.path = None
       THEN /\ app' = [app EXCEPT !.card = Attached({})]
            /\ UNCHANGED hist
       ELSE \E saves \in Reads(disk'[app.path].card) :
              /\ app' = [app EXCEPT !.card = Attached(saves)]
              /\ Lose(Unflushed(disk') \cup (disk'[app.path].card.saves \ saves))

\* shut_down_for_exit
Exit ==
  /\ app.up
  /\ disk' \in Flushes(disk)
  /\ app' = Down
  /\ Lose(Unflushed(disk'))

Crash ==
  /\ app.up
  /\ app' = Down
  /\ Lose(IF Flushing THEN app.card.saves \ disk[app.path].card.saves ELSE {})
  /\ UNCHANGED disk

Next ==
  \/ Start \/ GuestSaves \/ BootExample \/ LoadSlot \/ Exit \/ Crash
  \/ \E g \in Discs : Launch(g)
  \/ \E x \in Exes : LaunchExe(x)

Spec == Init /\ [][Next]_vars

-----------------------------------------------------------------------------
(* Properties.                                                             *)

\* A card has a place only in a running program, and a file stands behind it only if
\* it is the running disc's (app.rs:457-460).
Placed(a) ==
  /\ a.card.in => a.up /\ a.game # None
  /\ a.path # None /\ a.game # None => a.path = a.game
  /\ ~a.card.in => a.card = NoCard

\* The directories, the program and the histories have their types, and the card and
\* the path behind it are placed as they should be.
TypeOK ==
  /\ disk \in [Discs -> Dir]
  /\ app \in App /\ Placed(app)
  /\ hist \in [made : SUBSET Saves, lost : SUBSET Saves]

\* A save is kept while its game's file has it or a flush to come will write it.
Kept(save) ==
  \/ save[1] \in Discs /\ save \in disk[save[1]].card.saves
  \/ app.path = save[1] /\ app.card.dirty /\ save \in app.card.saves

\* Every save a game made is in its own file, or on a dirty card whose next flush
\* goes to that file, unless a file operation failed, the program crashed, the
\* machine was replaced without a flush, or no file stood behind the card.
\* Launches, resets, loads and exits in any order lose none by themselves.
EverySaveIsKept ==
  \A save \in hist.made : save \in hist.lost \/ Kept(save)

\* No card and no file ever holds another game's save, whichever launches, loads
\* and failures came between: what Reset, LoadSlot and BootExample leave in
\* current_game and memcard_port1_path never sends a card to the wrong directory.
NoForeignSave ==
  /\ \A save \in app.card.saves : save[1] = app.game
  /\ \A g \in Discs : \A save \in disk[g].card.saves \cup disk[g].backup.saves : save[1] = g

Files(g) == {disk[g].card, disk[g].backup, disk[g].oldCard}

\* The save made before the built-in kernel is gone from every file of its game
\* only if the copy that should hold it was torn (preserve_pre_hle_memcard: "made
\* once and never overwritten, so saves from before PSoXide dropped BIOS support
\* survive a card-driver bug").
OriginalIsKept ==
  [][\A g \in Discs :
       (\E file \in Files(g) : Original(g) \in file.saves)
       => \/ \E file \in Files(g)' : Original(g) \in file.saves
          \/ disk'[g].backup = Torn]_vars

\* "loading a state must never roll back what the player saved to the card
\* since" (app/slots.rs:452): a load leaves on the card all that was on it.
\* Untrue even where no file fails: an executable's game has no file, so each
\* load gives it a blank card.  (A flush that failed, or a file that cannot be
\* read, does the same to a disc.)
LoadNeverRollsBack == [][LoadSlot => app.card.saves \subseteq app'.card.saves]_vars
=============================================================================
