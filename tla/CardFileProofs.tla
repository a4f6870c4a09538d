-------------------------- MODULE CardFileProofs --------------------------
(***************************************************************************)
(* No operation on the card file loses or misplaces a save by itself, for  *)
(* any games and any number of saves: TypeOK, EverySaveIsKept,             *)
(* NoForeignSave and OriginalIsKept.                                       *)
(***************************************************************************)
EXTENDS CardFile, FiniteSetTheorems, TLAPS

\* The files of g's directory, the older one's included, hold g's saves only, and
\* the older card none that was made since.
OwnedBy(dir, g) ==
  /\ \A save \in dir.card.saves \cup dir.backup.saves
                 \cup dir.oldCard.saves \cup dir.oldBackup.saves : save[1] = g
  /\ \A save \in dir.oldCard.saves : save[2] = 0

Owned ==
  /\ \A save \in app.card.saves : save[1] = app.game
  /\ \A g \in Discs : OwnedBy(disk[g], g)
  /\ \A save \in hist.made : save[2] # 0

\* The card in the machine has every save that the file behind it has in `d`, but
\* for lost ones: a flush that succeeds overwrites nothing that was kept.
HasAllOf(d) ==
  app.card.in /\ app.path # None =>
    \A save \in hist.made \ hist.lost :
      save \in d[app.path].card.saves => save \in app.card.saves

\* EverySaveIsKept and NoForeignSave with what a step needs: types, owners of
\* the files a save can be copied from, that saves can be counted, and that the
\* card is not behind its file.
Inv == TypeOK /\ IsFiniteSet(hist.made) /\ Owned /\ EverySaveIsKept /\ HasAllOf(disk)

-----------------------------------------------------------------------------
(* What each operation on files does.                                      *)

\* A copy never takes a save out of the file it makes, and puts in only what
\* was in the file it reads.
LEMMA CopyKeeps ==
  ASSUME NEW from \in Content, NEW to \in Content,
         NEW made \in Copies(from, to) \cup {Copied(from, to)}
  PROVE  /\ made \in Content
         /\ to.saves \subseteq made.saves
         /\ made.saves \subseteq from.saves \cup to.saves
<1>1. Absent \in Content /\ Torn \in Content
  BY DEF Content
<1>2. to.is = "absent" => to.saves = {}
  BY DEF Content, Absent, Torn, Whole
<1>3. made \in {from, to, Torn} /\ (made # to => to.is = "absent")
  BY DEF Copies, Copied, Failed
<1>4. CASE made = to
  BY <1>4
<1>5. CASE made # to
  BY <1>1, <1>2, <1>3, <1>5 DEF Torn
<1> QED
  BY <1>4, <1>5

\* Adoption adds old saves of the same game to its directory, and takes none away.
LEMMA AdoptionKeeps ==
  ASSUME NEW g, NEW dir \in Dir, OwnedBy(dir, g), NEW new \in Adoptions(dir)
  PROVE  /\ new \in Dir /\ OwnedBy(new, g) /\ dir.card.saves \subseteq new.card.saves
         /\ \A save \in new.card.saves : save \in dir.card.saves \/ save[2] = 0
<1> USE DEF Dir
<1>1. CASE new = dir
  BY <1>1
<1>2. CASE \E c \in Copies(dir.oldCard, dir.card) \cup {Copied(dir.oldCard, dir.card)},
              b \in Copies(dir.oldBackup, dir.backup) \cup {Copied(dir.oldBackup, dir.backup)},
              m \in BOOLEAN :
                new = [dir EXCEPT !.card = c, !.backup = b, !.marked = m]
  <2>1. PICK c \in Copies(dir.oldCard, dir.card) \cup {Copied(dir.oldCard, dir.card)},
             b \in Copies(dir.oldBackup, dir.backup) \cup {Copied(dir.oldBackup, dir.backup)},
             m \in BOOLEAN :
               new = [dir EXCEPT !.card = c, !.backup = b, !.marked = m]
    BY <1>2
  <2>2. c \in Content /\ dir.card.saves \subseteq c.saves
        /\ c.saves \subseteq dir.oldCard.saves \cup dir.card.saves
    BY CopyKeeps
  <2>3. b \in Content /\ b.saves \subseteq dir.oldBackup.saves \cup dir.backup.saves
    BY CopyKeeps
  <2>4. /\ new.card = c /\ new.backup = b
        /\ new.oldCard = dir.oldCard /\ new.oldBackup = dir.oldBackup
        /\ new \in Dir
    BY <2>1, <2>2, <2>3
  <2> QED
    BY <2>2, <2>3, <2>4 DEF OwnedBy
<1>3. \/ new = dir \/ new = Adopted(dir)
      \/ \E c \in Copies(dir.oldCard, dir.card), b \in Copies(dir.oldBackup, dir.backup) :
           new = With(dir, c, b)
  BY DEF Adoptions
<1>4. CASE new = Adopted(dir)
  <2>1. new = [dir EXCEPT !.card = Copied(dir.oldCard, dir.card),
                          !.backup = Copied(dir.oldBackup, dir.backup), !.marked = TRUE]
    BY <1>4 DEF Adopted, With
  <2> QED
    BY <1>2, <2>1
<1>5. CASE \E c \in Copies(dir.oldCard, dir.card), b \in Copies(dir.oldBackup, dir.backup) :
             new = With(dir, c, b)
  <2>1. PICK c \in Copies(dir.oldCard, dir.card), b \in Copies(dir.oldBackup, dir.backup) :
             new = With(dir, c, b)
    BY <1>5
  <2>2. new = [dir EXCEPT !.card = c, !.backup = b, !.marked = dir.marked]
        /\ dir.marked \in BOOLEAN
    BY <2>1 DEF With
  <2> QED
    BY <1>2, <2>2
<1> QED
  BY <1>1, <1>3, <1>4, <1>5

\* A backup copies the card and leaves it alone, whether it succeeds or fails.
LEMMA BackupKeeps ==
  ASSUME NEW g, NEW dir \in Dir, OwnedBy(dir, g),
         NEW new \in {dir, Preserved(dir)} \cup PreserveFailures(dir)
  PROVE  new \in Dir /\ OwnedBy(new, g) /\ new.card = dir.card
<1> USE DEF Dir
<1>1. CASE new = dir
  BY <1>1
<1>2. CASE new # dir
  <2>1. PICK b \in Copies(dir.card, dir.backup) \cup {Copied(dir.card, dir.backup)} :
          new = [dir EXCEPT !.backup = b]
    BY <1>2 DEF Preserved, PreserveFailures
  <2>2. b \in Content /\ b.saves \subseteq dir.card.saves \cup dir.backup.saves
    BY CopyKeeps
  <2> QED
    BY <2>1, <2>2 DEF OwnedBy
<1> QED
  BY <1>1, <1>2

\* A flush writes the running disc's card to its own file or leaves it torn or as
\* it was: a save that was kept is in its game's file or on the list of those
\* the flush was asked to keep and did not.  (`d` is the disk it starts from.)
LEMMA FlushKeeps ==
  ASSUME Inv,
         NEW d \in [Discs -> Dir], \A g \in Discs : OwnedBy(d[g], g),
         \A g \in Discs : /\ disk[g].card.saves \subseteq d[g].card.saves
                          /\ \A save \in d[g].card.saves : save \in disk[g].card.saves \/ save[2] = 0,
         NEW e \in Flushes(d)
  PROVE  /\ e \in [Discs -> Dir]
         /\ \A g \in Discs : OwnedBy(e[g], g)
         /\ \A save \in hist.made \ hist.lost : Kept(save) =>
              \/ save \in Unflushed(e)
              \/ save[1] \in Discs /\ save \in e[save[1]].card.saves
         /\ HasAllOf(e)
<1>1. /\ app \in App /\ Placed(app) /\ disk \in [Discs -> Dir] /\ None \notin Games
      /\ hist.made \subseteq Saves
  BY GamesAssumption DEF Inv, TypeOK, Games
<1>had. HasAllOf(d)
  <2> SUFFICES ASSUME app.card.in, app.path # None, NEW save \in hist.made \ hist.lost,
                      save \in d[app.path].card.saves
               PROVE  save \in app.card.saves
    BY DEF HasAllOf
  <2>1. app.path \in Discs /\ save[2] # 0
    BY <1>1 DEF App, Inv, Owned
  <2>2. save \in disk[app.path].card.saves
    BY <2>1
  <2> QED
    BY <2>2 DEF Inv, HasAllOf
<1>2. CASE ~Flushing
  <2>1. e = d
    BY <1>2 DEF Flushes
  <2>2. ASSUME NEW save \in hist.made \ hist.lost, Kept(save)
        PROVE  save[1] \in Discs /\ save \in e[save[1]].card.saves
    <3>1. save[1] \in Games
      BY <1>1 DEF Saves
    <3>2. save[1] \in Discs /\ save \in disk[save[1]].card.saves
      BY <1>1, <1>2, <2>2, <3>1 DEF Kept, Flushing
    <3> QED
      BY <2>1, <3>2
  <2> QED
    BY <1>had, <2>1, <2>2
<1>3. CASE Flushing
  <2>1. /\ app.path \in Discs /\ app.path = app.game /\ app.card.saves \subseteq Saves
        /\ app.card.in
    BY <1>1, <1>3 DEF Flushing, Placed, App, Card, NoCard
  <2>2. PICK c \in {Whole(app.card.saves), d[app.path].card, Torn} :
          e = [d EXCEPT ![app.path].card = c]
    BY <1>3 DEF Flushes, Failed
  <2>3. d[app.path] \in Dir /\ OwnedBy(d[app.path], app.path)
    BY <2>1
  <2>4. c \in Content
    BY <2>1, <2>3 DEF Content, Dir
  <2>5. e[app.path] = [d[app.path] EXCEPT !.card = c]
        /\ \A g \in Discs \ {app.path} : e[g] = d[g]
    BY <2>1, <2>2
  <2>6. e[app.path] \in Dir
    BY <2>3, <2>4, <2>5 DEF Dir
  <2>7. e \in [Discs -> Dir]
    BY <2>1, <2>2, <2>5, <2>6
  <2>8. \A save \in c.saves : save[1] = app.path
    BY <2>1, <2>3 DEF Inv, Owned, OwnedBy, Whole, Torn
  <2>9. OwnedBy(e[app.path], app.path)
    BY <2>3, <2>5, <2>8 DEF OwnedBy, Dir
  <2>10. \A g \in Discs : OwnedBy(e[g], g)
    BY <2>5, <2>9
  <2>11. ASSUME NEW save \in hist.made \ hist.lost, Kept(save), save \notin Unflushed(e)
         PROVE  save[1] \in Discs /\ save \in e[save[1]].card.saves
    <3>1. CASE save[1] = app.path /\ e[app.path].card = Whole(app.card.saves)
      <4>1. save \in disk[app.path].card.saves => save \in app.card.saves
        BY <1>1, <2>1 DEF Inv, HasAllOf, Games
      <4>2. save \in app.card.saves
        BY <2>11, <3>1, <4>1 DEF Kept
      <4> QED
        BY <2>1, <3>1, <4>2 DEF Whole
    <3>2. CASE save[1] = app.path /\ e[app.path].card # Whole(app.card.saves)
      BY <1>3, <2>1, <2>11, <3>2 DEF Kept, Unflushed
    <3>3. CASE save[1] # app.path
      BY <2>5, <2>11, <3>3 DEF Kept
    <3> QED
      BY <3>1, <3>2, <3>3
  <2>12. HasAllOf(e)
    <3>1. e[app.path].card = c
      BY <2>3, <2>5 DEF Dir
    <3>2. c.saves \subseteq app.card.saves \cup d[app.path].card.saves
      BY <2>2 DEF Whole, Torn
    <3> QED
      BY <1>had, <3>1, <3>2 DEF HasAllOf
  <2> QED
    BY <2>7, <2>10, <2>11, <2>12
<1> QED
  BY <1>2, <1>3

\* What a step writes off is lost, and the rest is as safe as it was.
LEMMA LostOrKept ==
  ASSUME Inv, NEW gone, Lose(gone),
         \A save \in hist.made \ hist.lost : Kept(save) =>
           \/ save \in gone
           \/ save[1] \in Discs /\ save \in disk'[save[1]].card.saves
  PROVE  /\ hist' \in [made : SUBSET Saves, lost : SUBSET Saves]
         /\ hist'.made = hist.made /\ hist'.lost = hist.lost \cup (gone \cap hist.made)
         /\ IsFiniteSet(hist'.made)
         /\ EverySaveIsKept'
<1>1. hist \in [made : SUBSET Saves, lost : SUBSET Saves]
  BY DEF Inv, TypeOK
<1>2. hist'.made = hist.made /\ hist'.lost = hist.lost \cup (gone \cap hist.made)
      /\ hist' \in [made : SUBSET Saves, lost : SUBSET Saves]
  BY <1>1 DEF Lose
<1>3. ASSUME NEW save \in hist.made
      PROVE  save \in hist'.lost \/ Kept(save)'
  <2>1. save \in hist.lost \/ Kept(save)
    BY DEF Inv, EverySaveIsKept
  <2> QED
    BY <1>2, <2>1 DEF Kept
<1> QED
  BY <1>2, <1>3 DEF Inv, EverySaveIsKept

-----------------------------------------------------------------------------
(* The invariant holds at the start and every step keeps it.               *)

\* What the operations put in the machine has its type and a place.
LEMMA CardTypes ==
  ASSUME NEW saves \in SUBSET Saves
  PROVE  Attached(saves) \in Card /\ NoCard \in Card
BY DEF Attached, NoCard, Card

\* A machine that was just booted.
LEMMA RunningPlaced ==
  ASSUME NEW game \in Games \cup {None}, NEW path \in Discs \cup {None}, NEW card \in Card,
         card.in => game # None,
         path # None /\ game # None => path = game,
         ~card.in => card = NoCard
  PROVE  Running(game, path, card) \in App /\ Placed(Running(game, path, card))
BY DEF Running, App, Placed

\* The program not running.
LEMMA DownPlaced == Down \in App /\ Placed(Down)
BY DEF Down, App, Placed, NoCard, Card

\* The machine as it was, its card's dirty mark gone.
LEMMA FlushedPlaced ==
  ASSUME app \in App, Placed(app)
  PROVE  /\ Flushed \in App /\ Placed(Flushed)
         /\ Flushed.game = app.game /\ Flushed.path = app.path
         /\ Flushed.card.saves = app.card.saves /\ Flushed.card.in = app.card.in
<1>1. CASE ~Flushing
  BY <1>1 DEF Flushed
<1>2. CASE Flushing
  <2>1. Flushed = [app EXCEPT !.card.dirty = FALSE] /\ app.card.dirty /\ app.card \in Card
    BY <1>2 DEF Flushed, Flushing, App
  <2>2. app.card.in
    BY <2>1 DEF Placed, NoCard
  <2>3. /\ Flushed.card = [app.card EXCEPT !.dirty = FALSE] /\ Flushed.up = app.up
        /\ Flushed.game = app.game /\ Flushed.path = app.path /\ Flushed \in App
    BY <2>1 DEF App, Card
  <2>4. Flushed.card.in = app.card.in /\ Flushed.card.saves = app.card.saves
    BY <2>1, <2>3 DEF Card
  <2> QED
    BY <2>2, <2>3, <2>4 DEF Placed
<1> QED
  BY <1>1, <1>2

\* Whatever an earlier version left on disk.
LEMMA InitInv == Init => Inv
<1> SUFFICES ASSUME Init PROVE Inv
  OBVIOUS
<1>1. ASSUME NEW g \in Discs
      PROVE  disk[g] \in Dir /\ OwnedBy(disk[g], g)
  <2>1. disk[g] \in FirstDirs(g)
    BY DEF Init
  <2>2. Original(g) \in Saves /\ Original(g)[1] = g /\ Original(g)[2] = 0
    BY SavesAssumption DEF Original, Saves, Games
  <2>3. Whole({Original(g)}) \in Content /\ Absent \in Content
    BY <2>2 DEF Content
  <2>4. \A c \in {Absent, Whole({Original(g)})} :
          c \in Content /\ \A save \in c.saves : save[1] = g /\ save[2] = 0
    BY <2>2, <2>3 DEF Absent, Whole
  <2>5. PICK c, oc, ob \in {Absent, Whole({Original(g)})} :
          disk[g] = [card |-> c, backup |-> Absent, marked |-> FALSE,
                     oldCard |-> oc, oldBackup |-> ob]
    BY <2>1 DEF FirstDirs
  <2>6. disk[g] \in Dir
    BY <2>3, <2>4, <2>5 DEF Dir
  <2>7. OwnedBy(disk[g], g)
    <3>1. /\ disk[g].card = c /\ disk[g].backup = Absent
          /\ disk[g].oldCard = oc /\ disk[g].oldBackup = ob
      BY <2>5
    <3>2. Absent.saves = {}
      BY DEF Absent
    <3> QED
      BY <2>4, <3>1, <3>2 DEF OwnedBy
  <2> QED
    BY <2>6, <2>7
<1>2. disk \in [Discs -> Dir]
  <2>1. disk \in [Discs -> UNION {FirstDirs(g) : g \in Discs}]
    BY DEF Init
  <2> QED
    BY <1>1, <2>1
<1>3. hist = [made |-> {}, lost |-> {}] /\ app = Down
  BY DEF Init
<1>4. TypeOK
  BY <1>2, <1>3, DownPlaced DEF TypeOK
<1>5. Owned
  BY <1>1, <1>3 DEF Owned, Down, NoCard
<1>6. IsFiniteSet(hist.made) /\ EverySaveIsKept /\ HasAllOf(disk)
  BY <1>3, FS_EmptySet DEF EverySaveIsKept, HasAllOf
<1> QED
  BY <1>4, <1>5, <1>6 DEF Inv

\* Adoption comes first, so that nothing that was kept is touched.
LEMMA StartKeeps == Inv /\ Start => Inv'
<1> SUFFICES ASSUME Inv, Start PROVE Inv'
  OBVIOUS
<1>1. ASSUME NEW g \in Discs
      PROVE  /\ disk'[g] \in Dir /\ OwnedBy(disk'[g], g)
             /\ disk[g].card.saves \subseteq disk'[g].card.saves
  <2>1. disk[g] \in Dir /\ OwnedBy(disk[g], g) /\ disk'[g] \in Adoptions(disk[g])
    BY DEF Inv, TypeOK, Owned, Start
  <2> QED
    BY <2>1, AdoptionKeeps
<1>2. disk' \in [Discs -> Dir]
  <2>1. disk' \in [Discs -> UNION {Adoptions(disk[g]) : g \in Discs}]
    BY DEF Start
  <2> QED
    BY <1>1, <2>1
<1>3. app' = Running(None, None, NoCard) /\ hist' = hist /\ ~app.up
  BY DEF Start
<1>4. app' \in App /\ Placed(app')
  BY <1>3, RunningPlaced, CardTypes DEF NoCard
<1>5. TypeOK' /\ IsFiniteSet(hist'.made)
  BY <1>2, <1>3, <1>4 DEF Inv, TypeOK, Placed
<1>6. Owned' /\ HasAllOf(disk)'
  BY <1>1, <1>3 DEF Inv, Owned, HasAllOf, Running, NoCard
<1>7. ASSUME NEW save \in hist.made
      PROVE  save \in hist.lost \/ Kept(save)'
  <2>1. ~app.card.dirty
    BY <1>3 DEF Inv, TypeOK, Placed, NoCard
  <2>2. save \in hist.lost \/ Kept(save)
    BY DEF Inv, EverySaveIsKept
  <2> QED
    BY <1>1, <2>1, <2>2 DEF Kept
<1> QED
  BY <1>3, <1>5, <1>6, <1>7 DEF Inv, EverySaveIsKept

\* A new save is on a dirty card, which its game's file stands behind or nothing.
LEMMA GuestSavesKeeps == Inv /\ GuestSaves => Inv'
<1> SUFFICES ASSUME Inv, GuestSaves PROVE Inv'
  OBVIOUS
<1>1. /\ app \in App /\ Placed(app) /\ disk \in [Discs -> Dir]
      /\ hist \in [made : SUBSET Saves, lost : SUBSET Saves]
      /\ IsFiniteSet(hist.made)
  BY DEF Inv, TypeOK
<1>2. PICK save \in {<<app.game, Cardinality(hist.made) + 1>>} :
        /\ app' = [app EXCEPT !.card.saves = @ \cup {save}, !.card.dirty = TRUE]
        /\ hist' = [made |-> hist.made \cup {save},
                    lost |-> IF app.path = None THEN hist.lost \cup {save} ELSE hist.lost]
  BY DEF GuestSaves
<1>3. disk' = disk /\ app.card.in /\ app.game \in Games
  BY <1>1 DEF GuestSaves, Placed, App
<1>4. save \in Saves /\ save[1] = app.game /\ save[2] # 0
  <2>1. Cardinality(hist.made) \in Nat /\ Cardinality(hist.made) < MaxSaves
    BY <1>1, FS_CardinalityType DEF GuestSaves
  <2> QED
    BY <1>2, <1>3, <2>1, SavesAssumption DEF Saves
<1>5. /\ app' \in App /\ Placed(app') /\ app'.game = app.game /\ app'.path = app.path
      /\ app'.card.saves = app.card.saves \cup {save} /\ app'.card.dirty /\ app'.card.in
  BY <1>1, <1>2, <1>3, <1>4 DEF App, Card, Placed
<1>6. hist' \in [made : SUBSET Saves, lost : SUBSET Saves] /\ IsFiniteSet(hist'.made)
  BY <1>1, <1>2, <1>4, FS_AddElement
<1>7. TypeOK'
  BY <1>1, <1>3, <1>5, <1>6 DEF TypeOK
<1>8. Owned' /\ HasAllOf(disk)'
  <2>1. hist'.made = hist.made \cup {save} /\ hist.lost \subseteq hist'.lost
    BY <1>2
  <2>2. Owned'
    BY <1>2, <1>3, <1>4, <1>5, <2>1 DEF Inv, Owned
  <2>3. HasAllOf(disk)'
    BY <1>3, <1>5, <2>1 DEF Inv, HasAllOf
  <2> QED
    BY <2>2, <2>3
<1>9. ASSUME NEW s \in hist'.made
      PROVE  s \in hist'.lost \/ Kept(s)'
  <2>1. CASE s \in hist.made
    <3>1. s \in hist.lost \/ Kept(s)
      BY <2>1 DEF Inv, EverySaveIsKept
    <3>2. hist.lost \subseteq hist'.lost
      BY <1>2
    <3> QED
      BY <1>3, <1>5, <3>1, <3>2 DEF Kept
  <2>2. CASE s = save
    <3>1. CASE app.path = None
      BY <1>2, <2>2, <3>1
    <3>2. CASE app.path # None
      <4>1. app.path = app.game
        BY <1>1, <1>3, <3>2, GamesAssumption DEF Placed, Games
      <4> QED
        BY <1>4, <1>5, <2>2, <4>1 DEF Kept
    <3> QED
      BY <3>1, <3>2
  <2> QED
    BY <1>2, <2>1, <2>2
<1> QED
  BY <1>6, <1>7, <1>8, <1>9 DEF Inv, EverySaveIsKept

\* launch_entry on a disc that boots: the outgoing card is flushed, the new one is
\* read from its own file, and a file that could not be read is lost.
LEMMA LaunchKeeps ==
  ASSUME Inv, NEW g \in Discs, Launch(g)
  PROVE  Inv'
<1>1. /\ app \in App /\ Placed(app) /\ disk \in [Discs -> Dir]
      /\ \A h \in Discs : OwnedBy(disk[h], h)
  BY DEF Inv, TypeOK, Owned
<1>dir. PICK dir \in Adoptions(disk[g]) : \E d \in Flushes([disk EXCEPT ![g] = dir]) :
        \/ /\ \E kept \in {d[g]} \cup PreserveFailures(d[g]) : disk' = [d EXCEPT ![g] = kept]
           /\ app' = Flushed
           /\ Lose(Unflushed(d))
        \/ \E saves \in Reads(d[g].card) :
             /\ disk' = [d EXCEPT ![g] = Preserved(d[g])]
             /\ app' = Running(g, g, Attached(saves))
             /\ Lose(Unflushed(d) \cup (d[g].card.saves \ saves))
  BY DEF Launch
<1>2. PICK d \in Flushes([disk EXCEPT ![g] = dir]) :
        \/ /\ \E kept \in {d[g]} \cup PreserveFailures(d[g]) : disk' = [d EXCEPT ![g] = kept]
           /\ app' = Flushed
           /\ Lose(Unflushed(d))
        \/ \E saves \in Reads(d[g].card) :
             /\ disk' = [d EXCEPT ![g] = Preserved(d[g])]
             /\ app' = Running(g, g, Attached(saves))
             /\ Lose(Unflushed(d) \cup (d[g].card.saves \ saves))
  BY <1>dir
<1>3. /\ dir \in Dir /\ OwnedBy(dir, g) /\ disk[g].card.saves \subseteq dir.card.saves
      /\ \A save \in dir.card.saves : save \in disk[g].card.saves \/ save[2] = 0
  <2>1. disk[g] \in Dir /\ OwnedBy(disk[g], g)
    BY <1>1
  <2> QED
    BY <2>1, AdoptionKeeps
<1>4. PICK adopted : adopted = [disk EXCEPT ![g] = dir]
  OBVIOUS
<1>5. /\ adopted \in [Discs -> Dir]
      /\ \A h \in Discs : OwnedBy(adopted[h], h)
      /\ \A h \in Discs :
           /\ disk[h].card.saves \subseteq adopted[h].card.saves
           /\ \A save \in adopted[h].card.saves : save \in disk[h].card.saves \/ save[2] = 0
  BY <1>1, <1>3, <1>4
<1>6. d \in Flushes(adopted)
  BY <1>2, <1>4
<1>7. /\ d \in [Discs -> Dir]
      /\ \A h \in Discs : OwnedBy(d[h], h)
      /\ \A save \in hist.made \ hist.lost : Kept(save) =>
           \/ save \in Unflushed(d)
           \/ save[1] \in Discs /\ save \in d[save[1]].card.saves
      /\ HasAllOf(d)
  BY <1>5, <1>6, FlushKeeps
<1>8. \E kept \in {d[g], Preserved(d[g])} \cup PreserveFailures(d[g]) :
        disk' = [d EXCEPT ![g] = kept]
  BY <1>2
<1>9. PICK kept \in {d[g], Preserved(d[g])} \cup PreserveFailures(d[g]) :
        disk' = [d EXCEPT ![g] = kept]
  BY <1>8
<1>10. kept \in Dir /\ OwnedBy(kept, g) /\ kept.card = d[g].card
  <2>1. d[g] \in Dir /\ OwnedBy(d[g], g)
    BY <1>7
  <2> QED
    BY <2>1, <1>9, BackupKeeps
<1>11. /\ disk' \in [Discs -> Dir] /\ \A h \in Discs : OwnedBy(disk'[h], h)
       /\ \A h \in Discs : disk'[h].card = d[h].card
  BY <1>7, <1>9, <1>10
<1>12. ASSUME NEW gone, Lose(gone), Unflushed(d) \subseteq gone,
              app' \in App, Placed(app'), \A save \in app'.card.saves : save[1] = app'.game,
              app'.card.in /\ app'.path # None =>
                \A save \in hist.made \ (hist.lost \cup gone) :
                  save \in d[app'.path].card.saves => save \in app'.card.saves
       PROVE  Inv'
  <2>1. \A save \in hist.made \ hist.lost : Kept(save) =>
          \/ save \in gone
          \/ save[1] \in Discs /\ save \in disk'[save[1]].card.saves
    BY <1>7, <1>11, <1>12
  <2>2. /\ hist' \in [made : SUBSET Saves, lost : SUBSET Saves]
        /\ hist'.made = hist.made /\ hist'.lost = hist.lost \cup (gone \cap hist.made)
        /\ IsFiniteSet(hist'.made) /\ EverySaveIsKept'
    BY <1>12, <2>1, LostOrKept
  <2>3. TypeOK' /\ Owned'
    BY <1>11, <1>12, <2>2 DEF Inv, TypeOK, Owned, Placed
  <2>4. HasAllOf(disk)'
    <3>1. app'.path # None => app'.path \in Discs
      BY <1>12 DEF App
    <3> QED
      BY <1>11, <1>12, <2>2, <3>1 DEF HasAllOf
  <2> QED
    BY <2>2, <2>3, <2>4 DEF Inv
<1>13. CASE app' = Flushed /\ Lose(Unflushed(d))
  <2>1. app' \in App /\ Placed(app') /\ \A save \in app'.card.saves : save[1] = app'.game
    BY <1>1, <1>13, FlushedPlaced DEF Inv, Owned, Placed
  <2>2. app'.path = app.path /\ app'.card.in = app.card.in /\ app'.card.saves = app.card.saves
    BY <1>1, <1>13, FlushedPlaced
  <2> QED
    BY <1>7, <1>12, <1>13, <2>1, <2>2 DEF HasAllOf
<1>14. CASE \E saves \in Reads(d[g].card) :
              /\ app' = Running(g, g, Attached(saves))
              /\ Lose(Unflushed(d) \cup (d[g].card.saves \ saves))
  <2>1. PICK saves \in Reads(d[g].card) :
          /\ app' = Running(g, g, Attached(saves))
          /\ Lose(Unflushed(d) \cup (d[g].card.saves \ saves))
    BY <1>14
  <2>2. saves \subseteq d[g].card.saves
    BY DEF Reads, Failed
  <2>3. saves \in SUBSET Saves /\ \A save \in saves : save[1] = g
    <3>1. d[g] \in Dir /\ OwnedBy(d[g], g)
      BY <1>7
    <3> QED
      BY <2>2, <3>1 DEF Dir, Content, Absent, Torn, Whole, OwnedBy
  <2>4. g \in Games /\ g # None
    BY GamesAssumption DEF Games
  <2>5. Attached(saves) \in Card /\ Attached(saves).in /\ Attached(saves).saves = saves
    BY <2>3, CardTypes DEF Attached
  <2>6. app' \in App /\ Placed(app')
    BY <2>1, <2>4, <2>5, RunningPlaced DEF Placed
  <2>7. /\ \A save \in app'.card.saves : save[1] = app'.game
        /\ app'.path = g /\ app'.card.saves = saves
    BY <2>1, <2>3, <2>5 DEF Running
  <2>8. PICK gone : gone = Unflushed(d) \cup (d[g].card.saves \ saves)
    OBVIOUS
  <2> QED
    BY <1>12, <2>1, <2>6, <2>7, <2>8
<1> QED
  BY <1>2, <1>13, <1>14

\* A step that flushes and then has a machine whose card, if any, is the current
\* game's.
LEMMA OneFlush ==
  ASSUME Inv, disk' \in Flushes(disk),
         NEW gone, Lose(gone), Unflushed(disk') \subseteq gone,
         app' \in App, Placed(app'), \A save \in app'.card.saves : save[1] = app'.game,
         app'.card.in /\ app'.path # None =>
           \/ /\ app'.path = app.path /\ app.card.in
              /\ app'.card.saves = app.card.saves
           \/ disk'[app'.path].card.saves \ app'.card.saves \subseteq gone
  PROVE  Inv'
<1>1. disk \in [Discs -> Dir] /\ \A g \in Discs : OwnedBy(disk[g], g)
  BY DEF Inv, TypeOK, Owned
<1>2. /\ disk' \in [Discs -> Dir]
      /\ \A g \in Discs : OwnedBy(disk'[g], g)
      /\ \A save \in hist.made \ hist.lost : Kept(save) =>
           \/ save \in Unflushed(disk')
           \/ save[1] \in Discs /\ save \in disk'[save[1]].card.saves
      /\ \A e \in Flushes(disk) : HasAllOf(e)
  BY <1>1, FlushKeeps
<1>3. /\ hist' \in [made : SUBSET Saves, lost : SUBSET Saves]
      /\ hist'.made = hist.made /\ hist'.lost = hist.lost \cup (gone \cap hist.made)
      /\ IsFiniteSet(hist'.made) /\ EverySaveIsKept'
  BY <1>2, LostOrKept
<1>4. TypeOK' /\ Owned'
  BY <1>2, <1>3 DEF Inv, TypeOK, Owned, Placed
<1>5. HasAllOf(disk)'
  <2>1. app.card.in /\ app.path # None =>
          \A save \in hist.made \ hist.lost :
            save \in disk'[app.path].card.saves => save \in app.card.saves
    BY <1>2 DEF HasAllOf
  <2> QED
    BY <1>3, <2>1 DEF HasAllOf
<1> QED
  BY <1>3, <1>4, <1>5 DEF Inv

\* A step that writes nothing and drops the card.
LEMMA Dropped ==
  ASSUME Inv, disk' = disk, app' \in App, Placed(app'), app'.card = NoCard,
         Lose(IF Flushing THEN app.card.saves \ disk[app.path].card.saves ELSE {})
  PROVE  Inv'
<1>1. PICK gone : gone = IF Flushing THEN app.card.saves \ disk[app.path].card.saves ELSE {}
  OBVIOUS
<1>2. None \notin Games /\ app \in App
  BY GamesAssumption DEF Inv, TypeOK, Games
<1>3. ASSUME NEW save \in hist.made \ hist.lost, Kept(save), save \notin gone
      PROVE  save[1] \in Discs /\ save \in disk'[save[1]].card.saves
  <2>1. save[1] \in Games
    BY DEF Inv, TypeOK, Saves
  <2>2. CASE app.path = save[1] /\ app.card.dirty /\ save \in app.card.saves
    <3>1. Flushing /\ app.path \in Discs
      BY <1>2, <2>1, <2>2 DEF Flushing, App
    <3> QED
      BY <1>1, <1>3, <2>2, <3>1
  <2> QED
    BY <1>3, <2>2 DEF Kept
<1>4. /\ hist' \in [made : SUBSET Saves, lost : SUBSET Saves]
      /\ hist'.made = hist.made
      /\ IsFiniteSet(hist'.made) /\ EverySaveIsKept'
  <2>1. Lose(gone)
    BY <1>1
  <2> QED
    BY <1>3, <2>1, LostOrKept
<1> QED
  BY <1>4 DEF Inv, TypeOK, Owned, HasAllOf, Placed, NoCard

\* launch_entry on an executable: no card, and no file for one.
LEMMA LaunchExeKeeps ==
  ASSUME Inv, NEW x \in Exes, LaunchExe(x)
  PROVE  Inv'
<1>1. /\ disk' \in Flushes(disk) /\ Lose(Unflushed(disk'))
      /\ app' \in {Flushed, Running(x, None, NoCard)}
      /\ app \in App /\ Placed(app)
  BY DEF Inv, TypeOK, LaunchExe
<1>2. /\ app' \in App /\ Placed(app') /\ \A save \in app'.card.saves : save[1] = app'.game
      /\ app'.card.in => app'.path = app.path /\ app.card.in /\ app'.card.saves = app.card.saves
  <2>1. CASE app' = Flushed
    BY <1>1, <2>1, FlushedPlaced DEF Inv, Owned, Placed
  <2>2. CASE app' = Running(x, None, NoCard)
    <3>1. x \in Games /\ NoCard \in Card /\ ~NoCard.in
      BY CardTypes DEF Games, NoCard
    <3>2. app' \in App /\ Placed(app')
      BY <2>2, <3>1, RunningPlaced DEF Placed
    <3> QED
      BY <2>2, <3>2 DEF Running, NoCard
  <2> QED
    BY <1>1, <2>1, <2>2
<1> QED
  BY <1>1, <1>2, OneFlush

\* try_restore: the card is the file's, after the flush.
LEMMA LoadSlotKeeps == Inv /\ LoadSlot => Inv'
<1> SUFFICES ASSUME Inv, LoadSlot PROVE Inv'
  OBVIOUS
<1>1. /\ app \in App /\ Placed(app) /\ disk \in [Discs -> Dir]
      /\ app.up /\ app.game # None /\ disk' \in Flushes(disk)
  BY DEF Inv, TypeOK, LoadSlot
<1>2. PICK saves : /\ app' = [app EXCEPT !.card = Attached(saves)]
                   /\ app.path = None => saves = {}
                   /\ app.path # None => saves \in Reads(disk'[app.path].card)
                   /\ \E gone : /\ Lose(gone) /\ Unflushed(disk') \subseteq gone
                                /\ app.path # None =>
                                     disk'[app.path].card.saves \ saves \subseteq gone
  <2>1. CASE app.path = None
    <3>1. Lose({}) /\ Unflushed(disk') = {}
      BY <2>1 DEF LoadSlot, Lose, Unflushed, Flushing, Inv, TypeOK
    <3> QED
      BY <2>1, <3>1 DEF LoadSlot
  <2>2. CASE app.path # None
    <3>1. PICK saves \in Reads(disk'[app.path].card) :
            /\ app' = [app EXCEPT !.card = Attached(saves)]
            /\ Lose(Unflushed(disk') \cup (disk'[app.path].card.saves \ saves))
      BY <2>2 DEF LoadSlot
    <3>2. PICK gone : gone = Unflushed(disk') \cup (disk'[app.path].card.saves \ saves)
      OBVIOUS
    <3> QED
      BY <2>2, <3>1, <3>2
  <2> QED
    BY <2>1, <2>2
<1>3. \A g \in Discs : OwnedBy(disk'[g], g) /\ disk'[g] \in Dir
  <2>1. disk \in [Discs -> Dir] /\ \A g \in Discs : OwnedBy(disk[g], g)
    BY DEF Inv, TypeOK, Owned
  <2> QED
    BY <1>1, <2>1, FlushKeeps
<1>4. saves \in SUBSET Saves /\ \A save \in saves : save[1] = app.game
  <2>1. CASE app.path = None
    BY <1>2, <2>1
  <2>2. CASE app.path # None
    <3>1. app.path \in Discs /\ app.path = app.game
      BY <1>1, <2>2 DEF App, Placed
    <3>2. saves \subseteq disk'[app.path].card.saves
      BY <1>2, <2>2 DEF Reads, Failed
    <3> QED
      BY <1>3, <3>1, <3>2 DEF Dir, Content, Absent, Torn, Whole, OwnedBy
  <2> QED
    BY <2>1, <2>2
<1>5. /\ Attached(saves) \in Card /\ Attached(saves).in /\ Attached(saves).saves = saves
  BY <1>4, CardTypes DEF Attached
<1>6. /\ app' \in App /\ Placed(app') /\ app'.card.saves = saves
      /\ app'.game = app.game /\ app'.path = app.path
  BY <1>1, <1>2, <1>5 DEF App, Placed
<1>7. PICK gone : /\ Lose(gone) /\ Unflushed(disk') \subseteq gone
                  /\ app.path # None => disk'[app.path].card.saves \ saves \subseteq gone
  BY <1>2
<1> QED
  BY <1>1, <1>4, <1>6, <1>7, OneFlush

\* The invariant.
THEOREM CardInvariant == Spec => []Inv
<1>1. Init => Inv
  BY InitInv
<1>2. Inv /\ [Next]_vars => Inv'
  <2> SUFFICES ASSUME Inv, [Next]_vars PROVE Inv'
    OBVIOUS
  <2>1. CASE Start
    BY <2>1, StartKeeps
  <2>2. CASE GuestSaves
    BY <2>2, GuestSavesKeeps
  <2>3. CASE BootExample
    <3>1. app.path \in Discs \cup {None} /\ ~NoCard.in /\ NoCard \in Card
      BY CardTypes DEF Inv, TypeOK, App, NoCard
    <3>2. app' \in App /\ Placed(app') /\ app'.card = NoCard
      BY <2>3, <3>1, RunningPlaced DEF BootExample, Placed, Running
    <3> QED
      BY <2>3, <3>2, Dropped DEF BootExample
  <2>4. CASE LoadSlot
    BY <2>4, LoadSlotKeeps
  <2>5. CASE Exit
    <3>1. app' \in App /\ Placed(app') /\ app'.card.saves = {} /\ ~app'.card.in
      BY <2>5, DownPlaced DEF Exit, Down, NoCard, Placed
    <3> QED
      BY <2>5, <3>1, OneFlush DEF Exit
  <2>6. CASE Crash
    <3>1. app' \in App /\ Placed(app') /\ app'.card = NoCard
      BY <2>6, DownPlaced DEF Crash, Down, Placed
    <3> QED
      BY <2>6, <3>1, Dropped DEF Crash
  <2>7. ASSUME NEW g \in Discs, Launch(g) PROVE Inv'
    BY <2>7, LaunchKeeps
  <2>8. ASSUME NEW x \in Exes, LaunchExe(x) PROVE Inv'
    BY <2>8, LaunchExeKeeps
  <2>9. CASE UNCHANGED vars
    BY <2>9 DEF vars, Inv, TypeOK, Placed, Owned, OwnedBy, EverySaveIsKept, Kept, HasAllOf
  <2> QED
    BY <2>1, <2>2, <2>3, <2>4, <2>5, <2>6, <2>7, <2>8, <2>9 DEF Next
<1> QED
  BY <1>1, <1>2, PTL DEF Spec

\* A save a game made is in its own file, or on a card whose next flush puts it
\* there, unless it was written off by a failure, a crash or a missing flush.
THEOREM SavesAreKept == Spec => []EverySaveIsKept
<1>1. Inv => EverySaveIsKept
  BY DEF Inv
<1> QED
  BY <1>1, CardInvariant, PTL

\* No card and no file of a game ever holds another game's save.
THEOREM SavesStayHome == Spec => []NoForeignSave
<1>1. Inv => NoForeignSave
  BY DEF Inv, Owned, OwnedBy, NoForeignSave
<1> QED
  BY <1>1, CardInvariant, PTL

\* Every variable keeps its type, and the card its place: in a running program,
\* over the running disc's file or none.
THEOREM TypeCorrect == Spec => []TypeOK
<1>1. Inv => TypeOK
  BY DEF Inv
<1> QED
  BY <1>1, CardInvariant, PTL

-----------------------------------------------------------------------------
(* The save made before the built-in kernel.                               *)

\* It is in a file that no flush writes, or the copy meant for it was torn.
Guarded(dir, g) == Original(g) \in dir.backup.saves \cup dir.oldCard.saves \/ dir.backup = Torn

Held(dir, g) == Original(g) \in dir.card.saves \/ Guarded(dir, g)

\* A backup, once there, is of the original if the card still has it; an older
\* directory that has a backup has the original card too.
BackupFirst(dir, g) ==
  /\ dir.oldBackup.is # "absent" => Original(g) \in dir.oldCard.saves
  /\ dir.backup.is # "absent" /\ Original(g) \in dir.card.saves => Guarded(dir, g)

\* The running disc has been backed up before its card can be flushed.
RunningIsGuarded(d) ==
  \A g \in Discs :
    app.path = g /\ Original(g) \in d[g].card.saves \cup app.card.saves => Guarded(d[g], g)

Safe == RunningIsGuarded(disk) /\ \A g \in Discs : BackupFirst(disk[g], g)

\* What a change of a directory may not do.
Keeps(dir, new, g) ==
  (Guarded(dir, g) => Guarded(new, g)) /\ (Held(dir, g) => Held(new, g))

LEMMA CopyGuards ==
  ASSUME NEW from \in Content, NEW to \in Content,
         NEW made \in Copies(from, to) \cup {Copied(from, to)}
  PROVE  /\ to.is # "absent" => made = to
         /\ to.is = "absent" => made \in {from, Torn, to}
         /\ made.is # "absent" => to.is # "absent" \/ from.is # "absent"
         /\ to.is = "absent" => to.saves = {}
         /\ to.is = "absent" => to # Torn
BY DEF Content, Copies, Copied, Failed, Absent, Torn, Whole

LEMMA AdoptionGuards ==
  ASSUME NEW g, NEW dir \in Dir, BackupFirst(dir, g), NEW new \in Adoptions(dir)
  PROVE  /\ BackupFirst(new, g) /\ Keeps(dir, new, g)
         /\ Original(g) \in new.card.saves => Original(g) \in dir.card.saves \/ Guarded(new, g)
<1>1. CASE new = dir
  BY <1>1 DEF Keeps
<1>2. CASE \E c \in Copies(dir.oldCard, dir.card) \cup {Copied(dir.oldCard, dir.card)},
              b \in Copies(dir.oldBackup, dir.backup) \cup {Copied(dir.oldBackup, dir.backup)},
              m \in BOOLEAN :
                new = [dir EXCEPT !.card = c, !.backup = b, !.marked = m]
  <2>1. PICK c \in Copies(dir.oldCard, dir.card) \cup {Copied(dir.oldCard, dir.card)},
             b \in Copies(dir.oldBackup, dir.backup) \cup {Copied(dir.oldBackup, dir.backup)},
             m \in BOOLEAN :
               new = [dir EXCEPT !.card = c, !.backup = b, !.marked = m]
    BY <1>2
  <2>2. new.card = c /\ new.backup = b /\ new.oldCard = dir.oldCard /\ new.oldBackup = dir.oldBackup
    BY <2>1 DEF Dir
  <2>3. /\ dir.card.is # "absent" => c = dir.card
        /\ dir.card.is = "absent" => c \in {dir.oldCard, Torn, dir.card} /\ dir.card.saves = {}
    BY CopyGuards DEF Dir
  <2>4. /\ dir.backup.is # "absent" => b = dir.backup
        /\ dir.backup.is = "absent" => dir.backup.saves = {} /\ dir.backup # Torn
        /\ b.is # "absent" => dir.backup.is # "absent" \/ dir.oldBackup.is # "absent"
    BY CopyGuards DEF Dir
  <2>5. Torn.saves = {}
    BY DEF Torn
  <2>6. Original(g) \in c.saves => Original(g) \in dir.card.saves \/ Original(g) \in dir.oldCard.saves
    BY <2>3, <2>5
  <2>7. Guarded(dir, g) => Guarded(new, g)
    BY <2>2, <2>4 DEF Guarded
  <2>8. Original(g) \in dir.card.saves => Original(g) \in new.card.saves
    BY <2>2, <2>3
  <2>9. Original(g) \in dir.oldCard.saves => Guarded(new, g)
    BY <2>2 DEF Guarded
  <2>10. BackupFirst(new, g)
    BY <2>2, <2>4, <2>6, <2>7, <2>9 DEF BackupFirst
  <2> QED
    BY <2>2, <2>6, <2>7, <2>8, <2>9, <2>10 DEF Keeps, Held
<1>3. \/ new = dir \/ new = Adopted(dir)
      \/ \E c \in Copies(dir.oldCard, dir.card), b \in Copies(dir.oldBackup, dir.backup) :
           new = With(dir, c, b)
  BY DEF Adoptions
<1>4. CASE new = Adopted(dir)
  <2>1. new = [dir EXCEPT !.card = Copied(dir.oldCard, dir.card),
                          !.backup = Copied(dir.oldBackup, dir.backup), !.marked = TRUE]
    BY <1>4 DEF Adopted, With
  <2> QED
    BY <1>2, <2>1
<1>5. CASE \E c \in Copies(dir.oldCard, dir.card), b \in Copies(dir.oldBackup, dir.backup) :
             new = With(dir, c, b)
  <2>1. PICK c \in Copies(dir.oldCard, dir.card), b \in Copies(dir.oldBackup, dir.backup) :
             new = With(dir, c, b)
    BY <1>5
  <2>2. new = [dir EXCEPT !.card = c, !.backup = b, !.marked = dir.marked]
        /\ dir.marked \in BOOLEAN
    BY <2>1 DEF With, Dir
  <2> QED
    BY <1>2, <2>2
<1> QED
  BY <1>1, <1>3, <1>4, <1>5

\* A backup guards what is on the card when it succeeds.
LEMMA BackupGuards ==
  ASSUME NEW g, NEW dir \in Dir, BackupFirst(dir, g),
         NEW new \in {dir, Preserved(dir)} \cup PreserveFailures(dir)
  PROVE  /\ BackupFirst(new, g) /\ Keeps(dir, new, g) /\ new.card = dir.card
         /\ new = Preserved(dir) /\ Original(g) \in dir.card.saves => Guarded(new, g)
<1>1. PICK b \in Copies(dir.card, dir.backup) \cup {Copied(dir.card, dir.backup), dir.backup} :
        /\ new = [dir EXCEPT !.backup = b]
        /\ new = Preserved(dir) => b = Copied(dir.card, dir.backup)
  <2>1. dir = [dir EXCEPT !.backup = dir.backup]
    BY DEF Dir
  <2>2. CASE new = Preserved(dir)
    BY <2>2 DEF Preserved
  <2>3. CASE new = dir /\ new # Preserved(dir)
    BY <2>1, <2>3
  <2>4. CASE new \in PreserveFailures(dir) /\ new # Preserved(dir)
    BY <2>4 DEF PreserveFailures
  <2> QED
    BY <2>2, <2>3, <2>4
<1>2. new.card = dir.card /\ new.backup = b /\ new.oldCard = dir.oldCard /\ new.oldBackup = dir.oldBackup
  BY <1>1 DEF Dir
<1>3. /\ dir.backup.is # "absent" => b = dir.backup
      /\ dir.backup.is = "absent" => b \in {dir.card, Torn, dir.backup}
                                     /\ dir.backup.saves = {} /\ dir.backup # Torn
  BY CopyGuards DEF Dir
<1>4. Original(g) \in dir.card.saves => dir.card.is # "absent"
  BY DEF Dir, Content, Absent, Torn, Whole
<1>5. Guarded(dir, g) => Guarded(new, g)
  BY <1>2, <1>3 DEF Guarded
<1>6. b.is # "absent" /\ Original(g) \in dir.card.saves => Guarded(new, g)
  BY <1>2, <1>3, <1>5 DEF BackupFirst, Guarded
<1>7. new = Preserved(dir) /\ Original(g) \in dir.card.saves => Guarded(new, g)
  BY <1>1, <1>3, <1>4, <1>6 DEF Copied
<1> QED
  BY <1>2, <1>5, <1>6, <1>7 DEF BackupFirst, Keeps, Held

\* A flush writes the running disc's card, which is guarded, and no other file.
LEMMA FlushGuards ==
  ASSUME app \in App, NEW d \in [Discs -> Dir], RunningIsGuarded(d),
         \A g \in Discs : BackupFirst(d[g], g), NEW e \in Flushes(d)
  PROVE  /\ RunningIsGuarded(e)
         /\ \A g \in Discs : BackupFirst(e[g], g) /\ Keeps(d[g], e[g], g)
<1>1. CASE ~Flushing
  <2>1. e = d
    BY <1>1 DEF Flushes
  <2> QED
    BY <2>1 DEF Keeps
<1>2. CASE Flushing
  <2>1. app.path \in Discs
    BY <1>2 DEF Flushing, App
  <2>2. PICK c \in {Whole(app.card.saves), d[app.path].card, Torn} :
          e = [d EXCEPT ![app.path].card = c]
    BY <1>2 DEF Flushes, Failed
  <2>3. /\ e[app.path].card = c /\ e[app.path].backup = d[app.path].backup
        /\ e[app.path].oldCard = d[app.path].oldCard
        /\ e[app.path].oldBackup = d[app.path].oldBackup
        /\ \A g \in Discs \ {app.path} : e[g] = d[g]
    <3>1. d[app.path] \in Dir
      BY <2>1
    <3>2. e[app.path] = [d[app.path] EXCEPT !.card = c]
          /\ \A g \in Discs \ {app.path} : e[g] = d[g]
      BY <2>1, <2>2
    <3> QED
      BY <3>1, <3>2 DEF Dir
  <2>4. c.saves \subseteq app.card.saves \cup d[app.path].card.saves
    BY <2>2 DEF Whole, Torn
  <2>5. Guarded(e[app.path], app.path) <=> Guarded(d[app.path], app.path)
    BY <2>3 DEF Guarded
  <2>6. Original(app.path) \in e[app.path].card.saves \cup d[app.path].card.saves \cup app.card.saves
        => Guarded(d[app.path], app.path)
    BY <2>1, <2>3, <2>4 DEF RunningIsGuarded
  <2>7. BackupFirst(e[app.path], app.path) /\ Keeps(d[app.path], e[app.path], app.path)
    BY <2>1, <2>3, <2>5, <2>6 DEF BackupFirst, Keeps, Held
  <2>8. RunningIsGuarded(e)
    BY <2>1, <2>5, <2>6 DEF RunningIsGuarded
  <2> QED
    BY <2>3, <2>7, <2>8 DEF Keeps
<1> QED
  BY <1>1, <1>2

\* A step leaves every directory as safe as it must be, and takes the original
\* out of reach in none.
SafeStep == Safe' /\ \A g \in Discs : Keeps(disk[g], disk'[g], g)

\* A step that flushes, if anything, and then runs no disc or the same one, with a
\* card that has nothing the old card or the disc's file had not.
LEMMA FlushIsSafe ==
  ASSUME Inv, Safe, disk' \in Flushes(disk),
         app'.path \in {None, app.path},
         app'.path # None => app'.card.saves \subseteq app.card.saves \cup disk'[app.path].card.saves
  PROVE  SafeStep
<1>1. app \in App /\ disk \in [Discs -> Dir] /\ None \notin Discs
  BY GamesAssumption DEF Inv, TypeOK
<1>2. \A g \in Discs : BackupFirst(disk[g], g)
  BY DEF Safe
<1>3. /\ \A g \in Discs :
           app.path = g /\ Original(g) \in disk'[g].card.saves \cup app.card.saves
           => Guarded(disk'[g], g)
      /\ \A g \in Discs : BackupFirst(disk'[g], g) /\ Keeps(disk[g], disk'[g], g)
  <2>1. /\ RunningIsGuarded(disk)
        /\ \A e \in Flushes(disk) :
             /\ \A g \in Discs : app.path = g /\ Original(g) \in e[g].card.saves \cup app.card.saves
                                 => Guarded(e[g], g)
             /\ \A g \in Discs : BackupFirst(e[g], g) /\ Keeps(disk[g], e[g], g)
    BY <1>1, <1>2, FlushGuards DEF Safe, RunningIsGuarded
  <2> QED
    BY <2>1
<1>4. RunningIsGuarded(disk)'
  <2> SUFFICES ASSUME NEW g \in Discs, app'.path = g,
                      Original(g) \in disk'[g].card.saves \cup app'.card.saves
               PROVE  Guarded(disk'[g], g)
    BY DEF RunningIsGuarded, Guarded, Original
  <2>1. app.path = g
    BY <1>1
  <2>2. Original(g) \in disk'[g].card.saves \cup app.card.saves
    BY <1>1, <2>1
  <2> QED
    BY <1>3, <2>1, <2>2
<1> QED
  BY <1>3, <1>4 DEF SafeStep, Safe, BackupFirst, Guarded, Original

\* A step that writes no file and leaves the card what it was, but for new saves.
LEMMA NoWriteIsSafe ==
  ASSUME Inv, Safe, disk' = disk, app'.path \in {None, app.path},
         \A g \in Discs : app'.path = g /\ Original(g) \in app'.card.saves
                          => Original(g) \in app.card.saves
  PROVE  SafeStep
<1>1. None \notin Discs
  BY GamesAssumption
<1>2. RunningIsGuarded(disk)'
  BY <1>1 DEF Safe, RunningIsGuarded, Guarded, Original
<1>3. \A g \in Discs : BackupFirst(disk[g], g)'
  BY DEF Safe, BackupFirst, Guarded, Original
<1>4. \A g \in Discs : Keeps(disk[g], disk'[g], g)
  BY DEF Keeps
<1> QED
  BY <1>2, <1>3, <1>4 DEF SafeStep, Safe

\* launch_entry: the card is backed up before the game that can write to it runs.
LEMMA LaunchIsSafe ==
  ASSUME Inv, Safe, NEW g \in Discs, Launch(g)
  PROVE  SafeStep
<1>1. /\ app \in App /\ Placed(app) /\ disk \in [Discs -> Dir] /\ None \notin Discs
      /\ \A h \in Discs : BackupFirst(disk[h], h)
  BY GamesAssumption DEF Inv, TypeOK, Safe
<1>2. PICK dir \in Adoptions(disk[g]) : \E d \in Flushes([disk EXCEPT ![g] = dir]) :
        \/ /\ \E kept \in {d[g]} \cup PreserveFailures(d[g]) : disk' = [d EXCEPT ![g] = kept]
           /\ app' = Flushed
        \/ \E saves \in Reads(d[g].card) :
             /\ disk' = [d EXCEPT ![g] = Preserved(d[g])]
             /\ app' = Running(g, g, Attached(saves))
  BY DEF Launch
<1>3. PICK d \in Flushes([disk EXCEPT ![g] = dir]) :
        \/ /\ \E kept \in {d[g]} \cup PreserveFailures(d[g]) : disk' = [d EXCEPT ![g] = kept]
           /\ app' = Flushed
        \/ \E saves \in Reads(d[g].card) :
             /\ disk' = [d EXCEPT ![g] = Preserved(d[g])]
             /\ app' = Running(g, g, Attached(saves))
  BY <1>2
<1>4. PICK adopted : adopted = [disk EXCEPT ![g] = dir]
  OBVIOUS
<1>5. /\ dir \in Dir /\ BackupFirst(dir, g) /\ Keeps(disk[g], dir, g)
      /\ Original(g) \in dir.card.saves => Original(g) \in disk[g].card.saves \/ Guarded(dir, g)
  <2>1. disk[g] \in Dir /\ BackupFirst(disk[g], g) /\ OwnedBy(disk[g], g)
    BY <1>1 DEF Inv, Owned
  <2>2. dir \in Dir
    BY <2>1, AdoptionKeeps
  <2> QED
    BY <2>1, <2>2, AdoptionGuards
<1>6. adopted \in [Discs -> Dir] /\ adopted[g] = dir /\ \A h \in Discs \ {g} : adopted[h] = disk[h]
  BY <1>1, <1>4, <1>5
<1>7. /\ \A h \in Discs : BackupFirst(adopted[h], h) /\ Keeps(disk[h], adopted[h], h)
      /\ RunningIsGuarded(adopted)
  <2>1. \A h \in Discs : BackupFirst(adopted[h], h) /\ Keeps(disk[h], adopted[h], h)
    BY <1>1, <1>5, <1>6 DEF Keeps
  <2>2. Guarded(disk[g], g) => Guarded(dir, g)
    BY <1>5 DEF Keeps
  <2>3. RunningIsGuarded(adopted)
    BY <1>5, <1>6, <2>2 DEF Safe, RunningIsGuarded
  <2> QED
    BY <2>1, <2>3
<1>8. /\ RunningIsGuarded(d)
      /\ \A h \in Discs : BackupFirst(d[h], h) /\ Keeps(adopted[h], d[h], h)
  <2>1. d \in Flushes(adopted)
    BY <1>3, <1>4
  <2> QED
    BY <1>1, <1>6, <1>7, <2>1, FlushGuards
<1>9. d \in [Discs -> Dir]
  <2>1. d \in Flushes(adopted)
    BY <1>3, <1>4
  <2>2. /\ OwnedBy(dir, g) /\ disk[g].card.saves \subseteq dir.card.saves
        /\ \A save \in dir.card.saves : save \in disk[g].card.saves \/ save[2] = 0
    <3>1. disk[g] \in Dir /\ OwnedBy(disk[g], g)
      BY <1>1 DEF Inv, Owned
    <3> QED
      BY <3>1, AdoptionKeeps
  <2>3. /\ \A h \in Discs : OwnedBy(adopted[h], h)
        /\ \A h \in Discs :
             /\ disk[h].card.saves \subseteq adopted[h].card.saves
             /\ \A save \in adopted[h].card.saves : save \in disk[h].card.saves \/ save[2] = 0
    BY <1>6, <2>2 DEF Inv, Owned
  <2> QED
    BY <1>6, <2>1, <2>3, FlushKeeps
<1>10. PICK kept \in {d[g], Preserved(d[g])} \cup PreserveFailures(d[g]) :
         /\ disk' = [d EXCEPT ![g] = kept]
         /\ \/ app' = Flushed
            \/ /\ kept = Preserved(d[g])
               /\ \E saves \in Reads(d[g].card) : app' = Running(g, g, Attached(saves))
  BY <1>3
<1>11. /\ BackupFirst(kept, g) /\ Keeps(d[g], kept, g) /\ kept.card = d[g].card
       /\ kept = Preserved(d[g]) /\ Original(g) \in d[g].card.saves => Guarded(kept, g)
  <2>1. d[g] \in Dir /\ BackupFirst(d[g], g)
    BY <1>8, <1>9
  <2> QED
    BY <1>10, <2>1, BackupGuards
<1>12. disk'[g] = kept /\ \A h \in Discs \ {g} : disk'[h] = d[h]
  BY <1>9, <1>10
<1>13. \A h \in Discs : BackupFirst(disk'[h], h) /\ Keeps(disk[h], disk'[h], h)
  BY <1>7, <1>8, <1>11, <1>12 DEF Keeps
<1>14. RunningIsGuarded(disk)'
  <2> SUFFICES ASSUME NEW h \in Discs, app'.path = h,
                      Original(h) \in disk'[h].card.saves \cup app'.card.saves
               PROVE  Guarded(disk'[h], h)
    BY DEF RunningIsGuarded, Guarded, Original
  <2>1. CASE app' = Flushed
    <3>1. app'.path = app.path /\ app'.card.saves = app.card.saves
      <4>1. Flushed.path = app.path
        BY <1>1 DEF Flushed, App
      <4> QED
        BY <1>1, <2>1, <4>1, FlushedPlaced
    <3>2. disk'[h].card = d[h].card
      BY <1>11, <1>12
    <3>3. Guarded(d[h], h)
      BY <1>8, <3>1, <3>2 DEF RunningIsGuarded
    <3> QED
      BY <1>11, <1>12, <3>3 DEF Keeps
  <2>2. CASE kept = Preserved(d[g]) /\ \E saves \in Reads(d[g].card) : app' = Running(g, g, Attached(saves))
    <3>1. h = g /\ app'.card.saves \subseteq d[g].card.saves
      BY <2>2 DEF Running, Attached, Reads, Failed
    <3> QED
      BY <1>11, <1>12, <2>2, <3>1
  <2> QED
    BY <1>10, <2>1, <2>2
<1> QED
  BY <1>13, <1>14 DEF SafeStep, Safe, BackupFirst, Guarded, Original

\* What a player may have on disk first is safe.
LEMMA InitSafe == Init => Safe
<1> SUFFICES ASSUME Init PROVE Safe
  OBVIOUS
<1>1. app.path = None /\ None \notin Discs
  BY GamesAssumption DEF Init, Down
<1>2. ASSUME NEW g \in Discs PROVE BackupFirst(disk[g], g)
  <2>1. disk[g] \in FirstDirs(g)
    BY DEF Init
  <2> QED
    BY <2>1 DEF FirstDirs, BackupFirst, Absent, Whole
<1> QED
  BY <1>1, <1>2 DEF Safe, RunningIsGuarded

\* Every step is safe.
LEMMA NextSafe == Inv /\ Safe /\ [Next]_vars => SafeStep
<1> SUFFICES ASSUME Inv, Safe, [Next]_vars PROVE SafeStep
  OBVIOUS
<1>1. app \in App /\ Placed(app) /\ disk \in [Discs -> Dir] /\ None \notin Discs
  BY GamesAssumption DEF Inv, TypeOK
<1>2. CASE Start
  <2>1. ASSUME NEW g \in Discs
        PROVE  BackupFirst(disk'[g], g) /\ Keeps(disk[g], disk'[g], g)
    <3>1. disk[g] \in Dir /\ BackupFirst(disk[g], g) /\ disk'[g] \in Adoptions(disk[g])
      BY <1>1, <1>2 DEF Start, Safe
    <3> QED
      BY <3>1, AdoptionGuards
  <2>2. app'.path = None
    BY <1>2 DEF Start, Running
  <2> QED
    BY <1>1, <2>1, <2>2
    DEF SafeStep, Safe, RunningIsGuarded, BackupFirst, Guarded, Original
<1>3. CASE GuestSaves
  <2>1. PICK save \in {<<app.game, Cardinality(hist.made) + 1>>} :
          app' = [app EXCEPT !.card.saves = @ \cup {save}, !.card.dirty = TRUE]
    BY <1>3 DEF GuestSaves
  <2>2. Cardinality(hist.made) \in Nat
    BY FS_CardinalityType DEF Inv
  <2>3. \A g \in Discs : Original(g) # save
    BY <2>1, <2>2 DEF Original
  <2>4. app'.path = app.path /\ app'.card.saves = app.card.saves \cup {save}
    BY <1>1, <2>1 DEF App, Card
  <2> QED
    BY <1>3, <2>3, <2>4, NoWriteIsSafe DEF GuestSaves
<1>4. CASE BootExample
  <2>1. disk' = disk /\ app'.path = app.path /\ app'.card.saves = {}
    BY <1>4 DEF BootExample, Running, NoCard
  <2> QED
    BY <2>1, NoWriteIsSafe
<1>5. CASE LoadSlot
  <2>1. disk' \in Flushes(disk)
    BY <1>5 DEF LoadSlot
  <2>2. app'.path = app.path
    BY <1>1, <1>5 DEF LoadSlot, App
  <2>3. ASSUME app.path # None PROVE app'.card.saves \subseteq disk'[app.path].card.saves
    <3>1. PICK saves \in Reads(disk'[app.path].card) :
            app' = [app EXCEPT !.card = Attached(saves)]
      BY <1>5, <2>3 DEF LoadSlot
    <3>2. saves \subseteq disk'[app.path].card.saves
      BY DEF Reads, Failed
    <3>3. app'.card.saves = saves
      BY <1>1, <3>1 DEF App, Attached
    <3> QED
      BY <3>2, <3>3
  <2> QED
    BY <2>1, <2>2, <2>3, FlushIsSafe
<1>6. CASE Exit
  <2>1. disk' \in Flushes(disk) /\ app'.path = None
    BY <1>6 DEF Exit, Down
  <2> QED
    BY <2>1, FlushIsSafe
<1>7. CASE Crash
  <2>1. disk' = disk /\ app'.path = None
    BY <1>7 DEF Crash, Down
  <2> QED
    BY <1>1, <2>1, NoWriteIsSafe
<1>8. ASSUME NEW g \in Discs, Launch(g) PROVE SafeStep
  BY <1>8, LaunchIsSafe
<1>9. ASSUME NEW x \in Exes, LaunchExe(x) PROVE SafeStep
  <2>1. disk' \in Flushes(disk) /\ app' \in {Flushed, Running(x, None, NoCard)}
    BY <1>9 DEF LaunchExe
  <2>2. CASE app' = Flushed
    <3>1. app'.path = app.path
      BY <1>1, <2>2 DEF Flushed, App
    <3>2. app'.card.saves = app.card.saves
      BY <1>1, <2>2, FlushedPlaced
    <3> QED
      BY <2>1, <3>1, <3>2, FlushIsSafe
  <2>3. CASE app' = Running(x, None, NoCard)
    <3>1. app'.path = None
      BY <2>3 DEF Running
    <3> QED
      BY <2>1, <3>1, FlushIsSafe
  <2> QED
    BY <2>1, <2>2, <2>3
<1>10. CASE UNCHANGED vars
  <2>1. disk' = disk /\ app' = app
    BY <1>10 DEF vars
  <2> QED
    BY <2>1, NoWriteIsSafe
<1> QED
  BY <1>2, <1>3, <1>4, <1>5, <1>6, <1>7, <1>8, <1>9, <1>10 DEF Next

\* Whatever the order of launches, resets, loads, exits, failures and crashes, the
\* save made before the built-in kernel stays in one of its game's files, unless
\* the copy meant to hold it was torn.
THEOREM OriginalStays == Spec => OriginalIsKept
<1> DEFINE Stays == \A g \in Discs :
                      (\E file \in Files(g) : Original(g) \in file.saves)
                      => \/ \E file \in Files(g)' : Original(g) \in file.saves
                         \/ disk'[g].backup = Torn
<1>1. Init => Safe
  BY InitSafe
<1>2. Inv /\ Safe /\ [Next]_vars => Safe'
  BY NextSafe DEF SafeStep
<1>3. Inv /\ Safe /\ [Next]_vars => Stays
  <2> SUFFICES ASSUME Inv, Safe, [Next]_vars, NEW g \in Discs,
                      \E file \in Files(g) : Original(g) \in file.saves
               PROVE  \/ \E file \in Files(g)' : Original(g) \in file.saves
                      \/ disk'[g].backup = Torn
    OBVIOUS
  <2>1. Held(disk[g], g)
    BY DEF Files, Held, Guarded
  <2>2. Held(disk'[g], g)
    BY <2>1, NextSafe DEF SafeStep, Keeps
  <2> QED
    BY <2>2 DEF Files, Held, Guarded
<1>4. Inv /\ Safe /\ [Next]_vars => [Stays]_vars
  BY <1>3
<1> HIDE DEF Stays
<1>5. Spec => [][Stays]_vars
  BY <1>1, <1>2, <1>4, CardInvariant, PTL DEF Spec
<1> QED
  BY <1>5 DEF Stays, OriginalIsKept
=============================================================================
