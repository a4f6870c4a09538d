--------------------------- MODULE MCBackupUnit ---------------------------
(***************************************************************************)
(* A card that is full with one file, one that is new and one that nobody  *)
(* has formatted; for the save states, one that is empty.                  *)
(***************************************************************************)
EXTENDS BackupUnit

Full ==
  FileCard([i \in Blocks |->
    Entry(CASE i = 0 -> FirstBlock
            [] i # 0 /\ i = Entries - 1 -> LastBlock
            [] OTHER -> MiddleBlock,
          IF i = Entries - 1 THEN NoNext ELSE i + 1,
          IF i = 0 THEN CHOOSE n \in Names : TRUE ELSE NoName,
          IF i = 0 THEN Entries ELSE 0)])

MCAllCards  == {Full, NewCard, BlankCard}
MCEmptyCard == {FileCard([i \in Blocks |-> FreeEntry])}

MCEvery == {"bu_init", "card_load", "card_info", "card_clear", "firstfile", "format", "open",
            "read", "write", "erase", "undelete", "rename", "init_card", "start_card",
            "stop_card"}
=============================================================================
