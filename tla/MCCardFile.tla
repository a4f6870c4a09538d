---------------------------- MODULE MCCardFile ----------------------------
(***************************************************************************)
(* Two discs and an executable: enough for a card to reach the wrong       *)
(* directory, for a launch to replace another game's machine, and for a    *)
(* load to find no file.                                                   *)
(***************************************************************************)
EXTENDS CardFile
=============================================================================
