---------------------------- MODULE MCWebSlots ----------------------------
(***************************************************************************)
(* Two games with the quick slot and one numbered slot each: enough for a  *)
(* late answer to meet another game, and for two requests to cross.        *)
(***************************************************************************)
EXTENDS WebSlots
=============================================================================
