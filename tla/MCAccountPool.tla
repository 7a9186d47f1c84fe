---------------------------- MODULE MCAccountPool ----------------------------
(* AccountPool with plugins of one name on every client, for TLC. *)
EXTENDS AccountPool
=============================================================================
