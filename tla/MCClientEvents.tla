--------------------------- MODULE MCClientEvents ---------------------------
(* ClientEvents with a few workers and updates, for TLC. *)
EXTENDS ClientEvents
=============================================================================
