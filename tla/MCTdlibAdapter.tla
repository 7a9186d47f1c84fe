--------------------------- MODULE MCTdlibAdapter ---------------------------
(* TdlibAdapter with TDLib answering in any order, for TLC. *)
EXTENDS TdlibAdapter
=============================================================================
