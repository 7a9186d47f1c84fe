--------------------------- MODULE MCClientLogin ---------------------------
(* ClientLogin with every kind of session TDLib may resume, for TLC. *)
EXTENDS ClientLogin
=============================================================================
