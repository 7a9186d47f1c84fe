--------------------------- MODULE MCMtprotoClient ---------------------------
(* MtprotoClient with a few connections, packets and messages, for TLC. *)
EXTENDS MtprotoClient
=============================================================================
