---------------------------- MODULE MCClientRequests ----------------------------
(* The instance of ClientRequests that TLC checks; see the cfg.            *)
EXTENDS ClientRequests
=============================================================================
