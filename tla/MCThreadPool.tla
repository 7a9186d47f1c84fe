---------------------------- MODULE MCThreadPool ----------------------------
(* ThreadPool with one action per step of a worker or a caller, for TLC. The
   theorems about it for every size are in ThreadPoolProofs. *)
EXTENDS ThreadPool
=============================================================================
