-------------------------- MODULE MCSessionStorage --------------------------
(* SessionStorage with storages in memory and on one file, for TLC: texts  *)
(* with and without a NUL.                                                 *)
EXTENDS SessionStorage

CONSTANTS k, kNul, v, vNul, n, nNul, startsNul

MCCStr == [t \in Key \cup Value \cup Name |->
  CASE t = kNul -> k [] t = vNul -> v [] t = nNul -> n [] t = startsNul -> NoName
    [] OTHER -> t]
=============================================================================
