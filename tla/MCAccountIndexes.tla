-------------------------- MODULE MCAccountIndexes --------------------------
(* AccountIndexes for TLC: the bounds alone are given, in the .cfg files.   *)
EXTENDS AccountIndexes
=============================================================================
