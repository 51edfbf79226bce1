---------------------------- MODULE MCSyncCache -----------------------------
(* SyncCache for TLC: processes and events are model values, one nullifier  *)
(* and one other event.                                                     *)
EXTENDS SyncCache, TLC

CONSTANTS p1, p2, leaf, nf

OneProcess == {p1}
TwoProcesses == {p1, p2}
OneNullifier == {nf}
OneLeaf == {leaf}
NoEvents == {}
EitherProcess == Permutations(Procs)
=============================================================================
