---------------------------- MODULE MCWalletFile ----------------------------
(* WalletFile for TLC: processes, mnemonics and inodes are model values; an *)
(* inode more than the directory can name lets a new temporary file appear. *)
EXTENDS WalletFile, TLC

CONSTANTS p1, p2, s1, s2, f1, f2, f3

OneProcess == {p1}
TwoProcesses == {p1, p2}
TwoSeeds == {s1, s2}
ThreeFiles == {f1, f2, f3}
EitherProcess == Permutations(Procs) \cup Permutations(Files)
=============================================================================
