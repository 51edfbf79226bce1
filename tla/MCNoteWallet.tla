---------------------------- MODULE MCNoteWallet ----------------------------
(* NoteWallet for TLC.  Processes are model values; two amounts are enough  *)
(* to tell apart two notes that share an index.                             *)
EXTENDS NoteWalletInv

CONSTANTS p1, p2

OneProcess == {p1}
TwoProcesses == {p1, p2}
OneAmount == {1}
TwoAmounts == {1, 2}
=============================================================================
