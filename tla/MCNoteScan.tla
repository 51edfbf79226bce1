----------------------------- MODULE MCNoteScan -----------------------------
(* NoteScan for TLC: three indexes without a note close a scan; values that *)
(* can and cannot be paid by one of two inputs alone.                       *)
EXTENDS NoteScan

OneAndTwo == {1, 2}
=============================================================================
