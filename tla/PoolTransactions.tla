-------------------------- MODULE PoolTransactions --------------------------
(***************************************************************************)
(* What a set of pool transactions says, for ShieldedPool, where the wallet*)
(* lives, and for NoteRecovery, which reads them back.  A transaction is a *)
(* record with the notes it spends, `ins`, the notes of the wallet that it *)
(* creates, `outs`, and the `epoch` that its proof names.                  *)
(***************************************************************************)

Outs(T) == UNION {t.outs : t \in T}
Ins(T)  == UNION {t.ins : t \in T}

(* A nullifier depends on the note and on the domain of the epoch that the  *)
(* spending proof names.                                                    *)
Nullifiers(T) == UNION {{<<n, t.epoch>> : n \in t.ins} : t \in T}
=============================================================================
