---------------------------- MODULE ShieldedPool ----------------------------
(***************************************************************************)
(* The environment of the wallet: the shielded pool contract and the nodes *)
(* in front of it, as flow.rs uses them.  A transaction spends pool notes  *)
(* and creates at most one note of this wallet.  Nodes keep it in a        *)
(* mempool until it is mined or dropped; a reorg takes a mined transaction *)
(* back.  None of this is code of the repository: it is what the calls     *)
(* send_and_wait, currentEpoch, get_logs and the commitment tree stand on. *)
(***************************************************************************)
EXTENDS PoolTransactions, Naturals, FiniteSets

CONSTANTS
    Values,      \* amounts a note may carry
    MaxNotes,    \* bound: note indexes handed out
    MaxEpoch,    \* bound: the pool's epoch counter stops here
    MaxReorgs    \* bound: mined transactions taken back

ASSUME PoolAssumption ==
    /\ MaxNotes \in Nat
    /\ MaxEpoch \in Nat
    /\ MaxReorgs \in Nat

VARIABLES
    mined,       \* transactions in the canonical chain
    mempool,     \* transactions nodes still hold
    epoch,       \* ShieldedPool.currentEpoch()
    reorgs       \* number of transactions taken back

poolVars == <<mined, mempool, epoch, reorgs>>

(* A note of this wallet: its secrets follow from the mnemonic and the      *)
(* index alone, so notes that share an index share the spend key and rho.   *)
Note == [index : 0..(MaxNotes - 1), value : Values]

(* A signed pool transaction.  `epoch` is the epoch its proof names.        *)
Tx == [id : Nat, ins : SUBSET Note, outs : SUBSET Note, epoch : Nat]

(* A transaction in the chain, with the epoch in which its leaf landed.     *)
MinedTx == [id : Nat, ins : SUBSET Note, outs : SUBSET Note,
            epoch : Nat, landed : Nat]

Leaves == Outs(mined)
SpentNotes == Ins(mined)
Unspent == Leaves \ SpentNotes

PoolTypeOK ==
    /\ mined \in SUBSET MinedTx
    /\ mempool \in SUBSET Tx
    /\ epoch \in Nat
    /\ reorgs \in Nat

PoolInit ==
    /\ mined = {}
    /\ mempool = {}
    /\ epoch = 0
    /\ reorgs = 0

Landed(t) == [id |-> t.id, ins |-> t.ins, outs |-> t.outs,
              epoch |-> t.epoch, landed |-> epoch]
Unlanded(m) == [id |-> m.id, ins |-> m.ins, outs |-> m.outs, epoch |-> m.epoch]

(* The contract takes a proof about leaves that were in the tree in the     *)
(* proof's epoch, and no note twice.                                        *)
Acceptable(t) ==
    /\ t.ins \cap SpentNotes = {}
    /\ \A n \in t.ins : \E m \in mined : n \in m.outs /\ m.landed <= t.epoch

Mine(t) ==
    /\ t \in mempool
    /\ Acceptable(t)
    /\ mined' = mined \cup {Landed(t)}
    /\ mempool' = mempool \ {t}
    /\ UNCHANGED <<epoch, reorgs>>

(* A node forgets the transaction, or includes it with a failed frame.      *)
Drop(t) ==
    /\ t \in mempool
    /\ mempool' = mempool \ {t}
    /\ UNCHANGED <<mined, epoch, reorgs>>

RollEpoch ==
    /\ epoch < MaxEpoch
    /\ epoch' = epoch + 1
    /\ UNCHANGED <<mined, mempool, reorgs>>

(* The last block that no other mined transaction builds on is replaced:    *)
(* its transaction goes back to the mempool or is gone.                     *)
Reorg(m) ==
    /\ m \in mined
    /\ reorgs < MaxReorgs
    /\ m.outs \cap SpentNotes = {}
    /\ mined' = mined \ {m}
    /\ \/ mempool' = mempool \cup {Unlanded(m)}
       \/ mempool' = mempool
    /\ reorgs' = reorgs + 1
    /\ UNCHANGED epoch

PoolNext ==
    \/ \E t \in mempool : Mine(t) \/ Drop(t)
    \/ RollEpoch
    \/ \E m \in mined : Reorg(m)
=============================================================================
