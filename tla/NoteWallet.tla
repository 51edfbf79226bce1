----------------------------- MODULE NoteWallet -----------------------------
(***************************************************************************)
(* The life of a private note in the wallet: the commands shield, unshield,*)
(* balances, rescan, next and import of flow.rs and main.rs, each a process*)
(* that loads wallet.json once, works on its copy and saves the whole copy *)
(* at fixed places.  Between any two steps the pool moves on its own, and  *)
(* a command may end early: a refused confirmation, an RPC error, a send   *)
(* that timed out, a crash.                                                *)
(***************************************************************************)
EXTENDS ShieldedPool, NoteRecovery, FiniteSetsExt

CONSTANTS
    Procs,       \* command invocations that may exist at once
    Overlap,     \* may two invocations run at the same time?
    MaxSends,    \* bound: transactions signed
    MaxImports   \* bound: times the mnemonic is imported again

ASSUME WalletAssumption ==
    /\ Overlap \in BOOLEAN
    /\ MaxSends \in Nat
    /\ MaxImports \in Nat

VARIABLES
    disk,        \* the Secrets inside wallet.json
    run,         \* per process: where its command is, and its locals
    signed,      \* number of transactions signed so far
    sent,        \* history: every transaction handed to a node
    imports      \* number of imports so far

walletVars == <<disk, run, signed, sent, imports>>
vars == <<mined, mempool, epoch, reorgs, disk, run, signed, sent, imports>>

-----------------------------------------------------------------------------
(* wallet.rs: Secrets, restricted to the notes.                             *)

SavedNote == [note : Note, pending : BOOLEAN]
Secrets == [next_note : 0..MaxNotes, notes : SUBSET SavedNote]

Saved(n, p) == [note |-> n, pending |-> p]
NotesOf(s) == {sv.note : sv \in s.notes}
Confirmed(s) == {sv.note : sv \in {x \in s.notes : ~x.pending}}

FreshSecrets == [next_note |-> 0, notes |-> {}]

Commands == {"balances", "shield", "unshield", "rescan", "next"}
Places == {"off", "start", "tree", "epoch", "spent", "save",
           "plan", "build", "send", "wait", "logs", "burns", "apply"}

NoTx == [id |-> 0, ins |-> {}, outs |-> {}, epoch |-> 0]

(* The locals of one invocation.  `view` is what it read of the chain (its  *)
(* commitment tree, later the pool's logs), `ep` and `spent` the epoch and  *)
(* the nullifiers it read, `live` the notes an unshield still counts on.    *)
Invocation == [pc : Places, cmd : Commands, mem : Secrets,
               view : SUBSET MinedTx, ep : Nat,
               spent : SUBSET (Note \X Nat), live : SUBSET Note,
               tx : Tx, last : BOOLEAN]

Idle == [pc |-> "off", cmd |-> "balances", mem |-> FreshSecrets,
         view |-> {}, ep |-> 0, spent |-> {}, live |-> {},
         tx |-> NoTx, last |-> FALSE]

Invoked(cmd, pc, s) == [Idle EXCEPT !.pc = pc, !.cmd = cmd, !.mem = s]

-----------------------------------------------------------------------------
(* Helpers of flow.rs on a copy of the secrets.                             *)

(* shield, remember_born: a pending entry is pushed.                        *)
RememberBorn(s, n) == [s EXCEPT !.notes = @ \cup {Saved(n, TRUE)}]

(* A faulty allocate_note: it forgets to count.                             *)
AllocateForgets(s) == s

(* allocate_note: the next index is taken in memory.                        *)
Allocate(s) == [s EXCEPT !.next_note = @ + 1]

(* Faulty forms of sync_notes: only the current epoch's nullifier is looked *)
(* up; a note that is not in the tree is dropped; every note is confirmed;  *)
(* none is.                                                                 *)
BurnedNow(n, ep, spent) == <<n, ep>> \in spent
KeptInTree(sv, leaves, ep, spent) ==
    sv.note \in leaves /\ ~\E e \in 0..ep : <<sv.note, e>> \in spent
SyncedAlways(sv, leaves) == Saved(sv.note, FALSE)
SyncedNever(sv, leaves) == sv

(* sync_notes, the decision on one saved note, given the commitments in the *)
(* tree, the epoch and the nullifiers that were read.                       *)
Burned(n, ep, spent) == \E e \in 0..ep : <<n, e>> \in spent
Kept(sv, leaves, ep, spent) ==
    \/ sv.note \notin leaves
    \/ ~Burned(sv.note, ep, spent)
Synced(sv, leaves) ==
    IF sv.note \in leaves THEN Saved(sv.note, FALSE) ELSE sv
SyncNotes(s, leaves, ep, spent) ==
    [s EXCEPT !.notes = {Synced(sv, leaves) :
                           sv \in {x \in s.notes : Kept(x, leaves, ep, spent)}}]

(* A faulty replace_notes: pending entries go with the spent ones.          *)
ReplaceNotesAll(s, live) == [s EXCEPT !.notes = {Saved(n, FALSE) : n \in live}]

(* replace_notes: the live notes, confirmed, and every other pending entry. *)
SameSecrets(a, b) == a.index = b.index
ReplaceNotes(s, live) ==
    [s EXCEPT !.notes =
        {Saved(n, FALSE) : n \in live} \cup
        {sv \in s.notes : sv.pending /\ \A n \in live : ~SameSecrets(sv.note, n)}]

(* Faulty forms of rescan_notes: entries of spent notes stay in the file;   *)
(* next_note is set from the found notes alone; it grows by their number.   *)
MergeFoundCounts(s, F, gone) == [s EXCEPT !.next_note = @ + Cardinality(F)]
MergeFoundKeeps(s, F, gone) ==
    LET held == {sv.note.index : sv \in s.notes}
        next == {s.next_note} \cup {n.index + 1 : n \in F}
    IN  [next_note |-> CHOOSE i \in next : \A j \in next : j <= i,
         notes |-> s.notes \cup {Saved(n, FALSE) :
                                   n \in {x \in F \ gone : x.index \notin held}}]
MergeFoundRewinds(s, F, gone) ==
    LET left == {sv \in s.notes : sv.note.index \notin Indexes(gone)}
        held == {sv.note.index : sv \in left}
        next == {0} \cup {n.index + 1 : n \in F}
    IN  [next_note |-> CHOOSE i \in next : \A j \in next : j <= i,
         notes |-> left \cup {Saved(n, FALSE) :
                                n \in {x \in F \ gone : x.index \notin held}}]

(* rescan_notes, what it does with the found notes F, `gone` of them spent. *)
MergeFound(s, F, gone) ==
    LET left == {sv \in s.notes : sv.note.index \notin Indexes(gone)}
        held == {sv.note.index : sv \in left}
        next == {s.next_note} \cup {n.index + 1 : n \in F}
    IN  [next_note |-> CHOOSE i \in next : \A j \in next : j <= i,
         notes |-> left \cup {Saved(n, FALSE) :
                                n \in {x \in F \ gone : x.index \notin held}}]

-----------------------------------------------------------------------------
(* The commands.                                                            *)

Off(p) == run[p].pc = "off"
At(p, pc) == run[p].pc = pc
Goto(p, pc) == run' = [run EXCEPT ![p].pc = pc]

(* wallet::save: the invocation's whole copy replaces the file.             *)
Save(s) == disk' = s

NewTx(p, ins, outs) ==
    [id |-> signed + 1, ins |-> ins, outs |-> outs, epoch |-> run[p].ep]

(* main.rs open: the command loads wallet.json once, before anything else.  *)
Start(p, cmd) ==
    /\ Off(p)
    /\ Overlap \/ \A q \in Procs : Off(q)
    /\ run' = [run EXCEPT ![p] =
                Invoked(cmd, IF cmd \in {"shield", "next"} THEN "start" ELSE "tree",
                        disk)]
    /\ UNCHANGED <<poolVars, disk, signed, sent, imports>>

(* Any `?` on the way: a refused confirmation, a dry run, an RPC error, a   *)
(* send that failed or timed out, Ctrl-C, a crash.  What was saved stays.   *)
Fail(p) ==
    /\ ~Off(p)
    /\ run' = [run EXCEPT ![p] = Idle]
    /\ UNCHANGED <<poolVars, disk, signed, sent, imports>>

(* next_fresh and every other command that saves the secrets for the sake   *)
(* of a public index: the notes are written back as they were loaded.       *)
NextFresh(p) ==
    /\ At(p, "start")
    /\ run[p].cmd = "next"
    /\ Save(run[p].mem)
    /\ run' = [run EXCEPT ![p] = Idle]
    /\ UNCHANGED <<poolVars, signed, sent, imports>>

(* shield reads the epoch before the summary is shown ...                   *)
ShieldEpoch(p) ==
    /\ At(p, "start")
    /\ run[p].cmd = "shield"
    /\ run' = [run EXCEPT ![p].ep = epoch, ![p].pc = "build"]
    /\ UNCHANGED <<poolVars, disk, signed, sent, imports>>

(* ... and after the confirmation signs, takes the index and saves the      *)
(* pending note before anything is sent.                                    *)
ShieldSign(p, v) ==
    LET n == [index |-> run[p].mem.next_note, value |-> v]
        s == RememberBorn(Allocate(run[p].mem), n)
    IN  /\ At(p, "build")
        /\ run[p].cmd = "shield"
        /\ run[p].mem.next_note < MaxNotes
        /\ signed < MaxSends
        /\ Save(s)
        /\ signed' = signed + 1
        /\ run' = [run EXCEPT ![p].mem = s, ![p].tx = NewTx(p, {}, {n}),
                              ![p].last = TRUE, ![p].pc = "send"]
        /\ UNCHANGED <<poolVars, sent, imports>>

(* send_and_wait hands the transaction to a node, then polls the receipt.   *)
Broadcast(p) ==
    /\ At(p, "send")
    /\ mempool' = mempool \cup {run[p].tx}
    /\ sent' = sent \cup {run[p].tx}
    /\ Goto(p, "wait")
    /\ UNCHANGED <<mined, epoch, reorgs, disk, signed, imports>>

(* A faulty send_and_wait: it does not wait for the receipt.                *)
HasReceiptEarly(p) == TRUE

HasReceipt(p) == \E m \in mined : m.id = run[p].tx.id

ShieldReceipt(p) ==
    /\ At(p, "wait")
    /\ run[p].cmd = "shield"
    /\ HasReceipt(p)
    /\ run' = [run EXCEPT ![p] = Idle]
    /\ UNCHANGED <<poolVars, disk, signed, sent, imports>>

-----------------------------------------------------------------------------
(* sync_notes, run by balances, unshield and rescan.                        *)

(* The indexer brings the commitment tree up to the head.                   *)
SyncTree(p) ==
    /\ At(p, "tree")
    /\ run' = [run EXCEPT ![p].view = mined, ![p].pc = "epoch"]
    /\ UNCHANGED <<poolVars, disk, signed, sent, imports>>

(* currentEpoch(): a failed call counts as epoch 0.                         *)
SyncEpoch(p) ==
    /\ At(p, "epoch")
    /\ \E ep \in {epoch, 0} :
           run' = [run EXCEPT ![p].ep = ep, ![p].pc = "spent"]
    /\ UNCHANGED <<poolVars, disk, signed, sent, imports>>

(* spent_nullifiers: the cached nullifiers and those of the logs up to now. *)
SyncSpent(p) ==
    /\ At(p, "spent")
    /\ run' = [run EXCEPT ![p].spent = Nullifiers(mined), ![p].pc = "save"]
    /\ UNCHANGED <<poolVars, disk, signed, sent, imports>>

(* The notes are sifted and saved; the command that asked goes on.          *)
SyncSave(p) ==
    LET s == SyncNotes(run[p].mem, Outs(run[p].view), run[p].ep, run[p].spent)
    IN  /\ At(p, "save")
        /\ Save(s)
        /\ run' = [run EXCEPT ![p] =
                    CASE run[p].cmd = "unshield" -> Invoked("unshield", "plan", s)
                      [] run[p].cmd = "rescan"   -> Invoked("rescan", "logs", s)
                      [] OTHER                   -> Idle]
        /\ UNCHANGED <<poolVars, signed, sent, imports>>

-----------------------------------------------------------------------------
(* unshield after its sync.                                                 *)

(* The notes it counts on and the epoch are read once for the whole command;*)
(* with --next the secrets are saved for the sake of the public index.      *)
UnshieldPlan(p, next) ==
    /\ At(p, "plan")
    /\ Confirmed(run[p].mem) # {}
    /\ run' = [run EXCEPT ![p].live = Confirmed(run[p].mem),
                          ![p].ep = epoch, ![p].pc = "build"]
    /\ IF next THEN Save(run[p].mem) ELSE UNCHANGED disk
    /\ UNCHANGED <<poolVars, signed, sent, imports>>

Worth(S) == MapThenSumSet(LAMBDA n : n.value, S)

Changes(p) ==
    {{}} \cup {{[index |-> run[p].mem.next_note, value |-> v]} : v \in Values}

(* One turn of the loop: a merge of two notes, or the final spend of one or *)
(* two.  An index is taken unless the final spend withdraws everything; the *)
(* change, when the fees leave any, is saved as pending before the send.    *)
BuildSpend(p, ins, last, max, change) ==
    LET s == IF max THEN run[p].mem ELSE Allocate(run[p].mem)
        saved == [s EXCEPT !.notes = @ \cup {Saved(n, TRUE) : n \in change}]
    IN  /\ At(p, "build")
        /\ run[p].cmd = "unshield"
        /\ ins \subseteq run[p].live
        /\ Cardinality(ins) \in (IF last THEN {1, 2} ELSE {2})
        /\ max => last /\ change = {}
        /\ change # {} => Worth(change) < Worth(ins)
        /\ max \/ run[p].mem.next_note < MaxNotes
        /\ signed < MaxSends
        /\ IF change = {} THEN UNCHANGED disk ELSE Save(saved)
        /\ signed' = signed + 1
        /\ run' = [run EXCEPT ![p].mem = saved, ![p].tx = NewTx(p, ins, change),
                              ![p].last = last, ![p].pc = "send"]
        /\ UNCHANGED <<poolVars, sent, imports>>

(* After the receipt the inputs leave the live notes, the change joins them *)
(* and the live notes are written back as confirmed.                        *)
SpendReceipt(p) ==
    LET live == (run[p].live \ run[p].tx.ins) \cup run[p].tx.outs
        s == ReplaceNotes(run[p].mem, live)
    IN  /\ At(p, "wait")
        /\ run[p].cmd = "unshield"
        /\ HasReceipt(p)
        /\ Save(s)
        /\ run' = [run EXCEPT ![p] =
                    IF run[p].last THEN Idle
                    ELSE [@ EXCEPT !.mem = s, !.live = live,
                                   !.tx = NoTx, !.pc = "build"]]
        /\ UNCHANGED <<poolVars, signed, sent, imports>>

-----------------------------------------------------------------------------
(* rescan_notes after its sync.                                             *)

(* The logs show a settle by its leaf.  One without change shows only if the*)
(* pool logged a root or a leaf of someone else in the same transaction.    *)
RescanLogs(p) ==
    /\ At(p, "logs")
    /\ \E view \in {mined, {m \in mined : m.outs # {}}} :
           run' = [run EXCEPT ![p].view = view, ![p].pc = "burns"]
    /\ UNCHANGED <<poolVars, disk, signed, sent, imports>>

(* The nullifiers, then the epoch.  A failed call counts as epoch 0, and    *)
(* then the leaves of other wallets in the logs may still show a later one. *)
RescanBurns(p) ==
    /\ At(p, "burns")
    /\ \E ep \in 0..epoch :
           run' = [run EXCEPT ![p].spent = Nullifiers(mined), ![p].ep = ep,
                              ![p].pc = "apply"]
    /\ UNCHANGED <<poolVars, disk, signed, sent, imports>>

(* actions_for_tx gives nothing for a transaction that cannot be fetched:   *)
(* the recovery works with the others and its result is saved all the same. *)
RescanApply(p, readable) ==
    /\ At(p, "apply")
    /\ \E P \in Recoveries(readable) :
           \E gone \in SpentSets(P, readable, run[p].view, run[p].ep, run[p].spent) :
               Save(MergeFound(run[p].mem, Outs(P), gone))
    /\ run' = [run EXCEPT ![p] = Idle]
    /\ UNCHANGED <<poolVars, signed, sent, imports>>

(* main.rs create --import: a new file for the same mnemonic, then a rescan *)
(* whose failure is only reported.                                          *)
Import(p) ==
    /\ \A q \in Procs : Off(q)
    /\ imports < MaxImports
    /\ imports' = imports + 1
    /\ Save(FreshSecrets)
    /\ run' = [run EXCEPT ![p] = Invoked("rescan", "tree", FreshSecrets)]
    /\ UNCHANGED <<poolVars, signed, sent>>

-----------------------------------------------------------------------------
Init ==
    /\ PoolInit
    /\ disk = FreshSecrets
    /\ run = [p \in Procs |-> Idle]
    /\ signed = 0
    /\ sent = {}
    /\ imports = 0

Shield(p) == ShieldEpoch(p) \/ (\E v \in Values : ShieldSign(p, v)) \/ ShieldReceipt(p)
Sync(p) == SyncTree(p) \/ SyncEpoch(p) \/ SyncSpent(p) \/ SyncSave(p)
Unshield(p) ==
    \/ \E next \in BOOLEAN : UnshieldPlan(p, next)
    \/ \E ins \in SUBSET run[p].live, last, max \in BOOLEAN, change \in Changes(p) :
           BuildSpend(p, ins, last, max, change)
    \/ SpendReceipt(p)
Rescan(p) ==
    \/ RescanLogs(p)
    \/ RescanBurns(p)
    \/ \E readable \in SUBSET run[p].view : RescanApply(p, readable)

Command(p) ==
    \/ \E cmd \in Commands : Start(p, cmd)
    \/ NextFresh(p)
    \/ Shield(p)
    \/ Broadcast(p)
    \/ Sync(p)
    \/ Unshield(p)
    \/ Rescan(p)
    \/ Import(p)
    \/ Fail(p)

Pool == PoolNext /\ UNCHANGED <<disk, run, signed, sent, imports>>

Next == Pool \/ \E p \in Procs : Command(p)

Spec == Init /\ [][Next]_vars

(* A command that was started goes on or gives up, send_and_wait included.  *)
Work(p) == NextFresh(p) \/ Shield(p) \/ Broadcast(p) \/ Unshield(p) \/ Rescan(p) \/ Fail(p)

(* The user runs balances again and again, and the RPC does not fail for    *)
(* ever at the same call.                                                   *)
Fairness ==
    \A p \in Procs :
        /\ WF_vars(Work(p))
        /\ SF_vars(Start(p, "balances"))
        /\ SF_vars(SyncTree(p))
        /\ SF_vars(SyncEpoch(p))
        /\ SF_vars(SyncSpent(p))
        /\ SF_vars(SyncSave(p))

FairSpec == Spec /\ Fairness

-----------------------------------------------------------------------------
(* Properties.                                                              *)

(* Every variable keeps its shape (flow.rs, wallet.rs Secrets).             *)
TypeOK ==
    /\ PoolTypeOK
    /\ disk \in Secrets
    /\ run \in [Procs -> Invocation]
    /\ signed \in Nat
    /\ sent \in SUBSET Tx
    /\ imports \in Nat

(* A note that was ever handed to a node, and is not spent on chain, is in  *)
(* wallet.json, whatever failed after the hand-over (flow.rs:482 keeps the  *)
(* pending note after any broadcast attempt).                               *)
NoNoteLost == Outs(sent) \ SpentNotes \subseteq NotesOf(disk)

(* No two transactions that were sent create notes with the same index      *)
(* (wallet.rs:57, one index per note), failed commands included.            *)
OneIndexPerNote ==
    \A t, u \in sent : t # u => Indexes(t.outs) \cap Indexes(u.outs) = {}

(* What balances adds up as private money has landed: no note is shown as   *)
(* confirmed because of a receipt or a sync that did not include it.        *)
ConfirmedMeansLanded == Confirmed(disk) \subseteq Leaves

(* A spend is never sent before the notes it consumes have landed: the loop *)
(* of unshield uses a merge output only after the merge's receipt.          *)
SpendsOnlyLanded == Ins(sent) \subseteq Leaves

(* A sync that could read the epoch leaves no note confirmed that was spent *)
(* when it brought its tree up to date (sync_notes).                        *)
SyncedNotesAreUnspent ==
    [][\A p \in Procs :
          SyncSave(p) /\ (\A m \in run[p].view : m.epoch <= run[p].ep)
              => Confirmed(disk') \cap Ins(run[p].view) = {}]_vars

(* A rescan that could read every logged transaction leaves in the file     *)
(* every note that was unspent in the logs and not spent since, and none    *)
(* that a logged settle spends or a nullifier it looked up shows as spent,  *)
(* provided no index was used twice, no gap or cap hides a note, no settle  *)
(* is half covered, and no other entry of the file stands under the note's  *)
(* index (rescan_notes, recover_notes).                                     *)
RescanMatchesChain ==
    [][\A p \in Procs :
          LET view == run[p].view
              clear(n) == \A o \in NotesOf(run[p].mem) : o.index = n.index => o = n
              burnt == Burnt(Outs(view), view, run[p].ep, run[p].spent)
          IN  /\ RescanApply(p, view)
              /\ OneNotePerIndex(Outs(view))
              /\ \A t, u \in view : t.outs \cap u.outs # {} => t = u
              /\ Dense(Outs(view))
              /\ ~\E t \in view : HalfCovers(t)
              => /\ \A n \in Outs(view) \ (Ins(view) \cup {x[1] : x \in run[p].spent}) :
                        clear(n) => n \in NotesOf(disk')
                 /\ (Ins(view) \cup burnt) \cap NotesOf(disk') = {}]_vars

(* No command takes back an index: next_note in the file never decreases,   *)
(* except when the mnemonic is imported into a new file.                    *)
IndexNeverRewound == [][imports' = imports => disk'.next_note >= disk.next_note]_vars

(* A landed note does not stay pending: if the user keeps asking for the    *)
(* balances, each pending entry whose commitment landed is confirmed or     *)
(* dropped as spent (flow.rs:491, pending until sync sees the commitment).  *)
PendingIsSettled ==
    \A n \in Note :
        n \in Leaves /\ Saved(n, TRUE) \in disk.notes ~> Saved(n, TRUE) \notin disk.notes

(* The wallet keeps the custody promise.                                    *)
Custody == INSTANCE NoteCustody WITH
    known <- NotesOf(disk),
    used <- 0..(disk.next_note - 1),
    inflight <- Outs(mempool),
    launched <- Outs(sent),
    held <- Unspent
CustodySpec == Custody!CustodySpec
=============================================================================
