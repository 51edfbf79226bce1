-------------------------- MODULE NoteWalletProofs --------------------------
(***************************************************************************)
(* Type correctness of NoteWallet for every value of the constants, what a *)
(* rescan, a sync and the index counter promise when commands overlap or   *)
(* the chain is rolled back, and the lemmas on the helpers of flow.rs.     *)
(***************************************************************************)
EXTENDS NoteWalletInv, TLAPS, WellFoundedInduction

(* A nonempty set of numbers up to N has a largest element: what            *)
(* rescan_notes relies on when it takes max() of the recovered indexes.     *)
LEMMA LargestExists ==
    ASSUME NEW N \in Nat, NEW S \in SUBSET (0..N), S # {}
    PROVE  \E i \in S : \A j \in S : j <= i
<1> DEFINE R == {ss \in Nat \X Nat : ss[1] < ss[2]}
           T == {N - i : i \in S}
<1>1. IsWellFoundedOn(R, Nat)
  BY NatLessThanWellFounded DEF OpToRel
<1>2. T \subseteq Nat
  <2> SUFFICES ASSUME NEW i \in S  PROVE N - i \in Nat
    OBVIOUS
  <2>1. i \in 0..N
    OBVIOUS
  <2> QED
    BY <2>1
<1>3. T # {}
  OBVIOUS
<1> HIDE DEF R, T
<1>4. PICK x \in T : \A y \in T : ~(<<y, x>> \in R)
  BY <1>1, <1>2, <1>3, WFMin
<1>5. PICK i \in S : x = N - i
  BY <1>4 DEF T
<1>6. \A j \in S : ~(N - j < N - i)
  BY <1>2, <1>4, <1>5 DEF R, T
<1> QED
  BY <1>5, <1>6

-----------------------------------------------------------------------------
(* Types.                                                                   *)

(* What a command is before it starts is well formed.                      *)
LEMMA IdleType == Idle \in Invocation /\ FreshSecrets \in Secrets
<1>1. FreshSecrets \in Secrets
  BY PoolAssumption DEF FreshSecrets, Secrets
<1>2. NoTx \in Tx
  BY DEF NoTx, Tx
<1> QED
  BY <1>1, <1>2 DEF Idle, Invocation, Places, Commands

(* What main.rs open leaves behind is a well formed invocation.             *)
LEMMA InvokedType ==
    ASSUME NEW cmd \in Commands, NEW pc \in Places, NEW s \in Secrets
    PROVE  Invoked(cmd, pc, s) \in Invocation
BY IdleType DEF Invoked, Idle, Invocation

(* An entry made from a note of the wallet is one wallet.json may hold.     *)
LEMMA SavedType == \A n \in Note, b \in BOOLEAN : Saved(n, b) \in SavedNote
BY DEF Saved, SavedNote

(* allocate_note keeps the secrets well formed while indexes are left.      *)
LEMMA AllocateType ==
    ASSUME NEW s \in Secrets, s.next_note < MaxNotes
    PROVE  Allocate(s) \in Secrets
BY PoolAssumption DEF Allocate, Secrets

(* Pushing entries for notes keeps the secrets well formed.                 *)
LEMMA RememberType ==
    ASSUME NEW s \in Secrets, NEW S \in SUBSET Note, NEW b \in BOOLEAN
    PROVE  [s EXCEPT !.notes = @ \cup {Saved(n, b) : n \in S}] \in Secrets
BY DEF Secrets, SavedNote, Saved

(* sync_notes keeps them well formed, whatever it read of the chain.        *)
LEMMA SyncNotesType ==
    ASSUME NEW s \in Secrets, NEW L, NEW ep, NEW spent
    PROVE  SyncNotes(s, L, ep, spent) \in Secrets
<1>1. \A sv \in SavedNote : Synced(sv, L) \in SavedNote
  BY DEF Synced, Saved, SavedNote
<1> QED
  BY <1>1 DEF SyncNotes, Secrets

(* So does replace_notes.                                                   *)
LEMMA ReplaceNotesType ==
    ASSUME NEW s \in Secrets, NEW live \in SUBSET Note
    PROVE  ReplaceNotes(s, live) \in Secrets
<1>1. {Saved(n, FALSE) : n \in live} \subseteq SavedNote
  BY SavedType
<1> QED
  BY <1>1 DEF ReplaceNotes, Secrets

(* rescan_notes writes well formed secrets, never lowers next_note and      *)
(* leaves it above every note that was found.                               *)
LEMMA MergeFoundType ==
    ASSUME NEW s \in Secrets, NEW F \in SUBSET Note, NEW gone
    PROVE  /\ MergeFound(s, F, gone) \in Secrets
           /\ s.next_note <= MergeFound(s, F, gone).next_note
           /\ \A n \in F : n.index < MergeFound(s, F, gone).next_note
<1> DEFINE left == {sv \in s.notes : sv.note.index \notin Indexes(gone)}
           held == {sv.note.index : sv \in left}
           next == {s.next_note} \cup {n.index + 1 : n \in F}
           added == {Saved(n, FALSE) : n \in {x \in F \ gone : x.index \notin held}}
           top == CHOOSE i \in next : \A j \in next : j <= i
<1>1. next \subseteq 0..MaxNotes
  <2>1. \A n \in F : n.index + 1 \in 0..MaxNotes
    BY PoolAssumption DEF Note
  <2> QED
    BY <2>1 DEF Secrets
<1>2. top \in 0..MaxNotes /\ s.next_note <= top /\ \A n \in F : n.index < top
  <2>1. \E i \in next : \A j \in next : j <= i
    <3> HIDE DEF next
    <3>1. next # {}
      BY DEF next
    <3> QED
      BY <1>1, <3>1, LargestExists, PoolAssumption
  <2>2. s.next_note \in next /\ \A n \in F : n.index \in Nat /\ n.index + 1 \in next
    BY DEF Note
  <2> HIDE DEF next
  <2>3. top \in next /\ \A j \in next : j <= top
    BY <2>1
  <2>4. top \in 0..MaxNotes /\ \A n \in F : n.index + 1 <= top
    BY <1>1, <2>2, <2>3
  <2>5. s.next_note <= top
    BY <2>2, <2>3
  <2> HIDE DEF top
  <2> QED
    BY <2>2, <2>4, <2>5, PoolAssumption
<1>3. left \cup added \subseteq SavedNote
  <2>1. left \subseteq SavedNote
    BY DEF Secrets
  <2>2. added \subseteq SavedNote
    BY SavedType
  <2> QED
    BY <2>1, <2>2
<1>4. MergeFound(s, F, gone) = [next_note |-> top, notes |-> left \cup added]
  BY DEF MergeFound
<1> QED
  <2> HIDE DEF top, left, added
  <2> QED
    BY <1>2, <1>3, <1>4 DEF Secrets

(* Every nullifier in the chain is of a note, in an epoch.                  *)
LEMMA NullifiersType ==
    ASSUME mined \in SUBSET MinedTx
    PROVE  Nullifiers(mined) \in SUBSET (Note \X Nat)
<1> SUFFICES ASSUME NEW t \in mined, NEW n \in t.ins
             PROVE  <<n, t.epoch>> \in Note \X Nat
  BY DEF Nullifiers
<1> QED
  BY DEF MinedTx

(* The notes of the secrets are notes.                                      *)
LEMMA ConfirmedType ==
    ASSUME NEW s \in Secrets
    PROVE  Confirmed(s) \in SUBSET Note /\ NotesOf(s) \in SUBSET Note
BY DEF Confirmed, NotesOf, Secrets, SavedNote

(* recover_notes makes use only of what it can read, one note per index.    *)
LEMMA RecoveriesType ==
    ASSUME NEW R, NEW P \in Recoveries(R)
    PROVE  P \subseteq R /\ Outs(P) \subseteq Outs(R) /\ OneNotePerIndex(Outs(P))
BY DEF Recoveries, Sound, Outs

(* A step of one command: what it needs to stay well typed.                 *)
LEMMA RunType ==
    ASSUME run \in [Procs -> Invocation], NEW p \in Procs, NEW r \in Invocation,
           run' = [run EXCEPT ![p] = r]
    PROVE  run' \in [Procs -> Invocation]
OBVIOUS

(* A step of the pool keeps the types.                                      *)
LEMMA PoolTypeStep ==
    ASSUME TypeOK, Pool
    PROVE  TypeOK'
<1>1. ASSUME NEW t \in mempool, Mine(t)  PROVE PoolTypeOK'
  <2>1. Landed(t) \in MinedTx
    BY DEF TypeOK, PoolTypeOK, Landed, Tx, MinedTx
  <2> QED
    BY <1>1, <2>1 DEF Mine, TypeOK, PoolTypeOK
<1>2. ASSUME NEW t \in mempool, Drop(t)  PROVE PoolTypeOK'
  BY <1>2 DEF Drop, TypeOK, PoolTypeOK
<1>3. ASSUME RollEpoch  PROVE PoolTypeOK'
  BY <1>3 DEF RollEpoch, TypeOK, PoolTypeOK
<1>4. ASSUME NEW m \in mined, Reorg(m)  PROVE PoolTypeOK'
  <2>1. Unlanded(m) \in Tx
    BY DEF TypeOK, PoolTypeOK, Unlanded, Tx, MinedTx
  <2> QED
    BY <1>4, <2>1 DEF Reorg, TypeOK, PoolTypeOK
<1>5. PoolTypeOK'
  BY <1>1, <1>2, <1>3, <1>4 DEF Pool, PoolNext
<1> QED
  BY <1>5 DEF Pool, TypeOK

(* So does each step of a command: one case per action of flow.rs.          *)
LEMMA CommandTypeStep ==
    ASSUME TypeOK, NEW p \in Procs, Command(p)
    PROVE  TypeOK'
<1> USE DEF Off, At, Goto, Save
<1>0. /\ run \in [Procs -> Invocation] /\ run[p] \in Invocation
      /\ run[p].mem \in Secrets /\ disk \in Secrets
      /\ run[p].live \in SUBSET Note /\ run[p].view \in SUBSET MinedTx
      /\ run[p].tx \in Tx /\ run[p].ep \in Nat
  <2>1. run \in [Procs -> Invocation] /\ run[p] \in Invocation /\ disk \in Secrets
    BY DEF TypeOK
  <2> QED
    BY <2>1 DEF Invocation
<1>1. ASSUME NEW cmd \in Commands, Start(p, cmd)  PROVE TypeOK'
  <2>1. Invoked(cmd, IF cmd \in {"shield", "next"} THEN "start" ELSE "tree", disk)
           \in Invocation
    BY <1>0, InvokedType DEF Places
  <2> QED
    BY <1>0, <1>1, <2>1, RunType DEF Start, TypeOK, PoolTypeOK, poolVars
<1>2. ASSUME NextFresh(p)  PROVE TypeOK'
  BY <1>0, <1>2, IdleType, RunType DEF NextFresh, TypeOK, PoolTypeOK, poolVars
<1>3. ASSUME ShieldEpoch(p)  PROVE TypeOK'
  <2> DEFINE r == [run[p] EXCEPT !.ep = epoch, !.pc = "build"]
  <2>1. r \in Invocation
    BY <1>0 DEF Invocation, Places, TypeOK, PoolTypeOK
  <2>2. run' = [run EXCEPT ![p] = r]
    BY <1>0, <1>3 DEF ShieldEpoch
  <2> QED
    BY <1>0, <1>3, <2>1, <2>2, RunType DEF ShieldEpoch, TypeOK, PoolTypeOK, poolVars
<1>4. ASSUME NEW v \in Values, ShieldSign(p, v)  PROVE TypeOK'
  <2> DEFINE n == [index |-> run[p].mem.next_note, value |-> v]
             s == RememberBorn(Allocate(run[p].mem), n)
             r == [run[p] EXCEPT !.mem = s, !.tx = NewTx(p, {}, {n}),
                                 !.last = TRUE, !.pc = "send"]
  <2>1. n \in Note
    BY <1>0, <1>4, PoolAssumption DEF ShieldSign, Note, Secrets
  <2>2. s \in Secrets
    <3>1. Allocate(run[p].mem) \in Secrets
      BY <1>0, <1>4, AllocateType DEF ShieldSign
    <3>2. Saved(n, TRUE) \in SavedNote
      BY <2>1, SavedType
    <3> QED
      BY <3>1, <3>2 DEF RememberBorn, Secrets
  <2>3. NewTx(p, {}, {n}) \in Tx
    BY <1>0, <2>1 DEF NewTx, Tx, TypeOK
  <2>4. r \in Invocation
    <3> HIDE DEF s, n
    <3> QED
      BY <1>0, <2>2, <2>3 DEF Invocation, Places
  <2>5. run' = [run EXCEPT ![p] = r]
    BY <1>0, <1>4 DEF ShieldSign
  <2>6. run' \in [Procs -> Invocation]
    BY <1>0, <2>4, <2>5, RunType
  <2>7. disk' = s /\ signed' = signed + 1 /\ UNCHANGED <<poolVars, sent, imports>>
    BY <1>4 DEF ShieldSign
  <2> QED
    <3> HIDE DEF s
    <3> QED
      BY <2>2, <2>6, <2>7 DEF TypeOK, PoolTypeOK, poolVars
<1>5. ASSUME ShieldReceipt(p)  PROVE TypeOK'
  BY <1>0, <1>5, IdleType, RunType DEF ShieldReceipt, TypeOK, PoolTypeOK, poolVars
<1>6. ASSUME Broadcast(p)  PROVE TypeOK'
  <2> DEFINE r == [run[p] EXCEPT !.pc = "wait"]
  <2>1. r \in Invocation
    BY <1>0 DEF Invocation, Places
  <2>2. run' = [run EXCEPT ![p] = r]
    BY <1>0, <1>6 DEF Broadcast
  <2> QED
    BY <1>0, <1>6, <2>1, <2>2, RunType DEF Broadcast, TypeOK, PoolTypeOK
<1>7. ASSUME Sync(p)  PROVE TypeOK'
  <2>1. ASSUME SyncTree(p)  PROVE TypeOK'
    <3> DEFINE r == [run[p] EXCEPT !.view = mined, !.pc = "epoch"]
    <3>1. r \in Invocation
      BY <1>0 DEF Invocation, Places, TypeOK, PoolTypeOK
    <3>2. run' = [run EXCEPT ![p] = r]
      BY <1>0, <2>1 DEF SyncTree
    <3> QED
      BY <1>0, <2>1, <3>1, <3>2, RunType DEF SyncTree, TypeOK, PoolTypeOK, poolVars
  <2>2. ASSUME SyncEpoch(p)  PROVE TypeOK'
    <3>1. PICK ep \in {epoch, 0} :
             run' = [run EXCEPT ![p] = [run[p] EXCEPT !.ep = ep, !.pc = "spent"]]
      BY <1>0, <2>2 DEF SyncEpoch
    <3>2. [run[p] EXCEPT !.ep = ep, !.pc = "spent"] \in Invocation
      <4>1. ep \in Nat
        BY <3>1 DEF TypeOK, PoolTypeOK
      <4> QED
        BY <1>0, <4>1 DEF Invocation, Places
    <3> QED
      BY <1>0, <2>2, <3>1, <3>2, RunType DEF SyncEpoch, TypeOK, PoolTypeOK, poolVars
  <2>3. ASSUME SyncSpent(p)  PROVE TypeOK'
    <3> DEFINE r == [run[p] EXCEPT !.spent = Nullifiers(mined), !.pc = "save"]
    <3>1. Nullifiers(mined) \in SUBSET (Note \X Nat)
      BY NullifiersType DEF TypeOK, PoolTypeOK
    <3>2. r \in Invocation
      BY <1>0, <3>1 DEF Invocation, Places
    <3>3. run' = [run EXCEPT ![p] = r]
      BY <1>0, <2>3 DEF SyncSpent
    <3> QED
      BY <1>0, <2>3, <3>2, <3>3, RunType DEF SyncSpent, TypeOK, PoolTypeOK, poolVars
  <2>4. ASSUME SyncSave(p)  PROVE TypeOK'
    <3> DEFINE s == SyncNotes(run[p].mem, Outs(run[p].view), run[p].ep, run[p].spent)
    <3>1. s \in Secrets
      BY <1>0, SyncNotesType
    <3>2. /\ Invoked("unshield", "plan", s) \in Invocation
          /\ Invoked("rescan", "logs", s) \in Invocation
      BY <3>1, InvokedType DEF Commands, Places
    <3>3. PICK r \in Invocation : run' = [run EXCEPT ![p] = r]
      BY <1>0, <2>4, <3>2, IdleType DEF SyncSave
    <3> QED
      BY <1>0, <2>4, <3>1, <3>3, RunType DEF SyncSave, TypeOK, PoolTypeOK, poolVars
  <2> QED
    BY <1>7, <2>1, <2>2, <2>3, <2>4 DEF Sync
<1>8. ASSUME Unshield(p)  PROVE TypeOK'
  <2>1. ASSUME NEW next \in BOOLEAN, UnshieldPlan(p, next)  PROVE TypeOK'
    <3> DEFINE r == [run[p] EXCEPT !.live = Confirmed(run[p].mem),
                                   !.ep = epoch, !.pc = "build"]
    <3>1. r \in Invocation
      BY <1>0, ConfirmedType DEF Invocation, Places, TypeOK, PoolTypeOK
    <3>2. run' = [run EXCEPT ![p] = r]
      BY <1>0, <2>1 DEF UnshieldPlan
    <3> QED
      BY <1>0, <2>1, <3>1, <3>2, RunType DEF UnshieldPlan, TypeOK, PoolTypeOK, poolVars
  <2>2. ASSUME NEW ins \in SUBSET run[p].live, NEW last \in BOOLEAN,
               NEW max \in BOOLEAN, NEW change \in Changes(p),
               BuildSpend(p, ins, last, max, change)
        PROVE  TypeOK'
    <3> DEFINE s == IF max THEN run[p].mem ELSE Allocate(run[p].mem)
               saved == [s EXCEPT !.notes = @ \cup {Saved(n, TRUE) : n \in change}]
               r == [run[p] EXCEPT !.mem = saved, !.tx = NewTx(p, ins, change),
                                   !.last = last, !.pc = "send"]
    <3>1. s \in Secrets
      BY <1>0, <2>2, AllocateType DEF BuildSpend
    <3>2. change \in SUBSET Note
      <4>1. change = {} \/ run[p].mem.next_note < MaxNotes
        BY <2>2 DEF BuildSpend
      <4>2. ASSUME NEW v \in Values, run[p].mem.next_note < MaxNotes
            PROVE  [index |-> run[p].mem.next_note, value |-> v] \in Note
        BY <1>0, <4>2, PoolAssumption DEF Note, Secrets
      <4> QED
        BY <4>1, <4>2 DEF Changes
    <3>3. saved \in Secrets
      <4> HIDE DEF s
      <4> QED
        BY <3>1, <3>2, RememberType
    <3>4. NewTx(p, ins, change) \in Tx
      BY <1>0, <3>2 DEF NewTx, Tx, TypeOK
    <3>5. r \in Invocation
      <4> HIDE DEF saved
      <4> QED
        BY <1>0, <3>3, <3>4 DEF Invocation, Places
    <3>6. run' = [run EXCEPT ![p] = r]
      BY <1>0, <2>2 DEF BuildSpend
    <3>7. run' \in [Procs -> Invocation]
      BY <1>0, <3>5, <3>6, RunType
    <3>8. /\ disk' = disk \/ disk' = saved
          /\ signed' = signed + 1 /\ UNCHANGED <<poolVars, sent, imports>>
      BY <2>2 DEF BuildSpend
    <3> QED
      <4> HIDE DEF saved
      <4> QED
        BY <3>3, <3>7, <3>8 DEF TypeOK, PoolTypeOK, poolVars
  <2>3. ASSUME SpendReceipt(p)  PROVE TypeOK'
    <3> DEFINE live == (run[p].live \ run[p].tx.ins) \cup run[p].tx.outs
               s == ReplaceNotes(run[p].mem, live)
               r == [run[p] EXCEPT !.mem = s, !.live = live, !.tx = NoTx, !.pc = "build"]
    <3>1. live \in SUBSET Note
      BY <1>0 DEF Tx
    <3>2. s \in Secrets
      BY <1>0, <3>1, ReplaceNotesType
    <3>3. r \in Invocation
      <4>1. NoTx \in Tx
        BY DEF NoTx, Tx
      <4> HIDE DEF s, live
      <4> QED
        BY <1>0, <3>1, <3>2, <4>1 DEF Invocation, Places
    <3>4. run' = [run EXCEPT ![p] = Idle] \/ run' = [run EXCEPT ![p] = r]
      BY <1>0, <2>3 DEF SpendReceipt
    <3>5. run' \in [Procs -> Invocation]
      BY <1>0, <3>3, <3>4, IdleType, RunType
    <3>6. disk' = s /\ UNCHANGED <<poolVars, signed, sent, imports>>
      BY <2>3 DEF SpendReceipt
    <3> QED
      <4> HIDE DEF s
      <4> QED
        BY <3>2, <3>5, <3>6 DEF TypeOK, PoolTypeOK, poolVars
  <2> QED
    BY <1>8, <2>1, <2>2, <2>3 DEF Unshield
<1>9. ASSUME Rescan(p)  PROVE TypeOK'
  <2>1. ASSUME RescanLogs(p)  PROVE TypeOK'
    <3>0. PICK V \in SUBSET mined :
             run' = [run EXCEPT ![p] = [run[p] EXCEPT !.view = V, !.pc = "burns"]]
      BY <1>0, <2>1 DEF RescanLogs
    <3> DEFINE r == [run[p] EXCEPT !.view = V, !.pc = "burns"]
    <3>1. r \in Invocation
      BY <1>0 DEF Invocation, Places, TypeOK, PoolTypeOK
    <3>2. run' = [run EXCEPT ![p] = r]
      BY <3>0
    <3> QED
      BY <1>0, <2>1, <3>1, <3>2, RunType DEF RescanLogs, TypeOK, PoolTypeOK, poolVars
  <2>2. ASSUME RescanBurns(p)  PROVE TypeOK'
    <3>1. PICK ep \in 0..epoch :
             run' = [run EXCEPT ![p] = [run[p] EXCEPT !.spent = Nullifiers(mined),
                                                      !.ep = ep, !.pc = "apply"]]
      BY <1>0, <2>2 DEF RescanBurns
    <3>2. Nullifiers(mined) \in SUBSET (Note \X Nat)
      BY NullifiersType DEF TypeOK, PoolTypeOK
    <3>3. [run[p] EXCEPT !.spent = Nullifiers(mined), !.ep = ep, !.pc = "apply"]
             \in Invocation
      <4>1. ep \in Nat
        BY <3>1 DEF TypeOK, PoolTypeOK
      <4> QED
        BY <1>0, <3>2, <4>1 DEF Invocation, Places
    <3> QED
      BY <1>0, <2>2, <3>1, <3>3, RunType DEF RescanBurns, TypeOK, PoolTypeOK, poolVars
  <2>3. ASSUME NEW readable \in SUBSET run[p].view, RescanApply(p, readable)
        PROVE  TypeOK'
    <3>0. PICK P \in Recoveries(readable) :
             \E gone \in SpentSets(P, readable, run[p].view, run[p].ep, run[p].spent) :
                 /\ disk' = MergeFound(run[p].mem, Outs(P), gone)
                 /\ run' = [run EXCEPT ![p] = Idle]
                 /\ UNCHANGED <<poolVars, signed, sent, imports>>
      BY <2>3 DEF RescanApply, Save
    <3>1. PICK gone \in SpentSets(P, readable, run[p].view, run[p].ep, run[p].spent) :
             /\ disk' = MergeFound(run[p].mem, Outs(P), gone)
             /\ run' = [run EXCEPT ![p] = Idle]
             /\ UNCHANGED <<poolVars, signed, sent, imports>>
      BY <3>0
    <3>2. Outs(P) \in SUBSET Note
      <4>1. Outs(readable) \subseteq Note
        BY <1>0 DEF Outs, MinedTx
      <4> QED
        BY <4>1, RecoveriesType
    <3>3. disk' \in Secrets
      BY <1>0, <3>1, <3>2, MergeFoundType
    <3> QED
      BY <1>0, <3>1, <3>3, IdleType, RunType DEF TypeOK, PoolTypeOK, poolVars
  <2> QED
    BY <1>9, <2>1, <2>2, <2>3 DEF Rescan
<1>10. ASSUME Import(p)  PROVE TypeOK'
  <2>1. Invoked("rescan", "tree", FreshSecrets) \in Invocation
    BY IdleType, InvokedType DEF Commands, Places
  <2> QED
    BY <1>0, <1>10, <2>1, IdleType, RunType DEF Import, TypeOK, PoolTypeOK, poolVars
<1>11. ASSUME Fail(p)  PROVE TypeOK'
  BY <1>0, <1>11, IdleType, RunType DEF Fail, TypeOK, PoolTypeOK, poolVars
<1> QED
  BY <1>1, <1>2, <1>3, <1>4, <1>5, <1>6, <1>7, <1>8, <1>9, <1>10, <1>11
     DEF Command, Shield

(* Every variable keeps its shape, for every number of processes, with and  *)
(* without overlap, reorgs and imports.                                     *)
THEOREM TypeCorrect == Spec => []TypeOK
<1>1. Init => TypeOK
  BY IdleType DEF Init, PoolInit, TypeOK, PoolTypeOK
<1>2. TypeOK /\ [Next]_vars => TypeOK'
  <2>1. TypeOK /\ UNCHANGED vars => TypeOK'
    BY DEF TypeOK, PoolTypeOK, vars
  <2> QED
    BY <2>1, PoolTypeStep, CommandTypeStep DEF Next
<1> QED
  BY <1>1, <1>2, PTL DEF Spec

-----------------------------------------------------------------------------
(* What commands read, with and without overlap, reorgs and imports.        *)

(* The two reads of rescan_notes change nothing else of the invocation.     *)
LEMMA RescanReads ==
    ASSUME TypeOK, NEW p \in Procs, RescanLogs(p) \/ RescanBurns(p)
    PROVE  /\ run'[p].mem = run[p].mem /\ run'[p].live = run[p].live
           /\ run'[p].tx = run[p].tx
           /\ UNCHANGED <<poolVars, disk, signed, sent, imports>>
           /\ run[p].pc \in {"logs", "burns"}
           /\ run'[p].pc \in {"burns", "apply"}
           /\ \A q \in Procs : q # p => run'[q] = run[q]
           /\ run'[p].view \in {run[p].view, mined, {m \in mined : m.outs # {}}}
<1>1. run \in [Procs -> Invocation] /\ run[p] \in Invocation
  BY DEF TypeOK
<1>2. CASE RescanLogs(p)
  <2>1. PICK V \in {mined, {m \in mined : m.outs # {}}} :
           run' = [run EXCEPT ![p] = [run[p] EXCEPT !.view = V, !.pc = "burns"]]
    BY <1>1, <1>2 DEF RescanLogs
  <2> QED
    BY <1>1, <1>2, <2>1 DEF RescanLogs, At, Invocation
<1>3. CASE RescanBurns(p)
  <2>1. PICK ep \in 0..epoch :
           run' = [run EXCEPT ![p] = [run[p] EXCEPT !.spent = Nullifiers(mined),
                                                    !.ep = ep, !.pc = "apply"]]
    BY <1>1, <1>3 DEF RescanBurns
  <2> QED
    BY <1>1, <1>3, <2>1 DEF RescanBurns, At, Invocation
<1> QED
  BY <1>2, <1>3

(* A step of a command does not touch the chain or another command, and     *)
(* what it holds of the chain is what it held, nothing, or the chain as it  *)
(* is; the sync has the nullifiers of its view when it comes to save.       *)
LEMMA WhatIsRead ==
    ASSUME TypeOK, NEW p \in Procs, Command(p)
    PROVE  /\ UNCHANGED <<mined, reorgs>>
           /\ \A q \in Procs : q # p => run'[q] = run[q]
           /\ run'[p].view \in {run[p].view, {}, mined, {m \in mined : m.outs # {}}}
           /\ run'[p].pc = "save" =>
                run'[p].view = run[p].view /\ run'[p].spent = Nullifiers(mined)
<1> USE DEF Off, At, Goto, Save, poolVars
<1> DEFINE Good == /\ UNCHANGED <<mined, reorgs>>
                   /\ \A q \in Procs : q # p => run'[q] = run[q]
                   /\ run'[p].view \in {run[p].view, {}, mined, {m \in mined : m.outs # {}}}
                   /\ run'[p].pc = "save" => /\ run'[p].view = run[p].view
                                             /\ run'[p].spent = Nullifiers(mined)
<1>1. run \in [Procs -> Invocation] /\ run[p] \in Invocation
  BY DEF TypeOK
<1>2. ASSUME UNCHANGED <<mined, reorgs>>, run' = [run EXCEPT ![p] = Idle]
      PROVE  Good
  BY <1>1, <1>2 DEF Idle
<1>3. ASSUME UNCHANGED <<mined, reorgs>>, NEW cmd, NEW pc, NEW s, pc # "save",
             run' = [run EXCEPT ![p] = Invoked(cmd, pc, s)]
      PROVE  Good
  BY <1>1, <1>3 DEF Invoked, Idle
<1>4. ASSUME NEW cmd \in Commands, Start(p, cmd)  PROVE Good
  <2> DEFINE pc == IF cmd \in {"shield", "next"} THEN "start" ELSE "tree"
  <2>1. /\ UNCHANGED <<mined, reorgs>> /\ pc # "save"
        /\ run' = [run EXCEPT ![p] = Invoked(cmd, pc, disk)]
    BY <1>4 DEF Start
  <2> HIDE DEF pc, Good
  <2> QED
    BY <2>1, <1>3
<1>5. ASSUME Import(p) \/ Fail(p) \/ NextFresh(p)  PROVE Good
  <2>1. UNCHANGED <<mined, reorgs>>
    BY <1>5 DEF Import, Fail, NextFresh
  <2>2. \/ run' = [run EXCEPT ![p] = Idle]
        \/ run' = [run EXCEPT ![p] = Invoked("rescan", "tree", FreshSecrets)]
    BY <1>5 DEF Import, Fail, NextFresh
  <2> HIDE DEF Good
  <2>3. "tree" # "save"
    OBVIOUS
  <2> QED
    BY <2>1, <2>2, <2>3, <1>2, <1>3
<1>6. ASSUME Shield(p) \/ Broadcast(p)  PROVE Good
  <2>1. ASSUME ShieldEpoch(p)  PROVE Good
    BY <1>1, <2>1 DEF ShieldEpoch, Invocation
  <2>2. ASSUME NEW v \in Values, ShieldSign(p, v)  PROVE Good
    BY <1>1, <2>2 DEF ShieldSign, Invocation
  <2>3. ASSUME Broadcast(p)  PROVE Good
    BY <1>1, <2>3 DEF Broadcast, Invocation
  <2>4. ASSUME ShieldReceipt(p)  PROVE Good
    BY <1>2, <2>4 DEF ShieldReceipt
  <2> HIDE DEF Good
  <2> QED
    BY <1>6, <2>1, <2>2, <2>3, <2>4 DEF Shield
<1>7. ASSUME SyncTree(p)  PROVE Good
  BY <1>1, <1>7 DEF SyncTree, Invocation
<1>8. ASSUME SyncEpoch(p)  PROVE Good
  BY <1>1, <1>8 DEF SyncEpoch, Invocation
<1>9. ASSUME SyncSpent(p)  PROVE Good
  BY <1>1, <1>9 DEF SyncSpent, Invocation
<1>10. ASSUME SyncSave(p)  PROVE Good
  <2>1. UNCHANGED <<mined, reorgs>>
    BY <1>10 DEF SyncSave
  <2>2. PICK s : \/ run' = [run EXCEPT ![p] = Idle]
                 \/ run' = [run EXCEPT ![p] = Invoked("unshield", "plan", s)]
                 \/ run' = [run EXCEPT ![p] = Invoked("rescan", "logs", s)]
    BY <1>10 DEF SyncSave
  <2>3. "plan" # "save" /\ "logs" # "save"
    OBVIOUS
  <2> HIDE DEF Good
  <2> QED
    BY <2>1, <2>2, <2>3, <1>2, <1>3
<1>11. ASSUME Unshield(p)  PROVE Good
  <2>1. ASSUME NEW next \in BOOLEAN, UnshieldPlan(p, next)  PROVE Good
    BY <1>1, <2>1 DEF UnshieldPlan, Invocation
  <2>2. ASSUME NEW ins, NEW last, NEW max, NEW change,
               BuildSpend(p, ins, last, max, change)
        PROVE  Good
    BY <1>1, <2>2 DEF BuildSpend, Invocation
  <2>3. ASSUME SpendReceipt(p)  PROVE Good
    <3>1. CASE run[p].last
      BY <1>2, <2>3, <3>1 DEF SpendReceipt
    <3>2. CASE ~run[p].last
      BY <1>1, <2>3, <3>2 DEF SpendReceipt, Invocation
    <3> QED
      BY <3>1, <3>2
  <2> HIDE DEF Good
  <2> QED
    BY <1>11, <2>1, <2>2, <2>3 DEF Unshield
<1>12. ASSUME Rescan(p)  PROVE Good
  <2>1. ASSUME RescanLogs(p)  PROVE Good
    BY <2>1, RescanReads
  <2>2. ASSUME RescanBurns(p)  PROVE Good
    BY <2>2, RescanReads
  <2>3. ASSUME NEW readable, RescanApply(p, readable)  PROVE Good
    BY <1>2, <2>3 DEF RescanApply
  <2> HIDE DEF Good
  <2> QED
    BY <1>12, <2>1, <2>2, <2>3 DEF Rescan
<1> HIDE DEF Good
<1>13. Good
  BY <1>4, <1>5, <1>6, <1>7, <1>8, <1>9, <1>10, <1>11, <1>12 DEF Command, Sync
<1> QED
  BY <1>13 DEF Good

(* A step of a command that goes on with the secrets s and, unless it is at *)
(* an end, with the transaction and the live notes it had.                  *)
LEMMA SameCounted ==
    ASSUME IndexesRise, TypeOK, NEW p \in Procs,
           disk' = disk \/ Counted(disk'), CountedRun(run'[p]),
           \A q \in Procs : q # p => run'[q] = run[q],
           \A t \in mempool' : Rising(t)
    PROVE  IndexesRise'
BY DEF IndexesRise, CountedRun, Counted, NotesOf, Rising

LEMMA IdleCounted ==
    /\ Counted(FreshSecrets)
    /\ CountedRun(Idle)
    /\ \A cmd, pc, s : Counted(s) => CountedRun(Invoked(cmd, pc, s))
BY DEF Counted, CountedRun, Rising, NotesOf, FreshSecrets, Idle, Invoked, NoTx

(* sync_notes leaves notes out and counts nothing; replace_notes writes     *)
(* back live notes, whose indexes were taken.                               *)
LEMMA SyncCounted ==
    ASSUME NEW s \in Secrets, Counted(s), NEW L, NEW ep, NEW spent
    PROVE  Counted(SyncNotes(s, L, ep, spent))
<1> DEFINE s2 == SyncNotes(s, L, ep, spent)
<1>1. s2.next_note = s.next_note
  BY DEF SyncNotes, Secrets
<1>2. s2.notes = {Synced(sv, L) : sv \in {x \in s.notes : Kept(x, L, ep, spent)}}
  BY DEF SyncNotes, Secrets
<1>3. NotesOf(s2) \subseteq NotesOf(s)
  BY <1>2 DEF NotesOf, Synced, Saved
<1> HIDE DEF s2
<1> QED
  BY <1>1, <1>3 DEF Counted, s2

LEMMA ReplaceCounted ==
    ASSUME NEW s \in Secrets, Counted(s), NEW live,
           \A n \in live : n.index < s.next_note
    PROVE  /\ Counted(ReplaceNotes(s, live))
           /\ ReplaceNotes(s, live).next_note = s.next_note
<1> DEFINE s2 == ReplaceNotes(s, live)
<1>1. s2.next_note = s.next_note
  BY DEF ReplaceNotes, Secrets
<1>2. s2.notes = {Saved(n, FALSE) : n \in live} \cup
        {sv \in s.notes : sv.pending /\ \A n \in live : ~SameSecrets(sv.note, n)}
  BY DEF ReplaceNotes, Secrets
<1>3. NotesOf(s2) \subseteq NotesOf(s) \cup live
  BY <1>2 DEF NotesOf, Saved
<1> HIDE DEF s2
<1> QED
  BY <1>1, <1>3 DEF Counted, s2

(* rescan_notes adds notes below the counter that it sets.                  *)
LEMMA MergeCounted ==
    ASSUME NEW s \in Secrets, Counted(s), NEW F \in SUBSET Note, NEW gone
    PROVE  Counted(MergeFound(s, F, gone))
<1> DEFINE s2 == MergeFound(s, F, gone)
<1>1. s2 \in Secrets /\ s.next_note <= s2.next_note /\ \A n \in F : n.index < s2.next_note
  BY MergeFoundType
<1>2. NotesOf(s2) \subseteq NotesOf(s) \cup F
  <2> DEFINE left == {sv \in s.notes : sv.note.index \notin Indexes(gone)}
             held == {sv.note.index : sv \in left}
  <2>1. s2.notes = left \cup {Saved(n, FALSE) : n \in {x \in F \ gone : x.index \notin held}}
    BY DEF MergeFound
  <2> QED
    BY <2>1 DEF NotesOf, Saved
<1>3. \A n \in NotesOf(s) : n.index \in Nat
  BY ConfirmedType DEF Note
<1>4. s.next_note \in Nat /\ s2.next_note \in Nat
  BY <1>1, PoolAssumption DEF Secrets
<1> HIDE DEF s2
<1> QED
  BY <1>1, <1>2, <1>3, <1>4 DEF Counted, s2

(* Entries for notes under the index that allocate_note gave out.           *)
LEMMA AllocateCounted ==
    ASSUME NEW s \in Secrets, Counted(s), NEW S, NEW s2,
           \A n \in S : n.index = s.next_note,
           s2.next_note = s.next_note + 1, NotesOf(s2) \subseteq NotesOf(s) \cup S
    PROVE  Counted(s2)
<1>1. s.next_note \in Nat /\ \A n \in NotesOf(s) : n.index \in Nat
  BY ConfirmedType, PoolAssumption DEF Secrets, Note
<1> QED
  BY <1>1 DEF Counted

(* Each step of a command: what it signs rises, what it saves is counted.   *)
LEMMA RiseStep ==
    ASSUME TypeOK, IndexesRise, NEW p \in Procs, Command(p)
    PROVE  IndexesRise'
<1> USE DEF Off, At, Goto, Save, poolVars
<1> DEFINE r0 == run[p]
<1>0. /\ run \in [Procs -> Invocation] /\ r0 \in Invocation
      /\ r0.mem \in Secrets /\ disk \in Secrets
      /\ r0.live \in SUBSET Note /\ r0.view \in SUBSET MinedTx /\ r0.tx \in Tx
      /\ r0.mem.next_note \in Nat
  <2>1. run \in [Procs -> Invocation] /\ run[p] \in Invocation /\ disk \in Secrets
    BY DEF TypeOK
  <2>2. run[p].mem \in Secrets /\ \A s \in Secrets : s.next_note \in Nat
    BY <2>1, PoolAssumption DEF Invocation, Secrets
  <2> QED
    BY <2>1, <2>2 DEF Invocation
<1>1. \A q \in Procs : q # p => run'[q] = run[q]
  BY WhatIsRead
<1>2. /\ Counted(disk) /\ CountedRun(r0) /\ Counted(r0.mem)
      /\ \A t \in mempool : Rising(t)
  BY DEF IndexesRise, CountedRun
<1>3. ASSUME UNCHANGED mempool, disk' = disk \/ Counted(disk'), CountedRun(run'[p])
      PROVE  IndexesRise'
  BY <1>1, <1>2, <1>3, SameCounted
<1>4. ASSUME UNCHANGED <<mempool, disk>>,
             run'[p].mem = r0.mem, run'[p].live = r0.live, run'[p].tx = r0.tx
      PROVE  IndexesRise'
  <2>1. CountedRun(run'[p])
    BY <1>2, <1>4 DEF CountedRun
  <2> QED
    BY <2>1, <1>3, <1>4
<1>5. ASSUME UNCHANGED mempool, disk' = disk \/ Counted(disk'),
             \/ run' = [run EXCEPT ![p] = Idle]
             \/ \E cmd, pc, s : Counted(s) /\ run' = [run EXCEPT ![p] = Invoked(cmd, pc, s)]
      PROVE  IndexesRise'
  <2>1. CountedRun(run'[p])
    BY <1>0, <1>5, IdleCounted
  <2> QED
    BY <2>1, <1>3, <1>5
<1>6. ASSUME NEW cmd \in Commands, Start(p, cmd)  PROVE IndexesRise'
  BY <1>2, <1>5, <1>6 DEF Start
<1>7. ASSUME Import(p) \/ Fail(p) \/ NextFresh(p) \/ ShieldReceipt(p)  PROVE IndexesRise'
  BY <1>2, <1>5, <1>7, IdleCounted DEF Import, Fail, NextFresh, ShieldReceipt
<1>8. ASSUME \/ ShieldEpoch(p) \/ SyncTree(p) \/ SyncEpoch(p) \/ SyncSpent(p)
             \/ RescanLogs(p) \/ RescanBurns(p)
      PROVE  IndexesRise'
  <2>1. UNCHANGED <<mempool, disk>>
    BY <1>8 DEF ShieldEpoch, SyncTree, SyncEpoch, SyncSpent, RescanLogs, RescanBurns
  <2>2. run'[p].mem = r0.mem /\ run'[p].live = r0.live /\ run'[p].tx = r0.tx
    <3>1. CASE ShieldEpoch(p) \/ SyncTree(p) \/ SyncEpoch(p) \/ SyncSpent(p)
      BY <1>0, <3>1 DEF ShieldEpoch, SyncTree, SyncEpoch, SyncSpent, Invocation
    <3>2. CASE RescanLogs(p) \/ RescanBurns(p)
      BY <1>0, <3>2, RescanReads
    <3> QED
      BY <1>8, <3>1, <3>2
  <2> QED
    BY <2>1, <2>2, <1>4
<1>9. ASSUME Broadcast(p)  PROVE IndexesRise'
  <2>1. CountedRun(run'[p])
    <3>1. run'[p].mem = r0.mem /\ run'[p].live = r0.live /\ run'[p].tx = r0.tx
      BY <1>0, <1>9 DEF Broadcast, Invocation
    <3> QED
      BY <1>2, <3>1 DEF CountedRun
  <2>2. \A t \in mempool' : Rising(t)
    BY <1>2, <1>9 DEF Broadcast, CountedRun
  <2> QED
    BY <1>1, <1>9, <2>1, <2>2, SameCounted DEF Broadcast
<1>10. ASSUME NEW v \in Values, ShieldSign(p, v)  PROVE IndexesRise'
  <2> DEFINE n == [index |-> r0.mem.next_note, value |-> v]
             s == RememberBorn(Allocate(r0.mem), n)
             r == [r0 EXCEPT !.mem = s, !.tx = NewTx(p, {}, {n}),
                             !.last = TRUE, !.pc = "send"]
  <2>1. s.next_note = r0.mem.next_note + 1 /\ s.notes = r0.mem.notes \cup {Saved(n, TRUE)}
    BY <1>0 DEF RememberBorn, Allocate, Secrets
  <2>2. s.next_note = r0.mem.next_note + 1 /\ Counted(s)
    <3> DEFINE S == {n}
    <3>1. \A x \in S : x.index = r0.mem.next_note
      OBVIOUS
    <3>2. s.notes = r0.mem.notes \cup {Saved(n, TRUE)}
      BY <2>1
    <3> HIDE DEF n, s
    <3>3. NotesOf(s) \subseteq NotesOf(r0.mem) \cup S
      BY <3>2 DEF NotesOf, Saved
    <3>4. r0.mem \in Secrets /\ Counted(r0.mem) /\ s.next_note = r0.mem.next_note + 1
      BY <1>0, <1>2, <2>1
    <3> HIDE DEF r0, S
    <3> QED
      BY <3>1, <3>3, <3>4, AllocateCounted
  <2>3. run'[p] = r /\ disk' = s /\ UNCHANGED mempool
    BY <1>0, <1>10 DEF ShieldSign
  <2>4. r.mem = s /\ r.live = r0.live /\ r.tx = NewTx(p, {}, {n})
    <3> HIDE DEF s, n
    <3> QED
      BY <1>0 DEF Invocation
  <2>5. NewTx(p, {}, {n}).ins = {} /\ NewTx(p, {}, {n}).outs = {n}
    BY DEF NewTx
  <2>6. \A x \in r0.live \cup {n} : x.index < s.next_note
    <3>1. \A x \in r0.live : x.index \in Nat /\ x.index < r0.mem.next_note
      BY <1>0, <1>2 DEF CountedRun, Note
    <3>2. n.index = r0.mem.next_note
      OBVIOUS
    <3> HIDE DEF s, n
    <3> QED
      BY <1>0, <2>2, <3>1, <3>2
  <2>7. CountedRun(r)
    <3> HIDE DEF r, s, n
    <3> QED
      BY <2>2, <2>4, <2>5, <2>6 DEF CountedRun, Rising
  <2> HIDE DEF r, s
  <2> QED
    BY <1>3, <2>2, <2>3, <2>7
<1>11. ASSUME SyncSave(p)  PROVE IndexesRise'
  <2> DEFINE s == SyncNotes(r0.mem, Outs(r0.view), r0.ep, r0.spent)
  <2>1. Counted(s)
    BY <1>0, <1>2, SyncCounted
  <2>2. /\ disk' = s /\ UNCHANGED mempool
        /\ \/ run' = [run EXCEPT ![p] = Idle]
           \/ run' = [run EXCEPT ![p] = Invoked("unshield", "plan", s)]
           \/ run' = [run EXCEPT ![p] = Invoked("rescan", "logs", s)]
    BY <1>11 DEF SyncSave
  <2> HIDE DEF s
  <2> QED
    BY <1>5, <2>1, <2>2
<1>12. ASSUME NEW next \in BOOLEAN, UnshieldPlan(p, next)  PROVE IndexesRise'
  <2>1. /\ run'[p].mem = r0.mem /\ run'[p].live = Confirmed(r0.mem)
        /\ run'[p].tx = r0.tx
    BY <1>0, <1>12 DEF UnshieldPlan, Invocation
  <2>2. Confirmed(r0.mem) \subseteq NotesOf(r0.mem)
    BY DEF Confirmed, NotesOf
  <2>3. CountedRun(run'[p])
    BY <1>2, <2>1, <2>2 DEF CountedRun, Counted
  <2>4. UNCHANGED mempool /\ (disk' = disk \/ disk' = r0.mem)
    BY <1>12 DEF UnshieldPlan
  <2> QED
    BY <1>2, <1>3, <2>3, <2>4
<1>13. ASSUME NEW ins \in SUBSET r0.live, NEW last, NEW max, NEW change \in Changes(p),
              BuildSpend(p, ins, last, max, change)
       PROVE  IndexesRise'
  <2> DEFINE s == IF max THEN r0.mem ELSE Allocate(r0.mem)
             saved == [s EXCEPT !.notes = @ \cup {Saved(n, TRUE) : n \in change}]
             r == [r0 EXCEPT !.mem = saved, !.tx = NewTx(p, ins, change),
                             !.last = last, !.pc = "send"]
  <2>1. \A n \in change : n.index = r0.mem.next_note
    BY DEF Changes
  <2>2. /\ Counted(saved) /\ r0.mem.next_note <= saved.next_note
        /\ change = {} \/ saved.next_note = r0.mem.next_note + 1
    <3>1. CASE max
      <4>1. change = {}
        BY <1>13, <3>1 DEF BuildSpend
      <4>2. saved = r0.mem
        BY <1>0, <3>1, <4>1 DEF Secrets
      <4> HIDE DEF saved
      <4> QED
        BY <1>0, <1>2, <4>1, <4>2
    <3>2. CASE ~max
      <4>1. /\ saved.next_note = r0.mem.next_note + 1
            /\ saved.notes = r0.mem.notes \cup {Saved(n, TRUE) : n \in change}
        BY <1>0, <3>2 DEF Allocate, Secrets
      <4> HIDE DEF saved
      <4>3. NotesOf(saved) \subseteq NotesOf(r0.mem) \cup change
        BY <4>1 DEF NotesOf, Saved
      <4>2. saved.next_note = r0.mem.next_note + 1 /\ Counted(saved)
        <5> HIDE DEF r0
        <5> QED
          BY <1>0, <1>2, <2>1, <4>1, <4>3, AllocateCounted
      <4> QED
        BY <1>0, <4>2
    <3> QED
      BY <3>1, <3>2
  <2>3. run'[p] = r /\ UNCHANGED mempool /\ (disk' = disk \/ disk' = saved)
    BY <1>0, <1>13 DEF BuildSpend
  <2>4. r.mem = saved /\ r.live = r0.live /\ r.tx = NewTx(p, ins, change)
    <3> HIDE DEF saved
    <3> QED
      BY <1>0 DEF Invocation
  <2>5. NewTx(p, ins, change).ins = ins /\ NewTx(p, ins, change).outs = change
    BY DEF NewTx
  <2>6. \A x \in r0.live : x.index \in Nat /\ x.index < r0.mem.next_note
    BY <1>0, <1>2 DEF CountedRun, Note
  <2>7. CountedRun(r)
    <3>1. Rising(r.tx)
      BY <2>1, <2>4, <2>5, <2>6 DEF Rising
    <3>2. saved.next_note \in Nat
      <4>1. saved.next_note \in {r0.mem.next_note, r0.mem.next_note + 1}
        BY <1>0 DEF Allocate, Secrets
      <4> HIDE DEF saved
      <4> QED
        BY <1>0, <4>1
    <3> HIDE DEF saved, r
    <3>3. \A x \in r0.live \cup change : x.index < saved.next_note
      BY <1>0, <2>1, <2>2, <2>6, <3>2
    <3> QED
      BY <2>2, <2>4, <2>5, <3>1, <3>3 DEF CountedRun
  <2> HIDE DEF r, saved
  <2> QED
    BY <1>3, <2>2, <2>3, <2>7
<1>14. ASSUME SpendReceipt(p)  PROVE IndexesRise'
  <2> DEFINE live == (r0.live \ r0.tx.ins) \cup r0.tx.outs
             s == ReplaceNotes(r0.mem, live)
             r == [r0 EXCEPT !.mem = s, !.live = live, !.tx = NoTx, !.pc = "build"]
  <2>1. \A n \in live : n.index < r0.mem.next_note
    BY <1>2 DEF CountedRun
  <2>2. Counted(s) /\ s.next_note = r0.mem.next_note
    <3> HIDE DEF live
    <3> QED
      BY <1>0, <1>2, <2>1, ReplaceCounted
  <2>3. /\ run' = [run EXCEPT ![p] = Idle] \/ run' = [run EXCEPT ![p] = r]
        /\ disk' = s /\ UNCHANGED mempool
    BY <1>0, <1>14 DEF SpendReceipt
  <2>4. r.mem = s /\ r.live = live /\ r.tx = NoTx
    <3> HIDE DEF s, live
    <3> QED
      BY <1>0 DEF Invocation
  <2>5. CountedRun(r)
    <3> HIDE DEF s, r, live
    <3> QED
      BY <2>1, <2>2, <2>4 DEF CountedRun, Rising, NoTx
  <2> HIDE DEF r, s
  <2> QED
    BY <1>0, <1>3, <2>2, <2>3, <2>5, IdleCounted
<1>15. ASSUME NEW readable \in SUBSET r0.view, RescanApply(p, readable)  PROVE IndexesRise'
  <2>0. PICK P \in Recoveries(readable) :
           \E gone \in SpentSets(P, readable, r0.view, r0.ep, r0.spent) :
               disk' = MergeFound(r0.mem, Outs(P), gone)
    BY <1>15 DEF RescanApply, Save
  <2>1. PICK gone \in SpentSets(P, readable, r0.view, r0.ep, r0.spent) :
           /\ disk' = MergeFound(r0.mem, Outs(P), gone)
           /\ run' = [run EXCEPT ![p] = Idle]
           /\ UNCHANGED mempool
    BY <1>15, <2>0 DEF RescanApply, poolVars
  <2>2. Outs(P) \in SUBSET Note
    <3>1. Outs(readable) \subseteq Note
      BY <1>0 DEF Outs, MinedTx
    <3> QED
      BY <3>1, RecoveriesType
  <2>3. Counted(disk')
    BY <1>0, <1>2, <2>1, <2>2, MergeCounted
  <2> QED
    BY <1>5, <2>1, <2>3
<1> QED
  BY <1>6, <1>7, <1>8, <1>9, <1>10, <1>11, <1>12, <1>13, <1>14, <1>15
     DEF Command, Shield, Sync, Unshield, Rescan

(* What is added to the chain, or taken back where nothing builds on it,    *)
(* leaves it grounded.                                                      *)
LEMMA GroundedStep ==
    ASSUME TypeOK, IndexesRise, ChainIsGrounded, [Next]_vars
    PROVE  IndexesRise' /\ ChainIsGrounded'
<1>1. CASE Pool
  <2>1. UNCHANGED <<run, disk>>
    BY <1>1 DEF Pool
  <2>2. ASSUME NEW t \in mempool, Mine(t)
        PROVE  Grounded(mined') /\ \A u \in mempool' : Rising(u)
    <3>1. Landed(t).ins = t.ins /\ Landed(t).outs = t.outs
      BY DEF Landed
    <3>2. t.ins \subseteq Outs(mined) /\ mined' = mined \cup {Landed(t)}
      BY <2>2 DEF Mine, Acceptable, Outs
    <3>3. Ins(mined') \subseteq Outs(mined')
      <4> HIDE DEF Landed
      <4> QED
        BY <3>1, <3>2 DEF ChainIsGrounded, Grounded, Ins, Outs
    <3>4. Rising(t) /\ Rising(Landed(t))
      BY <3>1 DEF IndexesRise, Rising
    <3> QED
      BY <2>2, <3>2, <3>3, <3>4 DEF ChainIsGrounded, Grounded, IndexesRise, Mine
  <2>3. ASSUME NEW m \in mined, Reorg(m)
        PROVE  Grounded(mined') /\ \A u \in mempool' : Rising(u)
    <3>1. \A u \in mined : u.ins \cap m.outs = {}
      BY <2>3 DEF Reorg, SpentNotes, Ins
    <3>2. mined' = mined \ {m}
      BY <2>3 DEF Reorg
    <3>3. ASSUME NEW n \in Ins(mined')  PROVE n \in Outs(mined')
      <4>1. PICK u \in mined : n \in u.outs
        BY <3>2 DEF ChainIsGrounded, Grounded, Ins, Outs
      <4> QED
        BY <3>1, <3>2, <4>1 DEF Ins, Outs
    <3>4. Rising(m) /\ Rising(Unlanded(m))
      BY DEF ChainIsGrounded, Grounded, Rising, Unlanded
    <3> QED
      BY <2>3, <3>2, <3>3, <3>4 DEF ChainIsGrounded, Grounded, IndexesRise, Reorg
  <2>4. Grounded(mined') /\ \A u \in mempool' : Rising(u)
    <3>1. ASSUME mined' = mined, mempool' \subseteq mempool
          PROVE  Grounded(mined') /\ \A u \in mempool' : Rising(u)
      BY <3>1 DEF ChainIsGrounded, IndexesRise
    <3> QED
      BY <1>1, <2>2, <2>3, <3>1 DEF Pool, PoolNext, Drop, RollEpoch
  <2> QED
    BY <2>1, <2>4 DEF ChainIsGrounded, IndexesRise
<1>2. ASSUME NEW p \in Procs, Command(p)  PROVE IndexesRise' /\ ChainIsGrounded'
  <2>1. Grounded({}) /\ Grounded({m \in mined : m.outs # {}})
    BY DEF ChainIsGrounded, Grounded, Ins, Outs
  <2> QED
    BY <1>2, <2>1, WhatIsRead, RiseStep DEF ChainIsGrounded
<1>3. CASE UNCHANGED vars
  BY <1>3 DEF ChainIsGrounded, IndexesRise, vars
<1> QED
  BY <1>1, <1>2, <1>3 DEF Next

LEMMA AlwaysGrounded == Spec => [](TypeOK /\ ChainIsGrounded)
<1>1. Init => IndexesRise /\ ChainIsGrounded
  BY IdleCounted DEF Init, PoolInit, ChainIsGrounded, Grounded, Ins, Outs, Idle, IndexesRise
<1>2. TypeOK /\ IndexesRise /\ ChainIsGrounded /\ [Next]_vars
        => IndexesRise' /\ ChainIsGrounded'
  BY GroundedStep
<1> QED
  BY <1>1, <1>2, TypeCorrect, PTL DEF Spec

-----------------------------------------------------------------------------
(* rescan_notes against the chain.                                          *)

(* Some note of a nonempty set has the least index.                         *)
LEMMA LeastIndex ==
    ASSUME NEW S \in SUBSET Note, S # {}
    PROVE  \E n \in S : \A a \in S : ~(a.index < n.index)
<1> DEFINE R == {ss \in Nat \X Nat : ss[1] < ss[2]}
           T == Indexes(S)
<1>1. IsWellFoundedOn(R, Nat)
  BY NatLessThanWellFounded DEF OpToRel
<1>2. T \subseteq Nat /\ T # {}
  BY PoolAssumption DEF Note, Indexes
<1> HIDE DEF R, T
<1>3. PICK x \in T : \A y \in T : ~(<<y, x>> \in R)
  BY <1>1, <1>2, WFMin
<1>4. PICK n \in S : n.index = x
  BY <1>3 DEF T, Indexes
<1>5. \A a \in S : a.index \in T
  BY DEF T, Indexes
<1> QED
  BY <1>2, <1>3, <1>4, <1>5 DEF R

(* From logs that could be read in full, in which no index was used twice,  *)
(* no gap or cap hides a note and no settle is half covered, recover_notes  *)
(* finds every note of the wallet and replays every settle: the note of     *)
(* least index that it did not find would have been found.                  *)
LEMMA AllIsRecovered ==
    ASSUME NEW V \in SUBSET MinedTx, Grounded(V), OneNotePerIndex(Outs(V)),
           \A t, u \in V : t.outs \cap u.outs # {} => t = u,
           Dense(Outs(V)), ~\E t \in V : HalfCovers(t),
           NEW P \in Recoveries(V)
    PROVE  Outs(P) = Outs(V) /\ Ins(P) = Ins(V)
<1> DEFINE S == Outs(P)
<1>1. P \subseteq V /\ S \subseteq Outs(V) /\ Outs(V) \subseteq Note
  <2>1. Outs(V) \subseteq Note
    BY DEF Outs, MinedTx
  <2> QED
    BY <2>1, RecoveriesType
<1>2. ShieldsUsed(P, V) /\ SettlesUsed(P, V)
  BY DEF Recoveries
<1>3. \A n \in Outs(V) : n.index \in Nat /\ n.index \in 0..Cap /\ Reached(n.index, Outs(V))
  <2> SUFFICES ASSUME NEW n \in Outs(V)
               PROVE  n.index \in Nat /\ n.index \in 0..Cap /\ Reached(n.index, Outs(V))
    OBVIOUS
  <2>1. n.index \in Nat /\ Reached(n.index, Outs(V))
    BY <1>1, PoolAssumption DEF Dense, Note
  <2> QED
    BY <2>1, GapAssumption DEF Reached
<1>4. ASSUME NEW n \in Outs(V), n.index \in Indexes(S)  PROVE n \in S
  <2>1. PICK f \in S : f.index = n.index
    BY <1>4 DEF Indexes
  <2> QED
    BY <1>1, <2>1 DEF OneNotePerIndex
<1> HIDE DEF S
<1>5. ASSUME NEW t \in V, t.ins # {}, t.ins \subseteq S
      PROVE  t \in P \/ (t.outs # {} /\ t.outs \subseteq S)
  <2>1. Indexes(t.outs) \subseteq 0..Cap /\ t.outs \subseteq Outs(V)
    BY <1>3 DEF Indexes, Outs
  <2>2. t \in P \/ (t.outs # {} /\ Indexes(t.outs) \subseteq Indexes(S))
    BY <1>2, <1>5, <2>1 DEF SettlesUsed, S
  <2>3. \A n \in t.outs : n \in Outs(V) /\ n.index \in Indexes(t.outs)
    BY <2>1 DEF Indexes
  <2> QED
    BY <1>4, <2>2, <2>3
<1>6. Outs(V) \subseteq S
  <2> SUFFICES ASSUME Outs(V) \ S # {}  PROVE FALSE
    OBVIOUS
  <2>1. PICK n \in Outs(V) \ S : \A a \in Outs(V) \ S : ~(a.index < n.index)
    BY <1>1, LeastIndex
  <2>2. PICK t \in V : n \in t.outs
    BY <2>1 DEF Outs
  <2>3. CASE t.ins = {}
    <3>1. Reached(n.index, S)
      <4> DEFINE i == n.index
      <4>1. i \in Nat /\ i <= Cap
        BY <1>3, <2>1, GapAssumption
      <4>2. ASSUME NEW j \in 0..i, j + Gap <= i
            PROVE  \E a \in S : a.index \in j..(j + Gap - 1)
        <5>1. PICK a \in Outs(V) : a.index \in j..(j + Gap - 1)
          BY <1>3, <2>1, <4>2 DEF Reached
        <5>2. a.index < i
          BY <4>1, <4>2, <5>1, GapAssumption
        <5> QED
          BY <2>1, <5>1, <5>2
      <4> QED
        BY <4>1, <4>2 DEF Reached
    <3>2. n.index \in Indexes(S)
      BY <1>2, <2>2, <2>3, <3>1 DEF ShieldsUsed, S
    <3> QED
      BY <1>4, <2>1, <3>2
  <2>4. CASE t.ins # {}
    <3>1. t.ins \subseteq Outs(V) /\ \A a \in t.ins : a.index < n.index
      BY <2>2 DEF Grounded, Ins, Rising
    <3>2. t.ins \subseteq S
      BY <2>1, <3>1
    <3>3. t.outs \subseteq S
      BY <1>5, <2>4, <3>2 DEF S, Outs
    <3> QED
      BY <2>1, <2>2, <3>3
  <2> QED
    BY <2>3, <2>4
<1>7. Ins(V) \subseteq Ins(P)
  <2> SUFFICES ASSUME NEW t \in V, NEW n \in t.ins  PROVE t \in P
    BY DEF Ins
  <2>1. t.ins \subseteq S
    BY <1>6 DEF Grounded, Ins
  <2>2. CASE t.outs # {} /\ t.outs \subseteq S
    <3>1. PICK o \in t.outs, u \in P : o \in u.outs
      BY <2>2 DEF S, Outs
    <3> QED
      BY <1>1, <3>1
  <2> QED
    BY <1>5, <2>1, <2>2
<1> QED
  BY <1>1, <1>6, <1>7 DEF S, Ins

(* What the merge of rescan_notes leaves in the copy.                       *)
LEMMA MergedNotes ==
    ASSUME NEW s, NEW F, NEW gone
    PROVE  /\ \A n \in F \ gone :
                 (\A o \in NotesOf(s) : o.index = n.index => o = n)
                 /\ n.index \notin Indexes(gone)
                    => n \in NotesOf(MergeFound(s, F, gone))
           /\ gone \cap NotesOf(MergeFound(s, F, gone)) = {}
<1> DEFINE left == {sv \in s.notes : sv.note.index \notin Indexes(gone)}
           held == {sv.note.index : sv \in left}
           added == {Saved(n, FALSE) : n \in {x \in F \ gone : x.index \notin held}}
<1>1. MergeFound(s, F, gone).notes = left \cup added
  BY DEF MergeFound
<1>2. ASSUME NEW n \in F \ gone, n.index \notin Indexes(gone),
             \A o \in NotesOf(s) : o.index = n.index => o = n
      PROVE  n \in NotesOf(MergeFound(s, F, gone))
  <2>1. CASE n.index \in held
    <3>1. PICK sv \in s.notes : sv \in left /\ sv.note.index = n.index
      BY <2>1
    <3>2. sv.note = n
      BY <1>2, <3>1 DEF NotesOf
    <3> QED
      BY <1>1, <3>1, <3>2 DEF NotesOf
  <2>2. CASE n.index \notin held
    <3>1. Saved(n, FALSE) \in added /\ Saved(n, FALSE).note = n
      BY <2>2 DEF Saved
    <3> QED
      BY <1>1, <3>1 DEF NotesOf
  <2> QED
    BY <2>1, <2>2
<1>3. ASSUME NEW n \in gone, n \in NotesOf(MergeFound(s, F, gone))  PROVE FALSE
  <2>1. PICK sv \in left \cup added : sv.note = n
    BY <1>1, <1>3 DEF NotesOf
  <2>2. n.index \in Indexes(gone)
    BY DEF Indexes
  <2>3. sv \notin added
    BY <2>1 DEF Saved
  <2> QED
    BY <2>1, <2>2, <2>3
<1> QED
  BY <1>2, <1>3

LEMMA RescanStep ==
    ASSUME TypeOK, ChainIsGrounded, NEW p \in Procs,
           RescanApply(p, run[p].view), OneNotePerIndex(Outs(run[p].view)),
           \A t, u \in run[p].view : t.outs \cap u.outs # {} => t = u,
           Dense(Outs(run[p].view)), ~\E t \in run[p].view : HalfCovers(t)
    PROVE  /\ \A n \in Outs(run[p].view) \
                         (Ins(run[p].view) \cup {x[1] : x \in run[p].spent}) :
                 (\A o \in NotesOf(run[p].mem) : o.index = n.index => o = n)
                    => n \in NotesOf(disk')
           /\ (Ins(run[p].view) \cup Burnt(Outs(run[p].view), run[p].view,
                                           run[p].ep, run[p].spent))
                 \cap NotesOf(disk') = {}
<1> DEFINE V == run[p].view
           burnt == Burnt(Outs(V), V, run[p].ep, run[p].spent)
           gone == Ins(V) \cup burnt
<1>1. V \in SUBSET MinedTx
  BY DEF TypeOK, Invocation
<1>2. Grounded(V)
  BY DEF ChainIsGrounded
<1>3. disk' = MergeFound(run[p].mem, Outs(V), gone)
  <2>1. PICK P \in Recoveries(V) :
           \E g \in SpentSets(P, V, V, run[p].ep, run[p].spent) :
               disk' = MergeFound(run[p].mem, Outs(P), g)
    BY DEF RescanApply, Save
  <2>2. Outs(P) = Outs(V) /\ Ins(P) = Ins(V)
    BY <1>1, <1>2, AllIsRecovered
  <2>3. SpentSets(P, V, V, run[p].ep, run[p].spent) = {gone}
    BY <2>2 DEF SpentSets
  <2> QED
    BY <2>1, <2>2, <2>3
<1>4. gone \subseteq Outs(V) /\ burnt \subseteq {x[1] : x \in run[p].spent}
  BY <1>2 DEF Grounded, Burnt
<1>5. ASSUME NEW n \in Outs(V), n \notin gone  PROVE n.index \notin Indexes(gone)
  BY <1>4, <1>5 DEF Indexes, OneNotePerIndex
<1> HIDE DEF V, gone, burnt
<1>6. ASSUME NEW n \in Outs(V) \ (Ins(V) \cup {x[1] : x \in run[p].spent}),
             \A o \in NotesOf(run[p].mem) : o.index = n.index => o = n
      PROVE  n \in NotesOf(disk')
  BY <1>3, <1>4, <1>5, <1>6, MergedNotes DEF gone
<1>7. gone \cap NotesOf(disk') = {}
  BY <1>3, MergedNotes
<1> QED
  BY <1>6, <1>7 DEF V, gone, burnt

(* A rescan that could read every logged transaction leaves the unspent     *)
(* notes of the logs in the file and none that it knows to be spent, for    *)
(* every INDEX_GAP and SCAN_CAP, every number of commands, overlapping or   *)
(* not, with reorgs and imports; the conditions of RescanMatchesChain say   *)
(* when recover_notes sees them all (rescan_notes, recover_notes).          *)
THEOREM RescanAgrees == Spec => RescanMatchesChain
<1>1. TypeOK /\ ChainIsGrounded /\ [Next]_vars
        => [\A p \in Procs :
              LET view == run[p].view
                  clear(n) == \A o \in NotesOf(run[p].mem) : o.index = n.index => o = n
                  burnt == Burnt(Outs(view), view, run[p].ep, run[p].spent)
              IN  /\ RescanApply(p, view)
                  /\ OneNotePerIndex(Outs(view))
                  /\ \A t, u \in view : t.outs \cap u.outs # {} => t = u
                  /\ Dense(Outs(view))
                  /\ ~\E t \in view : HalfCovers(t)
                  => /\ \A n \in Outs(view) \ (Ins(view) \cup {x[1] : x \in run[p].spent}) :
                            clear(n) => n \in NotesOf(disk')
                     /\ (Ins(view) \cup burnt) \cap NotesOf(disk') = {}]_vars
  BY RescanStep
<1> QED
  BY <1>1, AlwaysGrounded, PTL DEF Spec, RescanMatchesChain

-----------------------------------------------------------------------------
(* sync_notes against the chain.                                            *)

LEMMA ReadsGrowStep ==
    ASSUME MaxReorgs = 0, TypeOK, ReadsGrow, [Next]_vars
    PROVE  ReadsGrow'
<1>1. CASE Pool
  <2>1. UNCHANGED <<run, reorgs>> /\ mined \subseteq mined'
    BY <1>1 DEF Pool, PoolNext, Mine, Drop, RollEpoch, Reorg, ReadsGrow, PoolTypeOK, TypeOK
  <2> QED
    BY <2>1 DEF ReadsGrow, At
<1>2. ASSUME NEW p \in Procs, Command(p)  PROVE ReadsGrow'
  <2>1. Nullifiers(run[p].view) \subseteq Nullifiers(mined)
    BY DEF ReadsGrow, Nullifiers
  <2> QED
    BY <1>2, <2>1, WhatIsRead DEF ReadsGrow, At
<1>3. CASE UNCHANGED vars
  BY <1>3 DEF ReadsGrow, vars, At
<1> QED
  BY <1>1, <1>2, <1>3 DEF Next

LEMMA SyncStep ==
    ASSUME TypeOK, ChainIsGrounded, ReadsGrow, NEW p \in Procs, SyncSave(p),
           \A m \in run[p].view : m.epoch <= run[p].ep
    PROVE  Confirmed(disk') \cap Ins(run[p].view) = {}
<1> DEFINE V == run[p].view
           L == Outs(V)
<1>1. V \in SUBSET MinedTx /\ run[p].ep \in Nat
  BY DEF TypeOK, Invocation
<1>2. disk' = SyncNotes(run[p].mem, L, run[p].ep, run[p].spent)
  BY DEF SyncSave, Save
<1> SUFFICES ASSUME NEW n \in Ins(V), n \in Confirmed(disk')  PROVE FALSE
  OBVIOUS
<1>3. n \in L
  BY DEF ChainIsGrounded, Grounded
<1>4. PICK m \in V : n \in m.ins
  BY DEF Ins
<1>5. <<n, m.epoch>> \in run[p].spent
  <2>1. <<n, m.epoch>> \in Nullifiers(V)
    BY <1>4 DEF Nullifiers
  <2> QED
    BY <2>1 DEF ReadsGrow, SyncSave, At
<1>6. m.epoch \in 0..run[p].ep
  <2>1. m.epoch \in Nat
    BY <1>1 DEF MinedTx
  <2> QED
    BY <1>1, <2>1
<1>7. Burned(n, run[p].ep, run[p].spent)
  BY <1>5, <1>6 DEF Burned
<1> HIDE DEF V, L
<1>8. PICK sv \in run[p].mem.notes : /\ Kept(sv, L, run[p].ep, run[p].spent)
                                     /\ Synced(sv, L).note = n
  BY <1>2 DEF Confirmed, SyncNotes
<1>9. sv.note = n
  BY <1>8 DEF Synced, Saved
<1> QED
  BY <1>3, <1>7, <1>8, <1>9 DEF Kept

(* Where the chain takes nothing back, a sync that could read the epoch     *)
(* leaves no note confirmed that its tree showed as spent, for every number *)
(* of commands, overlapping or not (sync_notes, spent_nullifiers).          *)
THEOREM SyncsDropSpent ==
    ASSUME MaxReorgs = 0
    PROVE  Spec => SyncedNotesAreUnspent
<1>1. Init => ReadsGrow
  BY DEF Init, PoolInit, Idle, ReadsGrow, At
<1>2. TypeOK /\ ReadsGrow /\ [Next]_vars => ReadsGrow'
  BY ReadsGrowStep
<1>3. TypeOK /\ ChainIsGrounded /\ ReadsGrow /\ [Next]_vars
        => [\A p \in Procs :
              SyncSave(p) /\ (\A m \in run[p].view : m.epoch <= run[p].ep)
                  => Confirmed(disk') \cap Ins(run[p].view) = {}]_vars
  BY SyncStep
<1> QED
  BY <1>1, <1>2, <1>3, AlwaysGrounded, PTL DEF Spec, SyncedNotesAreUnspent

-----------------------------------------------------------------------------
(* The index counter in the file.                                           *)

(* A command that runs alone leaves the counter of its copy at or above the *)
(* file's, and writes none that is lower; only an import starts anew.       *)
LEMMA CounterStep ==
    ASSUME TypeOK, CopyNotBehind, NEW p \in Procs, Command(p)
    PROVE  /\ Busy(p)' => disk'.next_note <= run'[p].mem.next_note
           /\ Busy(p) \/ \A q \in Procs : Off(q) \/ Overlap
           /\ imports' = imports => disk'.next_note >= disk.next_note
<1> USE DEF Off, At, Goto, Save, Busy
<1> DEFINE Alright == /\ run'[p].pc # "off" => disk'.next_note <= run'[p].mem.next_note
                      /\ run[p].pc # "off" \/ \A q \in Procs : run[q].pc = "off" \/ Overlap
                      /\ imports' = imports => disk'.next_note >= disk.next_note
<1>1. /\ run \in [Procs -> Invocation] /\ run[p] \in Invocation
      /\ run[p].mem \in Secrets /\ disk \in Secrets
      /\ run[p].mem.next_note \in Nat /\ disk.next_note \in Nat
  <2>1. run \in [Procs -> Invocation] /\ run[p] \in Invocation /\ disk \in Secrets
    BY DEF TypeOK
  <2>2. run[p].mem \in Secrets
    BY <2>1 DEF Invocation
  <2>3. \A s \in Secrets : s.next_note \in Nat
    BY PoolAssumption DEF Secrets
  <2> QED
    BY <2>1, <2>2, <2>3
<1>2. run[p].pc # "off" => disk.next_note <= run[p].mem.next_note
  BY DEF CopyNotBehind
<1>3. ASSUME run[p].pc # "off",
             disk' = disk \/ disk'.next_note = run[p].mem.next_note,
             run' = [run EXCEPT ![p] = Idle]
      PROVE  Alright
  BY <1>1, <1>2, <1>3 DEF Idle
<1>4. ASSUME run[p].pc # "off",
             disk' = disk \/ disk' = run'[p].mem,
             run'[p].mem.next_note \in {run[p].mem.next_note, run[p].mem.next_note + 1}
      PROVE  Alright
  BY <1>1, <1>2, <1>4
<1>5. ASSUME NEW cmd \in Commands, Start(p, cmd)  PROVE Alright
  <2> DEFINE pc == IF cmd \in {"shield", "next"} THEN "start" ELSE "tree"
  <2>1. run' = [run EXCEPT ![p] = Invoked(cmd, pc, disk)]
    BY <1>5 DEF Start
  <2>2. run'[p].mem = disk
    BY <1>1, <2>1 DEF Invoked, Idle
  <2>3. UNCHANGED disk /\ \A q \in Procs : run[q].pc = "off" \/ Overlap
    BY <1>5 DEF Start
  <2> QED
    BY <1>1, <2>2, <2>3
<1>6. ASSUME Import(p)  PROVE Alright
  <2>1. /\ disk' = FreshSecrets /\ imports' # imports
        /\ \A q \in Procs : run[q].pc = "off"
    BY <1>6 DEF Import, TypeOK
  <2>2. run'[p].mem = FreshSecrets
    BY <1>1, <1>6 DEF Import, Invoked, Idle
  <2> QED
    BY <2>1, <2>2, IdleType, PoolAssumption DEF FreshSecrets
<1>7. ASSUME Fail(p) \/ NextFresh(p) \/ ShieldReceipt(p)  PROVE Alright
  <2>1. /\ run[p].pc # "off" /\ run' = [run EXCEPT ![p] = Idle]
        /\ disk' = disk \/ disk' = run[p].mem
    BY <1>7 DEF Fail, NextFresh, ShieldReceipt
  <2> HIDE DEF Alright
  <2> QED
    BY <2>1, <1>3
<1>8. ASSUME ShieldEpoch(p) \/ Broadcast(p)  PROVE Alright
  <2>1. UNCHANGED disk /\ run[p].pc # "off" /\ run'[p].mem = run[p].mem
    BY <1>1, <1>8 DEF ShieldEpoch, Broadcast, Invocation
  <2> QED
    BY <1>1, <1>2, <2>1
<1>9. ASSUME NEW v \in Values, ShieldSign(p, v)  PROVE Alright
  <2> DEFINE n == [index |-> run[p].mem.next_note, value |-> v]
             s == RememberBorn(Allocate(run[p].mem), n)
             r == [run[p] EXCEPT !.mem = s, !.tx = NewTx(p, {}, {n}),
                                 !.last = TRUE, !.pc = "send"]
  <2>1. run' = [run EXCEPT ![p] = r] /\ disk' = s /\ run[p].pc # "off"
    BY <1>1, <1>9 DEF ShieldSign
  <2>2. s.next_note = run[p].mem.next_note + 1
    BY <1>1 DEF RememberBorn, Allocate, Secrets
  <2>3. r.mem = s
    <3> HIDE DEF s, n
    <3> QED
      BY <1>1 DEF Invocation
  <2> HIDE DEF r, s, Alright
  <2>4. run'[p].mem = s
    BY <1>1, <2>1, <2>3
  <2> QED
    BY <1>4, <2>1, <2>2, <2>4
<1>10. ASSUME SyncTree(p) \/ SyncEpoch(p) \/ SyncSpent(p) \/ RescanLogs(p) \/ RescanBurns(p)
       PROVE  Alright
  <2>1. /\ UNCHANGED disk /\ run[p].pc # "off" /\ run'[p].mem = run[p].mem
    <3>1. CASE SyncTree(p) \/ SyncEpoch(p) \/ SyncSpent(p)
      BY <1>1, <3>1 DEF SyncTree, SyncEpoch, SyncSpent, Invocation
    <3>2. CASE RescanLogs(p) \/ RescanBurns(p)
      BY <3>2, RescanReads
    <3> QED
      BY <1>10, <3>1, <3>2
  <2> QED
    BY <1>1, <1>2, <2>1
<1>11. ASSUME SyncSave(p)  PROVE Alright
  <2> DEFINE s == SyncNotes(run[p].mem, Outs(run[p].view), run[p].ep, run[p].spent)
  <2>1. s.next_note = run[p].mem.next_note
    BY <1>1 DEF SyncNotes, Secrets
  <2>2. /\ disk' = s /\ run[p].pc # "off"
        /\ \/ run' = [run EXCEPT ![p] = Idle]
           \/ run' = [run EXCEPT ![p] = Invoked("unshield", "plan", s)]
           \/ run' = [run EXCEPT ![p] = Invoked("rescan", "logs", s)]
    BY <1>11 DEF SyncSave
  <2>3. /\ Invoked("unshield", "plan", s).mem = s
        /\ Invoked("rescan", "logs", s).mem = s
    BY DEF Invoked, Idle
  <2> HIDE DEF s, Alright
  <2> QED
    BY <1>1, <1>3, <1>4, <2>1, <2>2, <2>3
<1>12. ASSUME NEW next \in BOOLEAN, UnshieldPlan(p, next)  PROVE Alright
  <2>1. /\ disk' = disk \/ disk' = run[p].mem
        /\ run[p].pc # "off" /\ run'[p].mem = run[p].mem
    BY <1>1, <1>12 DEF UnshieldPlan, Invocation
  <2> QED
    BY <1>1, <1>2, <2>1
<1>13. ASSUME NEW ins, NEW last, NEW max, NEW change,
              BuildSpend(p, ins, last, max, change)
       PROVE  Alright
  <2> DEFINE s == IF max THEN run[p].mem ELSE Allocate(run[p].mem)
             saved == [s EXCEPT !.notes = @ \cup {Saved(n, TRUE) : n \in change}]
             r == [run[p] EXCEPT !.mem = saved, !.tx = NewTx(p, ins, change),
                                 !.last = last, !.pc = "send"]
  <2>1. /\ run' = [run EXCEPT ![p] = r] /\ run[p].pc # "off"
        /\ disk' = disk \/ disk' = saved
    BY <1>1, <1>13 DEF BuildSpend
  <2>2. s.next_note \in {run[p].mem.next_note, run[p].mem.next_note + 1}
    BY <1>1 DEF Allocate, Secrets
  <2>3. saved.next_note = s.next_note
    <3>1. s \in [next_note : Nat, notes : SUBSET SavedNote]
      BY <1>1, PoolAssumption DEF Allocate, Secrets
    <3> HIDE DEF s
    <3> QED
      BY <3>1
  <2>4. r.mem = saved
    <3> HIDE DEF saved
    <3> QED
      BY <1>1 DEF Invocation
  <2> HIDE DEF r, saved, s, Alright
  <2>5. run'[p].mem = saved
    BY <1>1, <2>1, <2>4
  <2> QED
    BY <1>4, <2>1, <2>2, <2>3, <2>5
<1>14. ASSUME SpendReceipt(p)  PROVE Alright
  <2> DEFINE live == (run[p].live \ run[p].tx.ins) \cup run[p].tx.outs
             s == ReplaceNotes(run[p].mem, live)
             r == [run[p] EXCEPT !.mem = s, !.live = live, !.tx = NoTx, !.pc = "build"]
  <2>1. /\ run' = [run EXCEPT ![p] = Idle] \/ run' = [run EXCEPT ![p] = r]
        /\ disk' = s /\ run[p].pc # "off"
    BY <1>1, <1>14 DEF SpendReceipt
  <2>2. s.next_note = run[p].mem.next_note
    BY <1>1 DEF ReplaceNotes, Secrets
  <2>3. r.mem = s
    <3> HIDE DEF s, live
    <3> QED
      BY <1>1 DEF Invocation
  <2> HIDE DEF r, s, Alright
  <2> QED
    BY <1>1, <1>3, <1>4, <2>1, <2>2, <2>3
<1>15. ASSUME NEW readable \in SUBSET run[p].view, RescanApply(p, readable)
       PROVE  Alright
  <2>0. PICK P \in Recoveries(readable) :
           \E gone \in SpentSets(P, readable, run[p].view, run[p].ep, run[p].spent) :
               disk' = MergeFound(run[p].mem, Outs(P), gone)
    BY <1>15 DEF RescanApply, Save
  <2>1. PICK gone \in SpentSets(P, readable, run[p].view, run[p].ep, run[p].spent) :
           /\ disk' = MergeFound(run[p].mem, Outs(P), gone)
           /\ run' = [run EXCEPT ![p] = Idle]
           /\ run[p].pc # "off"
    BY <1>15, <2>0 DEF RescanApply, At
  <2>2. Outs(P) \in SUBSET Note
    <3>1. Outs(readable) \subseteq Note
      BY <1>1 DEF Outs, MinedTx, Invocation
    <3> QED
      BY <3>1, RecoveriesType
  <2>3. disk' \in Secrets /\ run[p].mem.next_note <= disk'.next_note
    BY <1>1, <2>1, <2>2, MergeFoundType
  <2>4. disk'.next_note \in Nat
    BY <2>3, PoolAssumption DEF Secrets
  <2>5. run'[p].pc = "off"
    BY <1>1, <2>1 DEF Idle
  <2> QED
    BY <1>1, <1>2, <2>1, <2>3, <2>4, <2>5
<1> HIDE DEF Alright
<1>16. Alright
  BY <1>5, <1>6, <1>7, <1>8, <1>9, <1>10, <1>11, <1>12, <1>13, <1>14, <1>15
     DEF Command, Shield, Sync, Unshield, Rescan
<1> QED
  BY <1>16 DEF Alright

LEMMA NotBehindStep ==
    ASSUME ~Overlap, TypeOK, CopyNotBehind, [Next]_vars
    PROVE  /\ CopyNotBehind'
           /\ imports' = imports => disk'.next_note >= disk.next_note
<1>1. disk.next_note \in Nat
  BY PoolAssumption DEF TypeOK, Secrets
<1>2. CASE Pool \/ UNCHANGED vars
  <2>1. UNCHANGED <<run, disk>>
    BY <1>2 DEF Pool, vars
  <2> QED
    BY <1>1, <2>1 DEF CopyNotBehind, Solo, Busy, Off
<1>3. ASSUME NEW p \in Procs, Command(p)
      PROVE  /\ CopyNotBehind'
             /\ imports' = imports => disk'.next_note >= disk.next_note
  <2>1. \A q \in Procs : q # p => run[q].pc = "off" /\ run'[q] = run[q]
    BY <1>3, CounterStep, WhatIsRead DEF CopyNotBehind, Solo, Busy, Off
  <2>2. Busy(p)' => disk'.next_note <= run'[p].mem.next_note
    BY <1>3, CounterStep
  <2>3. CopyNotBehind'
    BY <2>1, <2>2 DEF CopyNotBehind, Solo, Busy, Off
  <2> QED
    BY <1>3, <2>3, CounterStep
<1> QED
  BY <1>2, <1>3 DEF Next

(* Where commands run one at a time, the index counter in the file never    *)
(* goes back, whatever reorgs and failures there are, except when the       *)
(* mnemonic is imported anew: next_note only grows (wallet.rs:57,           *)
(* rescan_notes).                                                           *)
THEOREM IndexesGoForward ==
    ASSUME ~Overlap
    PROVE  Spec => IndexNeverRewound
<1>1. Init => CopyNotBehind
  BY DEF Init, Idle, CopyNotBehind, Solo, Busy, Off
<1>2. TypeOK /\ CopyNotBehind /\ [Next]_vars
        => /\ CopyNotBehind'
           /\ [imports' = imports => disk'.next_note >= disk.next_note]_vars
  BY NotBehindStep
<1> QED
  BY <1>1, <1>2, TypeCorrect, PTL DEF Spec, IndexNeverRewound
=============================================================================
