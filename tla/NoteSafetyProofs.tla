-------------------------- MODULE NoteSafetyProofs --------------------------
(***************************************************************************)
(* IInv is an inductive invariant of NoteWallet when Alone holds, and with *)
(* it the safety properties of the notes for any number of notes, amounts, *)
(* epochs, sends and command invocations; CustodyInv adds what it takes to *)
(* show that NoteWallet implements NoteCustody.                            *)
(***************************************************************************)
EXTENDS NoteWalletProofs

(* Steps of the pool: the wallet's variables stand still and the chain grows.*)
LEMMA PoolKeeps ==
    ASSUME IInv, Alone, Pool, TypeOK'
    PROVE  IInv'
<1>1. UNCHANGED <<disk, run, signed, sent, imports>>
  BY DEF Pool
<1>2. /\ mined \subseteq mined'
      /\ mempool' \subseteq mempool
      /\ \A m \in mined' : Unlanded(m) \in sent
      /\ reorgs' = reorgs
  <2>1. ASSUME NEW t \in mempool, Mine(t)
        PROVE  <1>2
    <3>1. Unlanded(Landed(t)) = t
      <4>1. t \in Tx
        BY DEF IInv, TypeOK, PoolTypeOK
      <4> QED
        BY <4>1 DEF Landed, Unlanded, Tx
    <3> QED
      BY <2>1, <3>1 DEF Mine, IInv, History
  <2>2. ASSUME NEW t \in mempool, Drop(t)
        PROVE  <1>2
    BY <2>2 DEF Drop, IInv, History
  <2>3. ASSUME RollEpoch
        PROVE  <1>2
    BY <2>3 DEF RollEpoch, IInv, History
  <2>4. ASSUME NEW m \in mined, Reorg(m)
        PROVE  FALSE
    BY <2>4 DEF Reorg, Alone, IInv, TypeOK, PoolTypeOK
  <2> QED
    BY <2>1, <2>2, <2>3, <2>4 DEF Pool, PoolNext
<1>3. Leaves \subseteq Leaves' /\ SpentNotes \subseteq SpentNotes'
  BY <1>2 DEF Leaves, SpentNotes, Outs, Ins
<1>4. Solo' /\ Undisturbed' /\ History' /\ Indexing'
  BY <1>1, <1>2 DEF IInv, Solo, Busy, Off, Undisturbed, History, Indexing, EveryNote,
                    Outs, NotesOf
<1>5. ASSUME NEW p \in Procs  PROVE Fit(run[p])'
  <2>1. Fit(run[p])
    BY DEF IInv
  <2>2. Copied(run[p])' /\ Counting(run[p])'
    BY <1>1, <2>1 DEF Fit, Copied, Counting, Confirmed
  <2>3. Informed(run[p])'
    BY <1>1, <1>2, <1>3, <2>1 DEF Fit, Informed
  <2>4. InHand(run[p])'
    BY <1>1, <1>3, <2>1 DEF Fit, InHand, NotesOf
  <2> QED
    BY <2>2, <2>3, <2>4 DEF Fit
<1>6. Safe'
  BY <1>1, <1>3 DEF IInv, Safe, NoNoteLost, OneIndexPerNote, ConfirmedMeansLanded,
                    SpendsOnlyLanded, Outs, Ins, NotesOf, Confirmed, Indexes
<1> QED
  BY <1>1, <1>4, <1>5, <1>6 DEF IInv

-----------------------------------------------------------------------------
(* Steps of a command.                                                      *)

(* A command that has ended asks nothing of the file or the chain.          *)
LEMMA IdleFits == Fit(Idle)
BY DEF Fit, Copied, Informed, InHand, Counting, Idle

(* When one command moves the others are off: what remains to be shown is   *)
(* about the one that moves and about the file.                             *)
LEMMA CommandKeeps ==
    ASSUME IInv, TypeOK', NEW p \in Procs, NEW r,
           \A q \in Procs : q # p => Off(q),
           run' = [run EXCEPT ![p] = r],
           mined' = mined, UNCHANGED <<reorgs, imports>>,
           History', Indexing', Fit(r)', Safe'
    PROVE  IInv'
<1>1. /\ run'[p] = r
      /\ \A q \in Procs : q # p => run'[q] = run[q]
  BY DEF IInv, TypeOK
<1>2. Solo'
  BY <1>1 DEF Solo, Busy, Off
<1>3. ASSUME NEW q \in Procs  PROVE Fit(run[q])'
  <2>1. CASE q = p
    BY <1>1, <2>1 DEF Fit, Copied, Informed, InHand, Counting
  <2>2. CASE q # p
    <3>1. run'[q] = run[q] /\ run[q].pc = "off"
      BY <1>1, <2>2 DEF Off
    <3>2. Informed(run[q])
      BY DEF IInv, Fit
    <3>3. Informed(run[q])'
      BY <3>1, <3>2 DEF Informed, SpentNotes, Ins
    <3> QED
      BY <3>1, <3>3 DEF Fit, Copied, InHand, Counting
  <2> QED
    BY <2>1, <2>2
<1> QED
  BY <1>2, <1>3 DEF IInv, Undisturbed

(* A step that saves nothing, sends nothing and signs nothing.              *)
LEMMA LocalKeeps ==
    ASSUME IInv, TypeOK', NEW p \in Procs, NEW r,
           \A q \in Procs : q # p => Off(q),
           run' = [run EXCEPT ![p] = r],
           UNCHANGED <<mined, mempool, reorgs, disk, signed, sent, imports>>,
           Fit(r)
    PROVE  IInv'
<1>1. History' /\ Indexing' /\ Safe'
  BY DEF IInv, History, Indexing, EveryNote, Safe, NoNoteLost, OneIndexPerNote,
         ConfirmedMeansLanded, SpendsOnlyLanded, Leaves, SpentNotes,
         Outs, Ins, NotesOf, Confirmed, Indexes
<1>2. Fit(r)'
  BY DEF Fit, Copied, Informed, InHand, Counting, Leaves, SpentNotes,
         Outs, Ins, NotesOf, Confirmed, Indexes
<1> QED
  BY <1>1, <1>2, CommandKeeps

-----------------------------------------------------------------------------
(* What a save does to the file.                                            *)

(* A save that sifts: it brings in no new note, keeps all that are sent and *)
(* unspent, and confirms only what has landed.                              *)
LEMMA SiftedFile ==
    ASSUME IInv, TypeOK', UNCHANGED <<mined, sent>>,
           disk.next_note <= disk'.next_note,
           NotesOf(disk') \subseteq EveryNote,
           Outs(sent) \ SpentNotes \subseteq NotesOf(disk'),
           Confirmed(disk') \subseteq Leaves
    PROVE  Indexing' /\ Safe'
<1>1. UNCHANGED <<Outs(sent), Ins(sent), SpentNotes, Leaves>>
  BY DEF Outs, Ins, SpentNotes, Leaves
<1>2. EveryNote' \subseteq EveryNote
  BY <1>1 DEF EveryNote
<1>3. OneNotePerIndex(EveryNote')
  BY <1>2 DEF IInv, Indexing, OneNotePerIndex
<1>4. \A n \in EveryNote' : n.index < disk'.next_note
  <2> SUFFICES ASSUME NEW n \in EveryNote'  PROVE n.index < disk'.next_note
    OBVIOUS
  <2>1. n \in EveryNote /\ n.index < disk.next_note
    BY <1>2 DEF IInv, Indexing
  <2>2. n \in Note
    <3>1. Outs(sent) \subseteq Note
      BY DEF IInv, TypeOK, Tx, Outs
    <3>2. NotesOf(disk) \subseteq Note
      BY ConfirmedType DEF IInv, TypeOK
    <3> QED
      BY <2>1, <3>1, <3>2 DEF EveryNote
  <2>3. n.index \in Int /\ disk.next_note \in Int /\ disk'.next_note \in Int
    BY <2>2, PoolAssumption DEF IInv, TypeOK, Secrets, Note
  <2> QED
    BY <2>1, <2>3
<1>5. Indexing'
  BY <1>3, <1>4 DEF Indexing
<1>6. Safe'
  BY <1>1 DEF IInv, Safe, NoNoteLost, OneIndexPerNote, ConfirmedMeansLanded,
              SpendsOnlyLanded
<1> QED
  BY <1>5, <1>6

(* A save that only moves next_note up.                                     *)
LEMMA SameNotes ==
    ASSUME IInv, TypeOK', UNCHANGED <<mined, sent>>,
           disk.next_note <= disk'.next_note, disk'.notes = disk.notes
    PROVE  Indexing' /\ Safe' /\ Confirmed(disk') = Confirmed(disk)
<1>1. NotesOf(disk') = NotesOf(disk) /\ Confirmed(disk') = Confirmed(disk)
  BY DEF NotesOf, Confirmed
<1>2. Indexing' /\ Safe'
  BY <1>1, SiftedFile DEF IInv, Safe, NoNoteLost, ConfirmedMeansLanded, EveryNote
<1> QED
  BY <1>1, <1>2

(* A save that writes down one pending note under an index never used.      *)
LEMMA FreshNote ==
    ASSUME IInv, TypeOK', UNCHANGED <<mined, sent>>, NEW n \in Note,
           disk.next_note <= n.index, disk'.next_note = n.index + 1,
           disk'.notes = disk.notes \cup {Saved(n, TRUE)}
    PROVE  /\ Indexing' /\ Safe'
           /\ Confirmed(disk') = Confirmed(disk)
           /\ NotesOf(disk') = NotesOf(disk) \cup {n}
           /\ \A t \in sent : Indexes(t.outs) \cap {n.index} = {}
<1>1. /\ NotesOf(disk') = NotesOf(disk) \cup {n}
      /\ Confirmed(disk') = Confirmed(disk)
  <2> DEFINE sv == Saved(n, TRUE)
  <2>1. sv.note = n /\ sv.pending
    BY DEF Saved
  <2>2. disk'.notes = disk.notes \cup {sv}
    OBVIOUS
  <2> HIDE DEF sv
  <2>3. NotesOf(disk') = NotesOf(disk) \cup {n}
    BY <2>1, <2>2 DEF NotesOf
  <2>4. Confirmed(disk') = Confirmed(disk)
    <3>1. {x \in disk'.notes : ~x.pending} = {x \in disk.notes : ~x.pending}
      BY <2>1, <2>2
    <3> QED
      BY <3>1 DEF Confirmed
  <2> QED
    BY <2>3, <2>4
<1>2. UNCHANGED <<Outs(sent), Ins(sent), SpentNotes, Leaves>>
  BY DEF Outs, Ins, SpentNotes, Leaves
<1>3. EveryNote' = EveryNote \cup {n}
  BY <1>1, <1>2 DEF EveryNote
<1>4. /\ EveryNote \subseteq Note
      /\ disk.next_note \in Int /\ n.index \in Int
      /\ \A m \in EveryNote : m.index \in Int
  <2>1. Outs(sent) \subseteq Note
    BY DEF IInv, TypeOK, Tx, Outs
  <2>2. NotesOf(disk) \subseteq Note
    BY ConfirmedType DEF IInv, TypeOK
  <2> QED
    BY <2>1, <2>2, PoolAssumption DEF EveryNote, Note, IInv, TypeOK, Secrets
<1>5. \A m \in EveryNote : m.index < n.index
  BY <1>4 DEF IInv, Indexing
<1>6. OneNotePerIndex(EveryNote')
  BY <1>3, <1>4, <1>5 DEF IInv, Indexing, OneNotePerIndex
<1>7. \A m \in EveryNote' : m.index < disk'.next_note
  BY <1>3, <1>4, <1>5
<1>8. \A t \in sent : Indexes(t.outs) \cap {n.index} = {}
  <2> SUFFICES ASSUME NEW t \in sent, NEW m \in t.outs  PROVE m.index # n.index
    BY DEF Indexes
  <2>1. m \in EveryNote
    BY DEF EveryNote, Outs
  <2> QED
    BY <1>4, <1>5, <2>1
<1>9. Safe'
  BY <1>1, <1>2 DEF IInv, Safe, NoNoteLost, OneIndexPerNote, ConfirmedMeansLanded,
                    SpendsOnlyLanded
<1> QED
  BY <1>1, <1>6, <1>7, <1>8, <1>9 DEF Indexing

-----------------------------------------------------------------------------
(* The steps of each command.                                               *)

(* Whoever moves is alone: a command starts only when all are off.          *)
LEMMA OthersOff ==
    ASSUME IInv, NEW p \in Procs, Busy(p)
    PROVE  \A q \in Procs : q # p => Off(q)
BY DEF IInv, Solo, Busy

(* What the invariant says of one command, with the types a step needs.     *)
LEMMA RunningFacts ==
    ASSUME IInv, NEW p \in Procs
    PROVE  /\ run \in [Procs -> Invocation] /\ run[p] \in Invocation
           /\ run[p].mem \in Secrets /\ disk \in Secrets
           /\ run[p].mem.next_note \in Int /\ disk.next_note \in Int
           /\ Fit(run[p])
<1>1. /\ run \in [Procs -> Invocation] /\ run[p] \in Invocation /\ disk \in Secrets
      /\ Fit(run[p])
  BY DEF IInv, TypeOK
<1> QED
  BY <1>1, PoolAssumption DEF Invocation, Secrets

(* Starting, ending and giving up.                                          *)
LEMMA StartKeeps ==
    ASSUME IInv, Alone, TypeOK', NEW p \in Procs, NEW cmd \in Commands, Start(p, cmd)
    PROVE  IInv'
<1> DEFINE pc == IF cmd \in {"shield", "next"} THEN "start" ELSE "tree"
           r == Invoked(cmd, pc, disk)
<1>1. \A q \in Procs : q # p => Off(q)
  BY DEF Start, Alone
<1>2. /\ r.pc = pc /\ r.cmd = cmd /\ r.mem = disk
      /\ r.view = {} /\ r.spent = {}
  BY DEF Invoked, Idle
<1>3. Fit(r)
  <2>1. disk.next_note <= disk.next_note
    BY RunningFacts
  <2> HIDE DEF r
  <2> QED
    BY <1>2, <2>1 DEF Fit, Copied, Informed, InHand, Counting
<1>4. /\ run' = [run EXCEPT ![p] = r]
      /\ UNCHANGED <<mined, mempool, reorgs, disk, signed, sent, imports>>
  BY DEF Start, poolVars
<1> QED
  BY <1>1, <1>3, <1>4, LocalKeeps

LEMMA EndKeeps ==
    ASSUME IInv, TypeOK', NEW p \in Procs, Fail(p) \/ ShieldReceipt(p)
    PROVE  IInv'
<1>1. Busy(p)
  BY DEF Fail, ShieldReceipt, Busy, Off, At
<1>2. /\ run' = [run EXCEPT ![p] = Idle]
      /\ UNCHANGED <<mined, mempool, reorgs, disk, signed, sent, imports>>
  BY DEF Fail, ShieldReceipt, poolVars
<1> QED
  BY <1>1, <1>2, OthersOff, IdleFits, LocalKeeps

(* next writes the notes back as it loaded them: no other command ran.      *)
LEMMA NextFreshKeeps ==
    ASSUME IInv, TypeOK', NEW p \in Procs, NextFresh(p)
    PROVE  IInv'
<1>1. Busy(p) /\ disk' = run[p].mem
  BY DEF NextFresh, Busy, Off, At, Save
<1>2. /\ run' = [run EXCEPT ![p] = Idle]
      /\ UNCHANGED <<mined, mempool, reorgs, signed, sent, imports>>
  BY DEF NextFresh, poolVars
<1>3. Indexing' /\ Safe'
  <2>1. disk'.notes = disk.notes /\ disk.next_note <= disk'.next_note
    BY <1>1, RunningFacts DEF Fit, Copied, Busy, Off
  <2> QED
    BY <1>2, <2>1, SameNotes
<1>4. History'
  BY <1>2 DEF IInv, History
<1>5. Fit(Idle)'
  BY DEF Fit, Copied, Informed, InHand, Counting, Idle
<1> QED
  BY <1>1, <1>2, <1>3, <1>4, <1>5, OthersOff, CommandKeeps

(* The reads of the chain: what is read is true when it is read.            *)
LEMMA ReadKeeps ==
    ASSUME IInv, TypeOK', NEW p \in Procs,
           \/ ShieldEpoch(p) \/ SyncTree(p) \/ SyncEpoch(p) \/ SyncSpent(p)
           \/ RescanLogs(p) \/ RescanBurns(p)
    PROVE  IInv'
<1>1. Busy(p)
  BY DEF ShieldEpoch, SyncTree, SyncEpoch, SyncSpent, RescanLogs, RescanBurns,
         Busy, Off, At
<1>2. \A x \in Nullifiers(mined) : x[1] \in SpentNotes
  BY DEF Nullifiers, SpentNotes, Ins
<1>3. run[p] \in Invocation /\ Fit(run[p]) /\ run \in [Procs -> Invocation]
  BY RunningFacts
<1>4. PICK r :
        /\ run' = [run EXCEPT ![p] = r]
        /\ r.pc \notin {"off", "send", "wait"}
        /\ r.cmd = "unshield" => r.pc # "build"
        /\ r.mem = run[p].mem
        /\ r.view = run[p].view \/ r.view \subseteq mined
        /\ r.spent = run[p].spent \/ r.spent = Nullifiers(mined)
  <2>1. CASE ShieldEpoch(p)
    <3> WITNESS [run[p] EXCEPT !.ep = epoch, !.pc = "build"]
    <3> QED
      BY <1>3, <2>1 DEF ShieldEpoch, Invocation
  <2>2. CASE SyncTree(p)
    <3> WITNESS [run[p] EXCEPT !.view = mined, !.pc = "epoch"]
    <3> QED
      BY <1>3, <2>2 DEF SyncTree, Invocation
  <2>3. CASE SyncEpoch(p)
    <3>1. PICK ep \in {epoch, 0} :
             run' = [run EXCEPT ![p].ep = ep, ![p].pc = "spent"]
      BY <2>3 DEF SyncEpoch
    <3> WITNESS [run[p] EXCEPT !.ep = ep, !.pc = "spent"]
    <3> QED
      BY <1>3, <3>1 DEF Invocation
  <2>4. CASE SyncSpent(p)
    <3> WITNESS [run[p] EXCEPT !.spent = Nullifiers(mined), !.pc = "save"]
    <3> QED
      BY <1>3, <2>4 DEF SyncSpent, Invocation
  <2>5. CASE RescanLogs(p)
    <3>1. PICK V \in SUBSET mined :
             run' = [run EXCEPT ![p].view = V, ![p].pc = "burns"]
      BY <2>5 DEF RescanLogs
    <3> WITNESS [run[p] EXCEPT !.view = V, !.pc = "burns"]
    <3> QED
      BY <1>3, <3>1 DEF Invocation
  <2>6. CASE RescanBurns(p)
    <3>1. PICK ep \in 0..epoch :
             run' = [run EXCEPT ![p].spent = Nullifiers(mined), ![p].ep = ep,
                                ![p].pc = "apply"]
      BY <2>6 DEF RescanBurns
    <3> WITNESS [run[p] EXCEPT !.spent = Nullifiers(mined), !.ep = ep, !.pc = "apply"]
    <3> QED
      BY <1>3, <3>1 DEF Invocation
  <2> QED
    BY <2>1, <2>2, <2>3, <2>4, <2>5, <2>6
<1>5. Fit(r)
  BY <1>1, <1>2, <1>3, <1>4 DEF Fit, Copied, Informed, InHand, Counting, Busy, Off
<1>6. UNCHANGED <<mined, mempool, reorgs, disk, signed, sent, imports>>
  BY DEF ShieldEpoch, SyncTree, SyncEpoch, SyncSpent, RescanLogs, RescanBurns, poolVars
<1> QED
  BY <1>1, <1>4, <1>5, <1>6, OthersOff, LocalKeeps

(* Signing with a new output: shield, and a spend with change.              *)
LEMMA SignFreshKeeps ==
    ASSUME IInv, TypeOK', NEW p \in Procs, Busy(p), NEW n \in Note, NEW r,
           run[p].mem.next_note = n.index,
           disk'.next_note = n.index + 1,
           disk'.notes = disk.notes \cup {Saved(n, TRUE)},
           UNCHANGED <<mined, mempool, reorgs, sent, imports>>,
           signed' = signed + 1,
           run' = [run EXCEPT ![p] = r],
           r.pc = "send", r.mem = disk', r.view = run[p].view, r.spent = run[p].spent,
           r.tx.id = signed + 1, r.tx.outs = {n}, r.tx.ins \subseteq Leaves,
           r.cmd = "unshield" => r.live = Confirmed(disk)
    PROVE  IInv'
<1>1. disk.next_note <= n.index
  BY RunningFacts DEF Fit, Copied, Busy, Off
<1>2. /\ Indexing' /\ Safe'
      /\ Confirmed(disk') = Confirmed(disk)
      /\ NotesOf(disk') = NotesOf(disk) \cup {n}
      /\ \A t \in sent : Indexes(t.outs) \cap {n.index} = {}
  BY <1>1, FreshNote
<1>3. /\ signed \in Nat
      /\ \A t \in sent : t.id \in Nat /\ t.id <= signed
  BY DEF IInv, TypeOK, Tx, History
<1>4. History'
  BY <1>3 DEF IInv, History
<1>5. Fit(r)'
  <2>1. Copied(r)'
    <3>1. disk'.next_note <= disk'.next_note
      BY PoolAssumption DEF TypeOK, Secrets
    <3> QED
      BY <3>1 DEF Copied
  <2>2. Informed(r)'
    BY RunningFacts DEF Fit, Informed, SpentNotes, Ins
  <2>3. InHand(r)'
    <3>1. Indexes({n}) = {n.index}
      BY DEF Indexes
    <3>2. Leaves' = Leaves
      BY DEF Leaves, Outs
    <3>3. NotesOf(disk)' = NotesOf(disk')
      BY DEF NotesOf
    <3>4. ASSUME NEW t \in sent
          PROVE  t.id # r.tx.id /\ Indexes(t.outs) \cap Indexes(r.tx.outs) = {}
      BY <1>2, <1>3, <3>1
    <3>5. r.tx.id <= signed'
      BY <1>3
    <3> QED
      BY <1>2, <3>2, <3>3, <3>4, <3>5 DEF InHand
  <2>4. Counting(r)'
    BY <1>2 DEF Counting
  <2> QED
    BY <2>1, <2>2, <2>3, <2>4 DEF Fit
<1> QED
  BY <1>2, <1>4, <1>5, OthersOff, CommandKeeps

(* shield signs and saves its pending note under the next index.            *)
LEMMA ShieldSignKeeps ==
    ASSUME IInv, TypeOK', NEW p \in Procs, NEW v \in Values, ShieldSign(p, v)
    PROVE  IInv'
<1> DEFINE n == [index |-> run[p].mem.next_note, value |-> v]
           s == RememberBorn(Allocate(run[p].mem), n)
           r == [run[p] EXCEPT !.mem = s, !.tx = NewTx(p, {}, {n}),
                               !.last = TRUE, !.pc = "send"]
<1>1. /\ Busy(p) /\ run[p].cmd = "shield" /\ run[p].mem.next_note < MaxNotes
      /\ disk' = s /\ signed' = signed + 1 /\ run' = [run EXCEPT ![p] = r]
      /\ UNCHANGED <<mined, mempool, reorgs, sent, imports>>
  <2>1. run \in [Procs -> Invocation]
    BY RunningFacts
  <2> QED
    BY <2>1 DEF ShieldSign, Busy, Off, At, Save, poolVars
<1>2. n \in Note /\ n.index = run[p].mem.next_note
  BY <1>1, RunningFacts, PoolAssumption DEF Note, Secrets
<1>3. /\ s.next_note = n.index + 1
      /\ s.notes = disk.notes \cup {Saved(n, TRUE)}
  <2>1. run[p].mem \in Secrets /\ run[p].mem.notes = disk.notes
    BY <1>1, RunningFacts DEF Fit, Copied, Busy, Off
  <2> QED
    BY <2>1 DEF RememberBorn, Allocate, Secrets
<1>4. /\ r.pc = "send" /\ r.mem = s /\ r.view = run[p].view /\ r.spent = run[p].spent
      /\ r.cmd = "shield"
      /\ r.tx.id = signed + 1 /\ r.tx.outs = {n} /\ r.tx.ins = {}
  <2>1. run[p] \in Invocation
    BY RunningFacts
  <2> HIDE DEF s, n
  <2> QED
    BY <1>1, <2>1 DEF NewTx, Invocation
<1> HIDE DEF r, s, n
<1> QED
  BY <1>1, <1>2, <1>3, <1>4, SignFreshKeeps

(* What is handed to a node has its outputs on disk and its inputs landed.  *)
LEMMA BroadcastKeeps ==
    ASSUME IInv, TypeOK', NEW p \in Procs, Broadcast(p)
    PROVE  IInv'
<1> DEFINE tx == run[p].tx
<1>0. PICK r : r = [run[p] EXCEPT !.pc = "wait"]
  OBVIOUS
<1>1. /\ run[p].pc = "send" /\ Busy(p)
      /\ mempool' = mempool \cup {tx} /\ sent' = sent \cup {tx}
      /\ UNCHANGED <<mined, epoch, reorgs, disk, signed, imports>>
      /\ run' = [run EXCEPT ![p] = r]
  <2>1. run \in [Procs -> Invocation]
    BY RunningFacts
  <2> QED
    BY <1>0, <2>1 DEF Broadcast, At, Goto, Busy, Off
<1>2. /\ tx.id <= signed /\ tx.ins \subseteq Leaves /\ tx.outs \subseteq NotesOf(disk)
      /\ \A t \in sent : t.id # tx.id /\ Indexes(t.outs) \cap Indexes(tx.outs) = {}
  BY <1>1, RunningFacts DEF Fit, InHand
<1>3. /\ r.pc = "wait"
      /\ \A f \in {"cmd", "mem", "view", "spent", "live", "tx"} : r[f] = run[p][f]
  BY <1>0, RunningFacts DEF Invocation
<1> HIDE DEF tx
<1>4. Outs(sent') = Outs(sent) \cup tx.outs /\ Ins(sent') = Ins(sent) \cup tx.ins
  BY <1>1 DEF Outs, Ins
<1>5. UNCHANGED <<Leaves, SpentNotes>>
  BY <1>1 DEF Leaves, SpentNotes, Outs, Ins
<1>6. History'
  BY <1>1, <1>2 DEF IInv, History
<1>7. Indexing'
  <2>1. EveryNote' = EveryNote
    BY <1>1, <1>2, <1>4 DEF EveryNote
  <2> QED
    BY <1>1, <2>1 DEF IInv, Indexing
<1>8. Safe'
  <2>1. NoNoteLost' /\ SpendsOnlyLanded' /\ ConfirmedMeansLanded'
    BY <1>1, <1>2, <1>4, <1>5 DEF IInv, Safe, NoNoteLost, SpendsOnlyLanded,
       ConfirmedMeansLanded
  <2>2. OneIndexPerNote'
    BY <1>1, <1>2 DEF IInv, Safe, OneIndexPerNote
  <2> QED
    BY <2>1, <2>2 DEF Safe
<1>9. Fit(r)'
  <2>1. Copied(r)' /\ Informed(r)' /\ Counting(r)'
    BY <1>1, <1>3, <1>5, RunningFacts DEF Fit, Copied, Informed, Counting
  <2>2. InHand(r)'
    <3>1. r.tx = tx
      BY <1>3 DEF tx
    <3> QED
      BY <1>1, <1>2, <1>3, <1>5, <3>1 DEF InHand
  <2> QED
    BY <2>1, <2>2 DEF Fit
<1> QED
  BY <1>1, <1>6, <1>7, <1>8, <1>9, OthersOff, CommandKeeps

(* A command that saves a sifted file and goes on, with what it saved in    *)
(* memory, nothing signed, and no stale knowledge.                          *)
LEMMA SaveKeeps ==
    ASSUME IInv, TypeOK', NEW p \in Procs, Busy(p), NEW r,
           UNCHANGED <<mined, mempool, reorgs, signed, sent, imports>>,
           run' = [run EXCEPT ![p] = r],
           Indexing', Safe',
           r.pc = "off" \/ r.mem = disk',
           r.pc \notin {"send", "wait"},
           r.view \subseteq run[p].view, r.spent \subseteq run[p].spent,
           r.cmd = "unshield" /\ r.pc = "build" => r.live = Confirmed(disk')
    PROVE  IInv'
<1>1. History'
  BY DEF IInv, History
<1>2. Fit(r)'
  <2>1. disk'.next_note <= disk'.next_note
    BY PoolAssumption DEF TypeOK, Secrets
  <2>2. Informed(r)'
    BY RunningFacts DEF Fit, Informed, SpentNotes, Ins
  <2> QED
    BY <2>1, <2>2 DEF Fit, Copied, InHand, Counting
<1> QED
  BY <1>1, <1>2, OthersOff, CommandKeeps

(* sync_notes drops only spent notes and confirms only landed ones.         *)
LEMMA SyncSaveKeeps ==
    ASSUME IInv, TypeOK', NEW p \in Procs, SyncSave(p)
    PROVE  IInv'
<1> DEFINE L == Outs(run[p].view)
           s == SyncNotes(run[p].mem, L, run[p].ep, run[p].spent)
<1>1. /\ Busy(p) /\ disk' = s
      /\ UNCHANGED <<mined, mempool, reorgs, signed, sent, imports>>
  BY DEF SyncSave, Busy, Off, At, Save, poolVars
<1>2. /\ run[p].mem.notes = disk.notes /\ disk.next_note <= run[p].mem.next_note
      /\ run[p].view \subseteq mined
      /\ \A x \in run[p].spent : x[1] \in SpentNotes
  BY <1>1, RunningFacts DEF Fit, Copied, Informed, Busy, Off
<1>3. PICK r :
        /\ run' = [run EXCEPT ![p] = r]
        /\ r.pc \in {"plan", "logs", "off"}
        /\ r.pc = "off" \/ r.mem = s
        /\ r.view = {} /\ r.spent = {}
  <2>1. \A cmd, pc : /\ Invoked(cmd, pc, s).pc = pc /\ Invoked(cmd, pc, s).mem = s
                     /\ Invoked(cmd, pc, s).view = {} /\ Invoked(cmd, pc, s).spent = {}
    BY DEF Invoked, Idle
  <2>2. Idle.pc = "off" /\ Idle.view = {} /\ Idle.spent = {}
    BY DEF Idle
  <2>3. \/ run' = [run EXCEPT ![p] = Invoked("unshield", "plan", s)]
        \/ run' = [run EXCEPT ![p] = Invoked("rescan", "logs", s)]
        \/ run' = [run EXCEPT ![p] = Idle]
    BY RunningFacts DEF SyncSave
  <2> HIDE DEF s
  <2> QED
    BY <2>1, <2>2, <2>3
<1>4. /\ s.next_note = run[p].mem.next_note
      /\ s.notes = {Synced(sv, L) : sv \in {x \in disk.notes :
                                              Kept(x, L, run[p].ep, run[p].spent)}}
  BY <1>2, RunningFacts DEF SyncNotes, Secrets
<1>5. L \subseteq Leaves
  BY <1>2 DEF Leaves, Outs
<1>6. \A sv \in disk.notes : /\ Synced(sv, L).note = sv.note
                             /\ ~Synced(sv, L).pending => sv.note \in L \/ ~sv.pending
  BY DEF Synced, Saved
<1>7. NotesOf(s) \subseteq NotesOf(disk)
  BY <1>4, <1>6 DEF NotesOf
<1>8. Outs(sent) \ SpentNotes \subseteq NotesOf(s)
  <2> SUFFICES ASSUME NEW n \in Outs(sent), n \notin SpentNotes
               PROVE  n \in NotesOf(s)
    OBVIOUS
  <2>1. PICK sv \in disk.notes : sv.note = n
    BY DEF IInv, Safe, NoNoteLost, NotesOf
  <2>2. Kept(sv, L, run[p].ep, run[p].spent)
    BY <1>2, <2>1 DEF Kept, Burned
  <2> QED
    BY <1>4, <1>6, <2>1, <2>2 DEF NotesOf
<1>9. Confirmed(s) \subseteq Leaves
  <2> SUFFICES ASSUME NEW x \in s.notes, ~x.pending  PROVE x.note \in Leaves
    BY DEF Confirmed
  <2>1. PICK sv \in disk.notes : x = Synced(sv, L)
    BY <1>4
  <2>2. ~sv.pending => sv.note \in Leaves
    BY DEF IInv, Safe, ConfirmedMeansLanded, Confirmed
  <2> QED
    BY <1>5, <1>6, <2>1, <2>2
<1> HIDE DEF s, L
<1>10. Indexing' /\ Safe'
  BY <1>1, <1>2, <1>4, <1>7, <1>8, <1>9, SiftedFile DEF EveryNote
<1> QED
  BY <1>1, <1>3, <1>10, SaveKeeps

(* unshield counts on the confirmed notes of its file.                      *)
LEMMA UnshieldPlanKeeps ==
    ASSUME IInv, TypeOK', NEW p \in Procs, NEW next \in BOOLEAN, UnshieldPlan(p, next)
    PROVE  IInv'
<1>1. /\ Busy(p)
      /\ disk' \in {disk, run[p].mem}
      /\ UNCHANGED <<mined, mempool, reorgs, signed, sent, imports>>
  BY DEF UnshieldPlan, Busy, Off, At, Save, poolVars
<1>2. run[p].mem.notes = disk.notes /\ disk.next_note <= run[p].mem.next_note
  BY <1>1, RunningFacts DEF Fit, Copied, Busy, Off
<1>3. /\ disk'.notes = disk.notes
      /\ disk.next_note <= disk'.next_note
      /\ disk'.next_note <= run[p].mem.next_note
  BY <1>1, <1>2, RunningFacts
<1>4. Indexing' /\ Safe' /\ Confirmed(disk') = Confirmed(disk)
  BY <1>1, <1>3, SameNotes
<1>5. PICK r : r = [run[p] EXCEPT !.live = Confirmed(run[p].mem),
                                  !.ep = epoch, !.pc = "build"]
  OBVIOUS
<1>6. /\ run' = [run EXCEPT ![p] = r]
      /\ r.pc = "build" /\ r.mem = run[p].mem /\ r.live = Confirmed(run[p].mem)
      /\ r.view = run[p].view /\ r.spent = run[p].spent
  BY <1>5, RunningFacts DEF UnshieldPlan, Invocation
<1>7. Confirmed(run[p].mem) = Confirmed(disk)
  BY <1>2 DEF Confirmed
<1>8. History'
  BY <1>1 DEF IInv, History
<1>9. Fit(r)'
  <2>1. Informed(r)'
    BY <1>1, <1>6, RunningFacts DEF Fit, Informed, SpentNotes, Ins
  <2>2. Copied(r)' /\ InHand(r)' /\ Counting(r)'
    BY <1>2, <1>3, <1>4, <1>6, <1>7 DEF Copied, InHand, Counting
  <2> QED
    BY <2>1, <2>2 DEF Fit
<1> QED
  BY <1>1, <1>4, <1>6, <1>8, <1>9, OthersOff, CommandKeeps

(* A merge or a final spend takes landed notes and a fresh index.           *)
LEMMA BuildSpendKeeps ==
    ASSUME IInv, TypeOK', NEW p \in Procs, NEW ins \in SUBSET run[p].live,
           NEW last \in BOOLEAN, NEW max \in BOOLEAN, NEW change \in Changes(p),
           BuildSpend(p, ins, last, max, change)
    PROVE  IInv'
<1> DEFINE s == IF max THEN run[p].mem ELSE Allocate(run[p].mem)
           saved == [s EXCEPT !.notes = @ \cup {Saved(n, TRUE) : n \in change}]
<1>1. /\ Busy(p) /\ run[p].cmd = "unshield" /\ run[p].pc = "build"
      /\ UNCHANGED <<mined, mempool, reorgs, sent, imports>>
      /\ signed' = signed + 1
      /\ IF change = {} THEN disk' = disk ELSE disk' = saved
      /\ max => change = {}
      /\ max \/ run[p].mem.next_note < MaxNotes
  BY DEF BuildSpend, Busy, Off, At, Save, poolVars
<1>2. /\ run[p].mem \in Secrets
      /\ run[p].mem.notes = disk.notes /\ disk.next_note <= run[p].mem.next_note
      /\ run[p].live = Confirmed(disk)
  BY <1>1, RunningFacts DEF Fit, Copied, Counting, Busy, Off
<1>3. ins \subseteq Leaves
  BY <1>2 DEF IInv, Safe, ConfirmedMeansLanded
<1>4. PICK r : r = [run[p] EXCEPT !.mem = saved, !.tx = NewTx(p, ins, change),
                                  !.last = last, !.pc = "send"]
  OBVIOUS
<1>5. /\ run' = [run EXCEPT ![p] = r]
      /\ r.pc = "send" /\ r.mem = saved /\ r.live = run[p].live
      /\ r.view = run[p].view /\ r.spent = run[p].spent
      /\ r.tx.id = signed + 1 /\ r.tx.outs = change /\ r.tx.ins = ins
  <2>1. run' = [run EXCEPT ![p] = r]
    BY <1>4, RunningFacts DEF BuildSpend
  <2> HIDE DEF saved
  <2> QED
    BY <1>4, <2>1, RunningFacts DEF NewTx, Invocation
<1>6. CASE change = {}
  <2>1. saved.notes = disk.notes /\ disk.next_note <= saved.next_note
    <3>1. {Saved(n, TRUE) : n \in change} = {}
      BY <1>6
    <3>2. s \in [next_note : Nat, notes : SUBSET SavedNote]
      BY <1>2, PoolAssumption DEF Allocate, Secrets
    <3>3. s.notes = disk.notes /\ disk.next_note <= s.next_note
      BY <1>2, RunningFacts DEF Allocate, Secrets
    <3> HIDE DEF s
    <3> QED
      BY <3>1, <3>2, <3>3
  <2> HIDE DEF saved
  <2>2. disk' = disk
    BY <1>1, <1>6
  <2>3. disk.next_note <= disk'.next_note
    BY <2>2, RunningFacts
  <2>4. Indexing' /\ Safe'
    BY <1>1, <2>2, <2>3, SameNotes
  <2>5. /\ signed \in Nat
        /\ \A t \in sent : t.id \in Nat /\ t.id <= signed
    BY DEF IInv, TypeOK, Tx, History
  <2>6. History'
    BY <1>1, <2>5 DEF IInv, History
  <2>7. Fit(r)'
    <3>1. Copied(r)' /\ Counting(r)'
      BY <1>2, <1>5, <2>1, <2>2 DEF Copied, Counting, Confirmed
    <3>2. Informed(r)'
      BY <1>1, <1>5, RunningFacts DEF Fit, Informed, SpentNotes, Ins
    <3>3. InHand(r)'
      <4>1. Leaves' = Leaves
        BY <1>1 DEF Leaves, Outs
      <4>2. Indexes({}) = {}
        BY DEF Indexes
      <4> QED
        BY <1>1, <1>3, <1>5, <1>6, <2>5, <4>1, <4>2 DEF InHand
    <3> QED
      BY <3>1, <3>2, <3>3 DEF Fit
  <2> QED
    BY <1>1, <1>5, <2>4, <2>6, <2>7, OthersOff, CommandKeeps
<1>7. CASE change # {}
  <2>1. PICK v \in Values : change = {[index |-> run[p].mem.next_note, value |-> v]}
    BY <1>7 DEF Changes
  <2>2. PICK n : n = [index |-> run[p].mem.next_note, value |-> v]
    OBVIOUS
  <2>3. ~max /\ disk' = saved /\ run[p].mem.next_note < MaxNotes
    BY <1>1, <1>7
  <2>4. n \in Note /\ n.index = run[p].mem.next_note
    BY <1>2, <2>2, <2>3, PoolAssumption DEF Note, Secrets
  <2>5. /\ saved.next_note = n.index + 1
        /\ saved.notes = disk.notes \cup {Saved(n, TRUE)}
    <3>1. {Saved(x, TRUE) : x \in change} = {Saved(n, TRUE)}
      BY <2>1, <2>2
    <3>2. s = [run[p].mem EXCEPT !.next_note = @ + 1]
      BY <2>3 DEF Allocate
    <3> HIDE DEF s
    <3> QED
      BY <1>2, <2>4, <3>1, <3>2 DEF Secrets
  <2> HIDE DEF saved
  <2> QED
    BY <1>1, <1>2, <1>3, <1>5, <2>1, <2>2, <2>3, <2>4, <2>5, SignFreshKeeps
<1> QED
  BY <1>6, <1>7

(* A receipt is about the very transaction that was sent.                   *)
LEMMA ReceiptMeansLanded ==
    ASSUME IInv, NEW p \in Procs, At(p, "wait"), HasReceipt(p)
    PROVE  run[p].tx.ins \subseteq SpentNotes /\ run[p].tx.outs \subseteq Leaves
<1>1. PICK m \in mined : m.id = run[p].tx.id
  BY DEF HasReceipt
<1>2. run[p].tx \in sent
  BY RunningFacts DEF Fit, InHand, At
<1>3. Unlanded(m) = run[p].tx
  <2>1. Unlanded(m) \in sent /\ Unlanded(m).id = m.id
    BY DEF IInv, History, Unlanded
  <2> QED
    BY <1>1, <1>2, <2>1 DEF IInv, History
<1>4. m.ins = run[p].tx.ins /\ m.outs = run[p].tx.outs
  BY <1>3 DEF Unlanded
<1> QED
  BY <1>4 DEF SpentNotes, Leaves, Ins, Outs

(* replace_notes forgets the inputs, which are spent, and confirms a change *)
(* that has landed; other pending entries stay.                             *)
LEMMA SpendReceiptKeeps ==
    ASSUME IInv, TypeOK', NEW p \in Procs, SpendReceipt(p)
    PROVE  IInv'
<1> DEFINE live == (run[p].live \ run[p].tx.ins) \cup run[p].tx.outs
           s == ReplaceNotes(run[p].mem, live)
<1>1. /\ Busy(p) /\ At(p, "wait") /\ run[p].cmd = "unshield" /\ HasReceipt(p)
      /\ disk' = s
      /\ UNCHANGED <<mined, mempool, reorgs, signed, sent, imports>>
  BY DEF SpendReceipt, Busy, Off, At, Save, poolVars
<1>2. /\ run[p].mem \in Secrets
      /\ run[p].mem.notes = disk.notes /\ disk.next_note <= run[p].mem.next_note
      /\ run[p].live = Confirmed(disk)
      /\ run[p].tx.outs \subseteq NotesOf(disk)
  BY <1>1, RunningFacts DEF Fit, Copied, Counting, InHand, Busy, Off, At
<1>3. run[p].tx.ins \subseteq SpentNotes /\ run[p].tx.outs \subseteq Leaves
  BY <1>1, ReceiptMeansLanded
<1>4. /\ s.next_note = run[p].mem.next_note
      /\ s.notes = {Saved(n, FALSE) : n \in live} \cup
                   {sv \in disk.notes :
                       sv.pending /\ \A n \in live : sv.note.index # n.index}
  BY <1>2 DEF ReplaceNotes, Secrets, SameSecrets
<1>5. /\ \A n \in live : Saved(n, FALSE) \in s.notes
      /\ \A x \in s.notes :
            \/ \E n \in live : x = Saved(n, FALSE)
            \/ x \in disk.notes /\ x.pending
      /\ \A x \in disk.notes :
             x.pending /\ (\A n \in live : x.note.index # n.index) => x \in s.notes
  <2> HIDE DEF s, live
  <2> QED
    BY <1>4
<1>6. live \subseteq NotesOf(disk) /\ live \subseteq Leaves
  <2>1. Confirmed(disk) \subseteq NotesOf(disk)
    BY DEF Confirmed, NotesOf
  <2>2. Confirmed(disk) \subseteq Leaves
    BY DEF IInv, Safe, ConfirmedMeansLanded
  <2> QED
    BY <1>2, <1>3, <2>1, <2>2
<1>7. \A n : Saved(n, FALSE).note = n /\ ~Saved(n, FALSE).pending
  BY DEF Saved
<1>8. Confirmed(s) = live
  <2> HIDE DEF s, live
  <2>1. ASSUME NEW n \in live  PROVE n \in Confirmed(s)
    BY <1>5, <1>7 DEF Confirmed
  <2>2. ASSUME NEW x \in s.notes, ~x.pending  PROVE x.note \in live
    <3>1. PICK n \in live : x = Saved(n, FALSE)
      BY <1>5, <2>2
    <3> QED
      BY <1>7, <3>1
  <2>3. Confirmed(s) \subseteq live
    BY <2>2 DEF Confirmed
  <2> QED
    BY <2>1, <2>3
<1>9. NotesOf(s) \subseteq NotesOf(disk)
  <2> SUFFICES ASSUME NEW x \in s.notes  PROVE x.note \in NotesOf(disk)
    BY DEF NotesOf
  <2> HIDE DEF s, live
  <2>1. CASE \E n \in live : x = Saved(n, FALSE)
    <3>1. PICK n \in live : x = Saved(n, FALSE)
      BY <2>1
    <3> QED
      BY <1>6, <1>7, <3>1
  <2>2. CASE x \in disk.notes
    BY <2>2 DEF NotesOf
  <2> QED
    BY <1>5, <2>1, <2>2
<1>10. Outs(sent) \ SpentNotes \subseteq NotesOf(s)
  <2> SUFFICES ASSUME NEW n \in Outs(sent), n \notin SpentNotes
               PROVE  n \in NotesOf(s)
    OBVIOUS
  <2>1. PICK sv \in disk.notes : sv.note = n
    BY DEF IInv, Safe, NoNoteLost, NotesOf
  <2>2. live \subseteq NotesOf(s)
    <3> SUFFICES ASSUME NEW m \in live  PROVE m \in NotesOf(s)
      OBVIOUS
    <3> HIDE DEF s, live
    <3>1. Saved(m, FALSE) \in s.notes /\ Saved(m, FALSE).note = m
      BY <1>5, <1>7
    <3> QED
      BY <3>1 DEF NotesOf
  <2>3. CASE ~sv.pending
    <3>1. n \in run[p].live
      BY <1>2, <2>1, <2>3 DEF Confirmed
    <3> QED
      BY <1>3, <2>2, <3>1
  <2>4. CASE sv.pending /\ \E m \in live : m.index = n.index
    <3>1. PICK m \in live : m.index = n.index
      BY <2>4
    <3>2. m \in EveryNote /\ n \in EveryNote
      BY <1>6, <3>1 DEF EveryNote
    <3>3. m = n
      BY <3>1, <3>2 DEF IInv, Indexing, OneNotePerIndex
    <3> QED
      BY <2>2, <3>3
  <2>5. CASE sv.pending /\ \A m \in live : m.index # n.index
    <3>1. sv \in s.notes
      BY <1>5, <2>1, <2>5
    <3> QED
      BY <2>1, <3>1 DEF NotesOf
  <2> QED
    BY <2>3, <2>4, <2>5
<1>11. PICK r :
         /\ run' = [run EXCEPT ![p] = r]
         /\ \/ r.pc = "off" /\ r.view = {} /\ r.spent = {}
            \/ /\ r.pc = "build" /\ r.mem = s /\ r.live = live
               /\ r.view = run[p].view /\ r.spent = run[p].spent
  <2> DEFINE b == [run[p] EXCEPT !.mem = s, !.live = live, !.tx = NoTx, !.pc = "build"]
  <2>1. run' = [run EXCEPT ![p] = Idle] \/ run' = [run EXCEPT ![p] = b]
    BY RunningFacts DEF SpendReceipt
  <2>2. /\ b.pc = "build" /\ b.mem = s /\ b.live = live
        /\ b.view = run[p].view /\ b.spent = run[p].spent
    <3> HIDE DEF s, live
    <3> QED
      BY RunningFacts DEF Invocation
  <2>3. Idle.pc = "off" /\ Idle.view = {} /\ Idle.spent = {}
    BY DEF Idle
  <2> HIDE DEF b
  <2> QED
    BY <2>1, <2>2, <2>3
<1> HIDE DEF s, live
<1>12. Indexing' /\ Safe'
  <2>1. NotesOf(s) \subseteq EveryNote
    BY <1>9 DEF EveryNote
  <2>2. Confirmed(s) \subseteq Leaves
    BY <1>6, <1>8
  <2> QED
    BY <1>1, <1>2, <1>4, <1>10, <2>1, <2>2, SiftedFile
<1> QED
  BY <1>1, <1>8, <1>11, <1>12, SaveKeeps

(* What a rescan takes for spent is among the notes that it found, and is   *)
(* spent on chain.                                                          *)
LEMMA SpentWasFound ==
    ASSUME NEW p \in Procs, NEW readable \in SUBSET run[p].view,
           run[p].view \subseteq mined, \A x \in run[p].spent : x[1] \in SpentNotes,
           NEW P \in Recoveries(readable),
           NEW gone \in SpentSets(P, readable, run[p].view, run[p].ep, run[p].spent)
    PROVE  gone \subseteq Outs(P) /\ gone \subseteq SpentNotes
<1> DEFINE burnt == Burnt(Outs(P), run[p].view, run[p].ep, run[p].spent)
<1>1. PICK H \in SUBSET {n \in Outs(P) : \E t \in readable : HalfCovers(t) /\ n \in t.ins} :
        gone = Ins(P) \cup burnt \cup H
  BY DEF SpentSets
<1>2. Ins(P) \subseteq Outs(P) /\ P \subseteq mined
  BY RecoveriesType DEF Recoveries, Sound
<1>3. Ins(P) \subseteq SpentNotes
  BY <1>2 DEF SpentNotes, Ins
<1>4. burnt \subseteq Outs(P) /\ burnt \subseteq SpentNotes
  BY DEF Burnt
<1>5. H \subseteq Outs(P) /\ H \subseteq SpentNotes
  BY DEF SpentNotes, Ins
<1> HIDE DEF burnt
<1> QED
  BY <1>1, <1>2, <1>3, <1>4, <1>5

(* A rescan finds only notes that were sent, drops only notes that are      *)
(* spent, and does not take an index back.                                  *)
LEMMA RescanApplyKeeps ==
    ASSUME IInv, TypeOK', NEW p \in Procs, NEW readable \in SUBSET run[p].view,
           RescanApply(p, readable)
    PROVE  IInv'
<1>0. PICK P \in Recoveries(readable) :
        \E g \in SpentSets(P, readable, run[p].view, run[p].ep, run[p].spent) :
            disk' = MergeFound(run[p].mem, Outs(P), g)
  BY DEF RescanApply, Save
<1>1. PICK gone \in SpentSets(P, readable, run[p].view, run[p].ep, run[p].spent) :
        disk' = MergeFound(run[p].mem, Outs(P), gone)
  BY <1>0
<1> DEFINE F == Outs(P)
           s == MergeFound(run[p].mem, F, gone)
           left == {sv \in disk.notes : sv.note.index \notin Indexes(gone)}
<1>2. /\ Busy(p)
      /\ run' = [run EXCEPT ![p] = Idle]
      /\ UNCHANGED <<mined, mempool, reorgs, signed, sent, imports>>
  BY DEF RescanApply, Busy, Off, At, poolVars
<1>3. /\ run[p].mem \in Secrets
      /\ run[p].mem.notes = disk.notes /\ disk.next_note <= run[p].mem.next_note
      /\ run[p].view \subseteq mined
      /\ \A x \in run[p].spent : x[1] \in SpentNotes
  BY <1>2, RunningFacts DEF Fit, Copied, Informed, Busy, Off
<1>4. Leaves \subseteq Outs(sent)
  <2> SUFFICES ASSUME NEW m \in mined  PROVE m.outs \subseteq Outs(sent)
    BY DEF Leaves, Outs
  <2>1. Unlanded(m) \in sent /\ Unlanded(m).outs = m.outs
    BY DEF IInv, History, Unlanded
  <2> QED
    BY <2>1 DEF Outs
<1>5. F \subseteq Leaves
  <2>1. F \subseteq Outs(readable)
    BY RecoveriesType
  <2>2. Outs(readable) \subseteq Leaves
    BY <1>3 DEF Leaves, Outs
  <2> QED
    BY <2>1, <2>2
<1>6. gone \subseteq F /\ gone \subseteq SpentNotes
  BY <1>3, SpentWasFound
<1>7. disk.next_note <= s.next_note
  <2>1. F \in SUBSET Note
    <3>1. Leaves \subseteq Note
      BY DEF IInv, TypeOK, PoolTypeOK, MinedTx, Leaves, Outs
    <3> QED
      BY <1>5, <3>1
  <2>2. s \in Secrets /\ run[p].mem.next_note <= s.next_note
    BY <1>3, <2>1, MergeFoundType
  <2> HIDE DEF s
  <2> QED
    BY <1>3, <2>2, RunningFacts, PoolAssumption DEF Secrets
<1>8. /\ left \subseteq s.notes
      /\ \A x \in s.notes : x \in left \/ \E n \in F : x = Saved(n, FALSE)
  BY <1>3 DEF MergeFound
<1>9. \A n : Saved(n, FALSE).note = n /\ ~Saved(n, FALSE).pending
  BY DEF Saved
<1> HIDE DEF s, F
<1>10. ASSUME NEW x \in s.notes
       PROVE  /\ x.note \in EveryNote
              /\ ~x.pending => x.note \in Leaves
  <2>1. CASE x \in left
    <3>1. x \in disk.notes
      BY <2>1
    <3> QED
      BY <3>1 DEF EveryNote, NotesOf, IInv, Safe, ConfirmedMeansLanded, Confirmed
  <2>2. CASE \E n \in F : x = Saved(n, FALSE)
    <3>1. PICK n \in F : x = Saved(n, FALSE)
      BY <2>2
    <3> QED
      BY <1>4, <1>5, <1>9, <3>1 DEF EveryNote
  <2> QED
    BY <1>8, <2>1, <2>2
<1>11. Outs(sent) \ SpentNotes \subseteq NotesOf(s)
  <2> SUFFICES ASSUME NEW n \in Outs(sent), n \notin SpentNotes
               PROVE  n \in NotesOf(s)
    OBVIOUS
  <2>1. PICK sv \in disk.notes : sv.note = n
    BY DEF IInv, Safe, NoNoteLost, NotesOf
  <2>2. ASSUME NEW g \in gone  PROVE g.index # n.index
    <3>1. g \in EveryNote /\ n \in EveryNote /\ g # n
      BY <1>4, <1>5, <1>6 DEF EveryNote
    <3> QED
      BY <3>1 DEF IInv, Indexing, OneNotePerIndex
  <2>3. sv \in left
    BY <2>1, <2>2 DEF Indexes
  <2> QED
    BY <1>8, <2>1, <2>3 DEF NotesOf
<1>12. Indexing' /\ Safe'
  <2>1. NotesOf(s) \subseteq EveryNote /\ Confirmed(s) \subseteq Leaves
    BY <1>10 DEF NotesOf, Confirmed
  <2>2. disk' = s
    BY <1>1 DEF s, F
  <2> QED
    BY <1>2, <1>7, <1>11, <2>1, <2>2, SiftedFile
<1>13. Idle.pc = "off" /\ Idle.view = {} /\ Idle.spent = {}
  BY DEF Idle
<1> QED
  BY <1>2, <1>12, <1>13, SaveKeeps

-----------------------------------------------------------------------------
(* The invariant.                                                           *)

(* It holds before the first command.                                       *)
LEMMA InitSafe == Init => IInv
<1> SUFFICES ASSUME Init  PROVE IInv
  OBVIOUS
<1>1. TypeOK
  BY IdleType DEF Init, PoolInit, TypeOK, PoolTypeOK
<1>2. \A p \in Procs : run[p] = Idle /\ Off(p)
  BY DEF Init, Off, Idle
<1>3. Solo
  BY <1>2 DEF Solo, Busy
<1>4. Undisturbed /\ History
  BY DEF Init, PoolInit, Undisturbed, History
<1>5. /\ disk.notes = {} /\ sent = {} /\ Outs(sent) = {} /\ Ins(sent) = {}
      /\ NotesOf(disk) = {} /\ Confirmed(disk) = {}
  BY DEF Init, FreshSecrets, Outs, Ins, NotesOf, Confirmed
<1>6. Indexing /\ Safe
  BY <1>5 DEF Indexing, EveryNote, OneNotePerIndex, Safe, NoNoteLost, OneIndexPerNote,
              ConfirmedMeansLanded, SpendsOnlyLanded
<1>7. \A p \in Procs : Fit(run[p])
  BY <1>2, IdleFits
<1> QED
  BY <1>1, <1>3, <1>4, <1>6, <1>7 DEF IInv

(* Every step of a command keeps it: one case per action.                   *)
LEMMA CommandSafe ==
    ASSUME IInv, Alone, NEW p \in Procs, Command(p)
    PROVE  IInv'
<1>1. TypeOK'
  BY CommandTypeStep DEF IInv
<1>2. ASSUME NEW cmd \in Commands, Start(p, cmd)  PROVE IInv'
  BY <1>1, <1>2, StartKeeps
<1>3. ASSUME NextFresh(p)  PROVE IInv'
  BY <1>1, <1>3, NextFreshKeeps
<1>4. ASSUME Shield(p)  PROVE IInv'
  BY <1>1, <1>4, ReadKeeps, ShieldSignKeeps, EndKeeps DEF Shield
<1>5. ASSUME Broadcast(p)  PROVE IInv'
  BY <1>1, <1>5, BroadcastKeeps
<1>6. ASSUME Sync(p)  PROVE IInv'
  BY <1>1, <1>6, ReadKeeps, SyncSaveKeeps DEF Sync
<1>7. ASSUME Unshield(p)  PROVE IInv'
  BY <1>1, <1>7, UnshieldPlanKeeps, BuildSpendKeeps, SpendReceiptKeeps DEF Unshield
<1>8. ASSUME Rescan(p)  PROVE IInv'
  BY <1>1, <1>8, ReadKeeps, RescanApplyKeeps DEF Rescan
<1>9. ASSUME Import(p)  PROVE FALSE
  BY <1>9 DEF Import, Alone, IInv, TypeOK
<1>10. ASSUME Fail(p)  PROVE IInv'
  BY <1>1, <1>10, EndKeeps
<1> QED
  BY <1>2, <1>3, <1>4, <1>5, <1>6, <1>7, <1>8, <1>9, <1>10 DEF Command

(* A step that changes nothing keeps it.                                    *)
LEMMA StutterSafe == IInv /\ UNCHANGED vars => IInv'
<1> SUFFICES ASSUME IInv, UNCHANGED vars  PROVE IInv'
  OBVIOUS
<1>1. UNCHANGED <<mined, mempool, epoch, reorgs, disk, run, signed, sent, imports>>
  BY DEF vars
<1>2. TypeOK'
  BY <1>1 DEF IInv, TypeOK, PoolTypeOK
<1>3. Solo' /\ Undisturbed' /\ History' /\ Indexing' /\ Safe'
  BY <1>1 DEF IInv, Solo, Busy, Off, Undisturbed, History, Indexing, EveryNote,
     Safe, NoNoteLost, OneIndexPerNote, ConfirmedMeansLanded, SpendsOnlyLanded,
     Leaves, SpentNotes, Outs, Ins, NotesOf, Confirmed, Indexes
<1>4. \A p \in Procs : Fit(run[p])'
  BY <1>1 DEF IInv, Fit, Copied, Informed, InHand, Counting,
     Leaves, SpentNotes, Outs, Ins, NotesOf, Confirmed, Indexes
<1> QED
  BY <1>2, <1>3, <1>4 DEF IInv

(* IInv is an invariant of NoteWallet when commands do not overlap, no      *)
(* transaction is taken back and the mnemonic is not imported again.        *)
THEOREM Inductive == ASSUME Alone  PROVE Spec => []IInv
<1>1. Init => IInv
  BY InitSafe
<1>2. IInv /\ [Next]_vars => IInv'
  <2>1. IInv /\ Pool => TypeOK'
    BY PoolTypeStep DEF IInv
  <2> QED
    BY <2>1, PoolKeeps, CommandSafe, StutterSafe DEF Next
<1> QED
  BY <1>1, <1>2, PTL DEF Spec

(* Under the same circumstances no note is lost after a hand-over, whatever *)
(* fails (flow.rs:482); no index is used twice (wallet.rs:57); confirmed    *)
(* money has landed; and no spend is sent before its inputs have.           *)
THEOREM NotesAreSafe ==
    ASSUME Alone
    PROVE  Spec => [](/\ NoNoteLost
                      /\ OneIndexPerNote
                      /\ ConfirmedMeansLanded
                      /\ SpendsOnlyLanded)
<1>1. IInv => NoNoteLost /\ OneIndexPerNote /\ ConfirmedMeansLanded /\ SpendsOnlyLanded
  BY DEF IInv, Safe
<1> QED
  BY <1>1, Inductive, PTL

-----------------------------------------------------------------------------
(* The custody promise: what it needs besides IInv.                         *)

(* What a command hands to a mempool it counts as sent, and only an import  *)
(* counts as one.                                                           *)
LEMMA WhatIsCounted ==
    ASSUME NEW p \in Procs, Command(p)
    PROVE  /\ UNCHANGED mined
           /\ UNCHANGED <<mempool, sent>> \/ Broadcast(p)
           /\ imports' = imports \/ Import(p)
<1> USE DEF poolVars
<1>1. CASE \/ \E cmd \in Commands : Start(p, cmd)
           \/ NextFresh(p) \/ Fail(p) \/ Import(p)
  BY <1>1 DEF Start, NextFresh, Fail, Import
<1>2. CASE Shield(p)
  BY <1>2 DEF Shield, ShieldEpoch, ShieldSign, ShieldReceipt
<1>3. CASE Broadcast(p)
  BY <1>3 DEF Broadcast
<1>4. CASE Sync(p)
  BY <1>4 DEF Sync, SyncTree, SyncEpoch, SyncSpent, SyncSave
<1>5. CASE Unshield(p)
  <2>1. ASSUME NEW next \in BOOLEAN, UnshieldPlan(p, next)
        PROVE  UNCHANGED <<mined, mempool, sent, imports>>
    BY <2>1 DEF UnshieldPlan
  <2>2. ASSUME NEW ins, NEW last, NEW max, NEW change,
               BuildSpend(p, ins, last, max, change)
        PROVE  UNCHANGED <<mined, mempool, sent, imports>>
    BY <2>2 DEF BuildSpend
  <2>3. ASSUME SpendReceipt(p)  PROVE UNCHANGED <<mined, mempool, sent, imports>>
    BY <2>3 DEF SpendReceipt
  <2> QED
    BY <1>5, <2>1, <2>2, <2>3 DEF Unshield
<1>6. CASE Rescan(p)
  <2>1. UNCHANGED <<mined, mempool, sent, imports>>
    BY <1>6 DEF Rescan, RescanLogs, RescanBurns, RescanApply
  <2> QED
    BY <2>1
<1> QED
  BY <1>1, <1>2, <1>3, <1>4, <1>5, <1>6 DEF Command

(* A transaction is sent once and mined once.                               *)
LEMMA ApartStep ==
    ASSUME Alone, IInv, Apart, [Next]_vars
    PROVE  Apart'
<1>1. CASE Pool
  <2>1. ASSUME NEW t \in mempool, Mine(t)  PROVE Apart'
    <3>1. Landed(t).id = t.id
      BY DEF Landed
    <3>2. \A u \in mempool : u # t => u.id # t.id
      BY DEF IInv, History
    <3> QED
      BY <2>1, <3>1, <3>2 DEF Mine, Apart
  <2>2. ASSUME NEW t \in mempool, Drop(t)  PROVE Apart'
    BY <2>2 DEF Drop, Apart
  <2>3. ASSUME RollEpoch  PROVE Apart'
    BY <2>3 DEF RollEpoch, Apart
  <2>4. ASSUME NEW m \in mined, Reorg(m)  PROVE FALSE
    BY <2>4 DEF Reorg, Alone, IInv, TypeOK, PoolTypeOK
  <2> QED
    BY <1>1, <2>1, <2>2, <2>3, <2>4 DEF Pool, PoolNext
<1>2. ASSUME NEW p \in Procs, Command(p)  PROVE Apart'
  <2>2. UNCHANGED mined /\ (mempool' = mempool \/ Broadcast(p))
    BY <1>2, WhatIsCounted
  <2>3. ASSUME Broadcast(p)  PROVE Apart'
    <3>1. \A t \in sent : t.id # run[p].tx.id
      BY <2>3, RunningFacts DEF Broadcast, At, Fit, InHand
    <3>2. \A m \in mined : m.id # run[p].tx.id
      <4>1. \A m \in mined : Unlanded(m) \in sent /\ Unlanded(m).id = m.id
        BY DEF IInv, History, Unlanded
      <4> QED
        BY <3>1, <4>1
    <3> QED
      BY <2>2, <2>3, <3>2 DEF Broadcast, Apart
  <2> QED
    BY <2>2, <2>3 DEF Apart
<1>3. CASE UNCHANGED vars
  BY <1>3 DEF Apart, vars
<1> QED
  BY <1>1, <1>2, <1>3 DEF Next

(* What has landed was sent, and what is spent has landed.                  *)
LEMMA LandedWasSent ==
    ASSUME IInv
    PROVE  /\ Leaves \subseteq Outs(sent)
           /\ SpentNotes \subseteq Leaves
           /\ Outs(mempool) \subseteq Outs(sent)
<1>1. \A m \in mined : /\ Unlanded(m) \in sent
                       /\ Unlanded(m).outs = m.outs /\ Unlanded(m).ins = m.ins
  BY DEF IInv, History, Unlanded
<1>2. Leaves \subseteq Outs(sent) /\ SpentNotes \subseteq Ins(sent)
  BY <1>1 DEF Leaves, SpentNotes, Outs, Ins
<1>3. Ins(sent) \subseteq Leaves /\ mempool \subseteq sent
  BY DEF IInv, Safe, SpendsOnlyLanded, History
<1> QED
  BY <1>2, <1>3 DEF Outs

(* The invariant of the custody promise.                                    *)
LEMMA AlwaysInCustody == ASSUME Alone  PROVE Spec => []CustodyInv
<1>1. Init => Apart
  BY DEF Init, PoolInit, Apart
<1>2. Init => IInv
  BY InitSafe
<1>3. CustodyInv /\ IInv' /\ [Next]_vars => CustodyInv'
  BY ApartStep DEF CustodyInv
<1> QED
  BY <1>1, <1>2, <1>3, Inductive, PTL DEF Spec, CustodyInv

-----------------------------------------------------------------------------
(* NoteWallet keeps the custody promise, step by step.                      *)

(* The file and next_note under a step of a command.                        *)
LEMMA CounterGrows ==
    ASSUME Alone, IInv, [Next]_vars
    PROVE  0..(disk.next_note - 1) \subseteq 0..(disk'.next_note - 1)
<1>1. CopyNotBehind
  BY DEF IInv, CopyNotBehind, Fit, Copied, Busy, Off
<1>2. imports' = imports
  <2>1. ~\E p \in Procs : Import(p)
    BY DEF Import, Alone, IInv, TypeOK
  <2>2. CASE Pool \/ UNCHANGED vars
    BY <2>2 DEF Pool, vars
  <2> QED
    BY <2>1, <2>2, WhatIsCounted DEF Next
<1>3. disk.next_note <= disk'.next_note
  BY <1>1, <1>2, NotBehindStep DEF Alone, IInv
<1>4. disk.next_note \in Nat /\ disk'.next_note \in Nat
  <2>1. TypeOK'
    BY PoolTypeStep, CommandTypeStep DEF IInv, Next, TypeOK, PoolTypeOK, vars
  <2> QED
    BY <2>1, PoolAssumption DEF IInv, TypeOK, Secrets
<1> QED
  BY <1>3, <1>4

(* A save that brings in no note but spent ones forgets only what can never *)
(* be worth anything: whatever is held or in flight was sent and is unspent,*)
(* so it is still in the file.                                              *)
LEMMA Sifting ==
    ASSUME Alone, CustodyInv, IInv', [Next]_vars,
           UNCHANGED <<mined, mempool, sent>>,
           NotesOf(disk') \ NotesOf(disk) \subseteq SpentNotes
    PROVE  Custody!Sift
<1>1. UNCHANGED Outs(sent)
  BY DEF Outs
<1>2. UNCHANGED <<Leaves, SpentNotes, Unspent, Outs(mempool)>>
  BY DEF Leaves, SpentNotes, Unspent, Outs, Ins
<1>3. Outs(mempool) \cap SpentNotes = {}
  <2> SUFFICES ASSUME NEW t \in mempool, NEW m \in mined  PROVE t.outs \cap m.outs = {}
    BY LandedWasSent DEF CustodyInv, Leaves, Outs
  <2>1. /\ t \in sent /\ Unlanded(m) \in sent
        /\ Unlanded(m).outs = m.outs /\ Unlanded(m).id = m.id
    BY DEF CustodyInv, IInv, History, Unlanded
  <2>2. t # Unlanded(m)
    BY <2>1 DEF CustodyInv, Apart
  <2>3. Indexes(t.outs) \cap Indexes(m.outs) = {}
    BY <2>1, <2>2 DEF CustodyInv, IInv, Safe, OneIndexPerNote
  <2> QED
    BY <2>3 DEF Indexes
<1>4. Unspent \cup Outs(mempool) \subseteq NotesOf(disk')
  <2>1. Outs(sent') \ SpentNotes \subseteq NotesOf(disk')
    BY <1>2 DEF IInv, Safe, NoNoteLost, NotesOf
  <2> QED
    BY <1>1, <1>3, <2>1, LandedWasSent DEF CustodyInv, Unspent
<1>5. 0..(disk.next_note - 1) \subseteq 0..(disk'.next_note - 1)
  BY CounterGrows DEF CustodyInv
<1>6. NotesOf(disk)' = NotesOf(disk')
  BY DEF NotesOf
<1>7. /\ SpentNotes \cap Unspent = {}
      /\ SpentNotes \subseteq Outs(sent)
  BY LandedWasSent DEF Unspent, CustodyInv
<1>8. ((NotesOf(disk) \ NotesOf(disk')) \cup (NotesOf(disk') \ NotesOf(disk)))
           \cap (Unspent \cup Outs(mempool)) = {}
  BY <1>3, <1>4, <1>7
<1>9. NotesOf(disk') \ NotesOf(disk) \subseteq Outs(sent)
  BY <1>7
<1> QED
  BY <1>1, <1>2, <1>5, <1>6, <1>8, <1>9 DEF Custody!Sift

(* Mining lands what was in flight; nothing else in a mempool goes with it. *)
LEMMA PoolInCustody ==
    ASSUME Alone, CustodyInv, IInv', Pool
    PROVE  Custody!CustodyNext
<1>1. UNCHANGED <<disk, sent>>
  BY DEF Pool
<1>2. UNCHANGED <<NotesOf(disk), 0..(disk.next_note - 1), Outs(sent)>>
  BY <1>1 DEF NotesOf, Outs
<1>3. ASSUME NEW t \in mempool, Mine(t)  PROVE Custody!Land
  <2>1. \A u \in mempool \ {t} : u.outs \cap t.outs = {}
    <3> SUFFICES ASSUME NEW u \in mempool \ {t}  PROVE u.outs \cap t.outs = {}
      OBVIOUS
    <3>1. u \in sent /\ t \in sent
      BY DEF CustodyInv, IInv, History
    <3>2. Indexes(u.outs) \cap Indexes(t.outs) = {}
      BY <3>1 DEF CustodyInv, IInv, Safe, OneIndexPerNote
    <3> QED
      BY <3>2 DEF Indexes
  <2>2. \A m \in mined : m.outs \cap t.outs = {}
    <3> SUFFICES ASSUME NEW m \in mined  PROVE m.outs \cap t.outs = {}
      OBVIOUS
    <3>1. /\ t \in sent /\ Unlanded(m) \in sent
          /\ Unlanded(m).outs = m.outs /\ Unlanded(m).id = m.id
      BY DEF CustodyInv, IInv, History, Unlanded
    <3>2. t # Unlanded(m)
      BY <3>1 DEF CustodyInv, Apart
    <3>3. Indexes(t.outs) \cap Indexes(m.outs) = {}
      BY <3>1, <3>2 DEF CustodyInv, IInv, Safe, OneIndexPerNote
    <3> QED
      BY <3>3 DEF Indexes
  <2>3. t.outs \cap Leaves = {}
    BY <2>2 DEF Leaves, Outs
  <2>4. t.ins \subseteq Leaves
    BY <1>3 DEF Mine, Acceptable, Leaves, Outs
  <2>5. PICK m : m = Landed(t)
    OBVIOUS
  <2>6. m.ins = t.ins /\ m.outs = t.outs /\ mined' = mined \cup {m}
    BY <1>3, <2>5 DEF Landed, Mine
  <2>7. Leaves' = Leaves \cup t.outs /\ SpentNotes' = SpentNotes \cup t.ins
    BY <2>6 DEF Leaves, SpentNotes, Outs, Ins
  <2>8. Unspent' \ Unspent = t.outs
    BY <2>3, <2>4, <2>7, LandedWasSent DEF Unspent, CustodyInv
  <2>9. t.outs \subseteq Outs(mempool)
    BY DEF Outs
  <2>10. Outs(mempool)' = Outs(mempool) \ t.outs
    <3>1. mempool' = mempool \ {t}
      BY <1>3 DEF Mine
    <3> QED
      BY <2>1, <3>1 DEF Outs
  <2> QED
    BY <1>2, <2>8, <2>9, <2>10 DEF Custody!Land
<1>4. ASSUME NEW t \in mempool, Drop(t)  PROVE Custody!Lose
  BY <1>2, <1>4 DEF Drop, Custody!Lose, Unspent, Leaves, SpentNotes, Outs, Ins
<1>5. ASSUME RollEpoch  PROVE Custody!Lose
  BY <1>2, <1>5 DEF RollEpoch, Custody!Lose, Unspent, Leaves, SpentNotes, Outs, Ins
<1>6. ASSUME NEW m \in mined, Reorg(m)  PROVE FALSE
  BY <1>6 DEF Reorg, Alone, CustodyInv, IInv, TypeOK, PoolTypeOK
<1> QED
  BY <1>3, <1>4, <1>5, <1>6 DEF Pool, PoolNext, Custody!CustodyNext

(* Signing with a new output writes it down under an index never used.      *)
LEMMA SignRemembers ==
    ASSUME Alone, CustodyInv, [Next]_vars, TypeOK', NEW p \in Procs, Busy(p),
           UNCHANGED <<mined, mempool, sent>>, NEW n \in Note,
           n.index = run[p].mem.next_note, disk'.next_note = n.index + 1,
           disk'.notes = run[p].mem.notes \cup {Saved(n, TRUE)}
    PROVE  Custody!Remember
<1>1. /\ run[p].mem.notes = disk.notes
      /\ disk.next_note <= n.index
      /\ disk.next_note \in Int /\ n.index \in Nat
  BY RunningFacts DEF CustodyInv, Fit, Copied, Busy, Off, Note
<1>2. NotesOf(disk)' = NotesOf(disk) \cup {n}
  <2>1. PICK sv : sv = Saved(n, TRUE)
    OBVIOUS
  <2>2. sv.note = n /\ disk'.notes = disk.notes \cup {sv}
    BY <1>1, <2>1 DEF Saved
  <2> QED
    BY <2>2 DEF NotesOf
<1>3. n.index \notin 0..(disk.next_note - 1)
  BY <1>1
<1>4. n.index \in 0..(disk'.next_note - 1)
  BY <1>1
<1>5. UNCHANGED <<Unspent, Outs(mempool), Outs(sent)>>
  BY DEF Unspent, Leaves, SpentNotes, Outs, Ins
<1>6. 0..(disk.next_note - 1) \subseteq 0..(disk'.next_note - 1)
  BY CounterGrows DEF CustodyInv
<1>7. (0..(disk.next_note - 1))' = 0..(disk'.next_note - 1)
  OBVIOUS
<1> QED
  BY <1>2, <1>3, <1>4, <1>5, <1>6, <1>7 DEF Custody!Remember

(* shield and unshield: what is signed is remembered first.                 *)
LEMMA ShieldSignInCustody ==
    ASSUME Alone, CustodyInv, [Next]_vars, TypeOK', NEW p \in Procs,
           NEW v \in Values, ShieldSign(p, v)
    PROVE  Custody!Remember
<1> DEFINE n == [index |-> run[p].mem.next_note, value |-> v]
           s == RememberBorn(Allocate(run[p].mem), n)
<1>1. /\ Busy(p) /\ run[p].mem.next_note < MaxNotes /\ disk' = s
      /\ UNCHANGED <<mined, mempool, sent>>
  BY DEF ShieldSign, Busy, Off, At, Save, poolVars
<1>2. /\ run[p].mem \in Secrets
      /\ n \in Note /\ n.index = run[p].mem.next_note
  BY <1>1, RunningFacts, PoolAssumption DEF CustodyInv, Note, Secrets
<1>3. /\ s.next_note = n.index + 1
      /\ s.notes = run[p].mem.notes \cup {Saved(n, TRUE)}
  BY <1>2 DEF RememberBorn, Allocate, Secrets
<1> HIDE DEF n, s
<1> QED
  BY <1>1, <1>2, <1>3, SignRemembers

LEMMA BuildSpendInCustody ==
    ASSUME Alone, CustodyInv, IInv', [Next]_vars, NEW p \in Procs,
           NEW ins, NEW last, NEW max, NEW change \in Changes(p),
           BuildSpend(p, ins, last, max, change)
    PROVE  Custody!CustodyNext
<1> DEFINE s == IF max THEN run[p].mem ELSE Allocate(run[p].mem)
           saved == [s EXCEPT !.notes = @ \cup {Saved(x, TRUE) : x \in change}]
<1>1. /\ Busy(p) /\ UNCHANGED <<mined, mempool, sent>>
      /\ IF change = {} THEN disk' = disk ELSE disk' = saved
      /\ max => change = {}
      /\ max \/ run[p].mem.next_note < MaxNotes
  BY DEF BuildSpend, Busy, Off, At, Save, poolVars
<1>2. CASE change = {}
  BY <1>1, <1>2, Sifting DEF NotesOf, Custody!CustodyNext
<1>3. CASE change # {}
  <2>1. PICK v \in Values : change = {[index |-> run[p].mem.next_note, value |-> v]}
    BY <1>3 DEF Changes
  <2>2. PICK n : n = [index |-> run[p].mem.next_note, value |-> v]
    OBVIOUS
  <2>3. ~max /\ disk' = saved /\ run[p].mem.next_note < MaxNotes
    BY <1>1, <1>3
  <2>4. run[p].mem \in Secrets /\ n \in Note /\ n.index = run[p].mem.next_note
    BY <2>2, <2>3, RunningFacts, PoolAssumption DEF CustodyInv, Note, Secrets
  <2>5. /\ saved.next_note = n.index + 1
        /\ saved.notes = run[p].mem.notes \cup {Saved(n, TRUE)}
    <3>1. {Saved(x, TRUE) : x \in change} = {Saved(n, TRUE)}
      BY <2>1, <2>2
    <3>2. s = [run[p].mem EXCEPT !.next_note = @ + 1]
      BY <2>3 DEF Allocate
    <3> HIDE DEF s
    <3> QED
      BY <2>4, <3>1, <3>2 DEF Secrets
  <2>6. TypeOK'
    BY DEF IInv
  <2> HIDE DEF saved
  <2> QED
    BY <1>1, <2>3, <2>4, <2>5, <2>6, SignRemembers DEF Custody!CustodyNext
<1> QED
  BY <1>2, <1>3

(* Only what is in the file is handed to a node.                            *)
LEMMA BroadcastInCustody ==
    ASSUME CustodyInv, NEW p \in Procs, Broadcast(p)
    PROVE  Custody!Launch
<1>1. /\ mempool' = mempool \cup {run[p].tx} /\ UNCHANGED <<mined, disk>>
      /\ sent' = sent \cup {run[p].tx}
      /\ run[p].pc = "send"
  BY DEF Broadcast, At
<1>2. run[p].tx.outs \in SUBSET (NotesOf(disk) \ Outs(sent))
  <2>1. /\ run[p].tx.outs \subseteq NotesOf(disk)
        /\ \A t \in sent : Indexes(t.outs) \cap Indexes(run[p].tx.outs) = {}
    BY <1>1, RunningFacts DEF CustodyInv, Fit, InHand
  <2>2. \A t \in sent : t.outs \cap run[p].tx.outs = {}
    BY <2>1 DEF Indexes
  <2> QED
    BY <2>1, <2>2 DEF Outs
<1>3. /\ Outs(mempool)' = Outs(mempool) \cup run[p].tx.outs
      /\ Outs(sent)' = Outs(sent) \cup run[p].tx.outs
  BY <1>1 DEF Outs
<1>4. UNCHANGED <<NotesOf(disk), 0..(disk.next_note - 1), Unspent>>
  BY <1>1 DEF NotesOf, Unspent, Leaves, SpentNotes, Outs, Ins
<1> QED
  BY <1>2, <1>3, <1>4 DEF Custody!Launch

(* The saves after a sync and after a receipt bring in no note.             *)
LEMMA SyncSaveSifts ==
    ASSUME CustodyInv, NEW p \in Procs, SyncSave(p)
    PROVE  NotesOf(disk') \subseteq NotesOf(disk)
<1> DEFINE L == Outs(run[p].view)
<1>1. /\ Busy(p) /\ disk' = SyncNotes(run[p].mem, L, run[p].ep, run[p].spent)
  BY DEF SyncSave, Save, Busy, Off, At
<1>2. run[p].mem \in Secrets /\ run[p].mem.notes = disk.notes
  BY <1>1, RunningFacts DEF CustodyInv, Fit, Copied, Busy, Off
<1>3. disk'.notes = {Synced(sv, L) : sv \in {x \in disk.notes :
                                               Kept(x, L, run[p].ep, run[p].spent)}}
  BY <1>1, <1>2 DEF SyncNotes, Secrets
<1>4. \A sv \in disk.notes : Synced(sv, L).note = sv.note
  BY DEF Synced, Saved
<1> HIDE DEF L
<1> QED
  BY <1>3, <1>4 DEF NotesOf

LEMMA SpendReceiptSifts ==
    ASSUME CustodyInv, NEW p \in Procs, SpendReceipt(p)
    PROVE  NotesOf(disk') \subseteq NotesOf(disk)
<1> DEFINE live == (run[p].live \ run[p].tx.ins) \cup run[p].tx.outs
<1>1. /\ Busy(p) /\ run[p].pc = "wait" /\ run[p].cmd = "unshield"
      /\ disk' = ReplaceNotes(run[p].mem, live)
  BY DEF SpendReceipt, Save, Busy, Off, At
<1>2. /\ run[p].mem \in Secrets /\ run[p].mem.notes = disk.notes
      /\ run[p].live = Confirmed(disk)
      /\ run[p].tx.outs \subseteq NotesOf(disk)
  BY <1>1, RunningFacts DEF CustodyInv, Fit, Copied, Counting, InHand, Busy, Off
<1>3. live \subseteq NotesOf(disk)
  BY <1>2 DEF Confirmed, NotesOf
<1> HIDE DEF live
<1>4. \A x \in disk'.notes : x \in disk.notes \/ \E n \in live : x = Saved(n, FALSE)
  BY <1>1, <1>2 DEF ReplaceNotes, Secrets
<1>5. \A n \in live : Saved(n, FALSE).note = n
  BY DEF Saved
<1>6. ASSUME NEW x \in disk'.notes  PROVE x.note \in NotesOf(disk)
  <2>1. CASE x \in disk.notes
    BY <2>1 DEF NotesOf
  <2>2. CASE \E n \in live : x = Saved(n, FALSE)
    BY <1>3, <1>5, <2>2
  <2> QED
    BY <1>4, <2>1, <2>2
<1> QED
  BY <1>6 DEF NotesOf

(* What a rescan brings in was sent, and if it is not spent the file has it.*)
LEMMA RescanApplySifts ==
    ASSUME CustodyInv, NEW p \in Procs, NEW readable \in SUBSET run[p].view,
           RescanApply(p, readable)
    PROVE  NotesOf(disk') \ NotesOf(disk) \subseteq SpentNotes
<1>0. PICK P \in Recoveries(readable) :
         \E gone \in SpentSets(P, readable, run[p].view, run[p].ep, run[p].spent) :
             disk' = MergeFound(run[p].mem, Outs(P), gone)
  BY DEF RescanApply, Save
<1>1. PICK gone \in SpentSets(P, readable, run[p].view, run[p].ep, run[p].spent) :
         disk' = MergeFound(run[p].mem, Outs(P), gone)
  BY <1>0
<1> DEFINE s == MergeFound(run[p].mem, Outs(P), gone)
<1>2. Busy(p)
  BY DEF RescanApply, Busy, Off, At
<1>3. run[p].mem.notes = disk.notes /\ run[p].view \subseteq mined
  BY <1>2, RunningFacts DEF CustodyInv, Fit, Copied, Informed, Busy, Off
<1>4. Outs(P) \subseteq Outs(sent)
  <2>1. Outs(P) \subseteq Outs(readable)
    BY RecoveriesType
  <2>2. Outs(readable) \subseteq Leaves
    BY <1>3 DEF Leaves, Outs
  <2> QED
    BY <2>1, <2>2, LandedWasSent DEF CustodyInv
<1>5. \A x \in s.notes : x \in disk.notes \/ \E n \in Outs(P) : x = Saved(n, FALSE)
  BY <1>3 DEF MergeFound
<1>6. \A n : Saved(n, FALSE).note = n
  BY DEF Saved
<1>7. disk' = s
  BY <1>1
<1> HIDE DEF s
<1>8. NotesOf(disk') \subseteq NotesOf(disk) \cup Outs(P)
  <2>1. \A x \in disk'.notes : x.note \in NotesOf(disk) \cup Outs(P)
    BY <1>5, <1>6, <1>7 DEF NotesOf
  <2> QED
    BY <2>1 DEF NotesOf
<1> QED
  BY <1>4, <1>8 DEF CustodyInv, IInv, Safe, NoNoteLost

(* Each step of a command is a step of the promise.                         *)
LEMMA CommandInCustody ==
    ASSUME Alone, CustodyInv, IInv', NEW p \in Procs, Command(p)
    PROVE  Custody!CustodyNext
<1>0. [Next]_vars /\ TypeOK'
  BY DEF Next, IInv
<1>1. ASSUME UNCHANGED <<mined, mempool, sent>>,
             NotesOf(disk') \ NotesOf(disk) \subseteq SpentNotes
      PROVE  Custody!CustodyNext
  BY <1>0, <1>1, Sifting DEF Custody!CustodyNext
<1>2. ASSUME UNCHANGED <<mined, mempool, sent>>, UNCHANGED disk
      PROVE  Custody!CustodyNext
  BY <1>1, <1>2 DEF NotesOf
<1>3. ASSUME UNCHANGED <<mined, mempool, sent>>, Busy(p), disk' = run[p].mem
      PROVE  Custody!CustodyNext
  <2>1. run[p].mem.notes = disk.notes
    BY <1>3, RunningFacts DEF CustodyInv, Fit, Copied, Busy, Off
  <2> QED
    BY <1>1, <1>3, <2>1 DEF NotesOf
<1>4. CASE (\E cmd \in Commands : Start(p, cmd)) \/ Fail(p)
  BY <1>2, <1>4 DEF Start, Fail, poolVars
<1>5. CASE NextFresh(p)
  BY <1>3, <1>5 DEF NextFresh, Save, poolVars, Busy, Off, At
<1>6. CASE Shield(p)
  <2>1. CASE ShieldEpoch(p) \/ ShieldReceipt(p)
    BY <1>2, <2>1 DEF ShieldEpoch, ShieldReceipt, poolVars
  <2>2. CASE \E v \in Values : ShieldSign(p, v)
    BY <1>0, <2>2, ShieldSignInCustody DEF Custody!CustodyNext
  <2> QED
    BY <1>6, <2>1, <2>2 DEF Shield
<1>7. CASE Broadcast(p)
  BY <1>7, BroadcastInCustody DEF Custody!CustodyNext
<1>8. CASE Sync(p)
  <2>1. CASE SyncTree(p) \/ SyncEpoch(p) \/ SyncSpent(p)
    BY <1>2, <2>1 DEF SyncTree, SyncEpoch, SyncSpent, poolVars
  <2>2. CASE SyncSave(p)
    <3>1. UNCHANGED <<mined, mempool, sent>>
      BY <2>2 DEF SyncSave, poolVars
    <3> QED
      BY <1>1, <2>2, <3>1, SyncSaveSifts
  <2> QED
    BY <1>8, <2>1, <2>2 DEF Sync
<1>9. CASE Unshield(p)
  <2>1. ASSUME NEW next \in BOOLEAN, UnshieldPlan(p, next)
        PROVE  Custody!CustodyNext
    BY <1>2, <1>3, <2>1 DEF UnshieldPlan, Save, poolVars, Busy, Off, At
  <2>2. ASSUME NEW ins, NEW last, NEW max, NEW change \in Changes(p),
               BuildSpend(p, ins, last, max, change)
        PROVE  Custody!CustodyNext
    BY <1>0, <2>2, BuildSpendInCustody
  <2>3. ASSUME SpendReceipt(p)  PROVE Custody!CustodyNext
    <3>1. UNCHANGED <<mined, mempool, sent>>
      BY <2>3 DEF SpendReceipt, poolVars
    <3> QED
      BY <1>1, <2>3, <3>1, SpendReceiptSifts
  <2> QED
    BY <1>9, <2>1, <2>2, <2>3 DEF Unshield
<1>10. CASE Rescan(p)
  <2>1. CASE RescanLogs(p) \/ RescanBurns(p)
    BY <1>2, <2>1 DEF RescanLogs, RescanBurns, poolVars
  <2>2. ASSUME NEW readable \in SUBSET run[p].view, RescanApply(p, readable)
        PROVE  Custody!CustodyNext
    <3>1. UNCHANGED <<mined, mempool, sent>>
      BY <2>2 DEF RescanApply, poolVars
    <3> QED
      BY <1>1, <2>2, <3>1, RescanApplySifts
  <2> QED
    BY <1>10, <2>1, <2>2 DEF Rescan
<1>11. CASE Import(p)
  BY <1>11 DEF Import, Alone, CustodyInv, IInv, TypeOK
<1> QED
  BY <1>4, <1>5, <1>6, <1>7, <1>8, <1>9, <1>10, <1>11 DEF Command

(* The commands of flow.rs keep the custody promise, for any number of      *)
(* notes, amounts, epochs, sends and commands that run one at a time on a   *)
(* chain that takes nothing back: each of their steps, failed ones included,*)
(* is a step of NoteCustody or leaves what it speaks of alone.              *)
THEOREM WalletKeepsCustody == ASSUME Alone  PROVE Spec => CustodySpec
<1>1. Init => Custody!CustodyInit
  <2> SUFFICES ASSUME Init  PROVE Custody!CustodyInit
    OBVIOUS
  <2>1. mined = {} /\ mempool = {} /\ sent = {} /\ disk.notes = {} /\ disk.next_note = 0
    BY DEF Init, PoolInit, FreshSecrets
  <2>2. 0..(disk.next_note - 1) = {}
    BY <2>1
  <2>3. NotesOf(disk) = {} /\ Outs(mempool) = {} /\ Outs(sent) = {} /\ Unspent = {}
    BY <2>1 DEF NotesOf, Outs, Unspent, Leaves
  <2> QED
    BY <2>2, <2>3 DEF Custody!CustodyInit
<1>2. CustodyInv /\ CustodyInv' /\ [Next]_vars
        => [Custody!CustodyNext]_(Custody!custodyVars)
  <2> SUFFICES ASSUME CustodyInv, CustodyInv', [Next]_vars
               PROVE  [Custody!CustodyNext]_(Custody!custodyVars)
    OBVIOUS
  <2>1. IInv'
    BY DEF CustodyInv
  <2>2. CASE UNCHANGED vars
    BY <2>2 DEF vars, Custody!custodyVars, NotesOf, Outs, Ins, Unspent, Leaves, SpentNotes
  <2>3. CASE Next
    BY <2>1, <2>3, PoolInCustody, CommandInCustody DEF Next
  <2> QED
    BY <2>2, <2>3
<1> QED
  BY <1>1, <1>2, AlwaysInCustody, PTL DEF Spec, CustodySpec, Custody!CustodySpec
=============================================================================
