---------------------------- MODULE NoteWalletInv ---------------------------
(***************************************************************************)
(* The inductive invariant behind the safety properties of NoteWallet, when*)
(* one command runs at a time, the chain takes nothing back and the        *)
(* mnemonic is not imported again.                                         *)
(***************************************************************************)
EXTENDS NoteWallet

(* The circumstances under which it is inductive.                           *)
Alone == ~Overlap /\ MaxReorgs = 0 /\ MaxImports = 0

Busy(p) == ~Off(p)

(* At most one command is under way.                                        *)
Solo == \A p, q \in Procs : Busy(p) /\ Busy(q) => p = q

(* Transactions come to the mempool and to the chain only by having been    *)
(* sent, and ids tell them apart.                                           *)
History ==
    /\ mempool \subseteq sent
    /\ \A m \in mined : Unlanded(m) \in sent
    /\ \A t \in sent : t.id <= signed
    /\ \A t, u \in sent : t.id = u.id => t = u

Undisturbed == reorgs = 0 /\ imports = 0

(* Every note that was sent or written down has an index of its own, below  *)
(* next_note.                                                               *)
EveryNote == Outs(sent) \cup NotesOf(disk)
Indexing ==
    /\ OneNotePerIndex(EveryNote)
    /\ \A n \in EveryNote : n.index < disk.next_note

(* A command works on the notes of the file; it may have given up indexes   *)
(* that the file does not know of yet.                                      *)
Copied(r) ==
    r.pc # "off" => /\ r.mem.notes = disk.notes
                    /\ disk.next_note <= r.mem.next_note

(* What it read of the chain is still so.                                   *)
Informed(r) ==
    /\ r.view \subseteq mined
    /\ \A x \in r.spent : x[1] \in SpentNotes

(* The transaction it signed spends landed notes and its outputs are on     *)
(* disk; nobody has sent it before, and then only this command.             *)
InHand(r) ==
    /\ r.pc \in {"send", "wait"} =>
            /\ r.tx.id <= signed
            /\ r.tx.ins \subseteq Leaves
            /\ r.tx.outs \subseteq NotesOf(disk)
    /\ r.pc = "wait" => r.tx \in sent
    /\ r.pc = "send" =>
            \A t \in sent : /\ t.id # r.tx.id
                            /\ Indexes(t.outs) \cap Indexes(r.tx.outs) = {}

(* The notes an unshield counts on are the confirmed ones of the file.      *)
Counting(r) ==
    r.cmd = "unshield" /\ r.pc \in {"build", "send", "wait"}
        => r.live = Confirmed(disk)

Fit(r) == Copied(r) /\ Informed(r) /\ InHand(r) /\ Counting(r)

Safe == NoNoteLost /\ OneIndexPerNote /\ ConfirmedMeansLanded /\ SpendsOnlyLanded

(* The parts together.                                                      *)
IInv ==
    /\ TypeOK
    /\ Solo
    /\ Undisturbed
    /\ History
    /\ Indexing
    /\ \A p \in Procs : Fit(run[p])
    /\ Safe

-----------------------------------------------------------------------------
(* What holds of the chain also when commands overlap and reorgs happen.    *)

(* An index is taken above those of all notes the wallet has.               *)
Rising(t) == \A a \in t.ins, n \in t.outs : a.index < n.index

(* The transactions T spend only what T creates, and indexes rise.          *)
Grounded(T) ==
    /\ Ins(T) \subseteq Outs(T)
    /\ \A t \in T : Rising(t)

(* The chain is like that, and so is whatever a command has read of it.     *)
ChainIsGrounded == Grounded(mined) /\ \A p \in Procs : Grounded(run[p].view)

(* next_note is above all notes of the secrets, in the file and in every    *)
(* copy, so what a command signs rises.                                     *)
Counted(s) == \A n \in NotesOf(s) : n.index < s.next_note
CountedRun(r) ==
    /\ Counted(r.mem)
    /\ \A n \in r.live \cup r.tx.outs : n.index < r.mem.next_note
    /\ Rising(r.tx)
IndexesRise ==
    /\ Counted(disk)
    /\ \A p \in Procs : CountedRun(run[p])
    /\ \A t \in mempool : Rising(t)

(* Without a reorg what was read stays true, and a sync reads the nullifiers*)
(* after its tree.                                                          *)
ReadsGrow ==
    /\ reorgs = 0
    /\ \A p \in Procs :
          /\ run[p].view \subseteq mined
          /\ At(p, "save") => Nullifiers(run[p].view) \subseteq run[p].spent

(* When commands do not overlap, the copy of the one that runs is never     *)
(* behind the file.                                                         *)
CopyNotBehind ==
    /\ Solo
    /\ \A p \in Procs : Busy(p) => disk.next_note <= run[p].mem.next_note

-----------------------------------------------------------------------------
(* What the custody promise needs besides IInv.                             *)

(* A transaction is not in the chain and in a mempool at once.              *)
Apart == \A t \in mempool, m \in mined : t.id # m.id

CustodyInv == IInv /\ Apart
=============================================================================
