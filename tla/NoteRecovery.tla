---------------------------- MODULE NoteRecovery ----------------------------
(***************************************************************************)
(* What notescan::recover_notes returns, as one step: NoteWallet takes it  *)
(* so, and NoteScan, which runs it probe by probe, is checked against it.  *)
(* R are the pool transactions that could be read, shields without inputs  *)
(* and settles; P are those of them that it makes use of.                  *)
(***************************************************************************)
EXTENDS PoolTransactions, Naturals

CONSTANTS
    Gap,         \* INDEX_GAP: misses in a row that end a scan of the shields
    Cap          \* SCAN_CAP: the highest index tried

ASSUME GapAssumption == Gap \in Nat \ {0} /\ Cap \in Nat

Indexes(S) == {n.index : n \in S}
OneNotePerIndex(S) == \A a, b \in S : a.index = b.index => a = b

(* The notes that come out of shields, through settles of such notes.       *)
Derived(P) ==
    {n \in Outs(P) :
        \A S \in SUBSET Outs(P) :
            (\A t \in P : t.ins \subseteq S => t.outs \subseteq S) => n \in S}

(* One of a settle's two inputs is worth exactly what the settle paid: the  *)
(* change is worth the other one.                                           *)
HalfCovers(t) ==
    \E a, b \in t.ins, n \in t.outs : a # b /\ n.value = b.value

(* scan_shields with the notes S found: an index is tried unless Gap misses *)
(* in a row come before it, or it is above the cap.                         *)
Reached(i, S) ==
    /\ i <= Cap
    /\ \A j \in 0..i : j + Gap <= i => \E n \in S : n.index \in j..(j + Gap - 1)

(* No note of S lies behind such a gap.                                     *)
Dense(S) == \A n \in S : Reached(n.index, S)

-----------------------------------------------------------------------------
(* What may be made use of.                                                 *)

(* Only shields and settles of found notes; an index goes to one note.      *)
Sound(P) ==
    /\ Derived(P) = Outs(P) /\ Ins(P) \subseteq Outs(P)
    /\ OneNotePerIndex(Outs(P))
    /\ Indexes(Outs(P)) \subseteq 0..Cap

(* scan_shields: a shield that is tried is found, unless its index is taken.*)
ShieldsUsed(P, R) ==
    \A t \in {u \in R : u.ins = {}} : \A n \in t.outs :
        Reached(n.index, Outs(P)) => n.index \in Indexes(Outs(P))

(* apply_settles: a settle of found notes is replayed, unless its change is *)
(* above the cap or has an index that is taken.  One that is half covered   *)
(* may have been replayed with one input and no change.                     *)
SettlesUsed(P, R) ==
    \A t \in R :
        t.ins # {} /\ t.ins \subseteq Outs(P) /\ ~HalfCovers(t)
        /\ Indexes(t.outs) \subseteq 0..Cap
            => t \in P \/ (t.outs # {} /\ Indexes(t.outs) \subseteq Indexes(Outs(P)))

(* A faulty recover_notes: the settles are not replayed.                    *)
RecoveriesOfShields(R) ==
    {P \in SUBSET {t \in R : t.ins = {}} : Sound(P) /\ ShieldsUsed(P, R)}

(* recover_notes: the notes found are Outs(P), for one such P.              *)
Recoveries(R) ==
    {P \in SUBSET R : Sound(P) /\ ShieldsUsed(P, R) /\ SettlesUsed(P, R)}

-----------------------------------------------------------------------------
(* Which of them are spent.                                                 *)

(* A faulty max_epoch: the leaves in the logs do not count.                 *)
SeenByCall(e, logs, ep) == e <= ep

(* max_epoch: an epoch is looked at up to the one that was read, `ep`, or   *)
(* that of the latest leaf in the logs.                                     *)
Seen(e, logs, ep) == e <= ep \/ \E m \in logs : e <= m.landed

(* burned: a nullifier of the note is among the spent ones, of an epoch that*)
(* is looked at.  The code starts at the epoch of the note's leaf; the pool *)
(* takes no proof that names an earlier one.                                *)
Burnt(S, logs, ep, spent) ==
    {n \in S : \E x \in spent : x[1] = n /\ Seen(x[2], logs, ep)}

(* The notes reported as spent: inputs of the settles that were replayed,   *)
(* burned ones, and any that a half covered settle was replayed with.       *)
SpentSets(P, R, logs, ep, spent) ==
    {Ins(P) \cup Burnt(Outs(P), logs, ep, spent) \cup H :
        H \in SUBSET {n \in Outs(P) : \E t \in R : HalfCovers(t) /\ n \in t.ins}}
=============================================================================
