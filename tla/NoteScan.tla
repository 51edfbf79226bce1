------------------------------ MODULE NoteScan ------------------------------
(***************************************************************************)
(* notescan.rs: the notes of a mnemonic are found again from the pool's    *)
(* transactions alone.  First a wallet makes a history (shields, settles,  *)
(* indexes taken for transactions that never landed); then recover_notes   *)
(* runs over what could be read of it, probe by probe and settle by settle.*)
(* NoteWallet takes the whole of it as one step, NoteRecovery's Recoveries.*)
(***************************************************************************)
EXTENDS NoteRecovery, Sequences, FiniteSets, FiniteSetsExt

CONSTANTS
    Values,      \* what a note can be worth
    Passes,      \* how often the two scans are repeated at most (64)
    MaxTxs,      \* bound: transactions of the history
    MaxUnread,   \* bound: logged transactions that the node does not give back
    MaxEpoch     \* bound: the pool's epoch counter stops here

(* Between two passes that find something a gap has closed: 64 are enough   *)
(* for SCAN_CAP 512 and INDEX_GAP 32.                                       *)
ASSUME ScanAssumption ==
    /\ Values \subseteq Nat \ {0}
    /\ Passes \in Nat /\ Passes >= Cap \div Gap + 2
    /\ MaxTxs \in Nat /\ MaxUnread \in Nat /\ MaxEpoch \in Nat

ScanRange == 0..Cap
Note == [index : ScanRange, value : Nat]

(* A shield has no inputs; `paid` is a settle's publicAmount and fee,       *)
(* `epoch` the one its proof names, `landed` the one it landed in, `leaf`   *)
(* whether it left a leaf in the logs.                                      *)
Tx == [ins : SUBSET Note, outs : SUBSET Note, paid : Nat,
       epoch : Nat, landed : Nat, leaf : BOOLEAN]

VARIABLES
    chain,       \* the wallet's transactions, in the order of the blocks
    next,        \* the next index the wallet would take
    epoch,       \* the pool's currentEpoch()
    pc,          \* "live", then "probe", "settle", "burn", "done"
    read,        \* positions of the transactions that could be read
    ep,          \* what is known of the epoch besides those of the leaves
    owned,       \* the notes found, each with its spent flag
    applied,     \* settle_done: positions of settles that were used
    index, gap,  \* locals of scan_shields
    pos,         \* where apply_settles is in the chain
    pass, before \* passes begun, and the number of notes before this one

history == <<chain, next, epoch, read, ep>>
recovery == <<owned, applied, index, gap, pos, pass, before>>
vars == <<chain, next, epoch, pc, read, ep,
          owned, applied, index, gap, pos, pass, before>>

Owned == [note : Note, spent : BOOLEAN]
Found == {o.note : o \in owned}
Taken == {n.index : n \in Found}

Txs == {chain[i] : i \in DOMAIN chain}
Readable == {chain[i] : i \in read}
Logged == {i \in DOMAIN chain : chain[i].leaf}
Logs == {chain[i] : i \in Logged}

-----------------------------------------------------------------------------
(* The history.                                                             *)

Unspent == Outs(Txs) \ Ins(Txs)

Mine(t) ==
    /\ Len(chain) < MaxTxs
    /\ chain' = Append(chain, t)

Shield(v) ==
    /\ pc = "live" /\ next <= Cap
    /\ Mine([ins |-> {}, outs |-> {[index |-> next, value |-> v]}, paid |-> 0,
             epoch |-> epoch, landed |-> epoch, leaf |-> TRUE])
    /\ next' = next + 1
    /\ UNCHANGED <<epoch, pc, read, ep, recovery>>

Worth(S) == MapThenSumSet(LAMBDA n : n.value, S)

(* The pool takes a proof that names an epoch in which the inputs had landed*)
InTree(ins, e) ==
    \A n \in ins : \E i \in DOMAIN chain : n \in chain[i].outs /\ chain[i].landed <= e

(* A merge or an unshield of one note or two: a fee is always paid, and what*)
(* is not paid is the change, at the next index; unshield MAX takes none.   *)
(* A settle without change may leave no leaf (flow.rs, publishesRoot).      *)
Settle(ins, paid, left, max, e, leaf) ==
    /\ pc = "live"
    /\ ins \subseteq Unspent /\ Cardinality(ins) \in {1, 2}
    /\ paid + left = Worth(ins)
    /\ IF max THEN left = 0 ELSE next <= Cap
    /\ left # 0 => leaf
    /\ e <= epoch /\ InTree(ins, e)
    /\ Mine([ins |-> ins, paid |-> paid,
             outs |-> IF left = 0 THEN {} ELSE {[index |-> next, value |-> left]},
             epoch |-> e, landed |-> epoch, leaf |-> leaf])
    /\ next' = IF max THEN next ELSE next + 1
    /\ UNCHANGED <<epoch, pc, read, ep, recovery>>

(* A transaction that was saved and never landed.                           *)
Skip ==
    /\ pc = "live" /\ next <= Cap
    /\ next' = next + 1
    /\ UNCHANGED <<chain, epoch, pc, read, ep, recovery>>

RollEpoch ==
    /\ pc = "live" /\ epoch < MaxEpoch
    /\ epoch' = epoch + 1
    /\ UNCHANGED <<chain, next, pc, read, ep, recovery>>

(* rescan_notes: the logs come as a whole, a transaction may not be given   *)
(* back, and is then taken to have no calls.  A failed currentEpoch() counts*)
(* as 0, and leaves of other wallets may still show a later epoch.          *)
Read ==
    /\ pc = "live"
    /\ \E R \in SUBSET Logged :
          /\ Cardinality(Logged \ R) <= MaxUnread
          /\ read' = R
    /\ ep' \in 0..epoch
    /\ pc' = "probe"
    /\ UNCHANGED <<chain, next, epoch, recovery>>

-----------------------------------------------------------------------------
(* recover_notes.                                                           *)

Shields == {n \in Outs({t \in Readable : t.ins = {}}) : n.index = index}

(* A faulty scan: a note that is owned already does not close the gap.      *)
LookOwnedCounts ==
    IF index \notin Taken /\ Shields # {}
    THEN \E n \in Shields : owned' = owned \cup {[note |-> n, spent |-> FALSE]} /\ gap' = 0
    ELSE gap' = gap + 1 /\ UNCHANGED owned

(* A faulty scan: it ends with the first note it finds.                     *)
LookFirst ==
    IF index \in Taken THEN gap' = 0 /\ UNCHANGED owned
    ELSE IF Shields # {}
    THEN \E n \in Shields : owned' = owned \cup {[note |-> n, spent |-> FALSE]} /\ gap' = Gap
    ELSE gap' = gap + 1 /\ UNCHANGED owned

(* One index: it is owned, or a shield has it, or the gap grows.            *)
Look ==
    IF index \in Taken THEN gap' = 0 /\ UNCHANGED owned
    ELSE IF Shields # {}
    THEN \E n \in Shields : owned' = owned \cup {[note |-> n, spent |-> FALSE]} /\ gap' = 0
    ELSE gap' = gap + 1 /\ UNCHANGED owned

(* A faulty loop: only the gap ends it.                                     *)
AdvanceUncapped ==
    IF gap' >= Gap
    THEN pc' = "settle" /\ pos' = 1 /\ UNCHANGED index
    ELSE index' = index + 1 /\ UNCHANGED <<pc, pos>>

(* Too wide a gap, or the cap, ends the scan.                               *)
Advance ==
    IF gap' >= Gap \/ index = Cap
    THEN pc' = "settle" /\ pos' = 1 /\ UNCHANGED index
    ELSE index' = index + 1 /\ UNCHANGED <<pc, pos>>

Probe ==
    /\ pc = "probe"
    /\ Look
    /\ Advance
    /\ UNCHANGED <<history, applied, pass, before>>

(* is_input: the unspent notes found so far that the settle takes.          *)
Inputs(t) == {n \in Found : n \in t.ins /\ [note |-> n, spent |-> FALSE] \in owned}

(* A faulty locate_change: the first free index, whatever the commitments.  *)
LocateAnything(t, v) ==
    {[index |-> i, value |-> v] :
        i \in {j \in ScanRange : j \notin Taken /\ \A k \in ScanRange \ Taken : j <= k}}

(* locate_change: the index not owned yet that, with the value that is left,*)
(* gives a commitment of the settle.                                        *)
LocateChange(t, v) ==
    {n \in {[index |-> i, value |-> v] : i \in ScanRange \ Taken} : n \in t.outs}

MarkSpent(S) ==
    {[note |-> o.note, spent |-> o.spent \/ o.note \in S] : o \in owned}

(* apply_settles, one settle in chain order: without an owned input, with   *)
(* less than was paid, or with a change that is not found, it is left for a *)
(* later pass.                                                              *)
Apply ==
    /\ pc = "settle" /\ pos <= Len(chain)
    /\ LET t == chain[pos]
           ins == Inputs(t)
           left == Worth(ins) - t.paid
           changes == LocateChange(t, left)
           use == pos \in read /\ pos \notin applied /\ ins # {} /\ t.paid <= Worth(ins)
       IN  \/ /\ use /\ left = 0
              /\ owned' = MarkSpent(ins)
              /\ applied' = applied \cup {pos}
           \/ /\ use /\ left # 0
              /\ \E n \in changes :
                    owned' = MarkSpent(ins) \cup {[note |-> n, spent |-> FALSE]}
              /\ applied' = applied \cup {pos}
           \/ /\ ~use \/ (left # 0 /\ changes = {})
              /\ UNCHANGED <<owned, applied>>
    /\ pos' = pos + 1
    /\ UNCHANGED <<history, pc, index, gap, pass, before>>

(* The passes end when one has found nothing, or after 64.                  *)
EndPass ==
    /\ pc = "settle" /\ pos > Len(chain)
    /\ IF Cardinality(Found) = before \/ pass = Passes
       THEN pc' = "burn" /\ UNCHANGED <<index, gap, pass, before>>
       ELSE /\ pc' = "probe" /\ index' = 0 /\ gap' = 0
            /\ pass' = pass + 1 /\ before' = Cardinality(Found)
    /\ UNCHANGED <<history, owned, applied, pos>>

(* A faulty end: only the settles that were replayed count.                 *)
BurnNothing ==
    /\ pc = "burn"
    /\ pc' = "done"
    /\ UNCHANGED <<history, owned, applied, index, gap, pos, pass, before>>

(* burned: the nullifiers of the pool, whether the call was read or not, of *)
(* every epoch that is looked at.                                           *)
Burn ==
    /\ pc = "burn"
    /\ owned' = MarkSpent(Burnt(Found, Logs, ep, Nullifiers(Txs)))
    /\ pc' = "done"
    /\ UNCHANGED <<history, applied, index, gap, pos, pass, before>>

Init ==
    /\ chain = <<>> /\ next = 0 /\ epoch = 0 /\ read = {} /\ ep = 0
    /\ pc = "live"
    /\ owned = {} /\ applied = {}
    /\ index = 0 /\ gap = 0 /\ pos = 1
    /\ pass = 1 /\ before = 0

Next ==
    \/ \E v \in Values : Shield(v)
    \/ \E ins \in SUBSET Unspent, max, leaf \in BOOLEAN, e \in 0..epoch :
          \E paid \in 1..Worth(ins), left \in 0..Worth(ins) :
              Settle(ins, paid, left, max, e, leaf)
    \/ Skip
    \/ RollEpoch
    \/ Read
    \/ Probe
    \/ Apply
    \/ EndPass
    \/ Burn

Spec == Init /\ [][Next]_vars

-----------------------------------------------------------------------------
(* Properties.                                                              *)

(* Every variable keeps its shape (notescan.rs).                            *)
TypeOK ==
    /\ chain \in Seq(Tx) /\ next \in 0..Cap + 1
    /\ epoch \in Nat /\ ep \in 0..epoch
    /\ pc \in {"live", "probe", "settle", "burn", "done"}
    /\ read \subseteq DOMAIN chain /\ applied \subseteq DOMAIN chain
    /\ owned \subseteq Owned
    /\ index \in ScanRange /\ gap \in 0..Gap
    /\ pos \in Nat \ {0} /\ pass \in 1..Passes /\ before \in Nat

(* Nothing is made up: a found note is an output of this wallet with the    *)
(* value it has on chain, whatever could not be read, and no index is given *)
(* to two notes (notescan.rs:323, locate_change).                           *)
FoundIsReal ==
    /\ Found \subseteq Outs(Txs)
    /\ \A a, b \in owned : a.note.index = b.note.index => a = b

(* A note is reported as spent only if the chain has spent it, and as       *)
(* unspent only if it is unspent, whatever could not be read; unless the    *)
(* epoch could not be read and neither the settle that spent it nor anything*)
(* since has left a leaf (flow.rs:925-935, notescan.rs:353).                *)
SpentIsKnown ==
    /\ \A o \in owned : o.spent => o.note \in Ins(Txs)
    /\ pc = "done" =>
          \A o \in owned, i \in DOMAIN chain :
              /\ o.note \in chain[i].ins
              /\ ep = epoch \/ \E j \in i..Len(chain) : j \in Logged
              => o.spent

(* What the readable transactions say: the shields, and the change of every *)
(* settle whose inputs are among them.                                      *)
Derivable == Derived(Readable)

(* Everything that can be derived is found, spent notes between included    *)
(* (notescan.rs:5: A spent index still counts as used, so a later note is   *)
(* not hidden).                                                             *)
EveryNoteFound ==
    pc = "done" /\ Dense(Derivable) /\ (\A t \in Readable : ~HalfCovers(t))
        => Found = Derivable

(* The same, without a word about the values.                               *)
EveryNoteFoundAtAnyValue == pc = "done" /\ Dense(Derivable) => Found = Derivable

(* The result is one of those that NoteWallet reckons with, at every gap,   *)
(* cap and value, and whatever could not be read (notescan.rs:141).         *)
ResultIsPromised ==
    pc = "done" =>
        \E P \in Recoveries(Readable) :
            /\ Found = Outs(P)
            /\ {o.note : o \in {x \in owned : x.spent}}
                  \in SpentSets(P, Readable, Logs, ep, Nullifiers(Txs))

(* The passes end because one found nothing more: 64 of them never cut the  *)
(* recovery off (notescan.rs:166).                                          *)
PassesSuffice == pc \in {"burn", "done"} => Cardinality(Found) = before
=============================================================================
