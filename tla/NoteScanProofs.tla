--------------------------- MODULE NoteScanProofs ---------------------------
(***************************************************************************)
(* What recover_notes reports is real, its spent flags are right, its      *)
(* passes are enough, it leaves nothing out that can be derived, and its   *)
(* result is one of NoteRecovery's, for every history, whatever could not  *)
(* be read, and every value of the constants.                              *)
(***************************************************************************)
EXTENDS NoteScan, FiniteSetTheorems, TLAPS, WellFoundedInduction

(* The inductive invariant: a scan that goes on has not seen the whole gap. *)
GapOpen == pc \in {"live", "probe"} => gap < Gap

(* No proof names an epoch later than the one it lands in, and those follow *)
(* the order of the blocks.                                                 *)
Timely ==
    /\ \A i \in DOMAIN chain :
          chain[i].epoch <= chain[i].landed /\ chain[i].landed <= epoch
    /\ \A i, j \in DOMAIN chain : i <= j => chain[i].landed <= chain[j].landed
IInv == TypeOK /\ GapOpen /\ Timely /\ FoundIsReal /\ SpentIsKnown

(* A note as scan_shields and apply_settles push it.                        *)
Fresh(n) == [note |-> n, spent |-> FALSE]

LEMMA FreshNote ==
    ASSUME NEW n \in Note
    PROVE  Fresh(n) \in Owned /\ Fresh(n).note = n /\ ~Fresh(n).spent
BY DEF Fresh, Owned

LEMMA InitIInv == ASSUME Init PROVE IInv
<1>1. TypeOK
  BY ScanAssumption, GapAssumption DEF Init, TypeOK, ScanRange
<1>2. GapOpen
  BY GapAssumption DEF Init, GapOpen
<1>3. FoundIsReal /\ SpentIsKnown /\ Timely
  BY DEF Init, FoundIsReal, SpentIsKnown, Found, Timely
<1> QED
  BY <1>1, <1>2, <1>3 DEF IInv

(* The epochs stay in order while the chain stays as it is.                 *)
LEMMA SameTimely ==
    ASSUME TypeOK, Timely, UNCHANGED chain, epoch' \in {epoch, epoch + 1}
    PROVE  Timely'
<1>1. \A i \in DOMAIN chain : chain[i].landed \in Nat
  <2>1. \A i \in DOMAIN chain : chain[i] \in Tx
    BY DEF TypeOK
  <2> QED
    BY <2>1 DEF Tx
<1> QED
  BY <1>1 DEF Timely, TypeOK

(* A transaction that is appended keeps what was found real.                *)
LEMMA MineIInv ==
    ASSUME IInv, NEW t \in Tx, t.epoch <= epoch, t.landed = epoch,
           Mine(t), pc = "live", next' \in 0..Cap + 1,
           UNCHANGED <<epoch, pc, read, ep, recovery>>
    PROVE  IInv'
<1>0. UNCHANGED <<epoch, pc, read, ep, owned, applied, index, gap, pos, pass, before>>
  BY DEF recovery
<1>1. chain \in Seq(Tx) /\ chain' = Append(chain, t) /\ pc' = "live"
  BY <1>0 DEF IInv, TypeOK, Mine
<1>2. /\ chain' \in Seq(Tx)
      /\ DOMAIN chain \subseteq DOMAIN chain'
      /\ \A i \in DOMAIN chain : chain'[i] = chain[i]
      /\ \A i \in DOMAIN chain' : i \in DOMAIN chain \/ (i = Len(chain) + 1 /\ chain'[i] = t)
      /\ \A i \in DOMAIN chain : i <= Len(chain)
      /\ DOMAIN chain \subseteq Nat /\ Len(chain) \in Nat
  BY <1>1
<1>3. TypeOK'
  BY <1>0, <1>2 DEF IInv, TypeOK
<1>4. Txs \subseteq Txs'
  BY <1>2 DEF Txs
<1>5. Outs(Txs) \subseteq Outs(Txs)' /\ Ins(Txs) \subseteq Ins(Txs)'
  BY <1>4 DEF Outs, Ins
<1>6. FoundIsReal' /\ SpentIsKnown' /\ GapOpen'
  BY <1>0, <1>1, <1>5 DEF IInv, FoundIsReal, SpentIsKnown, Found, GapOpen
<1>7. Timely'
  <2> DEFINE T == \A i \in DOMAIN chain : /\ chain[i].epoch <= chain[i].landed
                                         /\ chain[i].landed <= epoch
  <2>1. T /\ \A i, j \in DOMAIN chain : i <= j => chain[i].landed <= chain[j].landed
    BY DEF IInv, Timely
  <2>2. \A i \in DOMAIN chain' : /\ chain'[i].epoch <= chain'[i].landed
                                /\ chain'[i].landed <= epoch'
    BY <1>0, <1>2, <2>1, t.landed <= epoch DEF IInv, TypeOK
  <2>3. ASSUME NEW i \in DOMAIN chain', NEW j \in DOMAIN chain', i <= j
        PROVE  chain'[i].landed <= chain'[j].landed
    <3>1. CASE j \in DOMAIN chain
      <4>1. i \in DOMAIN chain
        BY <1>2, <2>3, <3>1
      <4> QED
        BY <1>2, <2>1, <2>3, <3>1, <4>1
    <3>2. CASE j \notin DOMAIN chain
      BY <1>0, <1>2, <2>2, <3>2
    <3> QED
      BY <3>1, <3>2
  <2> QED
    BY <2>2, <2>3 DEF Timely
<1> QED
  BY <1>3, <1>6, <1>7 DEF IInv

LEMMA ShieldIInv ==
    ASSUME IInv, NEW v \in Values, Shield(v)
    PROVE  IInv'
<1> DEFINE t == [ins |-> {}, outs |-> {[index |-> next, value |-> v]}, paid |-> 0,
                 epoch |-> epoch, landed |-> epoch, leaf |-> TRUE]
<1>1. next \in ScanRange /\ next' \in 0..Cap + 1 /\ v \in Nat
  BY ScanAssumption, GapAssumption DEF Shield, IInv, TypeOK, ScanRange
<1>2. t \in Tx /\ t.epoch <= epoch /\ t.landed = epoch
  BY <1>1 DEF Tx, Note, IInv, TypeOK
<1>3. Mine(t) /\ pc = "live" /\ UNCHANGED <<epoch, pc, read, ep, recovery>>
  BY DEF Shield
<1> HIDE DEF t
<1> QED
  BY <1>1, <1>2, <1>3, MineIInv

LEMMA SettleIInv ==
    ASSUME IInv, NEW ins \in SUBSET Unspent, NEW max \in BOOLEAN, NEW leaf \in BOOLEAN,
           NEW e \in 0..epoch, NEW paid \in Nat, NEW left \in Nat,
           Settle(ins, paid, left, max, e, leaf)
    PROVE  IInv'
<1> DEFINE t == [ins |-> ins, paid |-> paid,
                 outs |-> IF left = 0 THEN {} ELSE {[index |-> next, value |-> left]},
                 epoch |-> e, landed |-> epoch, leaf |-> leaf]
<1>1. next' \in 0..Cap + 1 /\ (left # 0 => next \in ScanRange)
  BY ScanAssumption, GapAssumption DEF Settle, IInv, TypeOK, ScanRange
<1>2. ins \subseteq Note
  <2>1. \A x \in Txs : x \in Tx
    BY DEF IInv, TypeOK, Txs
  <2> QED
    BY <2>1 DEF Unspent, Outs, Tx
<1>3. t \in Tx
  <2>1. (IF left = 0 THEN {} ELSE {[index |-> next, value |-> left]}) \in SUBSET Note
    BY <1>1 DEF Note
  <2>2. e \in Nat /\ epoch \in Nat
    BY DEF IInv, TypeOK
  <2> QED
    BY <1>2, <2>1, <2>2 DEF Tx
<1>4. t.epoch <= epoch /\ t.landed = epoch
  BY DEF IInv, TypeOK
<1>5. Mine(t) /\ pc = "live" /\ UNCHANGED <<epoch, pc, read, ep, recovery>>
  BY DEF Settle
<1> HIDE DEF t
<1> QED
  BY <1>1, <1>3, <1>4, <1>5, MineIInv

LEMMA SkipIInv == ASSUME IInv, Skip PROVE IInv'
<1>1. next' \in 0..Cap + 1
  BY ScanAssumption, GapAssumption DEF Skip, IInv, TypeOK
<1>2. TypeOK'
  BY <1>1 DEF Skip, IInv, TypeOK, recovery
<1>3. FoundIsReal' /\ SpentIsKnown' /\ GapOpen'
  BY DEF Skip, IInv, FoundIsReal, SpentIsKnown, Found, Txs, GapOpen, recovery
<1>4. Timely'
  BY SameTimely DEF Skip, IInv
<1> QED
  BY <1>2, <1>3, <1>4 DEF IInv

LEMMA RollEpochIInv == ASSUME IInv, RollEpoch PROVE IInv'
<1>1. epoch \in Nat /\ epoch' = epoch + 1 /\ ep \in 0..epoch'
  BY DEF RollEpoch, IInv, TypeOK
<1>2. TypeOK'
  BY <1>1 DEF RollEpoch, IInv, TypeOK, recovery
<1>3. FoundIsReal' /\ SpentIsKnown' /\ GapOpen'
  BY DEF RollEpoch, IInv, FoundIsReal, SpentIsKnown, Found, Txs, GapOpen, recovery
<1>4. Timely'
  BY <1>1, SameTimely DEF RollEpoch, IInv
<1> QED
  BY <1>2, <1>3, <1>4 DEF IInv

LEMMA ReadIInv == ASSUME IInv, Read PROVE IInv'
<1>1. TypeOK'
  BY DEF Read, IInv, TypeOK, recovery, Logged
<1>2. FoundIsReal' /\ SpentIsKnown' /\ GapOpen'
  BY DEF Read, IInv, FoundIsReal, SpentIsKnown, Found, Txs, GapOpen, recovery
<1>3. Timely'
  BY SameTimely DEF Read, IInv
<1> QED
  BY <1>1, <1>2, <1>3 DEF IInv

-----------------------------------------------------------------------------
(* A note of the chain under a new index can be added.                      *)
LEMMA AddNote ==
    ASSUME NEW M \in SUBSET Owned, {o.note : o \in M} = Found, FoundIsReal,
           \A a, b \in M : a.note.index = b.note.index => a = b,
           NEW n \in Outs(Txs), n \in Note, n.index \notin Taken, UNCHANGED chain,
           owned' = M \cup {Fresh(n)}
    PROVE  FoundIsReal' /\ owned' \subseteq Owned
<1>1. Outs(Txs)' = Outs(Txs)
  BY DEF Outs, Txs
<1>2. Fresh(n) \in Owned /\ Fresh(n).note = n
  BY FreshNote
<1>3. Found' = Found \cup {n}
  BY <1>2 DEF Found
<1>4. \A o \in M : o.note.index # n.index
  BY DEF Taken
<1> QED
  BY <1>1, <1>2, <1>3, <1>4 DEF FoundIsReal

(* The notes of the chain are well formed.                                  *)
LEMMA ChainNotes ==
    ASSUME TypeOK
    PROVE  Outs(Txs) \subseteq Note
<1>1. \A x \in Txs : x \in Tx
  BY DEF TypeOK, Txs
<1> QED
  BY <1>1 DEF Outs, Tx

LEMMA ProbeIInv == ASSUME IInv, Probe PROVE IInv'
<1> USE DEF Probe
<1>1. UNCHANGED <<chain, next, epoch, read, ep, applied, pass, before>> /\ pc = "probe"
  BY DEF history
<1>2. gap' \in 0..Gap
  BY <1>1, ScanAssumption, GapAssumption DEF Look, IInv, TypeOK, GapOpen
<1>3. pc' \in {"probe", "settle"} /\ index' \in ScanRange /\ pos' \in Nat \ {0} /\ GapOpen'
  BY <1>1, <1>2, ScanAssumption, GapAssumption DEF Advance, IInv, TypeOK, ScanRange, GapOpen
<1>4. UNCHANGED owned \/ \E n \in Shields : /\ index \notin Taken
                                            /\ owned' = owned \cup {Fresh(n)}
  BY DEF Look, Fresh
<1>5. Shields \subseteq Outs(Txs) /\ \A n \in Shields : n.index = index
  BY DEF Shields, Outs, Readable, Txs, IInv, TypeOK
<1>8. Timely'
  BY <1>1, SameTimely DEF IInv
<1>6. CASE UNCHANGED owned
  <2>1. TypeOK'
    BY <1>1, <1>2, <1>3, <1>6 DEF IInv, TypeOK
  <2>2. FoundIsReal' /\ SpentIsKnown'
    BY <1>1, <1>3, <1>6 DEF IInv, FoundIsReal, SpentIsKnown, Found, Txs
  <2> QED
    BY <1>3, <1>8, <2>1, <2>2 DEF IInv
<1>7. ASSUME NEW n \in Shields, index \notin Taken, owned' = owned \cup {Fresh(n)}
      PROVE  IInv'
  <2>1. n \in Outs(Txs) /\ n \in Note /\ n.index \notin Taken
    BY <1>5, <1>7, ChainNotes DEF IInv
  <2>2. FoundIsReal' /\ owned' \subseteq Owned
    BY <1>1, <1>7, <2>1, AddNote DEF IInv, TypeOK, FoundIsReal, Found
  <2>3. TypeOK'
    BY <1>1, <1>2, <1>3, <2>2 DEF IInv, TypeOK
  <2>4. SpentIsKnown'
    BY <1>1, <1>3, <1>7, <2>1, FreshNote DEF IInv, SpentIsKnown, Txs
  <2> QED
    BY <1>3, <1>8, <2>2, <2>3, <2>4 DEF IInv
<1> QED
  BY <1>4, <1>6, <1>7

(* Marking notes as spent changes no note.                                  *)
LEMMA MarkKeeps ==
    ASSUME IInv, NEW S
    PROVE  /\ MarkSpent(S) \subseteq Owned
           /\ {o.note : o \in MarkSpent(S)} = Found
           /\ \A a, b \in MarkSpent(S) : a.note.index = b.note.index => a = b
           /\ S \subseteq Ins(Txs) =>
                 \A o \in MarkSpent(S) : o.spent => o.note \in Ins(Txs)
           /\ \A o \in MarkSpent(S) : o.note \in S => o.spent
<1> DEFINE mark(o) == [note |-> o.note, spent |-> o.spent \/ o.note \in S]
<1>1. MarkSpent(S) = {mark(o) : o \in owned}
  BY DEF MarkSpent
<1>2. \A o \in owned : mark(o) \in Owned /\ mark(o).note = o.note
                        /\ (mark(o).spent <=> o.spent \/ o.note \in S)
  BY DEF IInv, TypeOK, Owned
<1> HIDE DEF mark
<1> QED
  BY <1>1, <1>2 DEF IInv, FoundIsReal, SpentIsKnown, Found

LEMMA ApplyIInv == ASSUME IInv, Apply PROVE IInv'
<1> DEFINE t == chain[pos]
           left == Worth(Inputs(t)) - t.paid
<1>1. /\ UNCHANGED <<chain, next, epoch, read, ep, pc, index, gap, pass, before>>
      /\ pc = "settle" /\ pos' = pos + 1 /\ pos \in DOMAIN chain
  BY DEF Apply, history, IInv, TypeOK
<1>2. t \in Txs /\ t.ins \subseteq Ins(Txs) /\ t.outs \subseteq Outs(Txs)
  BY <1>1 DEF Txs, Ins, Outs
<1>3. Inputs(t) \subseteq Ins(Txs)
  BY <1>2 DEF Inputs
<1>4. \/ UNCHANGED <<owned, applied>>
      \/ owned' = MarkSpent(Inputs(t)) /\ applied' = applied \cup {pos}
      \/ \E n \in LocateChange(t, left) :
            /\ owned' = MarkSpent(Inputs(t)) \cup {Fresh(n)}
            /\ applied' = applied \cup {pos}
  BY DEF Apply, Fresh
<1> DEFINE M == MarkSpent(Inputs(t))
<1>5. /\ M \subseteq Owned /\ {o.note : o \in M} = Found
      /\ \A a, b \in M : a.note.index = b.note.index => a = b
      /\ \A o \in M : o.spent => o.note \in Ins(Txs)
  BY <1>3, MarkKeeps
<1>6. applied' \subseteq DOMAIN chain'
  BY <1>1, <1>4 DEF IInv, TypeOK
<1>7. owned' \subseteq Owned => TypeOK'
  BY <1>1, <1>6 DEF IInv, TypeOK
<1>12. Timely'
  BY <1>1, SameTimely DEF IInv
<1>8. Outs(Txs)' = Outs(Txs) /\ Ins(Txs)' = Ins(Txs) /\ pc' = "settle"
  BY <1>1 DEF Outs, Ins, Txs
<1>9. CASE UNCHANGED owned
  BY <1>7, <1>8, <1>9, <1>12 DEF IInv, TypeOK, FoundIsReal, SpentIsKnown, Found, GapOpen
<1> HIDE DEF M
<1>10. CASE owned' = M
  BY <1>5, <1>7, <1>8, <1>10, <1>12 DEF IInv, FoundIsReal, SpentIsKnown, Found, GapOpen
<1>11. ASSUME NEW n \in LocateChange(t, left),
              owned' = M \cup {Fresh(n)}
       PROVE  IInv'
  <2>1. n \in t.outs /\ n.index \notin Taken
    BY DEF LocateChange
  <2>2. n \in Outs(Txs) /\ n \in Note
    BY <1>2, <2>1, ChainNotes DEF IInv
  <2>3. FoundIsReal' /\ owned' \subseteq Owned
    BY <1>1, <1>5, <1>11, <2>1, <2>2, AddNote DEF IInv
  <2>4. SpentIsKnown'
    BY <1>5, <1>8, <1>11, <2>2, FreshNote DEF SpentIsKnown
  <2> QED
    BY <1>7, <1>8, <1>12, <2>3, <2>4 DEF IInv, GapOpen
<1> QED
  BY <1>4, <1>9, <1>10, <1>11 DEF M

LEMMA EndPassIInv == ASSUME IInv, EndPass PROVE IInv'
<1>1. /\ UNCHANGED <<chain, next, epoch, read, ep, owned, applied, pos>>
      /\ pc' \in {"burn", "probe"}
  BY DEF EndPass, history
<1>2. Cardinality(Found) \in Nat
  <2> DEFINE f == [n \in Found |-> n.index]
  <2>1. f \in Injection(Found, ScanRange)
    <3>1. \A n \in Found : n.index \in ScanRange
      BY DEF IInv, TypeOK, Owned, Note, Found
    <3>2. \A m, n \in Found : m.index = n.index => m = n
      BY DEF IInv, FoundIsReal, Found
    <3> QED
      BY <3>1, <3>2 DEF Injection, IsInjective
  <2>2. IsFiniteSet(ScanRange)
    <3>1. 0 \in Int /\ Cap \in Int
      BY ScanAssumption, GapAssumption
    <3>2. IsFiniteSet(0..Cap)
      BY <3>1, FS_Interval
    <3> QED
      BY <3>2 DEF ScanRange
  <2>3. IsFiniteSet(Found)
    BY <2>1, <2>2, FS_Injection
  <2> QED
    BY <2>3, FS_CardinalityType
<1>3. index' \in ScanRange /\ gap' \in 0..Gap /\ pass' \in 1..Passes /\ before' \in Nat
      /\ GapOpen'
  BY <1>2, ScanAssumption, GapAssumption DEF EndPass, IInv, TypeOK, ScanRange, GapOpen
<1>4. TypeOK'
  BY <1>1, <1>3 DEF IInv, TypeOK
<1>5. FoundIsReal' /\ SpentIsKnown'
  BY <1>1 DEF IInv, FoundIsReal, SpentIsKnown, Found, Txs
<1>6. Timely'
  BY <1>1, SameTimely DEF IInv
<1> QED
  BY <1>3, <1>4, <1>5, <1>6 DEF IInv

(* A spent note is burned if the epoch that its settle names is looked at:  *)
(* it is no later than the epoch of any leaf from that settle on.           *)
LEMMA BurntIsKnown ==
    ASSUME IInv, NEW n \in Found, NEW i \in DOMAIN chain, n \in chain[i].ins,
           ep = epoch \/ \E j \in i..Len(chain) : j \in Logged
    PROVE  n \in Burnt(Found, Logs, ep, Nullifiers(Txs))
<1>1. <<n, chain[i].epoch>> \in Nullifiers(Txs)
  BY DEF Nullifiers, Txs
<1>2. /\ chain \in Seq(Tx) /\ i \in Nat
      /\ \A j \in DOMAIN chain : chain[j].epoch \in Nat /\ chain[j].landed \in Nat
  <2>1. chain \in Seq(Tx) /\ \A j \in DOMAIN chain : chain[j] \in Tx
    BY DEF IInv, TypeOK
  <2> QED
    BY <2>1 DEF Tx
<1>3. Seen(chain[i].epoch, Logs, ep)
  <2>1. CASE ep = epoch
    BY <1>2, <2>1 DEF IInv, Timely, TypeOK, Seen
  <2>2. ASSUME NEW j \in i..Len(chain), j \in Logged
        PROVE  Seen(chain[i].epoch, Logs, ep)
    <3>1. j \in DOMAIN chain /\ i <= j
      BY <1>2, <2>2 DEF Logged
    <3>2. chain[i].epoch <= chain[i].landed /\ chain[i].landed <= chain[j].landed
      BY <3>1 DEF IInv, Timely
    <3>3. chain[i].epoch <= chain[j].landed
      BY <1>2, <3>1, <3>2
    <3>4. chain[j] \in Logs
      BY <2>2 DEF Logs
    <3> QED
      BY <3>3, <3>4 DEF Seen
  <2> QED
    BY <2>1, <2>2
<1>4. PICK x \in Nullifiers(Txs) : x[1] = n /\ x[2] = chain[i].epoch
  BY <1>1
<1> QED
  BY <1>3, <1>4 DEF Burnt

LEMMA BurnIInv == ASSUME IInv, Burn PROVE IInv'
<1> DEFINE S == Burnt(Found, Logs, ep, Nullifiers(Txs))
           M == MarkSpent(S)
<1>1. /\ UNCHANGED <<chain, next, epoch, read, ep, applied, index, gap, pos, pass, before>>
      /\ owned' = M /\ pc' = "done"
  BY DEF Burn, history
<1>2. S \subseteq Ins(Txs)
  BY DEF Burnt, Nullifiers, Ins
<1>3. /\ M \subseteq Owned /\ {o.note : o \in M} = Found
      /\ \A a, b \in M : a.note.index = b.note.index => a = b
      /\ \A o \in M : o.spent => o.note \in Ins(Txs)
      /\ \A o \in M : o.note \in S => o.spent
  BY <1>2, MarkKeeps
<1>4. UNCHANGED <<Outs(Txs), Ins(Txs), Logged>>
  BY <1>1 DEF Outs, Ins, Txs, Logged
<1> HIDE DEF M
<1>5. TypeOK'
  BY <1>1, <1>3 DEF IInv, TypeOK
<1>6. FoundIsReal'
  BY <1>1, <1>3, <1>4 DEF IInv, FoundIsReal, Found
<1>7. SpentIsKnown'
  <2> SUFFICES ASSUME NEW o \in M, NEW i \in DOMAIN chain, o.note \in chain[i].ins,
                      ep = epoch \/ \E j \in i..Len(chain) : j \in Logged
               PROVE  o.spent
    BY <1>1, <1>3, <1>4 DEF SpentIsKnown
  <2>1. o.note \in Found
    BY <1>3
  <2>2. o.note \in S
    BY <2>1, BurntIsKnown
  <2> QED
    BY <1>3, <2>2
<1>8. Timely'
  BY <1>1, SameTimely DEF IInv
<1> QED
  BY <1>1, <1>5, <1>6, <1>7, <1>8 DEF IInv, GapOpen

LEMMA NextIInv == ASSUME IInv, [Next]_vars PROVE IInv'
<1>1. CASE \E v \in Values : Shield(v)
  BY <1>1, ShieldIInv
<1>2. CASE \E ins \in SUBSET Unspent, max, leaf \in BOOLEAN, e \in 0..epoch :
             \E paid \in 1..Worth(ins), left \in 0..Worth(ins) :
                 Settle(ins, paid, left, max, e, leaf)
  <2> PICK ins \in SUBSET Unspent, max, leaf \in BOOLEAN, e \in 0..epoch :
             \E paid \in 1..Worth(ins), left \in 0..Worth(ins) :
                 Settle(ins, paid, left, max, e, leaf)
    BY <1>2
  <2> PICK paid \in 1..Worth(ins), left \in 0..Worth(ins) :
            Settle(ins, paid, left, max, e, leaf)
    OBVIOUS
  <2>1. paid \in Nat /\ left \in Nat
    OBVIOUS
  <2> QED
    BY <2>1, SettleIInv
<1>3. CASE Skip
  BY <1>3, SkipIInv
<1>10. CASE RollEpoch
  BY <1>10, RollEpochIInv
<1>4. CASE Read
  BY <1>4, ReadIInv
<1>5. CASE Probe
  BY <1>5, ProbeIInv
<1>6. CASE Apply
  BY <1>6, ApplyIInv
<1>7. CASE EndPass
  BY <1>7, EndPassIInv
<1>8. CASE Burn
  BY <1>8, BurnIInv
<1>9. CASE UNCHANGED vars
  BY <1>9 DEF vars, recovery, IInv, TypeOK, FoundIsReal, SpentIsKnown, Found, Txs,
              Logged, GapOpen, Timely
<1> QED
  BY <1>1, <1>2, <1>3, <1>4, <1>5, <1>6, <1>7, <1>8, <1>9, <1>10 DEF Next

(* recover_notes keeps its variables in shape, makes up no note, gives no   *)
(* index to two notes, and marks a note as spent only if it is, and if it is*)
(* unless the epoch could not be read and no leaf shows one as late         *)
(* (notescan.rs:141-196, flow.rs:925-935).                                  *)
THEOREM RecoveryIsSound == Spec => [](TypeOK /\ FoundIsReal /\ SpentIsKnown)
<1>1. Init => IInv
  BY InitIInv
<1>2. IInv /\ [Next]_vars => IInv'
  BY NextIInv
<1>3. IInv => TypeOK /\ FoundIsReal /\ SpentIsKnown
  BY DEF IInv
<1> QED
  BY <1>1, <1>2, <1>3, PTL DEF Spec

-----------------------------------------------------------------------------
(* The recursive function by which the community modules fold a set, for    *)
(* the values of notes.                                                     *)
Pick(s) == CHOOSE x \in s : TRUE
Adds(S, f) ==
    f = [s \in SUBSET S |-> IF s = {} THEN 0 ELSE Pick(s).value + f[s \ {Pick(s)}]]

LEMMA WorthIsSum == \A S : Worth(S) = (CHOOSE f : Adds(S, f))[S]
BY DEF Worth, MapThenSumSet, MapThenFoldSet, Adds, Pick

LEMMA PickIn == \A s : s # {} => Pick(s) \in s
BY DEF Pick

(* What it is to have the sums of all parts of S.                           *)
SumsOf(S, f) ==
    /\ f = [s \in SUBSET S |-> f[s]]
    /\ f[{}] = 0
    /\ \A s \in SUBSET S : s # {} => f[s] = Pick(s).value + f[s \ {Pick(s)}]

(* If there is such a function, Worth computes with one.                    *)
LEMMA WorthAdds ==
    ASSUME NEW S, NEW g, SumsOf(S, g)
    PROVE  \E f : SumsOf(S, f) /\ Worth(S) = f[S]
<1> DEFINE rule(f, s) == IF s = {} THEN 0 ELSE Pick(s).value + f[s \ {Pick(s)}]
<1>1. Adds(S, g)
  <2>1. \A s \in SUBSET S : g[s] = rule(g, s)
    BY DEF SumsOf
  <2>2. [s \in SUBSET S |-> g[s]] = [s \in SUBSET S |-> rule(g, s)]
    <3> HIDE DEF rule
    <3> QED
      BY <2>1
  <2>3. g = [s \in SUBSET S |-> g[s]]
    BY DEF SumsOf
  <2> QED
    BY <2>2, <2>3, Zenon DEF Adds
<1>2. PICK f : f = (CHOOSE h : Adds(S, h)) /\ Adds(S, f)
  BY <1>1, Zenon
<1>3. SumsOf(S, f)
  <2>1. f = [s \in SUBSET S |-> rule(f, s)]
    BY <1>2, Zenon DEF Adds
  <2> HIDE DEF rule
  <2>2. \A s \in SUBSET S : f[s] = rule(f, s)
    BY <2>1, Zenon
  <2>3. [s \in SUBSET S |-> f[s]] = [s \in SUBSET S |-> rule(f, s)]
    BY <2>2
  <2>4. f = [s \in SUBSET S |-> f[s]]
    BY <2>1, <2>3, Zenon
  <2>5. f[{}] = 0
    BY <2>2 DEF rule
  <2>6. \A s \in SUBSET S : s # {} => f[s] = Pick(s).value + f[s \ {Pick(s)}]
    BY <2>2, Zenon DEF rule
  <2> QED
    BY <2>4, <2>5, <2>6, Zenon DEF SumsOf
<1> QED
  BY <1>2, <1>3, WorthIsSum

LEMMA WorthOfNone == Worth({}) = 0
<1> DEFINE g == [s \in SUBSET {} |-> 0]
<1>1. SumsOf({}, g)
  BY DEF SumsOf
<1> HIDE DEF g
<1>2. PICK f : SumsOf({}, f) /\ Worth({}) = f[{}]
  BY <1>1, WorthAdds, Zenon
<1> QED
  BY <1>2 DEF SumsOf

LEMMA WorthOfOne ==
    ASSUME NEW a, a.value \in Nat
    PROVE  Worth({a}) = a.value
<1> DEFINE g == [s \in SUBSET {a} |-> IF s = {} THEN 0 ELSE a.value]
<1>1. g = [s \in SUBSET {a} |-> g[s]] /\ g[{}] = 0 /\ g[{a}] = a.value
  OBVIOUS
<1> HIDE DEF g
<1>2. Pick({a}) = a /\ {a} \ {a} = {}
  BY PickIn
<1>3. \A s \in SUBSET {a} : s = {} \/ s = {a}
  OBVIOUS
<1>4. \A s \in SUBSET {a} : g[s] = IF s = {} THEN 0
                                   ELSE Pick(s).value + g[s \ {Pick(s)}]
  <2> TAKE s \in SUBSET {a}
  <2>1. CASE s = {}
    BY <1>1, <2>1
  <2>2. CASE s = {a}
    <3>1. g[s] = a.value /\ g[s \ {Pick(s)}] = 0 /\ Pick(s).value = a.value /\ s # {}
      BY <1>1, <1>2, <2>2, Zenon
    <3> QED
      BY <3>1
  <2> QED
    BY <1>3, <2>1, <2>2
<1>8. SumsOf({a}, g)
  BY <1>1, <1>4 DEF SumsOf
<1>5. PICK f : SumsOf({a}, f) /\ Worth({a}) = f[{a}]
  BY <1>8, WorthAdds, Zenon
<1>6. f[{a}] = Pick({a}).value + f[{a} \ {Pick({a})}]
  BY <1>5, Zenon DEF SumsOf
<1>7. f[{a} \ {Pick({a})}] = 0 /\ Pick({a}).value = a.value
  BY <1>2, <1>5, Zenon DEF SumsOf
<1> QED
  BY <1>5, <1>6, <1>7

LEMMA WorthOfTwo ==
    ASSUME NEW a, NEW b, a # b, a.value \in Nat, b.value \in Nat
    PROVE  Worth({a, b}) = a.value + b.value
<1> DEFINE S == {a, b}
           g == [s \in SUBSET S |-> IF s = {} THEN 0
                                    ELSE IF s = {a} THEN a.value
                                    ELSE IF s = {b} THEN b.value
                                    ELSE a.value + b.value]
<1>1. {a} # {b} /\ {a} # S /\ {b} # S /\ S # {} /\ S \ {a} = {b} /\ S \ {b} = {a}
  OBVIOUS
<1>2. /\ g = [s \in SUBSET S |-> g[s]] /\ g[{}] = 0
      /\ g[{a}] = a.value /\ g[{b}] = b.value /\ g[S] = a.value + b.value
  <2> HIDE DEF S
  <2>1. {} \in SUBSET S /\ {a} \in SUBSET S /\ {b} \in SUBSET S /\ S \in SUBSET S
    BY DEF S
  <2> QED
    BY <1>1, <2>1
<1> HIDE DEF g
<1>3. Pick({a}) = a /\ Pick({b}) = b /\ {a} \ {a} = {} /\ {b} \ {b} = {}
  BY PickIn
<1>4. Pick(S) = a \/ Pick(S) = b
  BY <1>1, PickIn
<1>5. \A s \in SUBSET S : s = {} \/ s = {a} \/ s = {b} \/ s = S
  OBVIOUS
<1>6. S \in SUBSET S /\ {a} \in SUBSET S /\ {b} \in SUBSET S
  OBVIOUS
<1> HIDE DEF S
<1>7. \A s \in SUBSET S : g[s] = IF s = {} THEN 0
                                 ELSE Pick(s).value + g[s \ {Pick(s)}]
  <2> TAKE s \in SUBSET S
  <2>1. CASE s = {}
    BY <1>2, <2>1
  <2>2. ASSUME NEW x \in {a, b}, s = {x}
        PROVE  g[s] = IF s = {} THEN 0 ELSE Pick(s).value + g[s \ {Pick(s)}]
    <3>1. /\ g[s] = x.value /\ g[s \ {Pick(s)}] = 0 /\ Pick(s).value = x.value
          /\ s # {} /\ x.value \in Nat
      BY <1>2, <1>3, <2>2, Zenon
    <3> QED
      BY <3>1
  <2>3. CASE s = S
    <3>1. /\ g[s] = a.value + b.value /\ s # {}
          /\ \/ Pick(s).value = a.value /\ g[s \ {Pick(s)}] = b.value
             \/ Pick(s).value = b.value /\ g[s \ {Pick(s)}] = a.value
      BY <1>1, <1>2, <1>4, <2>3, Zenon
    <3> QED
      BY <3>1
  <2> QED
    BY <1>5, <2>1, <2>2, <2>3
<1>11. SumsOf(S, g)
  BY <1>2, <1>7 DEF SumsOf
<1>8. PICK f : SumsOf(S, f) /\ Worth(S) = f[S]
  BY <1>11, WorthAdds, Zenon
<1>9. f[{a}] = a.value /\ f[{b}] = b.value
  <2>1. /\ f[{a}] = Pick({a}).value + f[{a} \ {Pick({a})}]
        /\ f[{b}] = Pick({b}).value + f[{b} \ {Pick({b})}]
    BY <1>6, <1>8, Zenon DEF SumsOf
  <2>2. /\ Pick({a}).value = a.value /\ f[{a} \ {Pick({a})}] = 0
        /\ Pick({b}).value = b.value /\ f[{b} \ {Pick({b})}] = 0
    BY <1>3, <1>8, Zenon DEF SumsOf
  <2> QED
    BY <2>1, <2>2
<1>10. Worth(S) = a.value + b.value
  <2>1. f[S] = Pick(S).value + f[S \ {Pick(S)}]
    BY <1>1, <1>6, <1>8, Zenon DEF SumsOf
  <2>2. \/ Pick(S).value = a.value /\ f[S \ {Pick(S)}] = b.value
        \/ Pick(S).value = b.value /\ f[S \ {Pick(S)}] = a.value
    BY <1>1, <1>4, <1>9, Zenon
  <2> QED
    BY <1>8, <2>1, <2>2
<1> QED
  BY <1>10 DEF S

-----------------------------------------------------------------------------
(* The history that a recovery is run on: an index names one note; a note is*)
(* spent by at most one settle, after the transaction that made it.         *)
ChainInv ==
    /\ \A n \in Outs(Txs) : n.index < next /\ n.value # 0
    /\ \A m, n \in Outs(Txs) : m.index = n.index => m = n
    /\ Ins(Txs) \subseteq Outs(Txs)
    /\ \A i, j \in DOMAIN chain :
          /\ i # j => chain[i].ins \cap chain[j].ins = {}
          /\ i <= j => chain[i].ins \cap chain[j].outs = {}

(* A settle takes one note or two, and what it does not pay is its change,  *)
(* at a higher index.                                                       *)
Settles(t) ==
    \E a, b \in t.ins, left \in Nat :
        /\ t.ins = {a, b}
        /\ t.paid + left = Worth(t.ins)
        /\ IF left = 0 THEN t.outs = {}
           ELSE \E n \in t.outs : n.value = left /\ t.outs = {n}
AmountsInv ==
    \A t \in Txs :
        /\ \A m \in t.ins, n \in t.outs : m.index < n.index
        /\ \A m, n \in t.outs : m = n
        /\ t.ins # {} => Settles(t)

(* Before the recovery nothing is found.                                    *)
LiveInv == pc = "live" =>
    /\ owned = {} /\ applied = {}
    /\ before = 0 /\ index = 0 /\ gap = 0 /\ pass = 1

LEMMA InitChain == ASSUME Init PROVE ChainInv /\ AmountsInv /\ LiveInv
<1>1. Txs = {} /\ DOMAIN chain = {}
  BY DEF Init, Txs
<1>2. Outs(Txs) = {} /\ Ins(Txs) = {}
  BY <1>1 DEF Outs, Ins
<1> QED
  BY <1>1, <1>2 DEF Init, ChainInv, AmountsInv, LiveInv

(* What a transaction adds to the history.                                  *)
LEMMA MineTxs ==
    ASSUME TypeOK, NEW t \in Tx, Mine(t)
    PROVE  /\ DOMAIN chain' = DOMAIN chain \cup {Len(chain) + 1}
           /\ Len(chain) + 1 \notin DOMAIN chain
           /\ \A i \in DOMAIN chain : chain'[i] = chain[i] /\ i < Len(chain) + 1
           /\ chain'[Len(chain) + 1] = t
           /\ Txs' = Txs \cup {t}
           /\ Outs(Txs)' = Outs(Txs) \cup t.outs
           /\ Ins(Txs)' = Ins(Txs) \cup t.ins
<1>1. chain \in Seq(Tx) /\ chain' = Append(chain, t)
  BY DEF Mine, TypeOK
<1>2. /\ DOMAIN chain' = DOMAIN chain \cup {Len(chain) + 1}
      /\ Len(chain) + 1 \notin DOMAIN chain
      /\ \A i \in DOMAIN chain : chain'[i] = chain[i] /\ i < Len(chain) + 1
      /\ chain'[Len(chain) + 1] = t
  <2>1. chain \in [1..Len(chain) -> Tx] /\ DOMAIN chain = 1..Len(chain)
        /\ Len(chain) \in Nat
    BY <1>1
  <2>2. /\ chain' \in Seq(Tx) /\ Len(chain') = Len(chain) + 1
        /\ DOMAIN chain' = 1..(Len(chain) + 1)
        /\ chain'[Len(chain) + 1] = t
        /\ \A i \in 1..Len(chain) : chain'[i] = chain[i]
    BY <1>1
  <2> DEFINE L == Len(chain) + 1
  <2>3. 1..L = 1..Len(chain) \cup {L} /\ L \notin 1..Len(chain) /\ L \in 1..L
        /\ \A i \in 1..Len(chain) : i < L /\ i # L /\ i \in 1..L
    BY <2>1
  <2> HIDE DEF L
  <2>4. DOMAIN chain' = 1..L /\ chain'[L] = t /\ \A i \in 1..Len(chain) : chain'[i] = chain[i]
    BY <2>2, <2>3 DEF L
  <2> QED
    BY <2>1, <2>3, <2>4, Zenon DEF L
<1>3. Txs' = Txs \cup {t}
  BY <1>2 DEF Txs
<1>4. Outs(Txs)' = Outs(Txs) \cup t.outs /\ Ins(Txs)' = Ins(Txs) \cup t.ins
  BY <1>3 DEF Outs, Ins
<1> QED
  BY <1>2, <1>3, <1>4

LEMMA MineChain ==
    ASSUME TypeOK, ChainInv, NEW t \in Tx, Mine(t), t.ins \subseteq Unspent,
           next' \in Nat, next <= next',
           \A n \in t.outs : n.index = next /\ n.index < next' /\ n.value # 0,
           \A m, n \in t.outs : m = n
    PROVE  ChainInv'
<1> DEFINE L == Len(chain) + 1
<1>1. /\ DOMAIN chain' = DOMAIN chain \cup {L} /\ L \notin DOMAIN chain
      /\ \A i \in DOMAIN chain : chain'[i] = chain[i] /\ i < L
      /\ chain'[L] = t
      /\ Outs(Txs)' = Outs(Txs) \cup t.outs
      /\ Ins(Txs)' = Ins(Txs) \cup t.ins
  BY MineTxs
<1> HIDE DEF L
<1>2. \A n \in Outs(Txs) : n.index \in Nat /\ n.index < next
  BY ChainNotes DEF ChainInv, Note, ScanRange
<1>3. next \in Nat
  BY ScanAssumption, GapAssumption DEF TypeOK
<1>4. \A n \in Outs(Txs)' : n.index < next' /\ n.value # 0
  BY <1>1, <1>2, <1>3 DEF ChainInv
<1>5. \A m, n \in Outs(Txs)' : m.index = n.index => m = n
  BY <1>1, <1>2, <1>3 DEF ChainInv
<1>6. Ins(Txs)' \subseteq Outs(Txs)'
  BY <1>1 DEF ChainInv, Unspent
<1>7. Outs(Txs) \cap t.outs = {}
  BY <1>2, <1>3
<1>8. /\ \A i \in DOMAIN chain : chain[i].ins \subseteq Ins(Txs)
      /\ \A i \in DOMAIN chain : chain[i].outs \subseteq Outs(Txs)
  BY DEF Ins, Outs, Txs
<1>9. \A i \in DOMAIN chain : /\ chain[i].ins \cap t.ins = {}
                              /\ chain[i].ins \cap t.outs = {}
  BY <1>7, <1>8 DEF ChainInv, Unspent
<1>10. t.ins \cap t.outs = {}
  BY <1>7 DEF Unspent
<1>11. ASSUME NEW i \in DOMAIN chain', NEW j \in DOMAIN chain'
       PROVE  /\ i # j => chain'[i].ins \cap chain'[j].ins = {}
              /\ i <= j => chain'[i].ins \cap chain'[j].outs = {}
  <2>1. CASE i \in DOMAIN chain /\ j \in DOMAIN chain
    BY <1>1, <2>1 DEF ChainInv
  <2>2. CASE i \in DOMAIN chain /\ j = L
    BY <1>1, <1>9, <2>2
  <2>3. CASE i = L /\ j \in DOMAIN chain
    <3>1. j < L /\ ~(i <= j)
      <4>1. j \in Nat /\ L \in Nat
        BY <2>3 DEF TypeOK, L
      <4> QED
        BY <1>1, <2>3, <4>1
    <3>2. chain'[i].ins \cap chain'[j].ins = {}
      BY <1>1, <1>9, <2>3
    <3> QED
      BY <3>1, <3>2
  <2>4. CASE i = L /\ j = L
    BY <1>1, <1>10, <2>4
  <2> QED
    BY <1>1, <2>1, <2>2, <2>3, <2>4
<1> QED
  BY <1>4, <1>5, <1>6, <1>11 DEF ChainInv

(* One note to an index: there are finitely many.                           *)
LEMMA FewNotes ==
    ASSUME NEW S \in SUBSET Note, \A m, n \in S : m.index = n.index => m = n
    PROVE  IsFiniteSet(S)
<1> DEFINE f == [n \in S |-> n.index]
<1>1. f \in Injection(S, ScanRange)
  BY DEF Injection, IsInjective, Note
<1>2. IsFiniteSet(ScanRange)
  <2>1. 0 \in Int /\ Cap \in Int
    BY ScanAssumption, GapAssumption
  <2> QED
    BY <2>1, FS_Interval DEF ScanRange
<1> QED
  BY <1>1, <1>2, FS_Injection

(* One note or two.                                                         *)
LEMMA OneOrTwo ==
    ASSUME NEW S, IsFiniteSet(S), Cardinality(S) \in {1, 2}
    PROVE  \E a, b \in S : S = {a, b}
<1>1. CASE Cardinality(S) = 1
  <2>1. PICK x : S = {x}
    BY <1>1, FS_Singleton
  <2>2. x \in S /\ S = {x, x}
    BY <2>1
  <2> QED
    BY <2>2
<1>2. CASE Cardinality(S) = 2
  <2>1. S # {}
    BY <1>2, FS_EmptySet
  <2>2. PICK a \in S : TRUE
    BY <2>1
  <2>3. IsFiniteSet(S \ {a}) /\ Cardinality(S \ {a}) = 1
    BY <1>2, <2>2, FS_RemoveElement
  <2>4. PICK b : S \ {a} = {b}
    BY <2>3, FS_Singleton
  <2>5. b \in S /\ S = {a, b}
    BY <2>2, <2>4
  <2> QED
    BY <2>2, <2>5
<1> QED
  BY <1>1, <1>2

(* What a shield, a settle and an index that was let go do to the history.  *)
LEMMA ShieldChain ==
    ASSUME TypeOK, ChainInv, AmountsInv, NEW v \in Values, Shield(v)
    PROVE  ChainInv' /\ AmountsInv'
<1> DEFINE t == [ins |-> {}, outs |-> {[index |-> next, value |-> v]}, paid |-> 0,
                 epoch |-> epoch, landed |-> epoch, leaf |-> TRUE]
<1>1. /\ next \in Nat /\ next' \in Nat /\ next < next' /\ next \in ScanRange
      /\ v \in Nat /\ v # 0
  BY ScanAssumption, GapAssumption DEF Shield, TypeOK, ScanRange
<1>2. t \in Tx /\ Mine(t)
  <2>1. {[index |-> next, value |-> v]} \in SUBSET Note /\ epoch \in Nat
    BY <1>1 DEF Note, TypeOK
  <2> QED
    BY <2>1 DEF Tx, Shield
<1>3. /\ t.ins = {}
      /\ \A n \in t.outs : n.index = next /\ n.value # 0
      /\ \A m, n \in t.outs : m = n
  BY <1>1
<1> HIDE DEF t
<1>4. ChainInv'
  BY <1>1, <1>2, <1>3, MineChain
<1>5. AmountsInv'
  BY <1>2, <1>3, MineTxs DEF AmountsInv, Settles
<1> QED
  BY <1>4, <1>5

LEMMA SettleChain ==
    ASSUME TypeOK, ChainInv, AmountsInv, NEW ins \in SUBSET Unspent,
           NEW max \in BOOLEAN, NEW leaf \in BOOLEAN, NEW e \in 0..epoch,
           NEW paid \in Nat, NEW left \in Nat, Settle(ins, paid, left, max, e, leaf)
    PROVE  ChainInv' /\ AmountsInv'
<1> DEFINE outs == IF left = 0 THEN {} ELSE {[index |-> next, value |-> left]}
           t == [ins |-> ins, paid |-> paid, outs |-> outs,
                 epoch |-> e, landed |-> epoch, leaf |-> leaf]
<1>1. /\ next \in Nat /\ next' \in Nat /\ next <= next'
      /\ left # 0 => next < next' /\ next \in ScanRange
  BY ScanAssumption, GapAssumption DEF Settle, TypeOK, ScanRange
<1>2. /\ outs \in SUBSET Note
      /\ \A n \in outs : n.index = next /\ n.index < next' /\ n.value # 0
      /\ \A m, n \in outs : m = n
      /\ IF left = 0 THEN outs = {} ELSE \E n \in outs : n.value = left /\ outs = {n}
  <2>1. CASE left = 0
    <3>1. outs = {}
      BY <2>1
    <3> QED
      BY <2>1, <3>1
  <2>2. CASE left # 0
    <3> DEFINE n == [index |-> next, value |-> left]
    <3>1. outs = {n} /\ n \in Note /\ n.index = next /\ n.value = left
      BY <1>1, <2>2 DEF Note
    <3> HIDE DEF n, outs
    <3> QED
      BY <1>1, <2>2, <3>1
  <2> QED
    BY <2>1, <2>2
<1> HIDE DEF outs
<1>3. Outs(Txs) \subseteq Note /\ ins \subseteq Outs(Txs)
  BY ChainNotes DEF Unspent
<1>4. /\ t \in Tx /\ Mine(t) /\ t.ins = ins /\ t.outs = outs /\ t.paid = paid
  <2>1. e \in Nat /\ epoch \in Nat
    BY DEF TypeOK
  <2>2. Mine(t)
    BY DEF Settle, outs
  <2> QED
    BY <1>2, <1>3, <2>1, <2>2 DEF Tx
<1> HIDE DEF t
<1>5. ChainInv'
  BY <1>1, <1>2, <1>4, MineChain
<1>6. \E a, b \in ins : ins = {a, b}
  <2>1. IsFiniteSet(ins)
    <3>1. ins \in SUBSET Note /\ \A m, n \in ins : m.index = n.index => m = n
      BY <1>3 DEF ChainInv
    <3> QED
      BY <3>1, FewNotes
  <2> QED
    BY <2>1, OneOrTwo DEF Settle
<1>7. t.paid + left = Worth(t.ins)
  BY <1>4 DEF Settle
<1>8. Settles(t)
  BY <1>2, <1>4, <1>6, <1>7 DEF Settles
<1>9. \A m \in t.ins, n \in t.outs : m.index < n.index
  BY <1>2, <1>3, <1>4 DEF ChainInv
<1>10. Txs' = Txs \cup {t}
  BY <1>4, MineTxs
<1> QED
  BY <1>2, <1>4, <1>5, <1>8, <1>9, <1>10 DEF AmountsInv

(* The recovery leaves the history as it is.                                *)
LEMMA SameChain ==
    ASSUME ChainInv, AmountsInv, TypeOK, UNCHANGED chain, next' \in Nat, next <= next'
    PROVE  ChainInv' /\ AmountsInv'
<1>1. Txs' = Txs
  BY DEF Txs
<1>2. Outs(Txs)' = Outs(Txs) /\ Ins(Txs)' = Ins(Txs)
  BY <1>1 DEF Outs, Ins
<1>3. \A n \in Outs(Txs) : n.index \in Nat /\ next \in Nat
  BY ChainNotes, ScanAssumption, GapAssumption DEF Note, ScanRange, TypeOK
<1>4. ChainInv'
  BY <1>2, <1>3 DEF ChainInv
<1>5. AmountsInv'
  BY <1>1 DEF AmountsInv, Settles
<1> QED
  BY <1>4, <1>5

LEMMA NextChain ==
    ASSUME IInv, ChainInv, AmountsInv, [Next]_vars
    PROVE  ChainInv' /\ AmountsInv'
<1>1. TypeOK
  BY DEF IInv
<1>2. CASE \E v \in Values : Shield(v)
  BY <1>1, <1>2, ShieldChain
<1>3. CASE \E ins \in SUBSET Unspent, max, leaf \in BOOLEAN, e \in 0..epoch :
             \E paid \in 1..Worth(ins), left \in 0..Worth(ins) :
                 Settle(ins, paid, left, max, e, leaf)
  <2> PICK ins \in SUBSET Unspent, max, leaf \in BOOLEAN, e \in 0..epoch :
             \E paid \in 1..Worth(ins), left \in 0..Worth(ins) :
                 Settle(ins, paid, left, max, e, leaf)
    BY <1>3
  <2> PICK paid \in 1..Worth(ins), left \in 0..Worth(ins) :
            Settle(ins, paid, left, max, e, leaf)
    OBVIOUS
  <2>1. paid \in Nat /\ left \in Nat
    OBVIOUS
  <2> QED
    BY <1>1, <2>1, SettleChain
<1>4. next \in Nat
  BY <1>1, ScanAssumption, GapAssumption DEF TypeOK
<1>5. CASE Skip
  <2>1. UNCHANGED chain /\ next' \in Nat /\ next <= next'
    BY <1>4, <1>5 DEF Skip
  <2> QED
    BY <1>1, <2>1, SameChain
<1>6. CASE RollEpoch \/ Read \/ Probe \/ Apply \/ EndPass \/ Burn \/ UNCHANGED vars
  <2>1. UNCHANGED <<chain, next>>
    BY <1>6 DEF RollEpoch, Read, Probe, Apply, EndPass, Burn, vars, history
  <2>2. next' \in Nat /\ next <= next'
    BY <1>4, <2>1
  <2> QED
    BY <1>1, <2>1, <2>2, SameChain
<1> QED
  BY <1>2, <1>3, <1>5, <1>6 DEF Next

-----------------------------------------------------------------------------
(* How far the passes have come.  Swept: no readable shield below b is      *)
(* missing.  Open: the indexes from i to below j are without a found note.  *)
Sweepable == Outs({t \in Readable : t.ins = {}})
Swept(b) == \A n \in Sweepable : n.index < b => n.index \in Taken
Open(i, j) == \A k \in Taken : ~(i <= k /\ k < j)

(* Every pass that finds something sweeps another Gap of indexes, or all.   *)
Reach(k, b) == b >= k * Gap \/ b = Cap + 1

(* A settle that apply_settles would use, and those before p that it would  *)
(* not use again.                                                           *)
Usable(t) ==
    LET left == Worth(Inputs(t)) - t.paid
    IN  /\ Inputs(t) # {} /\ t.paid <= Worth(Inputs(t))
        /\ left = 0 \/ LocateChange(t, left) # {}
SettledTo(p) == \A q \in read : q < p => q \in applied \/ ~Usable(chain[q])

(* Nothing was found since the pass began, and nothing can be settled.      *)
Quiet == Cardinality(Found) = before /\ SettledTo(Len(chain) + 1)

ProbeInv == pc = "probe" =>
    /\ Swept(index) /\ gap <= index /\ Open(index - gap, index)
    /\ \E b \in 0..Cap + 1 :
          /\ Reach(pass - 1, b) /\ Swept(b)
          /\ \/ Quiet
             \/ Cardinality(Found) > before /\ b <= Cap /\ b + gap + 1 <= index

SettleInv == pc = "settle" =>
    \/ /\ Quiet /\ Swept(index + 1)
       /\ index = Cap \/ (Gap <= index + 1 /\ Open(index + 1 - Gap, index + 1))
    \/ /\ Cardinality(Found) > before /\ (pass - 1) * Gap <= Cap
       /\ \E b \in 0..Cap + 1 : Reach(pass, b) /\ Swept(b)
       /\ SettledTo(pos)

PassInv ==
    /\ IInv /\ ChainInv /\ AmountsInv
    /\ LiveInv /\ ProbeInv /\ SettleInv /\ PassesSuffice

LEMMA FoundFinite == ASSUME IInv PROVE IsFiniteSet(Found) /\ Cardinality(Found) \in Nat
<1>1. Found \in SUBSET Note
  BY ChainNotes DEF IInv, FoundIsReal
<1>2. \A m, n \in Found : m.index = n.index => m = n
  BY DEF IInv, FoundIsReal, Found
<1>3. IsFiniteSet(Found)
  BY <1>1, <1>2, FewNotes
<1> QED
  BY <1>3, FS_CardinalityType

(* Another note is one more.                                                *)
LEMMA OneMore ==
    ASSUME IInv, NEW M, {o.note : o \in M} = Found,
           NEW n \in Note, n.index \notin Taken, owned' = M \cup {Fresh(n)}
    PROVE  /\ Found' = Found \cup {n} /\ Taken' = Taken \cup {n.index}
           /\ Cardinality(Found)' = Cardinality(Found) + 1
<1>1. Found' = Found \cup {n}
  BY FreshNote DEF Found
<1>2. Taken' = Taken \cup {n.index}
  BY <1>1 DEF Taken
<1>3. n \notin Found
  BY DEF Taken
<1>4. Cardinality(Found \cup {n}) = Cardinality(Found) + 1
  BY <1>3, FoundFinite, FS_AddElement
<1> QED
  BY <1>1, <1>2, <1>4

(* What the passes have reached depends on these variables only.            *)
LEMMA SamePass ==
    ASSUME UNCHANGED <<chain, read, owned, applied>>
    PROVE  /\ UNCHANGED <<Found, Taken, Sweepable, Cardinality(Found)>>
           /\ \A b : Swept(b)' <=> Swept(b)
           /\ \A i, j : Open(i, j)' <=> Open(i, j)
           /\ \A t : Usable(t)' <=> Usable(t)
           /\ \A p : SettledTo(p)' <=> SettledTo(p)
<1>1. UNCHANGED <<Found, Taken, Sweepable>>
  BY DEF Found, Taken, Sweepable, Readable, Outs
<1>2. UNCHANGED Cardinality(Found)
  BY <1>1
<1>3. /\ \A b : Swept(b)' <=> Swept(b)
      /\ \A i, j : Open(i, j)' <=> Open(i, j)
  BY <1>1 DEF Swept, Open
<1>4. \A t : Inputs(t)' = Inputs(t)
  BY <1>1 DEF Inputs
<1>5. \A t, v : LocateChange(t, v)' = LocateChange(t, v)
  BY <1>1 DEF LocateChange
<1>6. \A t : Usable(t)' <=> Usable(t)
  BY <1>4, <1>5 DEF Usable
<1>7. \A p : SettledTo(p)' <=> SettledTo(p)
  BY <1>6 DEF SettledTo
<1> QED
  BY <1>1, <1>2, <1>3, <1>6, <1>7

(* A swept shield stays swept.                                              *)
LEMMA SweptStays ==
    ASSUME UNCHANGED <<chain, read>>, Taken \subseteq Taken', NEW b, Swept(b)
    PROVE  Swept(b)'
<1>1. UNCHANGED Sweepable
  BY DEF Sweepable, Readable, Outs
<1> QED
  BY <1>1 DEF Swept

(* The sums of gaps.                                                        *)
LEMMA ReachMore ==
    ASSUME NEW k \in Nat \ {0}, NEW b \in Nat, b >= (k - 1) * Gap,
           NEW i \in Nat, i >= b + Gap
    PROVE  i >= k * Gap
<1>1. Gap \in Nat
  BY ScanAssumption, GapAssumption
<1>2. (k - 1) * Gap + Gap = k * Gap
  BY <1>1
<1> QED
  BY <1>1, <1>2

LEMMA LastReach == (Passes - 1) * Gap > Cap
<1> DEFINE d == Cap \div Gap
<1>1. Gap \in Nat \ {0} /\ Cap \in Nat /\ Passes \in Nat /\ Passes >= d + 2
  BY ScanAssumption, GapAssumption
<1>2. d \in Nat /\ Cap < (d + 1) * Gap
  BY <1>1
<1> HIDE DEF d
<1>3. PICK e \in Nat : Passes - 1 = d + 1 + e
  <2>1. Passes - 2 - d \in Nat /\ Passes - 1 = d + 1 + (Passes - 2 - d)
    BY <1>1, <1>2
  <2> QED
    BY <2>1
<1>4. (d + 1 + e) * Gap = (d + 1) * Gap + e * Gap /\ e * Gap >= 0
  BY <1>1, <1>2
<1>5. (Passes - 1) * Gap = (d + 1) * Gap + e * Gap
  BY <1>3, <1>4
<1> QED
  BY <1>1, <1>2, <1>3, <1>4, <1>5

(* What Look does to the found notes and to the gap.                        *)
LEMMA LookStep ==
    ASSUME IInv, ProbeInv, Probe, NEW i, i = index, NEW g, g = gap'
    PROVE  /\ UNCHANGED <<chain, read, applied, pass, before>> /\ pc = "probe"
           /\ Swept(i + 1)' /\ g \in Nat /\ g <= i + 1
           /\ Open(i + 1 - g, i + 1)'
           /\ \A b : Swept(b) => Swept(b)'
           /\ \/ UNCHANGED owned /\ g <= gap + 1
              \/ /\ Cardinality(Found)' = Cardinality(Found) + 1 /\ g = 0
                 /\ i \notin Taken /\ \E n \in Sweepable : n.index = i
<1>1. UNCHANGED <<chain, read, applied, pass, before>> /\ pc = "probe" /\ Look
  BY DEF Probe, history
<1>2. index \in Nat /\ gap \in Nat /\ Swept(index) /\ Open(index - gap, index)
      /\ gap <= index
  BY <1>1, ScanAssumption, GapAssumption DEF IInv, TypeOK, ProbeInv, ScanRange
<1>3. \A n \in Sweepable : n.index \in Nat
  <2>1. Sweepable \subseteq Outs(Txs)
    BY DEF Sweepable, Outs, Readable, Txs, IInv, TypeOK
  <2> QED
    BY <2>1, ChainNotes DEF IInv, Note, ScanRange
<1>4. Taken \subseteq Nat
  BY ScanAssumption, GapAssumption DEF IInv, TypeOK, Owned, Note, Taken, Found, ScanRange
<1>5. UNCHANGED Sweepable
  BY <1>1 DEF Sweepable, Readable, Outs
<1>6. CASE index \in Taken
  <2>1. gap' = 0 /\ UNCHANGED owned
    BY <1>1, <1>6 DEF Look
  <2>2. UNCHANGED Taken
    BY <2>1 DEF Taken, Found
  <2>3. Swept(i + 1)' /\ \A b : Swept(b) => Swept(b)'
    BY <1>2, <1>3, <1>5, <1>6, <2>2 DEF Swept
  <2>4. Open(i + 1 - g, i + 1)'
    BY <1>2, <1>4, <2>1, <2>2 DEF Open
  <2> QED
    BY <1>1, <1>2, <2>1, <2>3, <2>4
<1>7. CASE index \notin Taken /\ Shields = {}
  <2>1. gap' = gap + 1 /\ UNCHANGED owned
    BY <1>1, <1>7 DEF Look
  <2>2. UNCHANGED Taken
    BY <2>1 DEF Taken, Found
  <2>3. \A n \in Sweepable : n.index # index
    BY <1>7 DEF Shields, Sweepable
  <2>4. Swept(i + 1)' /\ \A b : Swept(b) => Swept(b)'
    BY <1>2, <1>3, <1>5, <2>2, <2>3 DEF Swept
  <2>5. Open(i + 1 - g, i + 1)'
    BY <1>2, <1>4, <1>7, <2>1, <2>2 DEF Open
  <2> QED
    BY <1>1, <1>2, <2>1, <2>4, <2>5
<1>8. CASE index \notin Taken /\ Shields # {}
  <2>1. PICK n \in Shields : owned' = owned \cup {Fresh(n)} /\ gap' = 0
    BY <1>1, <1>8 DEF Look, Fresh
  <2>2. n \in Sweepable /\ n.index = index
    BY DEF Shields, Sweepable
  <2>3. n \in Note
    <3>1. Sweepable \subseteq Outs(Txs)
      BY DEF Sweepable, Outs, Readable, Txs, IInv, TypeOK
    <3> QED
      BY <2>2, <3>1, ChainNotes DEF IInv
  <2>4. {o.note : o \in owned} = Found
    BY DEF Found
  <2>5. Taken' = Taken \cup {index} /\ Cardinality(Found)' = Cardinality(Found) + 1
    BY <1>8, <2>1, <2>2, <2>3, <2>4, OneMore
  <2>6. Swept(i + 1)' /\ \A b : Swept(b) => Swept(b)'
    BY <1>2, <1>3, <1>5, <2>5 DEF Swept
  <2>7. Open(i + 1 - g, i + 1)'
    BY <1>2, <1>4, <2>1, <2>5 DEF Open
  <2> QED
    BY <1>1, <1>2, <1>8, <2>1, <2>2, <2>5, <2>6, <2>7
<1> QED
  BY <1>6, <1>7, <1>8

LEMMA ProbePass ==
    ASSUME IInv, ProbeInv, Probe
    PROVE  ProbeInv' /\ SettleInv'
<1>0. PICK i, g : i = index /\ g = gap'
  OBVIOUS
<1>1. /\ UNCHANGED <<chain, read, applied, pass, before>> /\ pc = "probe"
      /\ Swept(i + 1)' /\ g \in Nat /\ g <= i + 1
      /\ Open(i + 1 - g, i + 1)'
      /\ \A b : Swept(b) => Swept(b)'
  BY <1>0, LookStep
<1>2. \/ UNCHANGED owned /\ g <= gap + 1
      \/ /\ Cardinality(Found)' = Cardinality(Found) + 1 /\ g = 0
         /\ i \notin Taken /\ \E n \in Sweepable : n.index = i
  BY <1>0, LookStep
<1>3. /\ i \in Nat /\ i <= Cap /\ Cap \in Nat /\ gap \in Nat
      /\ pass \in Nat \ {0} /\ before \in Nat /\ Gap \in Nat \ {0} /\ g <= Gap
      /\ Cardinality(Found) \in Nat
  BY <1>0, <1>1, ProbeIInv, FoundFinite, ScanAssumption, GapAssumption DEF IInv, TypeOK, ScanRange
<1>4. PICK b \in 0..Cap + 1 :
          /\ Reach(pass - 1, b) /\ Swept(b)
          /\ \/ Quiet
             \/ Cardinality(Found) > before /\ b <= Cap /\ b + gap + 1 <= i
  BY <1>0, <1>1 DEF ProbeInv
<1>5. Reach(pass - 1, b)' /\ Swept(b)'
  BY <1>1, <1>4 DEF Reach
<1>6. \/ Quiet'
      \/ Cardinality(Found)' > before' /\ b <= Cap /\ b + g <= i
  <2>1. CASE Quiet /\ UNCHANGED owned
    <3>1. Cardinality(Found)' = before' /\ SettledTo(Len(chain) + 1)'
      <4>1. PICK p : p = Len(chain) + 1
        OBVIOUS
      <4>2. SettledTo(p)' /\ p = Len(chain)' + 1
        BY <1>1, <2>1, <4>1, SamePass DEF Quiet
      <4> QED
        BY <1>1, <2>1, <4>2, SamePass DEF Quiet
    <3> QED
      BY <3>1 DEF Quiet
  <2>2. CASE UNCHANGED owned /\ g <= gap + 1 /\ Cardinality(Found) > before
             /\ b <= Cap /\ b + gap + 1 <= i
    <3>1. Cardinality(Found)' = Cardinality(Found)
      BY <1>1, <2>2, SamePass
    <3> QED
      BY <1>1, <1>3, <2>2, <3>1
  <2>3. ASSUME Cardinality(Found)' = Cardinality(Found) + 1, g = 0,
               i \notin Taken, \E n \in Sweepable : n.index = i
        PROVE  Cardinality(Found)' > before' /\ b <= Cap /\ b + g <= i
    <3>1. Cardinality(Found) >= before
      BY <1>3, <1>4 DEF Quiet
    <3>2. ~(i < b)
      BY <1>4, <2>3 DEF Swept
    <3> QED
      BY <1>1, <1>3, <2>3, <3>1, <3>2
  <2> QED
    BY <1>2, <1>4, <2>1, <2>2, <2>3
<1>7. \/ /\ g >= Gap \/ i = Cap
         /\ pc' = "settle" /\ pos' = 1 /\ index' = i
      \/ pc' = "probe" /\ index' = i + 1
  BY <1>0 DEF Probe, Advance
<1>8. CASE pc' = "probe" /\ index' = i + 1
  <2>0. gap' = g /\ index' = i + 1
    BY <1>0, <1>8
  <2>1. Swept(index)' /\ gap' <= index' /\ Open(index - gap, index)'
    <3>1. gap' <= index'
      BY <1>1, <2>0
    <3>2. Swept(index)'
      BY <1>1, <2>0, Zenon DEF Swept
    <3>3. Open(index - gap, index)'
      <4>1. index' - gap' = i + 1 - g
        BY <1>1, <1>3, <2>0
      <4>2. \A k \in Taken' : ~(i + 1 - g <= k /\ k < i + 1)
        BY <1>1 DEF Open
      <4>3. \A k \in Taken' : ~(index' - gap' <= k /\ k < index')
        BY <2>0, <4>1, <4>2, Zenon
      <4> QED
        BY <4>3 DEF Open
    <3> QED
      BY <3>1, <3>2, <3>3
  <2>2. Quiet' \/ (Cardinality(Found)' > before' /\ b <= Cap /\ b + gap' + 1 <= index')
    <3>1. b + g <= i => b + gap' + 1 <= index'
      BY <1>1, <1>3, <2>0
    <3> QED
      BY <1>6, <3>1
  <2>3. SettleInv'
    BY <1>8 DEF SettleInv
  <2> QED
    BY <1>5, <2>1, <2>2, <2>3 DEF ProbeInv
<1>9. CASE /\ g >= Gap \/ i = Cap
           /\ pc' = "settle" /\ pos' = 1 /\ index' = i
  <2>1. CASE Quiet'
    <3>1. i = Cap \/ (g = Gap /\ Gap <= i + 1)
      BY <1>1, <1>3, <1>9
    <3>2. (index = Cap \/ (Gap <= index + 1 /\ Open(index + 1 - Gap, index + 1)))'
      BY <1>1, <1>9, <3>1 DEF Open
    <3>3. Swept(index + 1)'
      BY <1>1, <1>9 DEF Swept
    <3> QED
      BY <1>9, <2>1, <3>2, <3>3 DEF SettleInv, ProbeInv
  <2>2. CASE Cardinality(Found)' > before' /\ b <= Cap /\ b + g <= i
    <3>1. (pass - 1) * Gap <= Cap /\ b >= (pass - 1) * Gap
      <4>1. b >= (pass - 1) * Gap
        BY <1>3, <1>4, <2>2 DEF Reach
      <4>2. (pass - 1) * Gap \in Int
        BY <1>3
      <4> QED
        BY <1>3, <2>2, <4>1, <4>2
    <3>2. i + 1 \in 0..Cap + 1 /\ Reach(pass, i + 1)
      <4>1. CASE i = Cap
        BY <1>3, <4>1 DEF Reach
      <4>2. CASE g >= Gap
        <5>1. i + 1 >= b + Gap
          BY <1>1, <1>3, <2>2, <4>2
        <5>2. i + 1 >= pass * Gap
          BY <1>3, <3>1, <5>1, ReachMore
        <5> QED
          BY <1>3, <5>2 DEF Reach
      <4> QED
        BY <1>3, <1>9, <4>1, <4>2
    <3>3. SettledTo(pos)'
      <4>1. \A q \in read' : ~(q < 1)
        BY <1>1 DEF IInv, TypeOK
      <4> QED
        BY <1>9, <4>1 DEF SettledTo
    <3>4. \E c \in 0..Cap + 1 : (Reach(pass, c) /\ Swept(c))'
      BY <1>1, <3>2 DEF Reach
    <3> QED
      BY <1>1, <1>9, <2>2, <3>1, <3>3, <3>4 DEF SettleInv, ProbeInv
  <2> QED
    BY <1>6, <2>1, <2>2
<1> QED
  BY <1>7, <1>8, <1>9

(* apply_settles passes over a settle, or uses it without a change, or with *)
(* the change that it locates.                                              *)
Change(t) == LocateChange(t, Worth(Inputs(t)) - t.paid)
Passed(t) == UNCHANGED <<owned, applied>> /\ (pos \in read => pos \in applied \/ ~Usable(t))
Used(t) ==
    /\ pos \in read /\ pos \notin applied /\ Usable(t)
    /\ applied' = applied \cup {pos}
    /\ \/ Worth(Inputs(t)) - t.paid = 0 /\ owned' = MarkSpent(Inputs(t))
       \/ /\ Worth(Inputs(t)) - t.paid # 0
          /\ \E n \in Change(t) : owned' = MarkSpent(Inputs(t)) \cup {Fresh(n)}

LEMMA ApplyStep ==
    ASSUME IInv, Apply, NEW t, t = chain[pos]
    PROVE  /\ UNCHANGED <<chain, next, epoch, read, ep, pc, index, gap, pass, before>>
           /\ pc = "settle" /\ pos' = pos + 1 /\ pos \in DOMAIN chain
           /\ t \in Txs /\ t \in Tx
           /\ Passed(t) \/ Used(t)
<1>1. /\ UNCHANGED <<chain, next, epoch, read, ep, pc, index, gap, pass, before>>
      /\ pc = "settle" /\ pos' = pos + 1 /\ pos \in DOMAIN chain
  BY DEF Apply, history, IInv, TypeOK
<1>2. t \in Txs /\ t \in Tx
  BY <1>1 DEF Txs, IInv, TypeOK
<1>3. Passed(t) \/ Used(t)
  BY DEF Apply, Passed, Used, Usable, Change, Fresh
<1> QED
  BY <1>1, <1>2, <1>3

(* The notes that a used settle leaves: those that were found, and its      *)
(* change.                                                                  *)
LEMMA UsedNotes ==
    ASSUME IInv, NEW t \in Txs, Used(t)
    PROVE  /\ Taken \subseteq Taken' /\ Found \subseteq Found'
           /\ Cardinality(Found)' \in Nat /\ Cardinality(Found) <= Cardinality(Found)'
           /\ \/ Worth(Inputs(t)) - t.paid = 0 /\ Found' = Found
              \/ \E n \in Change(t) : /\ n \in t.outs /\ n \in Note /\ n.index \notin Taken
                                      /\ Found' = Found \cup {n}
<1> DEFINE M == MarkSpent(Inputs(t))
<1>1. {o.note : o \in M} = Found
  BY MarkKeeps
<1> HIDE DEF M
<1>2. CASE owned' = M /\ Worth(Inputs(t)) - t.paid = 0
  <2>1. Found' = Found
    BY <1>1, <1>2 DEF Found
  <2>2. Taken' = Taken /\ Cardinality(Found)' = Cardinality(Found)
    BY <2>1 DEF Taken
  <2> QED
    BY <1>2, <2>1, <2>2, FoundFinite
<1>3. ASSUME NEW n \in Change(t), owned' = M \cup {Fresh(n)}
      PROVE  /\ Taken \subseteq Taken' /\ Found' = Found \cup {n}
             /\ Cardinality(Found)' \in Nat /\ Cardinality(Found) <= Cardinality(Found)'
             /\ n \in t.outs /\ n \in Note /\ n.index \notin Taken
  <2>1. n \in t.outs /\ n.index \notin Taken
    BY DEF Change, LocateChange
  <2>2. n \in Note
    BY <2>1, ChainNotes DEF Outs, IInv
  <2>3. /\ Found' = Found \cup {n} /\ Taken' = Taken \cup {n.index}
        /\ Cardinality(Found)' = Cardinality(Found) + 1
    BY <1>1, <1>3, <2>1, <2>2, OneMore
  <2> QED
    BY <2>1, <2>2, <2>3, FoundFinite
<1> QED
  BY <1>2, <1>3 DEF Used, M

(* A settle changes the inputs of no other.                                 *)
LEMMA InputsStay ==
    ASSUME IInv, NEW t \in Txs, Used(t),
           NEW u, u.ins \cap t.ins = {}, u.ins \cap t.outs = {}
    PROVE  Inputs(u)' = Inputs(u)
<1> DEFINE M == MarkSpent(Inputs(t))
<1>1. owned' = M \/ \E n \in t.outs : owned' = M \cup {Fresh(n)}
  BY DEF Used, Change, LocateChange
<1>2. \A m \in u.ins : Fresh(m) \in M <=> Fresh(m) \in owned
  <2> DEFINE mark(o) == [note |-> o.note, spent |-> o.spent \/ o.note \in Inputs(t)]
  <2>1. M = {mark(o) : o \in owned}
    BY DEF MarkSpent
  <2>2. \A o \in owned : o.note \notin Inputs(t) => mark(o) = o
    BY DEF IInv, TypeOK, Owned
  <2>3. Inputs(t) \subseteq t.ins
    BY DEF Inputs
  <2>4. \A o \in owned : mark(o).note = o.note
    OBVIOUS
  <2> HIDE DEF M, mark
  <2>5. \A m : Fresh(m).note = m
    BY DEF Fresh
  <2> TAKE m \in u.ins
  <2>6. ASSUME Fresh(m) \in owned PROVE Fresh(m) \in M
    BY <2>1, <2>2, <2>3, <2>5, <2>6
  <2>7. ASSUME Fresh(m) \in M PROVE Fresh(m) \in owned
    <3>1. PICK o \in owned : Fresh(m) = mark(o)
      BY <2>1, <2>7
    <3>2. o.note = m
      BY <2>4, <2>5, <3>1
    <3>3. mark(o) = o
      BY <2>2, <2>3, <3>2
    <3> QED
      BY <3>1, <3>3
  <2> QED
    BY <2>6, <2>7
<1>3. \A m, n : Fresh(m) = Fresh(n) => m = n
  BY DEF Fresh
<1> HIDE DEF M
<1>4. \A m \in u.ins : Fresh(m) \in owned' <=> Fresh(m) \in owned
  BY <1>1, <1>2, <1>3
<1>5. \A m : Fresh(m) \in owned => m \in Found
  BY DEF Fresh, Found
<1>6. Inputs(u) = {m \in u.ins : Fresh(m) \in owned}
  BY <1>5 DEF Inputs, Fresh
<1>7. \A m : Fresh(m) \in owned' => m \in Found'
  BY DEF Fresh, Found
<1>8. Inputs(u)' = {m \in u.ins : Fresh(m) \in owned'}
  BY <1>7 DEF Inputs, Fresh
<1> QED
  BY <1>4, <1>6, <1>8

(* What could not be used before a settle still cannot.                     *)
LEMMA SettledStays ==
    ASSUME IInv, ChainInv, Apply, SettledTo(pos), Used(chain[pos])
    PROVE  SettledTo(pos)'
<1> DEFINE t == chain[pos]
<1>1. /\ UNCHANGED <<chain, read>> /\ pos' = pos + 1 /\ pos \in DOMAIN chain
      /\ t \in Txs
  BY ApplyStep
<1>2. applied' = applied \cup {pos} /\ Taken \subseteq Taken'
  BY <1>1, UsedNotes DEF Used
<1> SUFFICES ASSUME NEW q \in read, q < pos + 1
             PROVE  q \in applied' \/ ~Usable(chain[q])'
  BY <1>1 DEF SettledTo
<1>3. q \in Nat /\ pos \in Nat /\ q \in DOMAIN chain
  BY DEF IInv, TypeOK
<1>4. CASE q = pos
  BY <1>2, <1>4
<1>5. CASE q < pos /\ q \notin applied
  <2> DEFINE u == chain[q]
             left == Worth(Inputs(u)) - u.paid
  <2>1. ~Usable(u)
    BY <1>5 DEF SettledTo
  <2>2. u.ins \cap t.ins = {} /\ u.ins \cap t.outs = {}
    BY <1>1, <1>3, <1>5 DEF ChainInv
  <2>3. u' = u
    BY <1>1
  <2>4. Inputs(u)' = Inputs(u)
    <3>1. \A w : w = u => Inputs(w)' = Inputs(w)
      <4> TAKE w
      <4> HAVE w = u
      <4> HIDE DEF u, t
      <4> QED
        BY <1>1, <2>2, InputsStay DEF t
    <3> HIDE DEF u
    <3> QED
      BY <2>3, <3>1 DEF Inputs
  <2> HIDE DEF u
  <2>5. \A v : LocateChange(u, v)' \subseteq LocateChange(u, v)
    BY <1>2, <2>3 DEF LocateChange
  <2>6. ~Usable(u)'
    BY <2>1, <2>3, <2>4, <2>5 DEF Usable
  <2> QED
    BY <2>6 DEF u
<1> QED
  BY <1>2, <1>3, <1>4, <1>5

LEMMA ApplyPass ==
    ASSUME IInv, ChainInv, SettleInv, Apply
    PROVE  SettleInv'
<1>0. PICK t, i : t = chain[pos] /\ i = index
  OBVIOUS
<1>1. /\ UNCHANGED <<chain, read, pc, index, pass, before>>
      /\ pc = "settle" /\ pos' = pos + 1 /\ pos \in DOMAIN chain /\ t \in Txs
      /\ Passed(t) \/ Used(t)
  BY <1>0, ApplyStep
<1>2. /\ DOMAIN chain = 1..Len(chain) /\ Len(chain) \in Nat /\ read \subseteq DOMAIN chain
      /\ pos \in Nat /\ pos <= Len(chain)
  BY <1>1 DEF IInv, TypeOK
<1>3. CASE Passed(t)
  <2>1. UNCHANGED <<chain, read, owned, applied>>
    BY <1>1, <1>3 DEF Passed
  <2>2. /\ \A b : Swept(b)' <=> Swept(b)
        /\ \A m, n : Open(m, n)' <=> Open(m, n)
        /\ \A p : SettledTo(p)' <=> SettledTo(p)
        /\ UNCHANGED Cardinality(Found)
    BY <2>1, SamePass
  <2>3. SettledTo(pos) => SettledTo(pos + 1)
    <3>1. \A q \in read : q \in Nat
      BY <1>2
    <3> QED
      BY <1>0, <1>2, <1>3, <3>1 DEF SettledTo, Passed
  <2>4. CASE /\ Quiet /\ Swept(i + 1)
             /\ i = Cap \/ (Gap <= i + 1 /\ Open(i + 1 - Gap, i + 1))
    <3>1. Quiet'
      <4>1. PICK p : p = Len(chain) + 1
        OBVIOUS
      <4>2. SettledTo(p)' /\ p = Len(chain)' + 1
        BY <1>1, <2>2, <2>4, <4>1 DEF Quiet
      <4>3. SettledTo(Len(chain) + 1)'
        BY <4>2 DEF SettledTo
      <4> QED
        BY <1>1, <2>2, <2>4, <4>3 DEF Quiet
    <3>2. Swept(i + 1)' /\ (i = Cap \/ (Gap <= i + 1 /\ Open(i + 1 - Gap, i + 1)'))
      BY <2>2, <2>4
    <3>3. index' = i
      BY <1>0, <1>1
    <3>4. Swept(index + 1)'
      BY <3>2, <3>3 DEF Swept
    <3>5. (index = Cap \/ (Gap <= index + 1 /\ Open(index + 1 - Gap, index + 1)))'
      BY <3>2, <3>3 DEF Open
    <3> QED
      BY <3>1, <3>4, <3>5 DEF SettleInv
  <2>5. CASE /\ Cardinality(Found) > before /\ (pass - 1) * Gap <= Cap
             /\ \E b \in 0..Cap + 1 : Reach(pass, b) /\ Swept(b)
             /\ SettledTo(pos)
    <3>1. PICK p : p = pos + 1
      OBVIOUS
    <3>2. SettledTo(p)' /\ p = pos'
      BY <1>1, <2>2, <2>3, <2>5, <3>1
    <3>3. SettledTo(pos)'
      BY <3>2 DEF SettledTo
    <3>4. \E b \in 0..Cap + 1 : Reach(pass, b)' /\ Swept(b)'
      BY <1>1, <2>2, <2>5 DEF Reach
    <3> QED
      BY <1>1, <2>2, <2>5, <3>3, <3>4 DEF SettleInv
  <2> QED
    BY <1>0, <1>1, <2>4, <2>5 DEF SettleInv
<1>4. CASE Used(t)
  <2>1. ~Quiet
    BY <1>0, <1>2, <1>4 DEF Quiet, SettledTo, Used
  <2>2. /\ Cardinality(Found) > before /\ (pass - 1) * Gap <= Cap
        /\ \E b \in 0..Cap + 1 : Reach(pass, b) /\ Swept(b)
        /\ SettledTo(pos)
    BY <1>1, <2>1 DEF SettleInv
  <2>3. /\ Taken \subseteq Taken' /\ Cardinality(Found) <= Cardinality(Found)'
        /\ Cardinality(Found)' \in Nat
    BY <1>1, <1>4, UsedNotes
  <2>4. SettledTo(pos)'
    BY <1>0, <1>4, <2>2, SettledStays
  <2>5. Cardinality(Found)' > before'
    <3>1. Cardinality(Found) \in Nat /\ before \in Nat
      BY FoundFinite DEF IInv, TypeOK
    <3> QED
      BY <1>1, <2>2, <2>3, <3>1
  <2>6. \E b \in 0..Cap + 1 : Reach(pass, b)' /\ Swept(b)'
    BY <1>1, <2>2, <2>3, SweptStays DEF Reach
  <2> QED
    BY <1>1, <2>2, <2>4, <2>5, <2>6 DEF SettleInv
<1> QED
  BY <1>1, <1>3, <1>4

(* The last pass is a quiet one, and any other sweeps another gap.          *)
LEMMA EndPassPass ==
    ASSUME IInv, SettleInv, EndPass
    PROVE  ProbeInv' /\ SettleInv' /\ PassesSuffice' /\ (pc' = "burn" => Quiet)
<1>1. /\ UNCHANGED <<chain, read, owned, applied, pos>>
      /\ pc = "settle" /\ pos > Len(chain)
  BY DEF EndPass, history
<1>2. /\ \A b : Swept(b)' <=> Swept(b)
      /\ \A p : SettledTo(p)' <=> SettledTo(p)
      /\ UNCHANGED Cardinality(Found)
  BY <1>1, SamePass
<1>3. /\ Len(chain) \in Nat /\ DOMAIN chain = 1..Len(chain) /\ read \subseteq DOMAIN chain
      /\ pos \in Nat /\ pass \in Nat \ {0} /\ Cap \in Nat /\ Gap \in Nat \ {0}
  BY ScanAssumption, GapAssumption DEF IInv, TypeOK
<1>4. SettledTo(pos) => SettledTo(Len(chain) + 1)
  BY <1>1, <1>3 DEF SettledTo
<1>5. \/ pc' = "burn" /\ UNCHANGED <<index, gap, pass, before>>
         /\ (Cardinality(Found) = before \/ pass = Passes)
      \/ /\ pc' = "probe" /\ index' = 0 /\ gap' = 0 /\ pass' = pass + 1
         /\ Cardinality(Found) # before /\ before' = Cardinality(Found)
  BY DEF EndPass
<1>6. CASE Quiet
  <2>1. pc' = "burn" /\ before' = before /\ Cardinality(Found)' = before'
    BY <1>2, <1>5, <1>6 DEF Quiet
  <2> QED
    BY <1>6, <2>1 DEF ProbeInv, SettleInv, PassesSuffice
<1>7. CASE /\ Cardinality(Found) > before /\ (pass - 1) * Gap <= Cap
           /\ \E b \in 0..Cap + 1 : Reach(pass, b) /\ Swept(b)
           /\ SettledTo(pos)
  <2>0. before \in Nat /\ Cardinality(Found) \in Nat
    BY FoundFinite DEF IInv, TypeOK
  <2>1. pass # Passes
    <3>1. (Passes - 1) * Gap \in Int
      BY <1>3, ScanAssumption, GapAssumption
    <3> QED
      BY <1>3, <1>7, <3>1, LastReach
  <2>2. /\ pc' = "probe" /\ index' = 0 /\ gap' = 0 /\ pass' = pass + 1
        /\ before' = Cardinality(Found)
    BY <1>5, <1>7, <2>0, <2>1
  <2>3. Quiet'
    <3>1. PICK p : p = Len(chain) + 1
      OBVIOUS
    <3>2. SettledTo(p)' /\ p = Len(chain)' + 1
      BY <1>1, <1>2, <1>4, <1>7, <3>1
    <3>3. SettledTo(Len(chain) + 1)'
      BY <3>2 DEF SettledTo
    <3> QED
      BY <1>2, <2>2, <3>3 DEF Quiet
  <2>4. (\A n \in Sweepable : n.index \in Nat)' /\ (\A k \in Taken : k \in Nat)'
    <3>1. Sweepable \subseteq Outs(Txs)
      BY DEF Sweepable, Outs, Readable, Txs, IInv, TypeOK
    <3>2. \A n \in Sweepable : n.index \in Nat
      BY <3>1, ChainNotes DEF IInv, Note, ScanRange
    <3>3. \A k \in Taken : k \in Nat
      BY DEF IInv, TypeOK, Owned, Note, Taken, Found, ScanRange
    <3> QED
      BY <1>1, <3>2, <3>3, SamePass
  <2>5. Swept(index)' /\ (gap <= index)' /\ Open(index - gap, index)'
    <3>1. index' - gap' = 0 /\ gap' <= index' /\ \A k \in Nat : ~(k < index')
      BY <2>2
    <3> QED
      BY <2>4, <3>1 DEF Swept, Open
  <2>6. \E b \in 0..Cap + 1 : Reach(pass' - 1, b) /\ Swept(b)'
    <3>1. pass' - 1 = pass
      BY <1>3, <2>2
    <3> QED
      BY <1>2, <1>7, <3>1
  <2> QED
    BY <2>2, <2>3, <2>5, <2>6 DEF ProbeInv, SettleInv, PassesSuffice, Reach
<1> QED
  BY <1>1, <1>6, <1>7 DEF SettleInv

LEMMA BurnPass ==
    ASSUME IInv, PassesSuffice, Burn
    PROVE  ProbeInv' /\ SettleInv' /\ PassesSuffice' /\ UNCHANGED Found
<1>1. pc = "burn" /\ pc' = "done" /\ before' = before /\ \E S : owned' = MarkSpent(S)
  BY DEF Burn
<1>2. Found' = Found
  BY <1>1, MarkKeeps DEF Found
<1>3. Cardinality(Found)' = Cardinality(Found)
  BY <1>2
<1> QED
  BY <1>1, <1>2, <1>3 DEF ProbeInv, SettleInv, PassesSuffice

(* The first pass begins with nothing.                                      *)
LEMMA ReadPass ==
    ASSUME IInv, LiveInv, Read
    PROVE  ProbeInv' /\ SettleInv' /\ PassesSuffice'
<1>1. /\ pc' = "probe" /\ owned' = {} /\ before' = 0 /\ index' = 0 /\ gap' = 0 /\ pass' = 1
      /\ UNCHANGED chain /\ read' \subseteq DOMAIN chain
  BY DEF Read, LiveInv, Logged, recovery
<1>2. Found' = {} /\ Taken' = {}
  BY <1>1 DEF Found, Taken
<1>3. Cardinality(Found)' = 0
  BY <1>2, FS_EmptySet
<1>4. SettledTo(Len(chain) + 1)'
  BY <1>2 DEF SettledTo, Usable, Inputs
<1>5. Quiet'
  BY <1>1, <1>3, <1>4 DEF Quiet
<1>6. \A n \in Sweepable' : n.index \in Nat
  <2>1. \A n \in Outs(Txs)' : n.index \in Nat
    BY ChainNotes, <1>1 DEF IInv, Note, ScanRange, Outs, Txs
  <2>2. Sweepable' \subseteq Outs(Txs)'
    BY <1>1 DEF Sweepable, Outs, Readable, Txs
  <2> QED
    BY <2>1, <2>2
<1>7. \A b : b = 0 => Swept(b)'
  BY <1>6 DEF Swept
<1>8. 0 \in 0..Cap + 1 /\ 0 >= (pass' - 1) * Gap
  BY <1>1, ScanAssumption, GapAssumption
<1>9. Swept(index)' /\ (gap <= index)' /\ Open(index - gap, index)'
  BY <1>1, <1>2, <1>6 DEF Swept, Open
<1> QED
  BY <1>1, <1>5, <1>7, <1>8, <1>9 DEF ProbeInv, SettleInv, PassesSuffice, Reach

LEMMA InitPass == ASSUME Init PROVE PassInv
BY InitIInv, InitChain DEF Init, PassInv, ProbeInv, SettleInv, PassesSuffice

LEMMA NextPass == ASSUME PassInv, [Next]_vars PROVE PassInv'
<1> USE DEF PassInv
<1>1. IInv' /\ ChainInv' /\ AmountsInv'
  BY NextIInv, NextChain
<1>2. CASE (\E v \in Values : Shield(v)) \/ Skip \/ RollEpoch
  BY <1>1, <1>2 DEF Shield, Skip, RollEpoch, recovery, LiveInv, ProbeInv, SettleInv,
                    PassesSuffice
<1>3. CASE \E ins \in SUBSET Unspent, max, leaf \in BOOLEAN, e \in 0..epoch :
             \E paid \in 1..Worth(ins), left \in 0..Worth(ins) :
                 Settle(ins, paid, left, max, e, leaf)
  BY <1>1, <1>3 DEF Settle, recovery, LiveInv, ProbeInv, SettleInv, PassesSuffice
<1>4. CASE Read
  BY <1>1, <1>4, ReadPass DEF Read, LiveInv
<1>5. CASE Probe
  BY <1>1, <1>5, ProbePass DEF Probe, Advance, LiveInv, PassesSuffice
<1>6. CASE Apply
  <2>1. pc = "settle" /\ pc' = "settle"
    BY <1>6 DEF Apply
  <2> QED
    BY <1>1, <1>6, <2>1, ApplyPass DEF LiveInv, ProbeInv, PassesSuffice
<1>7. CASE EndPass
  BY <1>1, <1>7, EndPassPass DEF EndPass, LiveInv
<1>8. CASE Burn
  BY <1>1, <1>8, BurnPass DEF Burn, LiveInv
<1>9. CASE UNCHANGED vars
  <2>1. UNCHANGED <<chain, read, pc, owned, applied, index, gap, pos, pass, before>>
    BY <1>9 DEF vars, recovery
  <2> HIDE DEF PassInv
  <2>2. /\ UNCHANGED <<Cardinality(Found), Taken, Sweepable>>
        /\ \A b : Swept(b)' <=> Swept(b)
        /\ \A p : SettledTo(p)' <=> SettledTo(p)
    BY <2>1, SamePass
  <2>3. LiveInv' /\ PassesSuffice'
    BY <2>1, <2>2 DEF PassInv, LiveInv, PassesSuffice
  <2>4. /\ Swept(index)' <=> Swept(index)
        /\ Swept(index + 1)' <=> Swept(index + 1)
        /\ Open(index - gap, index)' <=> Open(index - gap, index)
        /\ Open(index + 1 - Gap, index + 1)' <=> Open(index + 1 - Gap, index + 1)
    BY <2>1, <2>2 DEF Swept, Open
  <2>5. /\ SettledTo(pos)' <=> SettledTo(pos)
        /\ SettledTo(Len(chain) + 1)' <=> SettledTo(Len(chain) + 1)
    <3>1. PICK p, q : p = pos /\ q = Len(chain) + 1
      OBVIOUS
    <3>2. p = pos' /\ q = Len(chain)' + 1
      BY <2>1, <3>1
    <3> QED
      BY <2>2, <3>1, <3>2 DEF SettledTo
  <2>6. Quiet' <=> Quiet
    BY <2>1, <2>2, <2>5 DEF Quiet
  <2>7. \A b : Reach(pass - 1, b)' <=> Reach(pass - 1, b)
    BY <2>1 DEF Reach
  <2>8. ProbeInv'
    BY <2>1, <2>2, <2>4, <2>6, <2>7 DEF PassInv, ProbeInv
  <2>9. SettleInv'
    BY <2>1, <2>2, <2>4, <2>5, <2>6 DEF PassInv, SettleInv, Reach
  <2> QED
    BY <1>1, <2>3, <2>8, <2>9 DEF PassInv
<1> QED
  BY <1>2, <1>3, <1>4, <1>5, <1>6, <1>7, <1>8, <1>9 DEF Next

(* The passes of recover_notes always end because one found nothing: their  *)
(* bound of 64, for a cap of 512 and gaps of 32, cuts no recovery off,      *)
(* whatever the history and whatever could not be read (notescan.rs:166).   *)
THEOREM PassesAreEnough == Spec => []PassesSuffice
<1>1. Init => PassInv
  BY InitPass
<1>2. PassInv /\ [Next]_vars => PassInv'
  BY NextPass
<1>3. PassInv => PassesSuffice
  BY DEF PassInv
<1> QED
  BY <1>1, <1>2, <1>3, PTL DEF Spec

-----------------------------------------------------------------------------
(* What the recovery has used, and that it has left nothing out.            *)
NoHalf == \A t \in Readable : ~HalfCovers(t)

UsedInv ==
    /\ applied \subseteq read
    /\ pc # "done" => \A o \in owned : o.spent => \E q \in applied : o.note \in chain[q].ins
    /\ NoHalf => /\ Found \subseteq Derivable
                 /\ \A q \in applied : chain[q].outs \subseteq Found

AllFound ==
    pc \in {"burn", "done"} /\ Dense(Derivable) /\ NoHalf => Found = Derivable

FullInv == PassInv /\ UsedInv /\ AllFound

(* A settle can be used with all of its inputs only, unless one of two is   *)
(* worth what was paid.                                                     *)
LEMMA WholeInputs ==
    ASSUME IInv, ChainInv, AmountsInv, NEW t \in Txs, Inputs(t) # {},
           \/ Worth(Inputs(t)) - t.paid = 0 /\ ~HalfCovers(t)
           \/ \E n \in t.outs : n.value # 0 /\ n.value = Worth(Inputs(t)) - t.paid
    PROVE  Inputs(t) = t.ins
<1>1. Inputs(t) \subseteq t.ins /\ t.ins # {}
  BY DEF Inputs
<1>2. PICK a \in t.ins, b \in t.ins, left \in Nat :
        /\ t.ins = {a, b}
        /\ t.paid + left = Worth(t.ins)
        /\ IF left = 0 THEN t.outs = {}
           ELSE \E n \in t.outs : n.value = left /\ t.outs = {n}
  BY <1>1 DEF AmountsInv, Settles
<1>3. /\ t \in Tx /\ t.paid \in Nat
      /\ \A m \in t.ins : m.value \in Nat /\ m.value # 0
  <2>1. t \in Tx
    BY DEF IInv, TypeOK, Txs
  <2>2. t.ins \subseteq Outs(Txs)
    BY DEF ChainInv, Ins
  <2> QED
    BY <2>1, <2>2, ChainNotes DEF Tx, Note, ChainInv, IInv
<1> SUFFICES ASSUME Inputs(t) # t.ins PROVE FALSE
  OBVIOUS
<1>4. PICK x \in Inputs(t), y \in t.ins :
        x \in t.ins /\ x # y /\ Inputs(t) = {x} /\ t.ins = {x, y}
  <2>1. PICK x \in Inputs(t) : TRUE
    OBVIOUS
  <2>2. PICK y \in t.ins : y \notin Inputs(t)
    BY <1>1
  <2>3. x \in t.ins /\ x # y
    BY <1>1, <2>2
  <2>4. t.ins = {x, y}
    BY <1>2, <2>2, <2>3
  <2>5. Inputs(t) = {x}
    BY <1>1, <2>2, <2>4
  <2> QED
    BY <2>2, <2>3, <2>4, <2>5
<1>5. Worth(Inputs(t)) = x.value
  BY <1>3, <1>4, WorthOfOne
<1>6. Worth(t.ins) = x.value + y.value
  BY <1>3, <1>4, WorthOfTwo
<1>7. x.value # t.paid
  <2> SUFFICES ASSUME x.value = t.paid PROVE FALSE
    OBVIOUS
  <2>3. ~HalfCovers(t)
    BY <1>3, <1>5
  <2>1. left = y.value
    BY <1>2, <1>3, <1>4, <1>6
  <2>2. PICK n \in t.outs : n.value = y.value
    BY <1>2, <1>3, <2>1
  <2> QED
    BY <1>4, <2>2, <2>3 DEF HalfCovers
<1>8. PICK n \in t.outs : n.value = x.value - t.paid
  <2>1. x.value - t.paid # 0
    BY <1>3, <1>4, <1>7
  <2> QED
    BY <1>5, <2>1, Zenon
<1>9. n.value = left
  BY <1>2
<1> QED
  BY <1>2, <1>3, <1>4, <1>6, <1>8, <1>9

(* What follows from derivable notes is derivable.                          *)
LEMMA DerivableFollows ==
    ASSUME NEW t \in Readable, t.ins \subseteq Derivable
    PROVE  t.outs \subseteq Derivable
<1> SUFFICES ASSUME NEW n \in t.outs, NEW S \in SUBSET Outs(Readable),
                    \A u \in Readable : u.ins \subseteq S => u.outs \subseteq S
             PROVE  n \in Outs(Readable) /\ n \in S
  BY DEF Derivable, Derived, Outs
<1>1. Derivable \subseteq S
  BY DEF Derivable, Derived
<1> QED
  BY <1>1 DEF Outs

LEMMA SameDerivable ==
    ASSUME UNCHANGED <<chain, read>>
    PROVE  UNCHANGED <<Readable, Derivable>> /\ (NoHalf' <=> NoHalf)
<1>1. UNCHANGED Readable
  BY DEF Readable
<1>2. UNCHANGED Outs(Readable)
  BY <1>1 DEF Outs
<1>3. UNCHANGED Derivable
  BY <1>1, <1>2 DEF Derivable, Derived
<1>4. NoHalf' <=> NoHalf
  BY <1>1 DEF NoHalf, HalfCovers
<1> QED
  BY <1>1, <1>3, <1>4

LEMMA ProbeUsed ==
    ASSUME IInv, UsedInv, Probe
    PROVE  UsedInv'
<1>1. /\ UNCHANGED <<chain, read, applied>> /\ pc = "probe" /\ pc' \in {"probe", "settle"}
  BY DEF Probe, Advance, history
<1>2. UNCHANGED owned \/ \E n \in Shields : owned' = owned \cup {Fresh(n)}
  BY DEF Probe, Look, Fresh
<1>3. UNCHANGED <<Readable, Derivable>> /\ (NoHalf' <=> NoHalf)
  BY <1>1, SameDerivable
<1>4. CASE UNCHANGED owned
  BY <1>1, <1>3, <1>4 DEF UsedInv, Found
<1>5. ASSUME NEW n \in Shields, owned' = owned \cup {Fresh(n)}
      PROVE  UsedInv'
  <2>1. n \in Derivable
    <3>1. PICK t \in Readable : t.ins = {} /\ n \in t.outs
      BY DEF Shields, Outs
    <3>2. t.outs \subseteq Derivable
      BY <3>1, DerivableFollows
    <3> QED
      BY <3>1, <3>2
  <2>2. Found' = Found \cup {n}
    <3>1. Fresh(n).note = n
      BY DEF Fresh
    <3> QED
      BY <1>5, <3>1 DEF Found
  <2>3. ~Fresh(n).spent
    BY DEF Fresh
  <2>4. \A o \in owned' : o.spent => \E q \in applied : o.note \in chain[q].ins
    BY <1>1, <1>5, <2>3 DEF UsedInv
  <2>5. NoHalf => /\ Found' \subseteq Derivable
                  /\ \A q \in applied : chain[q].outs \subseteq Found'
    BY <2>1, <2>2 DEF UsedInv
  <2> QED
    BY <1>1, <1>3, <2>4, <2>5 DEF UsedInv
<1> QED
  BY <1>2, <1>4, <1>5

LEMMA ApplyUsed ==
    ASSUME IInv, ChainInv, AmountsInv, UsedInv, Apply
    PROVE  UsedInv'
<1>0. PICK t : t = chain[pos]
  OBVIOUS
<1>1. /\ UNCHANGED <<chain, read, pc>> /\ pc = "settle" /\ pos \in DOMAIN chain
      /\ t \in Txs /\ t \in Tx
      /\ Passed(t) \/ Used(t)
  BY <1>0, ApplyStep
<1>2. UNCHANGED <<Readable, Derivable>> /\ (NoHalf' <=> NoHalf)
  BY <1>1, SameDerivable
<1>3. CASE Passed(t)
  BY <1>1, <1>2, <1>3 DEF UsedInv, Passed, Found
<1>4. CASE Used(t)
  <2> DEFINE M == MarkSpent(Inputs(t))
             left == Worth(Inputs(t)) - t.paid
  <2>1. pos \in read /\ applied' = applied \cup {pos} /\ Usable(t)
    BY <1>4 DEF Used
  <2>2. owned' = M \/ \E n \in t.outs : owned' = M \cup {Fresh(n)}
    BY <1>4 DEF Used, Change, LocateChange
  <2>3. /\ Found \subseteq Found'
        /\ \/ left = 0 /\ Found' = Found
           \/ \E n \in Change(t) : n \in t.outs /\ Found' = Found \cup {n}
    BY <1>1, <1>4, UsedNotes
  <2>4. \A o \in owned' : o.spent => \E q \in applied' : o.note \in chain'[q].ins
    <3>1. Inputs(t) \subseteq t.ins
      BY DEF Inputs
    <3>2. \A o \in M : o.spent => o.note \in t.ins \/ \E q \in applied : o.note \in chain[q].ins
      <4> DEFINE mark(o) == [note |-> o.note, spent |-> o.spent \/ o.note \in Inputs(t)]
      <4>1. M = {mark(o) : o \in owned}
        BY DEF MarkSpent
      <4>2. \A o \in owned : mark(o).note = o.note
                             /\ (mark(o).spent <=> o.spent \/ o.note \in Inputs(t))
        BY DEF IInv, TypeOK, Owned
      <4> HIDE DEF M, mark
      <4>3. \A o \in owned : o.spent => \E q \in applied : o.note \in chain[q].ins
        BY <1>1 DEF UsedInv
      <4> QED
        BY <3>1, <4>1, <4>2, <4>3
    <3>3. \A n : ~Fresh(n).spent
      BY DEF Fresh
    <3> HIDE DEF M
    <3>4. \A o \in owned' : o.spent => o.note \in t.ins \/ \E q \in applied : o.note \in chain[q].ins
      BY <2>2, <3>2, <3>3
    <3> QED
      BY <1>0, <1>1, <2>1, <3>4
  <2>5. applied' \subseteq read'
    BY <1>1, <2>1 DEF UsedInv
  <2>6. ASSUME NoHalf
        PROVE  Found' \subseteq Derivable /\ \A q \in applied' : chain[q].outs \subseteq Found'
    <3>1. t \in Readable /\ ~HalfCovers(t)
      BY <1>0, <2>1, <2>6 DEF Readable, NoHalf
    <3>2. \A n \in Change(t) : n.value = left
      BY DEF Change, LocateChange
    <3>3. Inputs(t) = t.ins /\ t.ins # {}
      <4>1. Inputs(t) # {} /\ (left = 0 \/ \E n \in t.outs : n.value = left /\ left # 0)
        BY <2>1, <2>3, <3>2 DEF Usable
      <4> QED
        BY <1>1, <3>1, <4>1, WholeInputs
    <3>4. Found \subseteq Derivable
      BY <2>6 DEF UsedInv
    <3>5. t.ins \subseteq Derivable
      BY <3>3, <3>4 DEF Inputs
    <3>6. t.outs \subseteq Derivable
      BY <3>1, <3>5, DerivableFollows
    <3>7. t.outs \subseteq Found'
      <4>1. PICK real \in Nat :
              /\ t.paid + real = Worth(t.ins)
              /\ IF real = 0 THEN t.outs = {}
                 ELSE \E n \in t.outs : n.value = real /\ t.outs = {n}
        BY <1>1, <3>3 DEF AmountsInv, Settles
      <4>2. left = real
        <5>1. t.paid \in Nat
          BY <1>1 DEF Tx
        <5> QED
          BY <3>3, <4>1, <5>1
      <4> HIDE DEF left
      <4>3. CASE left = 0
        BY <4>1, <4>2, <4>3
      <4>4. CASE left # 0
        <5>1. PICK n \in t.outs : Found' = Found \cup {n}
          BY <2>3, <4>4
        <5>2. t.outs = {n}
          BY <4>1, <4>2, <4>4
        <5> QED
          BY <5>1, <5>2
      <4> QED
        BY <4>3, <4>4
    <3>8. Found' \subseteq Derivable
      BY <2>3, <3>4, <3>6
    <3>9. \A q \in applied : chain[q].outs \subseteq Found'
      BY <2>3, <2>6 DEF UsedInv
    <3> QED
      BY <1>0, <2>1, <3>7, <3>8, <3>9
  <2> QED
    BY <1>1, <1>2, <2>4, <2>5, <2>6 DEF UsedInv
<1> QED
  BY <1>1, <1>3, <1>4

(* After a quiet pass a settle with all of its inputs found has been used,  *)
(* or the index of its change is taken.                                     *)
LEMMA ChangesTaken ==
    ASSUME IInv, ChainInv, AmountsInv, UsedInv, pc # "done", Quiet,
           NEW q \in read, NEW t, t = chain[q], q \notin applied,
           t.ins # {}, t.ins \subseteq Found
    PROVE  \E n \in t.outs : t.outs = {n} /\ n.index \in Taken /\ n \in Outs(Txs)
<1>1. q \in DOMAIN chain /\ q < Len(chain) + 1 /\ t \in Txs /\ t \in Tx
  BY DEF IInv, TypeOK, Txs
<1>2. ~Usable(t)
  BY <1>1 DEF Quiet, SettledTo
<1>3. Inputs(t) = t.ins
  <2>1. ASSUME NEW m \in t.ins PROVE Fresh(m) \in owned
    <3>1. PICK o \in owned : o.note = m
      BY DEF Found
    <3>2. ~o.spent
      <4> SUFFICES ASSUME o.spent PROVE FALSE
        OBVIOUS
      <4>1. PICK r \in applied : m \in chain[r].ins
        BY <3>1 DEF UsedInv
      <4>2. r \in DOMAIN chain /\ r # q
        BY DEF IInv, TypeOK
      <4> QED
        BY <1>1, <4>1, <4>2 DEF ChainInv
    <3> QED
      BY <3>1, <3>2 DEF Fresh, IInv, TypeOK, Owned
  <2> QED
    BY <2>1 DEF Inputs, Fresh
<1>4. PICK left \in Nat :
        /\ t.paid + left = Worth(t.ins)
        /\ IF left = 0 THEN t.outs = {}
           ELSE \E n \in t.outs : n.value = left /\ t.outs = {n}
  BY <1>1 DEF AmountsInv, Settles
<1>5. t.paid \in Nat /\ t.outs \subseteq Note /\ t.outs \subseteq Outs(Txs)
  BY <1>1 DEF Tx, Outs
<1>6. t.paid <= Worth(Inputs(t)) /\ Worth(Inputs(t)) - t.paid = left
  BY <1>3, <1>4, <1>5
<1>7. left # 0 /\ LocateChange(t, left) = {}
  BY <1>2, <1>3, <1>6 DEF Usable
<1>8. PICK n \in t.outs : n.value = left /\ t.outs = {n}
  BY <1>4, <1>7
<1>9. n.index \in Taken
  <2> SUFFICES ASSUME n.index \notin Taken PROVE FALSE
    OBVIOUS
  <2>1. n = [index |-> n.index, value |-> left] /\ n.index \in ScanRange
    BY <1>5, <1>8 DEF Note
  <2>2. n \in LocateChange(t, left)
    BY <2>1 DEF LocateChange
  <2> QED
    BY <1>7, <2>2
<1> QED
  BY <1>5, <1>8, <1>9

(* Its change is then found, if no settle is half covered.                  *)
LEMMA ChangesFound ==
    ASSUME IInv, ChainInv, AmountsInv, UsedInv, NoHalf, pc # "done", Quiet,
           NEW t \in Readable, t.ins # {}, t.ins \subseteq Found
    PROVE  t.outs \subseteq Found
<1>1. PICK q \in read : t = chain[q]
  BY DEF Readable
<1>2. CASE q \in applied
  BY <1>1, <1>2 DEF UsedInv
<1>3. CASE q \notin applied
  <2>1. PICK n \in t.outs : t.outs = {n} /\ n.index \in Taken /\ n \in Outs(Txs)
    BY <1>1, <1>3, ChangesTaken
  <2>2. PICK m \in Found : m.index = n.index
    BY <2>1 DEF Taken
  <2>3. m = n
    BY <2>1, <2>2 DEF IInv, FoundIsReal, ChainInv
  <2> QED
    BY <2>1, <2>2, <2>3
<1> QED
  BY <1>2, <1>3

(* A shield is found by the scan that goes over its index.                  *)
LEMMA ShieldsFound ==
    ASSUME IInv, ChainInv, NEW b, Swept(b),
           NEW t \in Readable, t.ins = {}, NEW n \in t.outs, n.index < b
    PROVE  n \in Found
<1>1. n \in Sweepable /\ n \in Outs(Txs)
  BY DEF Sweepable, Outs, Readable, Txs, IInv, TypeOK
<1>2. PICK m \in Found : m.index = n.index
  BY <1>1 DEF Swept, Taken
<1> QED
  BY <1>1, <1>2 DEF IInv, FoundIsReal, ChainInv

(* After a quiet pass nothing derivable is left out but what lies behind a  *)
(* gap.                                                                     *)
LEMMA QuietIsAll ==
    ASSUME IInv, ChainInv, AmountsInv, UsedInv, NoHalf, pc # "done", Quiet,
           Swept(index + 1),
           index = Cap \/ (Gap <= index + 1 /\ Open(index + 1 - Gap, index + 1)),
           Dense(Derivable)
    PROVE  Found = Derivable
<1> DEFINE S == Found \cup {n \in Outs(Readable) : n.index > index}
<1>1. Found \subseteq Derivable /\ Derivable \subseteq Outs(Readable)
  BY DEF UsedInv, Derivable, Derived
<1>2. Readable \subseteq Txs /\ Outs(Readable) \subseteq Note
  <2>1. Readable \subseteq Txs
    BY DEF Readable, Txs, IInv, TypeOK
  <2> QED
    BY <2>1, ChainNotes DEF Outs, IInv
<1>3. index \in Nat /\ Cap \in Nat /\ index <= Cap /\ Gap \in Nat \ {0}
  BY ScanAssumption, GapAssumption DEF IInv, TypeOK, ScanRange
<1>4. \A n \in Note : n.index \in Nat /\ n.index <= Cap
  BY <1>3 DEF Note, ScanRange
<1>5. ASSUME NEW t \in Readable, t.ins \subseteq S
      PROVE  t.outs \subseteq S
  <2>0. t.outs \subseteq Outs(Readable) /\ t.outs \subseteq Note
    BY <1>2 DEF Outs
  <2>1. CASE t.ins = {}
    <3> SUFFICES ASSUME NEW n \in t.outs, ~(n.index > index) PROVE n \in Found
      BY <2>0
    <3>1. n.index < index + 1
      BY <1>3, <1>4, <2>0
    <3> QED
      BY <2>1, <3>1, ShieldsFound
  <2>2. CASE t.ins # {} /\ t.ins \subseteq Found
    BY <2>2, ChangesFound
  <2>3. CASE ~(t.ins \subseteq Found)
    <3>1. PICK m \in t.ins : m \notin Found
      BY <2>3
    <3>2. m.index > index /\ m \in Note
      BY <1>2, <1>5, <3>1
    <3>3. \A n \in t.outs : m.index < n.index
      BY <1>2 DEF AmountsInv
    <3>4. \A n \in t.outs : n.index > index
      BY <1>3, <1>4, <2>0, <3>2, <3>3
    <3> QED
      BY <2>0, <3>4
  <2> QED
    BY <2>1, <2>2, <2>3
<1>6. Derivable \subseteq S
  <2>1. S \in SUBSET Outs(Readable)
    BY <1>1
  <2> HIDE DEF S
  <2> QED
    BY <1>5, <2>1 DEF Derivable, Derived
<1>7. ASSUME NEW n \in Derivable PROVE ~(n.index > index)
  <2>1. CASE index = Cap
    BY <1>1, <1>2, <1>3, <1>4, <2>1
  <2>2. CASE Gap <= index + 1 /\ Open(index + 1 - Gap, index + 1)
    <3> DEFINE i == index + 1 - Gap
    <3>1. i \in ScanRange /\ i \in Nat /\ i + Gap - 1 = index /\ i <= index
      BY <1>3, <2>2 DEF ScanRange
    <3>2. \A m \in Derivable : m.index \notin i..index
      <4> SUFFICES ASSUME NEW m \in Derivable, m.index \in i..index PROVE FALSE
        OBVIOUS
      <4>1. m.index \in Nat /\ m.index <= index /\ i <= m.index
        BY <3>1
      <4>2. m \in Found
        BY <1>3, <1>6, <4>1
      <4>3. m.index \in Taken
        BY <4>2 DEF Taken
      <4> QED
        BY <1>3, <2>2, <4>1, <4>3 DEF Open
    <3> HIDE DEF i
    <3> SUFFICES ASSUME n.index > index PROVE FALSE
      OBVIOUS
    <3>3. i \in 0..n.index /\ i + Gap <= n.index
      BY <1>1, <1>2, <1>3, <1>4, <3>1
    <3>4. PICK m \in Derivable : m.index \in i..(i + Gap - 1)
      BY <3>3 DEF Dense, Reached
    <3> QED
      BY <3>1, <3>2, <3>4
  <2> QED
    BY <2>1, <2>2
<1> QED
  BY <1>1, <1>6, <1>7

LEMMA EndPassAll ==
    ASSUME PassInv, UsedInv, EndPass
    PROVE  UsedInv' /\ AllFound'
<1>1. /\ UNCHANGED <<chain, read, owned, applied>>
      /\ pc = "settle" /\ pc' \in {"burn", "probe"}
  BY DEF EndPass, history
<1>2. UNCHANGED <<Readable, Derivable>> /\ (NoHalf' <=> NoHalf) /\ UNCHANGED Found
  BY <1>1, SameDerivable DEF Found
<1>3. UsedInv'
  BY <1>1, <1>2 DEF UsedInv
<1>4. ASSUME pc' = "burn", Dense(Derivable), NoHalf PROVE Found = Derivable
  <2>1. Quiet /\ Cardinality(Found) \in Nat
    BY <1>4, EndPassPass, FoundFinite DEF PassInv
  <2>2. ~(Cardinality(Found) > before)
    BY <2>1 DEF Quiet
  <2>3. /\ Swept(index + 1)
        /\ index = Cap \/ (Gap <= index + 1 /\ Open(index + 1 - Gap, index + 1))
    BY <1>1, <2>2 DEF PassInv, SettleInv
  <2> QED
    BY <1>1, <1>4, <2>1, <2>3, QuietIsAll DEF PassInv
<1>5. Dense(Derivable)' <=> Dense(Derivable)
  BY <1>2 DEF Dense, Reached
<1> QED
  BY <1>1, <1>2, <1>3, <1>4, <1>5 DEF AllFound

LEMMA BurnAll ==
    ASSUME PassInv, UsedInv, AllFound, Burn
    PROVE  UsedInv' /\ AllFound'
<1>1. UNCHANGED <<chain, read, applied>> /\ pc = "burn" /\ pc' = "done"
  BY DEF Burn, history
<1>2. UNCHANGED <<Readable, Derivable>> /\ (NoHalf' <=> NoHalf) /\ UNCHANGED Found
  BY <1>1, SameDerivable, BurnPass DEF PassInv
<1>3. Dense(Derivable)' <=> Dense(Derivable)
  BY <1>2 DEF Dense, Reached
<1> QED
  BY <1>1, <1>2, <1>3 DEF UsedInv, AllFound

(* Nothing is used before the recovery.                                     *)
LEMMA NothingUsed ==
    ASSUME owned' = {}, applied' = {}, pc' \in {"live", "probe"}
    PROVE  UsedInv' /\ AllFound'
<1>1. Found' = {}
  BY DEF Found
<1> QED
  BY <1>1 DEF UsedInv, AllFound

LEMMA NextFull == ASSUME FullInv, [Next]_vars PROVE FullInv'
<1>1. PassInv' /\ PassInv /\ UsedInv /\ AllFound /\ IInv /\ ChainInv /\ AmountsInv
  BY NextPass DEF FullInv, PassInv
<1>2. CASE \/ \E v \in Values : Shield(v)
           \/ \E ins \in SUBSET Unspent, max, leaf \in BOOLEAN, e \in 0..epoch :
                 \E paid \in 1..Worth(ins), left \in 0..Worth(ins) :
                     Settle(ins, paid, left, max, e, leaf)
           \/ Skip \/ RollEpoch \/ Read
  <2>1. pc = "live" /\ UNCHANGED recovery /\ pc' \in {"live", "probe"}
    BY <1>2 DEF Shield, Settle, Skip, RollEpoch, Read
  <2>2. owned' = {} /\ applied' = {}
    BY <1>1, <2>1 DEF PassInv, LiveInv, recovery
  <2> QED
    BY <1>1, <2>1, <2>2, NothingUsed DEF FullInv
<1>3. CASE Probe
  BY <1>1, <1>3, ProbeUsed DEF Probe, Advance, FullInv, AllFound
<1>4. CASE Apply
  <2>1. pc' = "settle"
    BY <1>4 DEF Apply
  <2> QED
    BY <1>1, <1>4, <2>1, ApplyUsed DEF FullInv, AllFound
<1>5. CASE EndPass
  BY <1>1, <1>5, EndPassAll DEF FullInv
<1>6. CASE Burn
  BY <1>1, <1>6, BurnAll DEF FullInv
<1>7. CASE UNCHANGED vars
  <2>1. UNCHANGED <<chain, read, pc, owned, applied>>
    BY <1>7 DEF vars, recovery
  <2>2. UNCHANGED <<Readable, Derivable, Found>> /\ (NoHalf' <=> NoHalf)
    BY <2>1, SameDerivable DEF Found
  <2>3. Dense(Derivable)' <=> Dense(Derivable)
    BY <2>2 DEF Dense, Reached
  <2>4. UsedInv' /\ AllFound'
    BY <1>1, <2>1, <2>2, <2>3 DEF UsedInv, AllFound
  <2> QED
    BY <1>1, <2>4 DEF FullInv
<1> QED
  BY <1>2, <1>3, <1>4, <1>5, <1>6, <1>7 DEF Next

LEMMA InitFull == ASSUME Init PROVE FullInv
<1>1. Found = {}
  BY DEF Init, Found
<1> QED
  BY <1>1, InitPass DEF Init, FullInv, UsedInv, AllFound

(* The recovery finds every note that the readable transactions determine,  *)
(* behind spent notes and through any chain of settles, unless indexes      *)
(* without a note fill a gap or one of two inputs is worth what was paid    *)
(* (notescan.rs:5, 141-196).                                                *)
THEOREM RecoveryIsComplete == Spec => []EveryNoteFound
<1>1. Init => FullInv
  BY InitFull
<1>2. FullInv /\ [Next]_vars => FullInv'
  BY NextFull
<1>3. FullInv => EveryNoteFound
  BY DEF FullInv, AllFound, EveryNoteFound, NoHalf
<1> QED
  BY <1>1, <1>2, <1>3, PTL DEF Spec

-----------------------------------------------------------------------------
(* The result is one of NoteRecovery's.  Ledger: the transactions that the  *)
(* recovery made use of, settles with all of their inputs.                  *)
Spent == {o.note : o \in {x \in owned : x.spent}}
Whole(q) == chain[q].ins \subseteq Spent /\ chain[q].outs \subseteq Found
Ledger ==
    {t \in Readable : t.ins = {} /\ t.outs \subseteq Found}
        \cup {chain[q] : q \in {x \in applied : Whole(x)}}

(* Each found note comes from a shield or from such a settle; any other that*)
(* was used is half covered.                                                *)
UseInv ==
    /\ \A n \in Found :
          \/ \E t \in Readable : t.ins = {} /\ n \in t.outs
          \/ \E q \in applied : Whole(q) /\ n \in chain[q].outs
    /\ \A q \in applied : Whole(q) \/ HalfCovers(chain[q])

(* What the last pass has left out.                                         *)
ShieldsLeft ==
    \A t \in Readable : t.ins = {} =>
        \A n \in t.outs : Reached(n.index, Found) => n.index \in Taken
SettlesLeft ==
    \A q \in read :
        chain[q].ins # {} /\ chain[q].ins \subseteq Found /\ q \notin applied
            => chain[q].outs # {} /\ Indexes(chain[q].outs) \subseteq Taken

Looked == Burnt(Found, Logs, ep, Nullifiers(Txs))
EndInv ==
    /\ pc \in {"burn", "done"} => ShieldsLeft /\ SettlesLeft
    /\ pc = "done" =>
          /\ Looked \subseteq Spent
          /\ \A n \in Spent \ Looked : \E q \in applied : n \in chain[q].ins

PromiseInv == FullInv /\ UseInv /\ EndInv

(* More notes, or more that are spent, take nothing away from it.           *)
LEMMA UseGrows ==
    ASSUME UseInv, UNCHANGED <<chain, read, applied>>,
           Found \subseteq Found', Spent \subseteq Spent',
           \A n \in Found' \ Found : \E t \in Readable : t.ins = {} /\ n \in t.outs
    PROVE  UseInv'
<1>1. UNCHANGED Readable
  BY DEF Readable
<1>2. \A q : Whole(q) => Whole(q)'
  BY DEF Whole
<1>3. \A q : HalfCovers(chain[q])' <=> HalfCovers(chain[q])
  BY DEF HalfCovers
<1>4. ASSUME NEW n \in Found'
      PROVE  \/ \E t \in Readable' : t.ins = {} /\ n \in t.outs
             \/ \E q \in applied' : Whole(q)' /\ n \in chain'[q].outs
  BY <1>1, <1>2 DEF UseInv
<1>5. \A q \in applied' : Whole(q)' \/ HalfCovers(chain[q])'
  BY <1>2, <1>3 DEF UseInv
<1> QED
  BY <1>4, <1>5 DEF UseInv

(* What is marked, and nothing else, becomes spent.                         *)
LEMMA MarkSpends ==
    ASSUME IInv, NEW S
    PROVE  {o.note : o \in {x \in MarkSpent(S) : x.spent}} = Spent \cup (S \cap Found)
<1> DEFINE mark(o) == [note |-> o.note, spent |-> o.spent \/ o.note \in S]
<1>1. MarkSpent(S) = {mark(o) : o \in owned}
  BY DEF MarkSpent
<1>2. \A o \in owned : mark(o).note = o.note
                        /\ (mark(o).spent <=> o.spent \/ o.note \in S)
  BY DEF IInv, TypeOK, Owned
<1> HIDE DEF mark
<1> QED
  BY <1>1, <1>2 DEF Spent, Found

LEMMA ProbeUse ==
    ASSUME IInv, UseInv, Probe
    PROVE  UseInv'
<1>1. UNCHANGED <<chain, read, applied>>
  BY DEF Probe, history
<1>2. UNCHANGED owned \/ \E n \in Shields : owned' = owned \cup {Fresh(n)}
  BY DEF Probe, Look, Fresh
<1>3. CASE UNCHANGED owned
  <2>1. Found' = Found /\ Spent' = Spent
    BY <1>3 DEF Found, Spent
  <2> QED
    BY <1>1, <2>1, UseGrows
<1>4. ASSUME NEW n \in Shields, owned' = owned \cup {Fresh(n)}
      PROVE  UseInv'
  <2>1. Fresh(n).note = n
    BY DEF Fresh
  <2>2. Found' = Found \cup {n} /\ Spent \subseteq Spent'
    BY <1>4, <2>1 DEF Found, Spent
  <2>3. \E t \in Readable : t.ins = {} /\ n \in t.outs
    BY DEF Shields, Outs
  <2> QED
    BY <1>1, <2>2, <2>3, UseGrows
<1> QED
  BY <1>2, <1>3, <1>4

LEMMA ApplyUse ==
    ASSUME IInv, ChainInv, AmountsInv, UseInv, Apply
    PROVE  UseInv'
<1>0. PICK t, p : t = chain[p] /\ p = pos
  OBVIOUS
<1>1. /\ UNCHANGED <<chain, read>> /\ p \in DOMAIN chain
      /\ t \in Txs /\ t \in Tx
      /\ Passed(t) \/ Used(t)
  BY <1>0, ApplyStep
<1>2. CASE Passed(t)
  <2>1. Found' = Found /\ Spent' = Spent
    BY <1>2 DEF Passed, Found, Spent
  <2> QED
    BY <1>1, <1>2, <2>1, UseGrows DEF Passed
<1>3. CASE Used(t)
  <2> DEFINE M == MarkSpent(Inputs(t))
             left == Worth(Inputs(t)) - t.paid
  <2>1. applied' = applied \cup {p} /\ Inputs(t) # {}
    BY <1>0, <1>3 DEF Used, Usable
  <2>2. /\ Found \subseteq Found'
        /\ \/ left = 0 /\ Found' = Found
           \/ \E n \in Change(t) : n \in t.outs /\ Found' = Found \cup {n}
    BY <1>1, <1>3, UsedNotes
  <2>3. Spent \cup Inputs(t) \subseteq Spent'
    <3>1. {o.note : o \in {x \in M : x.spent}} = Spent \cup (Inputs(t) \cap Found)
      BY MarkSpends
    <3>2. M \subseteq owned'
      BY <1>3 DEF Used
    <3>3. Inputs(t) \subseteq Found
      BY DEF Inputs
    <3> HIDE DEF M
    <3> QED
      BY <3>1, <3>2, <3>3 DEF Spent
  <2>4. ASSUME Inputs(t) = t.ins
        PROVE  t.outs \subseteq Found' /\ Whole(p)'
    <3>1. t.ins # {}
      BY <2>1, <2>4
    <3>2. PICK real \in Nat :
            /\ t.paid + real = Worth(t.ins)
            /\ IF real = 0 THEN t.outs = {}
               ELSE \E n \in t.outs : n.value = real /\ t.outs = {n}
      BY <1>1, <3>1 DEF AmountsInv, Settles
    <3>3. left = real
      <4>1. t.paid \in Nat
        BY <1>1 DEF Tx
      <4> QED
        BY <2>4, <3>2, <4>1
    <3> HIDE DEF left
    <3>4. t.outs \subseteq Found'
      <4>1. CASE left = 0
        BY <3>2, <3>3, <4>1
      <4>2. CASE left # 0
        <5>1. PICK n \in t.outs : Found' = Found \cup {n}
          BY <2>2, <4>2
        <5>2. t.outs = {n}
          BY <3>2, <3>3, <4>2
        <5> QED
          BY <5>1, <5>2
      <4> QED
        BY <4>1, <4>2
    <3> QED
      BY <1>0, <1>1, <2>3, <2>4, <3>4 DEF Whole
  <2>5. ASSUME left = 0, ~HalfCovers(t)
        PROVE  Inputs(t) = t.ins
    BY <1>1, <2>1, <2>5, WholeInputs
  <2>6. ASSUME NEW n \in Change(t), n \in t.outs
        PROVE  Inputs(t) = t.ins
    <3>1. n.value = left
      BY DEF Change, LocateChange
    <3>2. n.value # 0
      BY <1>1, <2>6 DEF ChainInv, Outs
    <3> QED
      BY <1>1, <2>1, <2>6, <3>1, <3>2, WholeInputs
  <2>7. \A q \in applied : Whole(q) => Whole(q)'
    BY <1>1, <2>2, <2>3 DEF Whole
  <2>8. ASSUME NEW n \in Found'
        PROVE  \/ \E u \in Readable' : u.ins = {} /\ n \in u.outs
               \/ \E q \in applied' : Whole(q)' /\ n \in chain'[q].outs
    <3>1. CASE n \in Found
      <4>1. Readable' = Readable
        BY <1>1 DEF Readable
      <4> QED
        BY <1>1, <2>1, <2>7, <3>1, <4>1 DEF UseInv
    <3>2. CASE n \notin Found
      <4>1. n \in Change(t) /\ n \in t.outs
        BY <2>2, <2>8, <3>2
      <4> QED
        BY <1>0, <1>1, <2>1, <2>4, <2>6, <4>1
    <3> QED
      BY <3>1, <3>2
  <2>9. Whole(p)' \/ HalfCovers(t)
    <3> HIDE DEF left
    <3>1. CASE left = 0
      BY <2>4, <2>5, <3>1
    <3>2. CASE left # 0
      BY <2>2, <2>4, <2>6, <3>2
    <3> QED
      BY <3>1, <3>2
  <2>10. \A q \in applied' : Whole(q)' \/ HalfCovers(chain[q])'
    <3>1. \A q : HalfCovers(chain[q])' <=> HalfCovers(chain[q])
      BY <1>1 DEF HalfCovers
    <3> QED
      BY <1>0, <2>1, <2>7, <2>9, <3>1 DEF UseInv
  <2> HIDE DEF M, left
  <2> QED
    BY <2>8, <2>10 DEF UseInv
<1> QED
  BY <1>1, <1>2, <1>3

(* The last pass was a quiet one: a shield that it tried, and a settle of   *)
(* found notes, was used, or the index is taken.                            *)
LEMMA EndPassEnds ==
    ASSUME PassInv, UsedInv, EndPass, pc' = "burn"
    PROVE  ShieldsLeft' /\ SettlesLeft'
<1>1. /\ UNCHANGED <<chain, read, owned, applied>> /\ pc = "settle"
  BY DEF EndPass, history
<1>2. IInv /\ ChainInv /\ AmountsInv /\ SettleInv
  BY DEF PassInv
<1>3. Quiet /\ Cardinality(Found) \in Nat
  BY <1>2, EndPassPass, FoundFinite
<1>4. ~(Cardinality(Found) > before)
  BY <1>3 DEF Quiet
<1>5. /\ Swept(index + 1)
      /\ index = Cap \/ (Gap <= index + 1 /\ Open(index + 1 - Gap, index + 1))
  BY <1>1, <1>2, <1>4 DEF SettleInv
<1>6. ShieldsLeft
  <2> SUFFICES ASSUME NEW t \in Readable, t.ins = {}, NEW n \in t.outs,
                      Reached(n.index, Found)
               PROVE  n.index \in Taken
    BY DEF ShieldsLeft
  <2>1. n \in Sweepable
    BY DEF Sweepable, Outs
  <2>2. n \in Note
    BY <1>2, ChainNotes DEF Outs, Readable, Txs, IInv, TypeOK
  <2>3. /\ index \in Nat /\ Cap \in Nat /\ index <= Cap /\ Gap \in Nat \ {0}
        /\ n.index \in Nat /\ n.index <= Cap
    BY <1>2, <2>2, ScanAssumption, GapAssumption DEF IInv, TypeOK, ScanRange, Note
  <2>4. CASE n.index <= index
    <3>1. n.index < index + 1
      BY <2>3, <2>4
    <3> QED
      BY <1>5, <2>1, <3>1 DEF Swept
  <2>5. CASE n.index > index
    <3>1. Gap <= index + 1 /\ Open(index + 1 - Gap, index + 1)
      BY <1>5, <2>3, <2>5
    <3> DEFINE i == index + 1 - Gap
    <3>2. i \in 0..n.index /\ i + Gap <= n.index /\ i + Gap - 1 = index /\ i \in Nat
      BY <2>3, <2>5, <3>1
    <3> HIDE DEF i
    <3>3. PICK m \in Found : m.index \in i..(i + Gap - 1)
      BY <3>2 DEF Reached
    <3>4. m.index \in Taken /\ i <= m.index /\ m.index < index + 1
      BY <2>3, <3>2, <3>3 DEF Taken
    <3> QED
      BY <3>1, <3>4 DEF Open, i
  <2> QED
    BY <2>3, <2>4, <2>5
<1>7. SettlesLeft
  <2> SUFFICES ASSUME NEW q \in read, chain[q].ins # {}, chain[q].ins \subseteq Found,
                      q \notin applied
               PROVE  chain[q].outs # {} /\ Indexes(chain[q].outs) \subseteq Taken
    BY DEF SettlesLeft
  <2>1. PICK t : t = chain[q]
    OBVIOUS
  <2>2. \E n \in t.outs : t.outs = {n} /\ n.index \in Taken
    BY <1>1, <1>2, <1>3, <2>1, ChangesTaken
  <2> QED
    BY <2>1, <2>2 DEF Indexes
<1>8. UNCHANGED <<Readable, Found, Taken>>
  BY <1>1 DEF Readable, Found, Taken
<1>9. ShieldsLeft'
  BY <1>6, <1>8 DEF ShieldsLeft, Reached
<1>10. SettlesLeft'
  BY <1>1, <1>7, <1>8 DEF SettlesLeft, Indexes
<1> QED
  BY <1>9, <1>10

LEMMA BurnEnds ==
    ASSUME PassInv, UsedInv, UseInv, EndInv, Burn
    PROVE  UseInv' /\ EndInv'
<1>1. /\ UNCHANGED <<chain, read, ep, applied>> /\ pc = "burn" /\ pc' = "done"
      /\ owned' = MarkSpent(Looked)
  BY DEF Burn, history, Looked
<1>2. IInv /\ Found' = Found
  BY BurnPass DEF PassInv
<1>3. Looked \subseteq Found
  BY DEF Looked, Burnt
<1>4. Spent' = Spent \cup Looked
  <2>1. {o.note : o \in {x \in MarkSpent(Looked) : x.spent}} = Spent \cup (Looked \cap Found)
    BY <1>2, MarkSpends
  <2>2. Spent' = Spent \cup (Looked \cap Found)
    BY <1>1, <2>1 DEF Spent
  <2> QED
    BY <1>3, <2>2
<1>5. UseInv'
  BY <1>1, <1>2, <1>4, UseGrows
<1>6. Looked' = Looked
  <2>1. Txs' = Txs /\ Logs' = Logs
    BY <1>1 DEF Txs, Logs, Logged
  <2> QED
    BY <1>1, <1>2, <2>1 DEF Looked, Burnt, Seen, Nullifiers
<1>7. ShieldsLeft' /\ SettlesLeft'
  <2>1. ShieldsLeft /\ SettlesLeft
    BY <1>1 DEF EndInv
  <2>2. UNCHANGED <<Readable, Taken>>
    BY <1>1, <1>2 DEF Readable, Taken
  <2>3. ShieldsLeft'
    BY <1>2, <2>1, <2>2 DEF ShieldsLeft, Reached
  <2>4. SettlesLeft'
    BY <1>1, <1>2, <2>1, <2>2 DEF SettlesLeft, Indexes
  <2> QED
    BY <2>3, <2>4
<1>8. \A n \in Spent : \E q \in applied : n \in chain[q].ins
  BY <1>1 DEF UsedInv, Spent
<1>9. Looked' \subseteq Spent' /\ \A n \in Spent' \ Looked' : \E q \in applied' : n \in chain'[q].ins
  BY <1>1, <1>4, <1>6, <1>8
<1> QED
  BY <1>5, <1>7, <1>9 DEF EndInv

LEMMA NextPromise == ASSUME PromiseInv, [Next]_vars PROVE PromiseInv'
<1>0. FullInv' /\ FullInv
  BY NextFull DEF PromiseInv
<1>1. /\ PassInv /\ UsedInv /\ UseInv /\ EndInv
      /\ IInv /\ ChainInv /\ AmountsInv /\ LiveInv
  BY DEF PromiseInv, FullInv, PassInv
<1>2. CASE \/ \E v \in Values : Shield(v)
           \/ \E ins \in SUBSET Unspent, max, leaf \in BOOLEAN, e \in 0..epoch :
                 \E paid \in 1..Worth(ins), left \in 0..Worth(ins) :
                     Settle(ins, paid, left, max, e, leaf)
           \/ Skip \/ RollEpoch \/ Read
  <2>1. pc = "live" /\ UNCHANGED recovery /\ pc' \in {"live", "probe"}
    BY <1>2 DEF Shield, Settle, Skip, RollEpoch, Read
  <2>2. owned' = {} /\ applied' = {}
    BY <1>1, <2>1 DEF LiveInv, recovery
  <2>3. Found' = {}
    BY <2>2 DEF Found
  <2>4. UseInv'
    BY <2>2, <2>3 DEF UseInv
  <2> QED
    BY <1>0, <2>1, <2>4 DEF PromiseInv, EndInv
<1>3. CASE Probe
  <2>1. pc' \in {"probe", "settle"}
    BY <1>3 DEF Probe, Advance
  <2> QED
    BY <1>0, <1>1, <1>3, <2>1, ProbeUse DEF PromiseInv, EndInv
<1>4. CASE Apply
  <2>1. pc' = "settle"
    BY <1>4 DEF Apply
  <2> QED
    BY <1>0, <1>1, <1>4, <2>1, ApplyUse DEF PromiseInv, EndInv
<1>5. CASE EndPass
  <2>1. /\ UNCHANGED <<chain, read, owned, applied>> /\ pc' \in {"burn", "probe"}
    BY <1>5 DEF EndPass, history
  <2>2. UNCHANGED <<Found, Spent>>
    BY <2>1 DEF Found, Spent
  <2>3. UseInv'
    BY <1>1, <2>1, <2>2, UseGrows
  <2>4. EndInv'
    BY <1>1, <1>5, <2>1, EndPassEnds DEF EndInv
  <2> QED
    BY <1>0, <2>3, <2>4 DEF PromiseInv
<1>6. CASE Burn
  BY <1>0, <1>1, <1>6, BurnEnds DEF PromiseInv
<1>7. CASE UNCHANGED vars
  <2>1. UNCHANGED <<chain, read, ep, pc, owned, applied>>
    BY <1>7 DEF vars, recovery
  <2>2. UNCHANGED <<Found, Spent, Taken, Readable, Looked>>
    BY <2>1 DEF Found, Spent, Taken, Readable, Looked, Burnt, Seen, Logs, Logged,
                Nullifiers, Txs
  <2>3. UseInv'
    BY <1>1, <2>1, <2>2, UseGrows
  <2>4. (ShieldsLeft' <=> ShieldsLeft) /\ (SettlesLeft' <=> SettlesLeft)
    BY <2>1, <2>2 DEF ShieldsLeft, SettlesLeft, Reached, Indexes
  <2>5. EndInv'
    BY <1>1, <2>1, <2>2, <2>4 DEF EndInv
  <2> QED
    BY <1>0, <2>3, <2>5 DEF PromiseInv
<1> QED
  BY <1>2, <1>3, <1>4, <1>5, <1>6, <1>7 DEF Next

LEMMA SmallestIndex ==
    ASSUME NEW K \in SUBSET Nat, K # {}
    PROVE  \E k \in K : \A l \in K : k <= l
<1> DEFINE R == {ss \in Nat \X Nat : ss[1] < ss[2]}
<1>1. IsWellFoundedOn(R, Nat)
  BY NatLessThanWellFounded DEF OpToRel
<1> HIDE DEF R
<1>2. PICK k \in K : \A l \in K : ~(<<l, k>> \in R)
  BY <1>1, WFMin
<1>3. k \in Nat /\ \A l \in K : l \in Nat /\ ~(l < k)
  BY <1>2 DEF R
<1>4. \A l \in K : k <= l
  BY <1>3
<1> QED
  BY <1>4

(* The notes found are those of the ledger, ...                             *)
LEMMA LedgerNotes ==
    ASSUME PromiseInv
    PROVE  /\ Ledger \subseteq Readable /\ Ledger \subseteq Txs
           /\ Outs(Ledger) = Found /\ Ins(Ledger) \subseteq Spent
<1>1. /\ UseInv /\ UsedInv /\ IInv /\ AmountsInv
  BY DEF PromiseInv, FullInv, PassInv
<1>2. Ledger \subseteq Readable /\ Readable \subseteq Txs
  BY <1>1 DEF Ledger, Readable, Txs, UsedInv, IInv, TypeOK
<1>3. Outs(Ledger) \subseteq Found /\ Ins(Ledger) \subseteq Spent
  BY DEF Ledger, Outs, Ins, Whole
<1>4. ASSUME NEW n \in Found PROVE n \in Outs(Ledger)
  <2>1. ASSUME NEW t \in Readable, t.ins = {}, n \in t.outs PROVE n \in Outs(Ledger)
    <3>1. t.outs \subseteq Found
      BY <1>1, <1>2, <2>1 DEF AmountsInv
    <3> QED
      BY <2>1, <3>1 DEF Ledger, Outs
  <2>2. ASSUME NEW q \in applied, Whole(q), n \in chain[q].outs PROVE n \in Outs(Ledger)
    BY <2>2 DEF Ledger, Outs
  <2> QED
    BY <1>1, <2>1, <2>2 DEF UseInv
<1> QED
  BY <1>2, <1>3, <1>4

(* ... which follow from its shields, by the one of least index that would  *)
(* not.                                                                     *)
LEMMA LedgerIsDerived ==
    ASSUME PromiseInv
    PROVE  Derived(Ledger) = Found
<1>1. /\ UseInv /\ IInv /\ AmountsInv
  BY DEF PromiseInv, FullInv, PassInv
<1>2. /\ Ledger \subseteq Txs /\ Outs(Ledger) = Found /\ Ins(Ledger) \subseteq Spent
      /\ Spent \subseteq Found
  BY LedgerNotes DEF Spent, Found
<1>3. \A n \in Found : n.index \in Nat
  BY <1>1, ChainNotes, ScanAssumption, GapAssumption
     DEF IInv, FoundIsReal, Note, ScanRange
<1> SUFFICES ASSUME NEW S \in SUBSET Found,
                    \A t \in Ledger : t.ins \subseteq S => t.outs \subseteq S,
                    NEW x \in Found, x \notin S
             PROVE  FALSE
  BY <1>2 DEF Derived
<1> DEFINE Missed(k) == \E n \in Found \ S : n.index = k
<1>4. PICK n \in Found \ S : \A m \in Found \ S : n.index <= m.index
  <2> DEFINE K == {k \in Nat : Missed(k)}
  <2>1. K \subseteq Nat /\ K # {}
    BY <1>3
  <2> HIDE DEF K
  <2>2. PICK k \in K : \A l \in K : k <= l
    BY <2>1, SmallestIndex
  <2> QED
    BY <1>3, <2>2 DEF K
<1>5. PICK t \in Ledger : n \in t.outs
  BY <1>2 DEF Outs
<1>6. t.ins \subseteq S
  <2> SUFFICES ASSUME NEW m \in t.ins, m \notin S PROVE FALSE
    OBVIOUS
  <2>1. m \in Found
    BY <1>2 DEF Ins
  <2>2. m.index < n.index
    BY <1>1, <1>2, <1>5 DEF AmountsInv
  <2> QED
    BY <1>3, <1>4, <2>1, <2>2
<1> QED
  BY <1>4, <1>5, <1>6

LEMMA LedgerIsSound == ASSUME PromiseInv PROVE Sound(Ledger)
<1>1. IInv
  BY DEF PromiseInv, FullInv, PassInv
<1>2. /\ Outs(Ledger) = Found /\ Derived(Ledger) = Found
      /\ Ins(Ledger) \subseteq Found
  BY LedgerNotes, LedgerIsDerived DEF Spent, Found
<1>3. OneNotePerIndex(Found)
  BY <1>1 DEF IInv, FoundIsReal, OneNotePerIndex, Found
<1>4. Indexes(Found) \subseteq 0..Cap
  BY <1>1 DEF Indexes, IInv, TypeOK, Owned, Note, ScanRange, Found
<1> QED
  BY <1>2, <1>3, <1>4 DEF Sound

(* Nothing that could be used is left out of it.                            *)
LEMMA LedgerUsesAll ==
    ASSUME PromiseInv, pc = "done"
    PROVE  ShieldsUsed(Ledger, Readable) /\ SettlesUsed(Ledger, Readable)
<1>1. /\ UseInv /\ ShieldsLeft /\ SettlesLeft /\ Outs(Ledger) = Found
  BY LedgerNotes DEF PromiseInv, EndInv
<1>2. Indexes(Found) = Taken
  BY DEF Indexes, Taken
<1>3. ShieldsUsed(Ledger, Readable)
  BY <1>1, <1>2 DEF ShieldsUsed, ShieldsLeft
<1>4. ASSUME NEW t \in Readable, t.ins # {}, t.ins \subseteq Found, ~HalfCovers(t)
      PROVE  t \in Ledger \/ (t.outs # {} /\ Indexes(t.outs) \subseteq Taken)
  <2>1. PICK q \in read : t = chain[q]
    BY DEF Readable
  <2>2. CASE q \in applied
    BY <1>1, <1>4, <2>1, <2>2 DEF UseInv, Ledger
  <2>3. CASE q \notin applied
    BY <1>1, <1>4, <2>1, <2>3 DEF SettlesLeft
  <2> QED
    BY <2>2, <2>3
<1> QED
  BY <1>1, <1>2, <1>3, <1>4 DEF SettlesUsed

(* A spent note is an input of it, looked up, or of a half covered settle.  *)
LEMMA LedgerSpends ==
    ASSUME PromiseInv, pc = "done"
    PROVE  Spent \in SpentSets(Ledger, Readable, Logs, ep, Nullifiers(Txs))
<1>1. /\ UseInv /\ UsedInv /\ Looked \subseteq Spent
      /\ \A n \in Spent \ Looked : \E q \in applied : n \in chain[q].ins
      /\ Outs(Ledger) = Found /\ Ins(Ledger) \subseteq Spent /\ Spent \subseteq Found
  BY LedgerNotes DEF PromiseInv, FullInv, EndInv, Spent, Found
<1> DEFINE half == {n \in Found : \E t \in Readable : HalfCovers(t) /\ n \in t.ins}
           H == half \cap Spent
<1>2. ASSUME NEW n \in Spent PROVE n \in Ins(Ledger) \cup Looked \cup H
  <2> SUFFICES ASSUME n \notin Looked PROVE n \in Ins(Ledger) \cup H
    OBVIOUS
  <2>1. PICK q \in applied : n \in chain[q].ins
    BY <1>1
  <2>2. CASE Whole(q)
    <3>1. chain[q] \in Ledger
      BY <2>1, <2>2 DEF Ledger
    <3> QED
      BY <2>1, <3>1 DEF Ins
  <2>3. CASE HalfCovers(chain[q])
    <3>1. chain[q] \in Readable
      BY <1>1, <2>1 DEF UsedInv, Readable
    <3> QED
      BY <1>1, <2>1, <2>3, <3>1
  <2> QED
    BY <1>1, <2>1, <2>2, <2>3 DEF UseInv
<1>3. Spent = Ins(Ledger) \cup Looked \cup H
  BY <1>1, <1>2
<1>4. H \in SUBSET half
  OBVIOUS
<1> HIDE DEF H
<1> QED
  BY <1>1, <1>3, <1>4 DEF SpentSets, Looked

(* Whatever could not be read, the result of the passes, probe by probe and *)
(* settle by settle, is one that NoteRecovery allows: NoteWallet may take   *)
(* recover_notes as one step (notescan.rs:141-239, 296-358).                *)
THEOREM RecoveryKeepsItsPromise == Spec => []ResultIsPromised
<1>1. Init => PromiseInv
  <2> SUFFICES ASSUME Init PROVE PromiseInv
    OBVIOUS
  <2>1. FullInv
    BY InitFull
  <2>2. Found = {}
    BY DEF Init, Found
  <2> QED
    BY <2>1, <2>2 DEF Init, PromiseInv, UseInv, EndInv
<1>2. PromiseInv /\ [Next]_vars => PromiseInv'
  BY NextPromise
<1>3. ASSUME PromiseInv PROVE ResultIsPromised
  <2> SUFFICES ASSUME pc = "done"
               PROVE  \E P \in Recoveries(Readable) :
                         /\ Found = Outs(P)
                         /\ Spent \in SpentSets(P, Readable, Logs, ep, Nullifiers(Txs))
    BY DEF ResultIsPromised, Spent
  <2>1. Found = Outs(Ledger)
    BY <1>3, LedgerNotes
  <2>2. Ledger \in Recoveries(Readable)
    BY <1>3, LedgerIsSound, LedgerUsesAll, LedgerNotes DEF Recoveries
  <2>3. Spent \in SpentSets(Ledger, Readable, Logs, ep, Nullifiers(Txs))
    BY <1>3, LedgerSpends
  <2> QED
    BY <2>1, <2>2, <2>3
<1> QED
  BY <1>1, <1>2, <1>3, PTL DEF Spec
=============================================================================
