------------------------ MODULE AccountIndexesProofs ------------------------
(***************************************************************************)
(* Theorems about AccountIndexes for any number of indexes, payments and   *)
(* imports, any batch and any lookahead: types, the accounts the wallet    *)
(* shows, the freshness of the indexes it gives out, and what an import    *)
(* finds.                                                                  *)
(***************************************************************************)
EXTENDS AccountIndexes, TLAPS, WellFoundedInduction

(* Where the file has a payment's account.                                  *)
StoredFor(s, pick) ==
    IF pick.kind = "eoa" THEN pick.index \in s.public_indexes
    ELSE pick.index \in s.smart_indexes

(* The command works on the file as it is, ...                              *)
Copied == run.pc \in {"probe", "confirm", "send"} => run.mem = file

(* ... what it has chosen and not yet stored is the next index, ...         *)
Chosen ==
    run.pc = "confirm" =>
        /\ run.pick.kind \in {"eoa", "tail"}
        /\ run.pick.kind = "eoa" => run.fresh /\ run.pick.index = file.next_public

(* ... and what it is about to pay is stored, if it chose it.               *)
Backed ==
    run.pc = "send" /\ (run.fresh \/ run.pick.kind = "tail") => StoredFor(file, run.pick)

HandedBelow == \A a \in handed : a.kind = "eoa" => a.index < file.next_public
OwnStored == \A a \in own : StoredFor(file, a)

(* next_public is past the indexes stored, in the copy as in the file.      *)
Sound(s) ==
    /\ s \in Secrets /\ s.next_public <= MaxIndex
    /\ \A i \in s.public_indexes : i < s.next_public

IInv ==
    /\ TypeOK
    /\ Sound(run.mem)
    /\ imports = 0 =>
         /\ run.pc \notin {"public", "smart"}
         /\ Copied /\ Chosen /\ Backed /\ HandedBelow /\ OwnStored

-----------------------------------------------------------------------------
(* A nonempty set of indexes has a largest one: what max() of the stored    *)
(* indexes and of a batch returns.                                          *)
LEMMA LargestIndex ==
    ASSUME NEW N \in Nat, NEW S \in SUBSET (0..N), S # {}
    PROVE  \E i \in S : \A j \in S : j <= i
<1> DEFINE R == {ss \in Nat \X Nat : ss[1] < ss[2]}
           T == {N - i : i \in S}
<1>1. IsWellFoundedOn(R, Nat)
  BY NatLessThanWellFounded DEF OpToRel
<1>2. T \subseteq Nat
  <2> SUFFICES ASSUME NEW i \in S  PROVE N - i \in Nat
    OBVIOUS
  <2>1. i \in 0..N
    OBVIOUS
  <2> QED
    BY <2>1
<1>3. T # {}
  OBVIOUS
<1> HIDE DEF R, T
<1>4. PICK x \in T : \A y \in T : ~(<<y, x>> \in R)
  BY <1>1, <1>2, <1>3, WFMin
<1>5. PICK i \in S : x = N - i
  BY <1>4 DEF T
<1>6. \A j \in S : ~(N - j < N - i)
  BY <1>2, <1>4, <1>5 DEF R, T
<1> QED
  BY <1>5, <1>6

LEMMA HighestIsLargest ==
    ASSUME NEW S \in SUBSET (0..MaxIndex), S # {}, NEW d
    PROVE  HighestFrom(S, d) \in S /\ \A j \in S : j <= HighestFrom(S, d)
<1>1. \E i \in S : \A j \in S : j <= i
  BY LargestIndex, IndexAssumption
<1> QED
  BY <1>1 DEF HighestFrom

(* The used indexes of a batch, plus one, or what there was before.         *)
LEMMA LastType ==
    ASSUME NEW there \in SUBSET Index, NEW start \in Nat, NEW d \in 0..MaxIndex
    PROVE  HighestFrom({i + 1 : i \in InBatch(start, there)}, d) \in 0..MaxIndex
<1> DEFINE S == {i + 1 : i \in InBatch(start, there)}
<1>1. S \in SUBSET (0..MaxIndex)
  <2> SUFFICES ASSUME NEW i \in InBatch(start, there)  PROVE i + 1 \in 0..MaxIndex
    OBVIOUS
  <2>1. i \in Index
    BY DEF InBatch
  <2> QED
    BY <2>1, IndexAssumption DEF Index
<1> HIDE DEF S
<1>2. CASE S = {}
  BY <1>2 DEF HighestFrom, S
<1>3. CASE S # {}
  BY <1>1, <1>3, HighestIsLargest DEF S
<1> QED
  BY <1>2, <1>3

LEMMA IdleType == Sound(FreshSecrets) /\ Idle \in Run /\ Sound(Idle.mem)
<1>1. FreshSecrets \in Secrets /\ 0 \in Index /\ 1 <= MaxIndex
  BY IndexAssumption DEF FreshSecrets, Secrets, Index
<1>2. Nobody \in Payment /\ 0 \in 0..MaxIndex
  BY <1>1, IndexAssumption DEF Nobody, Payment
<1>3. Sound(FreshSecrets) /\ Idle.mem = FreshSecrets
  BY <1>1 DEF Idle, FreshSecrets, Sound
<1>4. Idle \in Run
  BY <1>1, <1>2 DEF Idle, Run, Places
<1> QED
  BY <1>1, <1>3, <1>4

LEMMA PushType ==
    ASSUME NEW s, Sound(s), NEW i \in Index
    PROVE  /\ Sound(Push(s, i))
           /\ s.next_public <= Push(s, i).next_public
           /\ i < Push(s, i).next_public
           /\ Push(s, i).public_indexes = s.public_indexes \cup {i}
           /\ Push(s, i).smart_indexes = s.smart_indexes
<1> DEFINE next == IF s.next_public <= i THEN i + 1 ELSE s.next_public
<1>1. next \in Nat /\ next <= MaxIndex /\ s.next_public <= next /\ i < next
  BY IndexAssumption DEF Secrets, Index, Sound
<1>2. Push(s, i) = [s EXCEPT !.public_indexes = s.public_indexes \cup {i},
                             !.next_public = next]
  BY DEF Push
<1> HIDE DEF next
<1>3. /\ Push(s, i) \in Secrets /\ Push(s, i).next_public = next
      /\ Push(s, i).public_indexes = s.public_indexes \cup {i}
      /\ Push(s, i).smart_indexes = s.smart_indexes
  BY <1>1, <1>2 DEF Secrets, Sound
<1>4. ASSUME NEW k \in s.public_indexes PROVE k < next
  <2>1. k < s.next_public /\ k \in Nat /\ s.next_public \in Nat
    BY IndexAssumption DEF Sound, Secrets, Index
  <2> QED
    BY <1>1, <2>1
<1>5. \A k \in s.public_indexes \cup {i} : k < next
  BY <1>1, <1>4
<1> QED
  BY <1>1, <1>3, <1>5 DEF Sound

LEMMA RememberType ==
    ASSUME NEW s, Sound(s), NEW j \in Index
    PROVE  /\ Sound(RememberSmart(s, j))
           /\ RememberSmart(s, j).next_public = s.next_public
           /\ RememberSmart(s, j).public_indexes = s.public_indexes
           /\ RememberSmart(s, j).smart_indexes = s.smart_indexes \cup {j}
BY DEF RememberSmart, Secrets, Sound

(* What is recorded, and what was before.                                   *)
LEMMA RecordType ==
    ASSUME NEW hist \in SUBSET Account, NEW a \in Account
    PROVE  /\ Record(hist, a) \in SUBSET Account
           /\ Record(hist, a) \subseteq hist \cup {a}
           /\ imports = 0 => a \in Record(hist, a)
BY DEF Record

-----------------------------------------------------------------------------
(* Each action keeps the invariant.                                         *)

LEMMA InitIInv == ASSUME Init PROVE IInv
<1>1. TypeOK /\ Sound(run.mem)
  BY IdleType, IndexAssumption DEF Init, TypeOK, Sound, FreshSecrets, Index, Idle, Account
<1>2. run.pc = "off" /\ Copied /\ Chosen /\ Backed /\ HandedBelow /\ OwnStored
  BY DEF Init, Idle, Copied, Chosen, Backed, HandedBelow, OwnStored, FreshSecrets
<1> QED
  BY <1>1, <1>2 DEF IInv

(* A command that only changes its own locals.                              *)
LEMMA LocalKeeps ==
    ASSUME IInv, run' \in Run, Sound(run'.mem),
           UNCHANGED <<file, flight, chainVars, sends>>, imports' \in Nat,
           handed' \subseteq handed, own' \subseteq own,
           imports' = 0 => imports = 0,
           imports' = 0 => run'.pc \notin {"public", "smart"} /\ Copied' /\ Chosen' /\ Backed'
    PROVE  IInv'
<1>1. TypeOK'
  BY DEF IInv, TypeOK, chainVars
<1>2. imports' = 0 => HandedBelow' /\ OwnStored'
  BY DEF IInv, HandedBelow, OwnStored, StoredFor
<1> QED
  BY <1>1, <1>2 DEF IInv

LEMMA StopKeeps ==
    ASSUME IInv, run' = Idle, UNCHANGED <<file, flight, chainVars, handed, own, sends, imports>>
    PROVE  IInv'
<1>1. Copied' /\ Chosen' /\ Backed' /\ run'.pc \notin {"public", "smart"}
  BY DEF Idle, Copied, Chosen, Backed
<1>2. imports' \in Nat
  BY DEF IInv, TypeOK
<1> QED
  BY <1>1, <1>2, IdleType, LocalKeeps

(* One more account is handed out, and next_public has moved past it.       *)
LEMMA HandedGrows ==
    ASSUME IInv, HandedBelow, NEW a, handed' \subseteq handed \cup {a},
           file'.next_public \in Nat, file.next_public <= file'.next_public,
           a.kind = "eoa" => a.index < file'.next_public
    PROVE  HandedBelow'
<1> SUFFICES ASSUME NEW k \in handed, k.kind = "eoa"  PROVE k.index < file'.next_public
  BY DEF HandedBelow
<1>1. k.index < file.next_public /\ k.index \in Nat /\ file.next_public \in Nat
  BY DEF IInv, TypeOK, HandedBelow, Account, Index, Secrets
<1> QED
  BY <1>1

(* The next public index is pushed and given out.                           *)
LEMMA NextFreshKeeps == ASSUME IInv, NextFresh PROVE IInv'
<1> DEFINE i == file.next_public
           a == [kind |-> "eoa", index |-> i]
<1>1. Sound(file) /\ i \in Index /\ a \in Account
  BY IndexAssumption DEF IInv, TypeOK, NextFresh, Secrets, Index, Sound, Account
<1>2. file' = Push(file, i) /\ handed' = Record(handed, a) /\ run' = run
      /\ UNCHANGED <<flight, chainVars, own, sends, imports>>
  BY DEF NextFresh
<1>3. run.pc = "off"
  BY DEF NextFresh, At
<1> HIDE DEF i
<1>4. TypeOK' /\ Sound(run'.mem)
  BY <1>1, <1>2, PushType, RecordType DEF IInv, TypeOK, Sound, chainVars, i
<1>5. Copied' /\ Chosen' /\ Backed'
  BY <1>2, <1>3 DEF Copied, Chosen, Backed
<1>6. ASSUME imports = 0  PROVE HandedBelow' /\ OwnStored'
  <2>1. HandedBelow'
    <3>1. /\ file'.next_public \in Nat /\ file.next_public <= file'.next_public
          /\ a.kind = "eoa" => a.index < file'.next_public
      BY <1>1, <1>2, PushType DEF Sound, Secrets, i
    <3>2. handed' \subseteq handed \cup {a} /\ HandedBelow
      BY <1>1, <1>2, <1>6, RecordType DEF IInv, TypeOK
    <3> QED
      BY <3>1, <3>2, HandedGrows
  <2>2. OwnStored'
    BY <1>1, <1>2, <1>6, PushType DEF IInv, OwnStored, StoredFor, i
  <2> QED
    BY <2>1, <2>2
<1> QED
  BY <1>2, <1>3, <1>4, <1>5, <1>6 DEF IInv

(* The next public index is pushed, given out and about to be paid.         *)
LEMMA PickFreshKeeps == ASSUME IInv, PickFresh PROVE IInv'
<1> DEFINE i == file.next_public
           r == [Idle EXCEPT !.mem = Push(file, i), !.pick = [kind |-> "eoa", index |-> i],
                             !.pc = "send", !.fresh = TRUE]
           a == [kind |-> "eoa", index |-> i]
<1>1. Sound(file) /\ i \in Index /\ a \in Account
  BY IndexAssumption DEF IInv, TypeOK, PickFresh, Secrets, Index, Sound, Account
<1>2. file' = Push(file, i) /\ handed' = Record(handed, a) /\ run' = r
      /\ UNCHANGED <<flight, chainVars, own, sends, imports>>
  BY DEF PickFresh
<1>3. /\ r.pc = "send" /\ r.mem = Push(file, i) /\ r.pick = [kind |-> "eoa", index |-> i]
      /\ r \in Run
  <2> HIDE DEF i
  <2>1. Push(file, i) \in Secrets
    BY <1>1, PushType DEF i, Sound
  <2>2. [kind |-> "eoa", index |-> i] \in Payment
    BY <1>1 DEF Payment
  <2>3. Idle \in Run
    BY IdleType
  <2> QED
    BY <2>1, <2>2, <2>3 DEF Run, Places
<1> HIDE DEF i, r
<1>4. TypeOK' /\ Sound(run'.mem)
  BY <1>1, <1>2, <1>3, PushType, RecordType DEF IInv, TypeOK, Sound, chainVars, i
<1>5. Copied' /\ Chosen' /\ Backed'
  BY <1>1, <1>2, <1>3, PushType DEF Copied, Chosen, Backed, StoredFor, i
<1>6. ASSUME imports = 0  PROVE HandedBelow' /\ OwnStored'
  <2>1. HandedBelow'
    <3>1. /\ file'.next_public \in Nat /\ file.next_public <= file'.next_public
          /\ a.kind = "eoa" => a.index < file'.next_public
      BY <1>1, <1>2, PushType DEF Sound, Secrets, i
    <3>2. handed' \subseteq handed \cup {a} /\ HandedBelow
      BY <1>1, <1>2, <1>6, RecordType DEF IInv, TypeOK
    <3> QED
      BY <3>1, <3>2, HandedGrows
  <2>2. OwnStored'
    BY <1>1, <1>2, <1>6, PushType DEF IInv, OwnStored, StoredFor, i
  <2> QED
    BY <2>1, <2>2
<1> QED
  BY <1>2, <1>3, <1>4, <1>5, <1>6 DEF IInv

(* A payment to an account the user names: nothing is stored.               *)
LEMMA PayNamedKeeps ==
    ASSUME IInv, NEW kind \in {"eoa", "smart"}, NEW i \in Index, PayNamed(kind, i)
    PROVE  IInv'
<1>1. /\ run'.pc = "send" /\ run'.mem = file /\ run'.fresh = FALSE /\ run'.pick.kind = kind
      /\ run' \in Run
  BY IdleType DEF PayNamed, IInv, TypeOK, Idle, Run, Places, Payment
<1>2. UNCHANGED <<file, flight, chainVars, handed, own, sends, imports>>
  BY DEF PayNamed
<1>3. Copied' /\ Chosen' /\ Backed'
  BY <1>1, <1>2 DEF Copied, Chosen, Backed
<1>4. Sound(run'.mem) /\ imports' \in Nat
  BY <1>1, <1>2 DEF IInv, TypeOK, Sound
<1> QED
  BY <1>1, <1>2, <1>3, <1>4, LocalKeeps

(* unshield looks an index up and asks.                                     *)
LEMMA ChooseKeeps ==
    ASSUME IInv, UnshieldNext \/ TailNext \/ \E j \in Index : TailNamed(j)
    PROVE  IInv'
<1>1. UNCHANGED <<file, flight, chainVars, handed, own, sends, imports>>
  BY DEF UnshieldNext, TailNext, TailNamed
<1>2. /\ run' \in Run /\ run'.mem = file
      /\ \/ run'.pc = "probe"
         \/ /\ run'.pc = "confirm" /\ run'.pick.kind \in {"eoa", "tail"}
            /\ run'.pick.kind = "eoa" => run'.fresh /\ run'.pick.index = file.next_public
  <2>1. CASE UnshieldNext
    <3>1. file.next_public \in Index
      BY <2>1, IndexAssumption DEF UnshieldNext, IInv, TypeOK, Secrets, Index
    <3> QED
      BY <2>1, <3>1, IdleType DEF UnshieldNext, IInv, TypeOK, Idle, Run, Places, Payment
  <2>2. CASE TailNext
    BY <2>2, IdleType DEF TailNext, IInv, TypeOK, Idle, Run, Places
  <2>3. ASSUME NEW j \in Index, TailNamed(j)  PROVE <1>2
    BY <2>3, IdleType DEF TailNamed, IInv, TypeOK, Idle, Run, Places, Payment
  <2> QED
    BY <2>1, <2>2, <2>3
<1>3. Copied' /\ Chosen' /\ Backed' /\ run'.pc \notin {"public", "smart"}
  BY <1>1, <1>2 DEF Copied, Chosen, Backed
<1>4. Sound(run'.mem) /\ imports' \in Nat
  BY <1>1, <1>2 DEF IInv, TypeOK, Sound
<1> QED
  BY <1>1, <1>2, <1>3, <1>4, LocalKeeps

LEMMA ProbeKeeps == ASSUME IInv, Probe PROVE IInv'
<1>1. UNCHANGED <<file, flight, chainVars, handed, own, sends, imports>>
  BY DEF Probe
<1>2. run.at \in Index /\ run \in Run /\ run.pc = "probe"
  BY IndexAssumption DEF Probe, At, IInv, TypeOK, Run, Index
<1>3. /\ run' \in Run /\ run'.mem = run.mem
      /\ \/ run'.pc = "probe"
         \/ run'.pc = "confirm" /\ run'.pick.kind = "tail"
  <2>1. CASE run.at \in deployed
    <3>1. run' = [run EXCEPT !.at = run.at + 1] /\ run.at + 1 \in Nat
      BY <1>2, <2>1 DEF Probe, Index
    <3> QED
      BY <1>2, <3>1 DEF Run
  <2>2. CASE run.at \notin deployed
    <3> DEFINE q == [kind |-> "tail", index |-> run.at]
    <3>1. run' = [run EXCEPT !.pick = q, !.at = 0, !.fresh = TRUE, !.pc = "confirm"]
      BY <2>2 DEF Probe
    <3>2. q \in Payment /\ q.kind = "tail"
      BY <1>2 DEF Payment
    <3> HIDE DEF q
    <3> QED
      BY <1>2, <3>1, <3>2 DEF Run, Places
  <2> QED
    BY <2>1, <2>2
<1>4. imports = 0 => Copied' /\ Chosen' /\ Backed' /\ run'.pc \notin {"public", "smart"}
  BY <1>1, <1>2, <1>3 DEF IInv, Copied, Chosen, Backed
<1>5. Sound(run'.mem) /\ imports' \in Nat
  BY <1>1, <1>3 DEF IInv, TypeOK
<1> QED
  BY <1>1, <1>3, <1>4, <1>5, LocalKeeps

(* The choice is stored.                                                    *)
LEMMA ConfirmKeeps == ASSUME IInv, Confirm PROVE IInv'
<1> DEFINE i == run.pick.index
           s == IF run.pick.kind = "tail" THEN RememberSmart(run.mem, i) ELSE Push(run.mem, i)
<1>1. /\ run \in Run /\ Sound(run.mem)
      /\ i \in Index /\ run.pc = "confirm" /\ AccountOf(run.pick) \in Account
  BY DEF Confirm, At, IInv, TypeOK, Run, Payment, Account, AccountOf
<1>2. /\ file' = s /\ run' = [run EXCEPT !.mem = s, !.pc = "send"]
      /\ handed' = IF run.fresh THEN Record(handed, AccountOf(run.pick)) ELSE handed
      /\ UNCHANGED <<flight, chainVars, own, sends, imports>>
  BY DEF Confirm
<1>3. /\ Sound(s)
      /\ run.mem.next_public <= s.next_public
      /\ run.mem.public_indexes \subseteq s.public_indexes
      /\ run.mem.smart_indexes \subseteq s.smart_indexes
      /\ run.pick.kind # "tail" => i < s.next_public /\ i \in s.public_indexes
      /\ run.pick.kind = "tail" => i \in s.smart_indexes
  <2>1. CASE run.pick.kind = "tail"
    <3>1. run.mem.next_public <= run.mem.next_public
      BY <1>1 DEF Secrets, Sound
    <3> QED
      BY <1>1, <2>1, <3>1, RememberType
  <2>2. CASE run.pick.kind # "tail"
    BY <1>1, <2>2, PushType
  <2> QED
    BY <2>1, <2>2
<1>4. /\ run' \in Run /\ run'.mem = s /\ run'.pc = "send" /\ run'.pick = run.pick
  BY <1>1, <1>2, <1>3 DEF Run, Places, Sound
<1> HIDE DEF i, s
<1>5. TypeOK' /\ Sound(run'.mem)
  BY <1>1, <1>2, <1>3, <1>4, RecordType DEF IInv, TypeOK, Sound, chainVars
<1>6. ASSUME imports = 0
      PROVE  Copied' /\ Chosen' /\ Backed' /\ HandedBelow' /\ OwnStored'
  <2>1. run.mem = file /\ run.pick.kind \in {"eoa", "tail"}
    BY <1>1, <1>6 DEF IInv, Copied, Chosen
  <2>2. Copied' /\ Chosen' /\ Backed'
    BY <1>2, <1>3, <1>4, <2>1 DEF Copied, Chosen, Backed, StoredFor, i
  <2>3. OwnStored'
    BY <1>2, <1>3, <1>6, <2>1 DEF IInv, OwnStored, StoredFor
  <2>4. HandedBelow'
    BY <1>1, <1>2, <1>3, <1>6, <2>1, RecordType, HandedGrows
       DEF IInv, TypeOK, Sound, Secrets, AccountOf, i
  <2> QED
    BY <2>2, <2>3, <2>4
<1>7. imports' = imports /\ run'.pc \notin {"public", "smart"}
  BY <1>2, <1>4
<1> QED
  BY <1>5, <1>6, <1>7 DEF IInv

LEMMA SendKeeps == ASSUME IInv, Send PROVE IInv'
<1> DEFINE a == AccountOf(run.pick)
           mine == run.fresh \/ run.pick.kind = "tail"
<1>1. /\ run.pc = "send" /\ run' = Idle /\ flight' = flight \cup {run.pick}
      /\ own' = IF mine THEN Record(own, a) ELSE own
      /\ sends' = sends + 1 /\ UNCHANGED <<file, chainVars, handed, imports>>
  BY DEF Send, At, Stop
<1>2. run.pick \in Payment /\ a \in Account
  BY DEF IInv, TypeOK, Run, Payment, Account, AccountOf
<1>3. a.index = run.pick.index /\ (a.kind = "eoa" <=> run.pick.kind = "eoa")
  BY DEF AccountOf
<1> HIDE DEF a
<1>4. TypeOK' /\ Sound(run'.mem)
  BY <1>1, <1>2, IdleType, RecordType DEF IInv, TypeOK, chainVars
<1>5. Copied' /\ Chosen' /\ Backed' /\ run'.pc \notin {"public", "smart"}
  BY <1>1 DEF Idle, Copied, Chosen, Backed
<1>6. ASSUME imports = 0  PROVE HandedBelow' /\ OwnStored'
  <2>1. mine => StoredFor(file, a)
    BY <1>1, <1>3, <1>6 DEF IInv, Backed, StoredFor
  <2> QED
    BY <1>1, <1>6, <2>1 DEF IInv, HandedBelow, OwnStored, StoredFor, Record
<1> QED
  BY <1>1, <1>4, <1>5, <1>6 DEF IInv

-----------------------------------------------------------------------------
(* After an import only the types remain.                                   *)
LEMMA ImportKeeps == ASSUME IInv, Import PROVE IInv'
<1>1. Accounts \subseteq Account
  BY DEF IInv, TypeOK, Accounts, Account
<1>2. run' = [Idle EXCEPT !.pc = "public", !.knew = Accounts]
  BY DEF Import
<1>4. run' \in Run /\ run'.mem = Idle.mem
  BY <1>1, <1>2, IdleType DEF Run, Places
<1>5. imports' \in Nat /\ imports' # 0
  BY DEF Import, IInv, TypeOK
<1>3. Sound(run'.mem)
  BY <1>4, IdleType
<1> QED
  BY <1>3, <1>4, <1>5, LocalKeeps DEF Import

LEMMA ScanKeeps == ASSUME IInv, Scan PROVE IInv'
<1>1. run.pc \in {"public", "smart"} /\ imports # 0 /\ run \in Run
  BY DEF Scan, ScanPublic, ScanSmart, At, IInv, TypeOK
<1>2. CASE ScanPublic
  <2> DEFINE found == InBatch(run.at, used)
             last == HighestFrom({i + 1 : i \in found}, run.last)
  <2>1. last \in 0..MaxIndex /\ run.last \in 0..MaxIndex
    BY <1>1, LastType DEF IInv, TypeOK, Run
  <2> HIDE DEF last
  <2>2. NextBatch(run.at) \in Nat
    BY <1>1, IndexAssumption DEF NextBatch, Run
  <2>3. [next_public |-> last, public_indexes |-> {i \in Index : i < last},
         smart_indexes |-> {}] \in Secrets /\ last <= MaxIndex /\ 0 \in 0..MaxIndex
    BY <2>1, IndexAssumption DEF Secrets
  <2>4. run' \in Run /\ Sound(run'.mem)
    BY <1>1, <1>2, <2>1, <2>2, <2>3 DEF ScanPublic, last, Run, Places, IInv, Sound
  <2> QED
    BY <1>1, <1>2, <2>4, LocalKeeps DEF ScanPublic, IInv, TypeOK
<1>3. CASE ScanSmart
  <2> DEFINE found == InBatch(run.at, deployed \cup funded)
             last == HighestFrom({i + 1 : i \in found}, run.last)
             s == [run.mem EXCEPT !.smart_indexes = {j \in Index : j < last}]
  <2>1. last \in 0..MaxIndex
    BY <1>1, LastType DEF IInv, TypeOK, Run
  <2> HIDE DEF last
  <2>2. NextBatch(run.at) \in Nat
    BY <1>1, IndexAssumption DEF NextBatch, Run
  <2>3. Sound(s)
    BY <1>1 DEF Run, Secrets, IInv, Sound
  <2> HIDE DEF s
  <2>4. /\ run' \in Run /\ Sound(run'.mem)
        /\ Sound(file')
    <3>1. CASE found # {}
      BY <1>1, <1>3, <2>1, <2>2, <3>1 DEF ScanSmart, last, Run, IInv, TypeOK, Sound
    <3>2. CASE found = {}
      BY <1>3, <2>3, <3>2, IdleType DEF ScanSmart, last, s, Stop
    <3> QED
      BY <3>1, <3>2
  <2>5. UNCHANGED <<flight, chainVars, handed, own, sends, imports>>
    BY <1>3 DEF ScanSmart
  <2>6. TypeOK'
    BY <2>4, <2>5 DEF IInv, TypeOK, Sound, chainVars
  <2> QED
    BY <1>1, <2>4, <2>5, <2>6 DEF IInv
<1> QED
  BY <1>2, <1>3 DEF Scan

(* Payments land or vanish, and others pay.                                 *)
LEMMA ChainKeeps ==
    ASSUME IInv,
           \/ \E t \in flight : Land(t) \/ Drop(t)
           \/ \E i \in Index : Receive(i)
    PROVE  IInv'
<1>1. UNCHANGED <<file, run, handed, own, sends, imports>>
  BY DEF Land, Drop, Receive
<1>2. /\ flight' \subseteq Payment
      /\ used' \subseteq Index /\ funded' \subseteq Index /\ deployed' \subseteq Index
  <2>1. ASSUME NEW t \in flight, Land(t)  PROVE <1>2
    BY <2>1 DEF Land, IInv, TypeOK, Payment
  <2>2. ASSUME NEW t \in flight, Drop(t)  PROVE <1>2
    BY <2>2 DEF Drop, chainVars, IInv, TypeOK
  <2>3. ASSUME NEW i \in Index, Receive(i)  PROVE <1>2
    BY <2>3 DEF Receive, IInv, TypeOK
  <2> QED
    BY <2>1, <2>2, <2>3
<1>3. TypeOK'
  BY <1>1, <1>2 DEF IInv, TypeOK
<1> QED
  BY <1>1, <1>3 DEF IInv, Copied, Chosen, Backed, HandedBelow, OwnStored, StoredFor

LEMMA NextKeeps == ASSUME IInv, [Next]_vars PROVE IInv'
<1>1. CASE NextFresh
  BY <1>1, NextFreshKeeps
<1>2. CASE Pick
  BY <1>2, PickFreshKeeps, ChooseKeeps, ProbeKeeps, PayNamedKeeps DEF Pick
<1>3. CASE Confirm \/ Send \/ Import \/ Scan
  BY <1>3, ConfirmKeeps, SendKeeps, ImportKeeps, ScanKeeps
<1>4. CASE Fail
  BY <1>4, StopKeeps DEF Fail, Stop
<1>5. CASE \/ \E t \in flight : Land(t) \/ Drop(t)
           \/ \E i \in Index : Receive(i)
  BY <1>5, ChainKeeps
<1>6. CASE UNCHANGED vars
  <2>1. UNCHANGED <<file, run, flight, used, funded, deployed, handed, own, sends, imports>>
    BY <1>6 DEF vars
  <2>2. TypeOK'
    BY <2>1 DEF IInv, TypeOK
  <2> QED
    BY <2>1, <2>2 DEF IInv, Copied, Chosen, Backed, HandedBelow, OwnStored, StoredFor
<1> QED
  BY <1>1, <1>2, <1>3, <1>4, <1>5, <1>6 DEF Next

(* The strengthened invariant.                                              *)
THEOREM Inductive == Spec => []IInv
<1> QED
  BY InitIInv, NextKeeps, PTL DEF Spec

-----------------------------------------------------------------------------
(* The loop of load_smart gets to every stored index (accounts.rs:226).     *)
LEMMA LoadedHasStored ==
    ASSUME NEW seen \in SUBSET Index, NEW dep
    PROVE  seen \subseteq Loaded(seen, dep)
<1> SUFFICES ASSUME NEW j \in seen, NEW i \in 0..j, i \notin seen
             PROVE  ~Stops(seen, dep, i)
  BY DEF Loaded, Stops
<1>1. seen \in SUBSET (0..MaxIndex) /\ j \in Nat
  BY IndexAssumption DEF Index
<1>2. HighestFrom(seen, 0) \in Nat /\ j <= HighestFrom(seen, 0)
  <2>1. seen # {}
    OBVIOUS
  <2>2. HighestFrom(seen, 0) \in seen /\ \A k \in seen : k <= HighestFrom(seen, 0)
    BY <1>1, <2>1, HighestIsLargest
  <2>3. seen \subseteq Nat
    BY IndexAssumption DEF Index
  <2> QED
    BY <2>2, <2>3
<1>3. i < HighestFrom(seen, 0)
  BY <1>1, <1>2
<1> QED
  BY <1>2, <1>3, IndexAssumption DEF Stops

(* Every variable keeps its shape, and an account that a command chose      *)
(* itself or deployed is shown by balances, whatever failed (flow.rs:624,   *)
(* accounts.rs:276).                                                        *)
THEOREM OwnAccountsAreListed == Spec => [](TypeOK /\ OwnIsListed)
<1>1. IInv => TypeOK /\ OwnIsListed
  <2> SUFFICES ASSUME IInv, imports = 0, NEW a \in own
               PROVE  a \in Listed(file, deployed)
    BY DEF IInv, OwnIsListed
  <2>1. /\ StoredFor(file, a) /\ a \in Account
        /\ file.smart_indexes \subseteq Loaded(file.smart_indexes, deployed)
    BY LoadedHasStored DEF IInv, OwnStored, TypeOK, Secrets
  <2>2. a = [kind |-> a.kind, index |-> a.index] /\ a.kind \in {"eoa", "smart"}
    BY <2>1 DEF Account
  <2> QED
    BY <2>1, <2>2 DEF StoredFor, Listed
<1> QED
  BY <1>1, Inductive, PTL

(* An index that is handed out as fresh was not handed out before, also     *)
(* when commands failed between choosing it and storing it (next_fresh,     *)
(* pick_to, unshield --next).                                               *)
THEOREM FreshIndexesAreNew == Spec => FreshOnce
<1>1. ASSUME IInv, HandsOut, imports = 0  PROVE handed' # handed
  <2> DEFINE a == [kind |-> "eoa", index |-> file.next_public]
  <2>1. a \notin handed
    BY <1>1 DEF IInv, HandedBelow, TypeOK, Secrets
  <2>2. a \in handed'
    BY <1>1 DEF HandsOut, NextFresh, PickFresh, Confirm, At, IInv, Chosen, Record, AccountOf
  <2> QED
    BY <2>1, <2>2
<1>2. IInv => [HandsOut /\ imports = 0 => handed' # handed]_vars
  BY <1>1
<1> QED
  BY <1>2, Inductive, PTL DEF FreshOnce

-----------------------------------------------------------------------------
(* What an import knows while it scans: it stands at the start of a batch,  *)
(* and has found what it knew to be used below that; the public indexes are *)
(* done when the smart ones are scanned.                                    *)
ScanKind == IF run.pc = "public" THEN "eoa" ELSE "smart"

PublicDone ==
    /\ \A a \in run.knew : a.kind = "eoa" /\ Reachable(run.knew, a) =>
          a.index < run.mem.next_public /\ a.index \in run.mem.public_indexes
    /\ \A i \in run.mem.public_indexes : \E u \in used : i <= u

ScanInv ==
    run.pc \in {"public", "smart"} =>
        /\ run.knew \subseteq Accounts
        /\ \E m \in Nat : run.at = m * Batch
        /\ run.last <= run.at
        /\ \A a \in run.knew : a.kind = ScanKind /\ a.index < run.at => a.index < run.last
        /\ run.pc = "public" => \A i \in Index : i < run.last => \E u \in used : i <= u
        /\ run.pc = "smart" => PublicDone

(* A batch without a used index ends the scan: what is behind it cannot be  *)
(* reached, and what was used in it was not used when the import began.     *)
LEMMA EmptyBatch ==
    ASSUME NEW knew \in SUBSET Account, NEW there \in SUBSET Index,
           NEW m \in Nat, NEW at, at = m * Batch, InBatch(at, there) = {},
           NEW a \in knew, Reachable(knew, a),
           \A x \in knew : x.kind = a.kind => x.index \in there
    PROVE  a.index < at
<1>1. /\ a.index \in Nat /\ a.index < MaxIndex /\ a.index \in there /\ at \in Nat
      /\ Batch \in Nat \ {0} /\ MaxIndex \in Nat \ {0}
  BY IndexAssumption DEF Account, Index
<1> SUFFICES ASSUME a.index >= at PROVE FALSE
  BY <1>1
<1>2. ~(a.index < at + Batch)
  BY <1>1 DEF InBatch, BatchFrom
<1>3. m \in Index
  <2>1. m * Batch >= m
    <3>1. PICK e \in Nat : Batch = e + 1
      <4>1. Batch - 1 \in Nat /\ Batch = (Batch - 1) + 1
        BY <1>1
      <4> QED
        BY <4>1
    <3>2. m * (e + 1) = m * e + m /\ m * e \in Nat
      OBVIOUS
    <3> QED
      BY <3>1, <3>2
  <2> QED
    BY <1>1, <2>1 DEF Index
<1>4. at \in {b * Batch : b \in Index} /\ at + Batch <= a.index
  BY <1>1, <1>2, <1>3
<1>5. PICK x \in knew : x.kind = a.kind /\ x.index \in BatchFrom(at)
  BY <1>4 DEF Reachable
<1> QED
  BY <1>5 DEF InBatch

(* Where the last used index is after a batch.                              *)
LastAfter(at, there, d) == HighestFrom({i + 1 : i \in InBatch(at, there)}, d)

(* A batch with used indexes moves the last one.                            *)
LEMMA FullBatch ==
    ASSUME NEW there \in SUBSET Index, NEW at \in Nat, InBatch(at, there) # {},
           NEW d, NEW last, last = LastAfter(at, there, d)
    PROVE  /\ last \in Nat /\ at < last /\ last <= at + Batch
           /\ \E u \in there : last = u + 1
           /\ \A i \in there : i < at + Batch /\ i >= at => i < last
<1> DEFINE S == {i + 1 : i \in InBatch(at, there)}
<1>1. MaxIndex \in Nat \ {0} /\ Batch \in Nat \ {0} /\ Index \subseteq Nat
  BY IndexAssumption DEF Index
<1>2. S \in SUBSET (0..MaxIndex) /\ S # {}
  <2>1. \A i \in InBatch(at, there) : i \in Index
    BY DEF InBatch
  <2> QED
    BY <1>1, <2>1 DEF Index
<1>3. last \in S /\ \A j \in S : j <= last
  <2> HIDE DEF S
  <2> QED
    BY <1>2, HighestIsLargest DEF S, LastAfter
<1>4. PICK u \in InBatch(at, there) : last = u + 1
  BY <1>3
<1>5. u \in there /\ u \in Nat /\ u >= at /\ u < at + Batch
  BY <1>1 DEF InBatch, BatchFrom
<1>6. ASSUME NEW i \in there, i < at + Batch, i >= at PROVE i < last
  <2>1. i \in Nat /\ i \in InBatch(at, there)
    BY <1>1, <1>6 DEF InBatch, BatchFrom
  <2>2. i + 1 \in S
    BY <2>1
  <2>3. i + 1 <= last
    BY <1>3, <2>2
  <2> QED
    BY <1>4, <1>5, <2>1, <2>3
<1>7. last \in Nat /\ at < last /\ last <= at + Batch
  <2> HIDE DEF S
  <2> QED
    BY <1>1, <1>4, <1>5
<1>8. \E x \in there : last = x + 1
  BY <1>4, <1>5
<1> QED
  BY <1>6, <1>7, <1>8

(* What was used stays used.                                                *)
LEMMA ScanStays ==
    ASSUME ScanInv, UNCHANGED run, used \subseteq used', funded \subseteq funded',
           deployed \subseteq deployed'
    PROVE  ScanInv'
<1>1. Accounts \subseteq Accounts'
  BY DEF Accounts
<1> QED
  BY <1>1 DEF ScanInv, ScanKind, PublicDone

LEMMA KnewIsUsed ==
    ASSUME ScanInv, run.pc \in {"public", "smart"}
    PROVE  /\ \A x \in run.knew : x.kind = "eoa" => x.index \in used
           /\ \A x \in run.knew : x.kind = "smart" => x.index \in deployed \cup funded
BY DEF ScanInv, Accounts

LEMMA ImportScans == ASSUME IInv, Import PROVE ScanInv'
<1>1. /\ run' = [Idle EXCEPT !.pc = "public", !.knew = Accounts]
      /\ UNCHANGED <<used, funded, deployed>>
  BY DEF Import, chainVars
<1>2. /\ run'.pc = "public" /\ run'.knew = Accounts' /\ run'.at = 0 /\ run'.last = 0
  BY <1>1 DEF Idle, Accounts
<1>3. 0 = 0 * Batch /\ \A i \in Nat : ~(i < 0)
  BY IndexAssumption
<1>4. \A a \in Accounts' : a.index \in Nat
  BY <1>1, IndexAssumption DEF Accounts, IInv, TypeOK, Index
<1>5. \A i \in Index : ~(i < 0)
  BY IndexAssumption DEF Index
<1> QED
  BY <1>2, <1>3, <1>4, <1>5 DEF ScanInv

LEMMA ScanPublicScans == ASSUME IInv, ScanInv, ScanPublic PROVE ScanInv'
<1> DEFINE found == InBatch(run.at, used)
           last == HighestFrom({i + 1 : i \in found}, run.last)
           mem == [next_public |-> last, public_indexes |-> {i \in Index : i < last},
                   smart_indexes |-> {}]
<1>1. /\ run.pc = "public" /\ UNCHANGED <<used, funded, deployed>>
      /\ run' = IF found # {}
                THEN [run EXCEPT !.last = last, !.at = NextBatch(@)]
                ELSE [run EXCEPT !.last = 0, !.at = 0, !.pc = "smart", !.mem = mem]
  BY DEF ScanPublic, At, chainVars
<1>2. /\ run \in Run /\ run.at \in Nat /\ run.last \in Nat /\ used \in SUBSET Index
      /\ run.knew \in SUBSET Account /\ Index \subseteq Nat /\ Batch \in Nat
  BY IndexAssumption DEF IInv, TypeOK, Run, Index
<1>3. /\ run.knew \subseteq Accounts /\ run.last <= run.at
      /\ \A a \in run.knew : a.kind = "eoa" /\ a.index < run.at => a.index < run.last
      /\ \A i \in Index : i < run.last => \E u \in used : i <= u
      /\ \A x \in run.knew : x.kind = "eoa" => x.index \in used
  BY <1>1, KnewIsUsed DEF ScanInv, ScanKind
<1>4. PICK m \in Nat : run.at = m * Batch
  BY <1>1 DEF ScanInv
<1>5. Accounts' = Accounts
  BY <1>1 DEF Accounts
<1>6. CASE found # {}
  <2> DEFINE at == run.at + Batch
  <2>1. /\ last \in Nat /\ run.at < last /\ last <= at
        /\ \E u \in used : last = u + 1
        /\ \A i \in used : i < at /\ i >= run.at => i < last
    <3> DEFINE there == used
    <3>1. last = LastAfter(run.at, there, run.last)
      BY Zenon DEF LastAfter
    <3>2. InBatch(run.at, there) # {} /\ there \in SUBSET Index /\ run.at \in Nat
      BY <1>2, <1>6
    <3>3. /\ last \in Nat /\ run.at < last /\ last <= run.at + Batch
          /\ \E u \in there : last = u + 1
          /\ \A i \in there : i < run.at + Batch /\ i >= run.at => i < last
      <4> HIDE DEF last, at, found, there
      <4> QED
        BY <3>1, <3>2, FullBatch
    <3> QED
      BY <3>3
  <2> HIDE DEF last
  <2>2. /\ run'.pc = "public" /\ run'.knew = run.knew
        /\ run'.at = at /\ run'.last = last
    BY <1>1, <1>2, <1>6 DEF Run, NextBatch
  <2>3. \E k \in Nat : at = k * Batch
    <3>1. (m + 1) * Batch = m * Batch + Batch /\ m + 1 \in Nat
      BY <1>2
    <3> QED
      BY <1>4, <3>1
  <2>4. ASSUME NEW a \in run.knew, a.kind = "eoa", a.index < at PROVE a.index < last
    <3>1. a.index \in used /\ a.index \in Nat
      BY <1>2, <1>3, <2>4
    <3>2. CASE a.index < run.at
      BY <1>2, <1>3, <2>1, <2>4, <3>1, <3>2
    <3>3. CASE a.index >= run.at
      BY <2>1, <2>4, <3>1, <3>3
    <3> QED
      BY <1>2, <3>1, <3>2, <3>3
  <2>5. ASSUME NEW i \in Index, i < last PROVE \E u \in used : i <= u
    <3>1. PICK u \in used : last = u + 1
      BY <2>1
    <3>2. i \in Nat /\ u \in Nat
      BY <1>2
    <3>3. i <= u
      BY <2>5, <3>1, <3>2
    <3> QED
      BY <3>3
  <2> HIDE DEF at
  <2> QED
    BY <1>1, <1>3, <1>5, <2>1, <2>2, <2>3, <2>4, <2>5 DEF ScanInv, ScanKind
<1>7. CASE found = {}
  <2>1. last = run.last
    BY <1>7 DEF HighestFrom
  <2> HIDE DEF last
  <2>2. /\ run'.pc = "smart" /\ run'.knew = run.knew
        /\ run'.at = 0 /\ run'.last = 0 /\ run'.mem = mem
    BY <1>1, <1>2, <1>7 DEF Run
  <2>3. ASSUME NEW a \in run.knew, a.kind = "eoa", Reachable(run.knew, a)
        PROVE  a.index < last /\ a.index \in {i \in Index : i < last}
    <3>1. a.index < run.at
      <4>1. \A x \in run.knew : x.kind = a.kind => x.index \in used
        BY <1>3, <2>3
      <4> QED
        BY <1>2, <1>4, <1>7, <2>3, <4>1, EmptyBatch
    <3>2. a.index < last /\ a.index \in Index
      BY <1>2, <1>3, <2>1, <2>3, <3>1
    <3> QED
      BY <3>2
  <2>4. \A i \in {j \in Index : j < last} : \E u \in used : i <= u
    BY <1>3, <2>1
  <2>5. PublicDone'
    BY <1>1, <2>2, <2>3, <2>4 DEF PublicDone
  <2>6. 0 = 0 * Batch
    BY <1>2
  <2>7. ASSUME NEW a \in run.knew PROVE ~(a.index < 0)
    <3>1. a.index \in Nat
      BY <1>2 DEF Account
    <3> QED
      BY <3>1
  <2> QED
    BY <1>3, <1>5, <2>2, <2>5, <2>6, <2>7 DEF ScanInv
<1> QED
  BY <1>6, <1>7

LEMMA ScanSmartScans ==
    ASSUME IInv, ScanInv, ScanSmart
    PROVE  /\ ScanInv'
           /\ run' = Idle =>
                /\ \A a \in run.knew : Reachable(run.knew, a) =>
                     a \in Listed(file', {}) /\ (a.kind = "eoa" => a.index < file'.next_public)
                /\ \A i \in file'.public_indexes : \E u \in used : i <= u
<1> DEFINE there == deployed \cup funded
           found == InBatch(run.at, there)
           last == HighestFrom({i + 1 : i \in found}, run.last)
<1>1. /\ run.pc = "smart" /\ UNCHANGED <<used, funded, deployed>>
      /\ IF found # {}
         THEN run' = [run EXCEPT !.last = last, !.at = NextBatch(@)]
         ELSE /\ file' = [run.mem EXCEPT !.smart_indexes = {j \in Index : j < last}]
              /\ run' = Idle
  BY DEF ScanSmart, At, chainVars, Stop
<1>2. /\ run \in Run /\ run.at \in Nat /\ run.last \in Nat /\ there \in SUBSET Index
      /\ run.knew \in SUBSET Account /\ Index \subseteq Nat /\ Batch \in Nat
      /\ run.mem \in Secrets
  BY IndexAssumption DEF IInv, TypeOK, Run, Index
<1>3. /\ run.knew \subseteq Accounts /\ run.last <= run.at
      /\ \A a \in run.knew : a.kind = "smart" /\ a.index < run.at => a.index < run.last
      /\ PublicDone
      /\ \A x \in run.knew : x.kind = "smart" => x.index \in there
  BY <1>1, KnewIsUsed DEF ScanInv, ScanKind
<1>4. PICK m \in Nat : run.at = m * Batch
  BY <1>1 DEF ScanInv
<1>5. Accounts' = Accounts
  BY <1>1 DEF Accounts
<1> HIDE DEF there
<1>6. CASE found # {}
  <2> DEFINE at == run.at + Batch
  <2>1. /\ last \in Nat /\ run.at < last /\ last <= at
        /\ \A i \in there : i < at /\ i >= run.at => i < last
    <3>1. last = LastAfter(run.at, there, run.last)
      BY Zenon DEF LastAfter
    <3>2. InBatch(run.at, there) # {} /\ there \in SUBSET Index /\ run.at \in Nat
      BY <1>2, <1>6
    <3>3. /\ last \in Nat /\ run.at < last /\ last <= run.at + Batch
          /\ \A i \in there : i < run.at + Batch /\ i >= run.at => i < last
      <4> HIDE DEF last, at, found
      <4> QED
        BY <3>1, <3>2, FullBatch
    <3> QED
      BY <3>3
  <2> HIDE DEF last
  <2>2. /\ run'.pc = "smart" /\ run'.knew = run.knew /\ run'.mem = run.mem
        /\ run'.at = at /\ run'.last = last
    BY <1>1, <1>2, <1>6 DEF Run, NextBatch
  <2>3. \E k \in Nat : at = k * Batch
    <3>1. (m + 1) * Batch = m * Batch + Batch /\ m + 1 \in Nat
      BY <1>2
    <3> QED
      BY <1>4, <3>1
  <2>4. ASSUME NEW a \in run.knew, a.kind = "smart", a.index < at PROVE a.index < last
    <3>1. a.index \in there /\ a.index \in Nat
      BY <1>2, <1>3, <2>4
    <3>2. CASE a.index < run.at
      BY <1>2, <1>3, <2>1, <2>4, <3>1, <3>2
    <3>3. CASE a.index >= run.at
      BY <2>1, <2>4, <3>1, <3>3
    <3> QED
      BY <1>2, <3>1, <3>2, <3>3
  <2>5. PublicDone' /\ run' # Idle
    BY <1>1, <1>3, <2>2 DEF PublicDone, Idle
  <2> HIDE DEF at
  <2> QED
    BY <1>3, <1>5, <2>1, <2>2, <2>3, <2>4, <2>5 DEF ScanInv, ScanKind
<1>7. CASE found = {}
  <2>1. last = run.last
    BY <1>7 DEF HighestFrom
  <2> DEFINE S == {j \in Index : j < run.last}
  <2>2. /\ run' = Idle /\ file'.next_public = run.mem.next_public
        /\ file'.public_indexes = run.mem.public_indexes /\ file'.smart_indexes = S
    BY <1>1, <1>2, <1>7, <2>1 DEF Secrets
  <2>3. S \subseteq Loaded(S, {})
    BY LoadedHasStored
  <2>4. ASSUME NEW a \in run.knew, a.kind = "smart", Reachable(run.knew, a)
        PROVE  a.index \in S
    <3>1. a.index < run.at
      <4>1. \A x \in run.knew : x.kind = a.kind => x.index \in there
        BY <1>3, <2>4
      <4> QED
        BY <1>2, <1>4, <1>7, <2>4, <4>1, EmptyBatch
    <3> QED
      BY <1>2, <1>3, <2>4, <3>1
  <2> HIDE DEF S
  <2>5. ASSUME NEW a \in run.knew, Reachable(run.knew, a)
        PROVE  a \in Listed(file', {}) /\ (a.kind = "eoa" => a.index < file'.next_public)
    <3>1. a = [kind |-> a.kind, index |-> a.index] /\ a.kind \in {"eoa", "smart"}
      BY <1>2 DEF Account
    <3>2. CASE a.kind = "eoa"
      BY <1>3, <2>2, <2>5, <3>1, <3>2 DEF PublicDone, Listed
    <3>3. CASE a.kind = "smart"
      BY <2>2, <2>3, <2>4, <2>5, <3>1, <3>3 DEF Listed
    <3> QED
      BY <3>1, <3>2, <3>3
  <2>6. \A i \in file'.public_indexes : \E u \in used : i <= u
    BY <1>3, <2>2 DEF PublicDone
  <2>7. ScanInv'
    BY <2>2 DEF ScanInv, Idle
  <2> QED
    BY <2>5, <2>6, <2>7
<1> QED
  BY <1>6, <1>7

LEMMA NextScans == ASSUME IInv, ScanInv, [Next]_vars PROVE ScanInv'
<1>1. CASE NextFresh \/ UNCHANGED vars
  BY <1>1, ScanStays DEF NextFresh, vars, chainVars
<1>2. CASE Pick \/ Confirm \/ Send \/ Fail
  <2>1. run'.pc \notin {"public", "smart"}
    <3>1. run \in Run
      BY DEF IInv, TypeOK
    <3>2. CASE PickFresh \/ UnshieldNext \/ TailNext
      BY <3>2 DEF PickFresh, UnshieldNext, TailNext, Idle
    <3>3. CASE Probe \/ Confirm
      BY <3>1, <3>3 DEF Probe, Confirm, At, Run
    <3>4. CASE Send \/ Fail
      BY <3>4 DEF Send, Fail, Stop, Idle
    <3>5. CASE \E i \in Index : TailNamed(i) \/ PayNamed("eoa", i) \/ PayNamed("smart", i)
      BY <3>5 DEF TailNamed, PayNamed, Idle
    <3> QED
      BY <1>2, <3>2, <3>3, <3>4, <3>5 DEF Pick
  <2> QED
    BY <2>1 DEF ScanInv
<1>3. CASE Import
  BY <1>3, ImportScans
<1>4. CASE Scan
  BY <1>4, ScanPublicScans, ScanSmartScans DEF Scan
<1>5. CASE (\E t \in flight : Land(t) \/ Drop(t)) \/ \E i \in Index : Receive(i)
  <2>1. UNCHANGED run /\ used \subseteq used' /\ funded \subseteq funded'
        /\ deployed \subseteq deployed'
    BY <1>5 DEF Land, Drop, Receive, chainVars
  <2> QED
    BY <2>1, ScanStays
<1> QED
  BY <1>1, <1>2, <1>3, <1>4, <1>5 DEF Next

(* An import finds every account that was used when it began and that no    *)
(* wholly unused batch comes before, whatever lands while it scans, gives   *)
(* none of their public indexes out again, and stores nothing past the last *)
(* used one (accounts.rs:439, scan_imported).                               *)
THEOREM ImportsFindUsed == Spec => ImportFindsUsed
<1>1. Init => ScanInv
  BY DEF Init, Idle, ScanInv
<1>2. IInv /\ ScanInv /\ [Next]_vars => ScanInv'
  BY NextScans
<1>3. IInv /\ ScanInv =>
        [ScanSmart /\ run' = Idle =>
          /\ \A a \in run.knew : Reachable(run.knew, a) =>
                 a \in Listed(file', {}) /\ (a.kind = "eoa" => a.index < file'.next_public)
          /\ \A i \in file'.public_indexes : \E u \in used : i <= u]_vars
  BY ScanSmartScans
<1> QED
  BY <1>1, <1>2, <1>3, Inductive, PTL DEF Spec, ImportFindsUsed
=============================================================================
