-------------------------- MODULE WalletFileProofs --------------------------
(***************************************************************************)
(* save is atomic and durable, for every number of processes, mnemonics,   *)
(* inodes and saves, as long as commands do not overlap: IInv is inductive,*)
(* the properties of WalletFile follow from it, and the system calls       *)
(* implement the cell of WalletStore.                                      *)
(***************************************************************************)
EXTENDS WalletFile, TLAPS

(* One command at a time: the assumption of every theorem here.             *)
Alone == Overlap = FALSE

(* While a command runs, every other process is off and holds no file.      *)
LEMMA OthersOff ==
    ASSUME IInv, NEW p \in Procs, Busy(p), NEW q \in Procs, q # p
    PROVE  run[q].pc = "off" /\ run[q].fd = NoFile
<1>1. Off(q)
  BY DEF IInv, Solo, Busy
<1> QED
  BY <1>1 DEF IInv, Off, Holding

(* When a command may start, everybody is off and holds no file.            *)
LEMMA AllOff ==
    ASSUME IInv, Alone, MayStart, NEW q \in Procs
    PROVE  run[q].pc = "off" /\ run[q].fd = NoFile
BY DEF IInv, Alone, MayStart, Off, Holding

(* What wallet.json says is a whole wallet or there is none, and a loss of  *)
(* power could leave exactly that.                                          *)
LEMMA ContentWhole ==
    ASSUME IInv
    PROVE  /\ Content(names) \in Secrets \cup {NoWallet}
           /\ \A d \in entries : Content(d) \in Secrets \cup {NoWallet}
           /\ names.wallet = NoFile <=> Content(names) = NoWallet
BY FileAssumption DEF IInv, Whole, Apart, Content, Bytes

(* A command that is off is well formed.                                    *)
LEMMA IdleIsInvocation == Idle \in Invocation
BY DEF Idle, Invocation, Places

-----------------------------------------------------------------------------
(* The inductive invariant, one lemma per system call.                      *)

LEMMA InitIInv == ASSUME Init PROVE IInv
<1> USE DEF Init
<1>1. TypeOK
  BY IdleIsInvocation DEF TypeOK, Dir, Bytes
<1>2. Solo
  BY DEF Solo, Busy, Off, Idle
<1>3. Whole /\ Apart
  BY FileAssumption DEF Whole, Apart
<1>4. \A p \in Procs : Holding(p) /\ Heir(p)
  BY DEF Holding, Heir, Idle
<1>5. SavedSurvives
  BY DEF SavedSurvives
<1> QED
  BY <1>1, <1>2, <1>3, <1>4, <1>5 DEF IInv

(* Create and Load only set the caller's locals, to secrets that continue   *)
(* what the file says.                                                      *)
LEMMA StartIInv ==
    ASSUME IInv, Alone, NEW p \in Procs, NEW s \in Secrets, MayStart,
           run' = [run EXCEPT ![p] = [Idle EXCEPT !.pc = "ready", !.mem = s]],
           Continues(Content(names), s),
           UNCHANGED <<names, entries, bytes, platter, safe>>
    PROVE  IInv'
<1> DEFINE r == [Idle EXCEPT !.pc = "ready", !.mem = s]
<1>1. r \in Invocation /\ r.pc = "ready" /\ r.mem = s /\ r.fd = NoFile
  BY DEF Idle, Invocation, Places
<1>2. \A q \in Procs : run'[q] = IF q = p THEN r ELSE run[q]
  BY DEF IInv, TypeOK
<1> HIDE DEF r
<1>3. TypeOK'
  <2>1. run' \in [Procs -> Invocation]
    BY <1>1, <1>2 DEF IInv, TypeOK, r
  <2> QED
    BY <2>1 DEF IInv, TypeOK
<1>4. Solo'
  <2>1. \A q \in Procs : q # p => run'[q].pc = "off"
    BY <1>2, AllOff
  <2> QED
    BY <2>1 DEF Solo, Busy, Off
<1>5. Whole' /\ Apart' /\ SavedSurvives'
  BY DEF IInv, Whole, Apart, SavedSurvives
<1>6. ASSUME NEW q \in Procs PROVE (Holding(q) /\ Heir(q))'
  <2>1. CASE q = p
    BY <1>1, <1>2, <2>1 DEF Holding, Heir, Content
  <2>2. CASE q # p
    <3>1. run'[q] = run[q] /\ run[q].pc = "off" /\ run[q].fd = NoFile
      BY <1>2, <2>2, AllOff
    <3> QED
      BY <3>1 DEF Holding, Heir
  <2> QED
    BY <2>1, <2>2
<1> QED
  BY <1>3, <1>4, <1>5, <1>6 DEF IInv

LEMMA CreateIInv ==
    ASSUME IInv, Alone, NEW p \in Procs, NEW seed \in Seeds, Create(p, seed)
    PROVE  IInv'
<1>1. [seed |-> seed, rev |-> 0] \in Secrets
  BY FileAssumption DEF Secrets
<1>2. Continues(Content(names), [seed |-> seed, rev |-> 0])
  BY DEF Create, Content, Continues
<1> QED
  BY <1>1, <1>2, StartIInv DEF Create

LEMMA LoadIInv ==
    ASSUME IInv, Alone, NEW p \in Procs, Load(p)
    PROVE  IInv'
<1> DEFINE s == [Content(names) EXCEPT !.rev = @ + 1]
<1>1. s \in Secrets /\ Continues(Content(names), s)
  BY FileAssumption DEF Load, Secrets, Continues
<1> HIDE DEF s
<1> QED
  BY <1>1, StartIInv DEF Load, s

(* The temporary file is no wallet of any directory that can come back.     *)
LEMMA OpenTmpIInv ==
    ASSUME IInv, NEW p \in Procs, OpenTmp(p)
    PROVE  IInv'
<1>1. PICK f \in Files :
          /\ IF names.tmp = NoFile THEN Free(f) ELSE f = names.tmp
          /\ names' = [names EXCEPT !.tmp = f]
          /\ entries' = entries \cup {names'}
          /\ bytes' = [bytes EXCEPT ![f] = Empty]
          /\ platter' = [platter EXCEPT
                ![f] = IF names.tmp = NoFile THEN {Empty} ELSE @ \cup {Empty}]
          /\ run' = [q \in Procs |->
                IF q = p THEN [run[p] EXCEPT !.pc = "write", !.fd = f,
                                             !.clean = Holders(f) = {}]
                ELSE IF q \in Holders(f) THEN [run[q] EXCEPT !.clean = FALSE]
                ELSE run[q]]
          /\ UNCHANGED safe
  BY DEF OpenTmp
<1>2. run[p].pc = "ready" /\ run[p].fd = NoFile /\ run[p].mem \in Secrets /\ Busy(p)
  BY DEF OpenTmp, At, IInv, Holding, Busy, Off
<1>3. Holders(f) = {}
  BY <1>2, OthersOff, FileAssumption DEF Holders
<1> DEFINE r == [run[p] EXCEPT !.pc = "write", !.fd = f, !.clean = TRUE]
<1>4. \A q \in Procs : run'[q] = IF q = p THEN r ELSE run[q]
  BY <1>1, <1>3
<1>5. r \in Invocation /\ r.pc = "write" /\ r.fd = f /\ r.clean /\ r.mem = run[p].mem
  BY DEF IInv, TypeOK, Invocation, Places
<1> HIDE DEF r
<1>6. names \in Dir /\ names'.wallet = names.wallet /\ names'.tmp = f /\ names' \in Dir
  BY <1>1 DEF IInv, TypeOK, Dir
<1>7. \A d \in entries : d.wallet # f
  BY <1>1 DEF Free, IInv, Apart
<1>8. \A d \in entries' : d.wallet # f /\ (d.wallet # NoFile =>
          bytes'[d.wallet] = bytes[d.wallet] /\ platter'[d.wallet] = platter[d.wallet])
  <2>1. \A d \in entries : d \in Dir
    BY DEF IInv, TypeOK
  <2>2. \A g \in Files : g # f => bytes'[g] = bytes[g] /\ platter'[g] = platter[g]
    BY <1>1 DEF IInv, TypeOK
  <2>3. names \in entries
    BY DEF IInv, Apart
  <2> QED
    BY <1>1, <1>6, <1>7, <2>1, <2>2, <2>3 DEF Dir
<1>9. \A d \in entries' : \E e \in entries : e.wallet = d.wallet
  BY <1>1, <1>6 DEF IInv, Apart
<1>10. TypeOK'
  <2>1. run' \in [Procs -> Invocation]
    BY <1>1, <1>4, <1>5 DEF IInv, TypeOK
  <2>2. bytes' \in [Files -> Bytes] /\ platter' \in [Files -> SUBSET Bytes]
    BY <1>1 DEF IInv, TypeOK, Bytes
  <2>3. entries' \in SUBSET Dir /\ safe' = safe
    BY <1>1, <1>6 DEF IInv, TypeOK
  <2> QED
    BY <1>6, <2>1, <2>2, <2>3 DEF IInv, TypeOK
<1>11. Solo'
  BY <1>2, <1>4, OthersOff DEF Solo, Busy, Off
<1>12. Whole'
  BY <1>8, <1>9 DEF IInv, Whole
<1>13. Apart'
  <2>1. \A d \in entries : d.tmp # NoFile => d.wallet # d.tmp
    BY DEF IInv, Apart
  <2> QED
    BY <1>1, <1>6, <1>7, <1>8, <2>1 DEF Apart
<1>14. ASSUME NEW q \in Procs PROVE (Holding(q) /\ Heir(q))'
  <2>1. Content(names)' = Content(names)
    <3>1. names' \in entries'
      BY <1>1
    <3> QED
      BY <1>6, <1>8, <3>1 DEF Content
  <2>2. CASE q = p
    BY <1>1, <1>2, <1>4, <1>5, <1>6, <2>1, <2>2 DEF Holding, Heir, IInv
  <2>3. CASE q # p
    <3>1. run'[q] = run[q] /\ run[q].pc = "off" /\ run[q].fd = NoFile
      BY <1>2, <1>4, <2>3, OthersOff
    <3> QED
      BY <3>1 DEF Holding, Heir
  <2> QED
    BY <2>2, <2>3
<1>15. SavedSurvives'
  <2>1. safe' = safe
    BY <1>1
  <2> QED
    BY <2>1, <1>8, <1>9 DEF IInv, SavedSurvives
<1> QED
  BY <1>10, <1>11, <1>12, <1>13, <1>14, <1>15 DEF IInv

(* Writing and syncing touch the temporary file only: what the step leaves  *)
(* in it, and where the command is afterwards, decide the rest.             *)
LEMMA WriteIInv ==
    ASSUME IInv, NEW p \in Procs, NEW f \in Files, NEW b \in Bytes,
           NEW P \in SUBSET Bytes, NEW pc \in {"rest", "sync", "rename"},
           Busy(p), names.tmp = f, run[p].fd = f, run[p].clean,
           pc # "rest" => b = run[p].mem,
           pc = "rename" => P = {run[p].mem},
           run[p].pc # "dirsync",
           bytes' = [bytes EXCEPT ![f] = b],
           platter' = [platter EXCEPT ![f] = P],
           run' = [run EXCEPT ![p].pc = pc],
           UNCHANGED <<names, entries, safe>>
    PROVE  IInv'
<1> DEFINE r == [run[p] EXCEPT !.pc = pc]
<1>1. \A q \in Procs : run'[q] = IF q = p THEN r ELSE run[q]
  BY DEF IInv, TypeOK
<1>2. r \in Invocation /\ r.pc = pc /\ r.fd = f /\ r.clean /\ r.mem = run[p].mem
  BY DEF IInv, TypeOK, Invocation, Places
<1> HIDE DEF r
<1>3. \A d \in entries : d.wallet # f /\ (d.wallet # NoFile =>
          bytes'[d.wallet] = bytes[d.wallet] /\ platter'[d.wallet] = platter[d.wallet])
  <2>1. \A d \in entries : d \in Dir /\ d.wallet # f
    BY FileAssumption DEF IInv, TypeOK, Apart
  <2>2. \A g \in Files : g # f => bytes'[g] = bytes[g] /\ platter'[g] = platter[g]
    BY DEF IInv, TypeOK
  <2> QED
    BY <2>1, <2>2 DEF Dir
<1>4. TypeOK'
  <2>1. run' \in [Procs -> Invocation]
    BY <1>1, <1>2 DEF IInv, TypeOK
  <2>2. bytes' \in [Files -> Bytes] /\ platter' \in [Files -> SUBSET Bytes]
    BY DEF IInv, TypeOK
  <2> QED
    BY <2>1, <2>2 DEF IInv, TypeOK
<1>5. Solo'
  BY <1>1, OthersOff DEF Solo, Busy, Off
<1>6. Whole'
  BY <1>3 DEF IInv, Whole
<1>7. Apart'
  BY DEF IInv, Apart
<1>8. ASSUME NEW q \in Procs PROVE (Holding(q) /\ Heir(q))'
  <2>1. Content(names)' = Content(names)
    BY <1>3 DEF Content, IInv, Apart
  <2>2. CASE q = p
    <3>1. bytes'[f] = b /\ platter'[f] = P
      BY DEF IInv, TypeOK
    <3>2. run[p].mem \in Secrets /\ Continues(Content(names), run[p].mem)
      BY DEF IInv, Holding, Heir, Busy, Off
    <3> QED
      BY <1>1, <1>2, <2>1, <2>2, <3>1, <3>2 DEF Holding, Heir
  <2>3. CASE q # p
    <3>1. run'[q] = run[q] /\ run[q].pc = "off" /\ run[q].fd = NoFile
      BY <1>1, <2>3, OthersOff
    <3> QED
      BY <3>1 DEF Holding, Heir
  <2> QED
    BY <2>2, <2>3
<1>9. SavedSurvives'
  BY <1>3 DEF IInv, SavedSurvives
<1> QED
  BY <1>4, <1>5, <1>6, <1>7, <1>8, <1>9 DEF IInv

(* Where the writing command stands.                                        *)
LEMMA WriterHolds ==
    ASSUME IInv, NEW p \in Procs, run[p].pc \in {"write", "rest", "sync", "rename"}
    PROVE  /\ run[p].fd \in Files /\ names.tmp = run[p].fd /\ run[p].clean
           /\ Busy(p) /\ run[p].pc # "dirsync"
           /\ run[p].mem \in Secrets
BY DEF IInv, Holding, Busy, Off

LEMMA WritePartIInv ==
    ASSUME IInv, NEW p \in Procs, WritePart(p)
    PROVE  IInv'
<1> DEFINE f == run[p].fd
           P == platter[f] \cup {Garbled}
<1>1. f \in Files /\ names.tmp = f /\ run[p].clean /\ Busy(p) /\ run[p].pc # "dirsync"
  BY WriterHolds DEF WritePart, At
<1>2. P \in SUBSET Bytes /\ Garbled \in Bytes
  BY <1>1 DEF IInv, TypeOK, Bytes
<1>3. platter' = [platter EXCEPT ![f] = P]
  BY DEF WritePart
<1> HIDE DEF P
<1> QED
  BY <1>1, <1>2, <1>3, WriteIInv DEF WritePart

LEMMA WriteRestIInv ==
    ASSUME IInv, NEW p \in Procs, WriteRest(p)
    PROVE  IInv'
<1> DEFINE f == run[p].fd
           b == run[p].mem
           P == platter[f] \cup {b}
<1>1. f \in Files /\ names.tmp = f /\ run[p].clean /\ Busy(p) /\ run[p].pc # "dirsync"
      /\ b \in Secrets
  BY WriterHolds DEF WriteRest, At
<1>2. P \in SUBSET Bytes /\ b \in Bytes
  BY <1>1 DEF IInv, TypeOK, Bytes
<1>3. bytes' = [bytes EXCEPT ![f] = b] /\ platter' = [platter EXCEPT ![f] = P]
  BY <1>1 DEF WriteRest
<1> HIDE DEF P
<1> QED
  BY <1>1, <1>2, <1>3, WriteIInv DEF WriteRest

LEMMA SyncFileIInv ==
    ASSUME IInv, NEW p \in Procs, SyncFile(p)
    PROVE  IInv'
<1> DEFINE f == run[p].fd
           b == run[p].mem
           P == {b}
<1>1. f \in Files /\ names.tmp = f /\ run[p].clean /\ Busy(p) /\ run[p].pc # "dirsync"
      /\ b \in Secrets
  BY WriterHolds DEF SyncFile, At
<1>2. bytes[f] = b /\ b \in Bytes
  BY <1>1 DEF SyncFile, At, IInv, Holding, Bytes
<1>3. bytes' = [bytes EXCEPT ![f] = b]
  BY <1>2 DEF SyncFile, IInv, TypeOK
<1>4. platter' = [platter EXCEPT ![f] = P] /\ P \in SUBSET Bytes /\ P = {run[p].mem}
  BY <1>2 DEF SyncFile
<1>5. run' = [run EXCEPT ![p].pc = "rename"] /\ UNCHANGED <<names, entries, safe>>
  BY DEF SyncFile
<1> HIDE DEF P
<1> QED
  BY <1>1, <1>2, <1>3, <1>4, <1>5, WriteIInv

(* The rename installs a file that is whole and synced.                     *)
LEMMA RenameInstalls ==
    ASSUME IInv, NEW p \in Procs, Rename(p)
    PROVE  /\ run[p].fd \in Files /\ names.tmp = run[p].fd
           /\ bytes[run[p].fd] = run[p].mem /\ platter[run[p].fd] = {run[p].mem}
           /\ run[p].mem \in Secrets
           /\ names' = [wallet |-> run[p].fd, tmp |-> NoFile]
           /\ Continues(Content(names), run[p].mem)
           /\ Busy(p)
BY WriterHolds DEF IInv, Holding, Heir, Rename, At, Busy, Off

LEMMA RenameIInv ==
    ASSUME IInv, NEW p \in Procs, Rename(p)
    PROVE  IInv'
<1> DEFINE f == run[p].fd
           m == run[p].mem
           r == [run[p] EXCEPT !.pc = "dirsync"]
<1>1. /\ f \in Files /\ f # NoFile /\ names.tmp = f /\ m \in Secrets
      /\ bytes[f] = m /\ platter[f] = {m}
      /\ names' = [wallet |-> f, tmp |-> NoFile]
      /\ Continues(Content(names), m)
      /\ Busy(p)
  BY RenameInstalls, FileAssumption
<1>2. entries' = entries \cup {names'} /\ UNCHANGED <<bytes, platter, safe>>
  BY DEF Rename
<1>3. \A q \in Procs : run'[q] = IF q = p THEN r ELSE run[q]
  BY DEF Rename, IInv, TypeOK
<1>4. r \in Invocation /\ r.pc = "dirsync" /\ r.fd = f /\ r.mem = m
  BY DEF IInv, TypeOK, Invocation, Places
<1>5. names' \in Dir /\ names'.wallet = f /\ names'.tmp = NoFile
  BY <1>1 DEF Dir
<1> HIDE DEF r
<1>6. TypeOK'
  <2>1. run' \in [Procs -> Invocation]
    BY <1>3, <1>4 DEF Rename, IInv, TypeOK
  <2> QED
    BY <1>2, <1>5, <2>1 DEF IInv, TypeOK
<1>7. Solo'
  BY <1>1, <1>3, OthersOff DEF Solo, Busy, Off
<1>8. Whole'
  BY <1>1, <1>2, <1>5 DEF IInv, Whole
<1>9. Apart'
  BY <1>1, <1>2, <1>5 DEF IInv, Apart
<1>10. Content(names)' = m
  BY <1>1, <1>2, <1>5 DEF Content
<1>11. ASSUME NEW q \in Procs PROVE (Holding(q) /\ Heir(q))'
  <2>1. CASE q = p
    BY <1>1, <1>3, <1>4, <1>10, <2>1 DEF Holding, Heir
  <2>2. CASE q # p
    <3>1. run'[q] = run[q] /\ run[q].pc = "off" /\ run[q].fd = NoFile
      BY <1>1, <1>3, <2>2, OthersOff
    <3> QED
      BY <3>1 DEF Holding, Heir
  <2> QED
    BY <2>1, <2>2
<1>12. SavedSurvives'
  <2> SUFFICES ASSUME safe # NoWallet
               PROVE  m.seed = safe.seed /\ safe.rev <= m.rev
    BY <1>1, <1>2, <1>5 DEF IInv, SavedSurvives
  <2>1. names \in entries /\ names.wallet # NoFile /\ safe \in Secrets
    BY DEF IInv, Apart, SavedSurvives, TypeOK
  <2>2. Content(names) \in platter[names.wallet] /\ Content(names) \in Secrets
    BY <2>1 DEF IInv, Whole, Content
  <2>3. Content(names).seed = safe.seed /\ safe.rev <= Content(names).rev
    BY <2>1, <2>2 DEF IInv, SavedSurvives
  <2>4. Content(names).seed = m.seed /\ Content(names).rev <= m.rev
    BY <1>1, <2>2, FileAssumption DEF Continues, Bytes
  <2>5. safe.rev \in Nat /\ Content(names).rev \in Nat /\ m.rev \in Nat
    BY <1>1, <2>1, <2>2, FileAssumption DEF Secrets
  <2> QED
    BY <2>3, <2>4, <2>5
<1> QED
  BY <1>6, <1>7, <1>8, <1>9, <1>11, <1>12 DEF IInv

(* The directory settles, or does not, and the command goes on or ends.     *)
LEMMA SyncDirIInv ==
    ASSUME IInv, NEW p \in Procs, SyncDir(p)
    PROVE  IInv'
<1>1. /\ run[p].pc = "dirsync" /\ Busy(p)
      /\ run[p].mem \in Secrets /\ Content(names) = run[p].mem
      /\ UNCHANGED <<names, bytes, platter>>
      /\ names \in entries
  BY DEF SyncDir, At, Busy, Off, IInv, Holding, Heir, Apart
<1>2. PICK r \in Invocation :
          /\ \A q \in Procs : run'[q] = IF q = p THEN r ELSE run[q]
          /\ run' \in [Procs -> Invocation]
          /\ r.fd = NoFile
          /\ r.pc = "off" \/ (/\ r.pc = "ready" /\ r.mem \in Secrets
                               /\ Continues(run[p].mem, r.mem))
  <2>1. CASE run' = [run EXCEPT ![p] = Idle]
    BY <2>1, IdleIsInvocation DEF Idle, IInv, TypeOK
  <2>2. CASE /\ run[p].mem.rev < MaxRev
             /\ run' = [run EXCEPT ![p].pc = "ready", ![p].mem.rev = @ + 1,
                                   ![p].fd = NoFile, ![p].clean = TRUE]
    <3> DEFINE m == [run[p].mem EXCEPT !.rev = @ + 1]
               r == [run[p] EXCEPT !.pc = "ready", !.mem = m,
                                   !.fd = NoFile, !.clean = TRUE]
    <3>1. m \in Secrets /\ Continues(run[p].mem, m)
      BY <1>1, <2>2, FileAssumption DEF Secrets, Continues
    <3>2. run[p] \in Invocation
      BY DEF IInv, TypeOK
    <3>3. \A q \in Procs : run'[q] = IF q = p THEN r ELSE run[q]
      BY <2>2 DEF IInv, TypeOK, Invocation
    <3> HIDE DEF m
    <3>4. r \in Invocation /\ r.pc = "ready" /\ r.mem = m /\ r.fd = NoFile
      BY <3>1, <3>2 DEF Invocation, Places
    <3> HIDE DEF r
    <3>5. run' \in [Procs -> Invocation]
      BY <2>2, <3>3, <3>4 DEF IInv, TypeOK
    <3> QED
      BY <3>1, <3>3, <3>4, <3>5
  <2> QED
    BY <2>1, <2>2 DEF SyncDir
<1>3. /\ entries' \subseteq entries /\ names \in entries'
      /\ \/ safe' = safe
         \/ safe' = Content(names) /\ entries' = {names}
  BY <1>1 DEF SyncDir
<1>4. TypeOK'
  BY <1>1, <1>2, <1>3 DEF IInv, TypeOK
<1>5. Solo'
  BY <1>1, <1>2, OthersOff DEF Solo, Busy, Off
<1>6. Whole' /\ Apart'
  BY <1>1, <1>3 DEF IInv, Whole, Apart
<1>7. ASSUME NEW q \in Procs PROVE (Holding(q) /\ Heir(q))'
  <2>1. Content(names)' = run[p].mem
    BY <1>1 DEF Content
  <2>2. CASE q = p
    BY <1>2, <2>1, <2>2 DEF Holding, Heir
  <2>3. CASE q # p
    <3>1. run'[q] = run[q] /\ run[q].pc = "off" /\ run[q].fd = NoFile
      BY <1>1, <1>2, <2>3, OthersOff
    <3> QED
      BY <3>1 DEF Holding, Heir
  <2> QED
    BY <2>2, <2>3
<1>8. SavedSurvives'
  <2>1. CASE safe' = safe
    BY <1>1, <1>3, <2>1 DEF IInv, SavedSurvives
  <2>2. CASE safe' = Content(names) /\ entries' = {names}
    <3>1. names.wallet # NoFile
      BY <1>1, FileAssumption DEF Content, Bytes
    <3>2. platter[names.wallet] = {Content(names)}
      BY <1>1, <3>1 DEF IInv, Whole, Content
    <3>3. Content(names).rev \in Nat
      BY <1>1, FileAssumption DEF Secrets
    <3> QED
      BY <1>1, <2>2, <3>1, <3>2, <3>3 DEF SavedSurvives
  <2> QED
    BY <1>3, <2>1, <2>2
<1> QED
  BY <1>4, <1>5, <1>6, <1>7, <1>8 DEF IInv

(* Cutting a command off leaves the files as they are.                      *)
LEMMA FailIInv ==
    ASSUME IInv, NEW p \in Procs, Fail(p)
    PROVE  IInv'
<1>1. \A q \in Procs : run'[q] = IF q = p THEN Idle ELSE run[q]
  BY DEF Fail, IInv, TypeOK
<1>2. TypeOK'
  <2>1. run' \in [Procs -> Invocation]
    BY <1>1, IdleIsInvocation DEF Fail, IInv, TypeOK
  <2> QED
    BY <2>1 DEF Fail, IInv, TypeOK
<1>3. Solo'
  BY <1>1 DEF IInv, Solo, Busy, Off, Idle
<1>4. Whole' /\ Apart' /\ SavedSurvives'
  BY DEF Fail, IInv, Whole, Apart, SavedSurvives
<1>5. ASSUME NEW q \in Procs PROVE (Holding(q) /\ Heir(q))'
  BY <1>1 DEF Fail, IInv, Holding, Heir, Idle, Content
<1> QED
  BY <1>2, <1>3, <1>4, <1>5 DEF IInv

(* A loss of power leaves some directory that reached the disk, and in it a *)
(* file that could only be read one way.                                    *)
LEMMA PowerLossIInv ==
    ASSUME IInv, PowerLoss
    PROVE  IInv'
<1>1. /\ names' \in entries /\ entries' = {names'} /\ safe' = safe
      /\ bytes' \in [Files -> Bytes]
      /\ \A f \in Files : bytes'[f] \in platter[f] /\ platter'[f] = {bytes'[f]}
      /\ platter' \in [Files -> SUBSET Bytes]
      /\ \A q \in Procs : run'[q] = Idle
      /\ run' \in [Procs -> Invocation]
  BY IdleIsInvocation DEF PowerLoss
<1>2. names' \in Dir
  BY <1>1 DEF IInv, TypeOK
<1>3. names'.wallet # NoFile =>
          /\ names'.wallet \in Files
          /\ bytes[names'.wallet] \in Secrets
          /\ platter[names'.wallet] = {bytes[names'.wallet]}
          /\ bytes'[names'.wallet] = bytes[names'.wallet]
          /\ platter'[names'.wallet] = platter[names'.wallet]
  BY <1>1, <1>2 DEF IInv, Whole, Dir
<1>4. TypeOK'
  BY <1>1, <1>2 DEF IInv, TypeOK
<1>5. Solo'
  BY <1>1 DEF Solo, Busy, Off, Idle
<1>6. Whole'
  BY <1>1, <1>3 DEF Whole
<1>7. Apart'
  BY <1>1 DEF IInv, Apart
<1>8. ASSUME NEW q \in Procs PROVE (Holding(q) /\ Heir(q))'
  BY <1>1 DEF Holding, Heir, Idle
<1>9. SavedSurvives'
  BY <1>1, <1>3 DEF IInv, SavedSurvives
<1> QED
  BY <1>4, <1>5, <1>6, <1>7, <1>8, <1>9 DEF IInv

LEMMA StutterIInv == ASSUME IInv, UNCHANGED vars PROVE IInv'
<1> USE DEF vars
<1>1. TypeOK' /\ Solo' /\ Whole' /\ Apart' /\ SavedSurvives'
  BY DEF IInv, TypeOK, Solo, Busy, Off, Whole, Apart, SavedSurvives
<1>2. \A p \in Procs : (Holding(p) /\ Heir(p))'
  BY DEF IInv, Holding, Heir, Content
<1> QED
  BY <1>1, <1>2 DEF IInv

(* Every step of Next keeps the invariant.                                  *)
LEMMA NextIInv ==
    ASSUME IInv, Alone, [Next]_vars
    PROVE  IInv'
<1>1. CASE PowerLoss
  BY <1>1, PowerLossIInv
<1>2. CASE \E p \in Procs : Command(p)
  <2> PICK p \in Procs : Command(p)
    BY <1>2
  <2>1. CASE \E seed \in Seeds : Create(p, seed)
    BY <2>1, CreateIInv
  <2>2. CASE Load(p)
    BY <2>2, LoadIInv
  <2>3. CASE OpenTmp(p)
    BY <2>3, OpenTmpIInv
  <2>4. CASE WritePart(p)
    BY <2>4, WritePartIInv
  <2>5. CASE WriteRest(p)
    BY <2>5, WriteRestIInv
  <2>6. CASE SyncFile(p)
    BY <2>6, SyncFileIInv
  <2>7. CASE Rename(p)
    BY <2>7, RenameIInv
  <2>8. CASE SyncDir(p)
    BY <2>8, SyncDirIInv
  <2>9. CASE Fail(p)
    BY <2>9, FailIInv
  <2> QED
    BY <2>1, <2>2, <2>3, <2>4, <2>5, <2>6, <2>7, <2>8, <2>9 DEF Command
<1>3. CASE UNCHANGED vars
  BY <1>3, StutterIInv
<1> QED
  BY <1>1, <1>2, <1>3 DEF Next

(* The invariant says of wallet.json what WalletLoads asks.                 *)
LEMMA IInvLoads == ASSUME IInv PROVE WalletLoads
BY ContentWhole DEF IInv, Whole, WalletLoads

-----------------------------------------------------------------------------
(* The theorems about states.                                               *)

(* Every reachable state of create_wallet, load and save satisfies the      *)
(* inductive invariant.                                                     *)
THEOREM Inductive == ASSUME Alone PROVE Spec => []IInv
<1>1. Init => IInv
  BY InitIInv
<1>2. IInv /\ [Next]_vars => IInv'
  BY NextIInv
<1> QED
  BY <1>1, <1>2, PTL DEF Spec

(* wallet.json is a whole wallet at every moment and after every loss of    *)
(* power, and what was saved and synced is not lost (wallet.rs:167-206).    *)
THEOREM SaveIsAtomicAndDurable ==
    ASSUME Alone PROVE Spec => [](TypeOK /\ WalletLoads /\ SavedSurvives)
<1>1. IInv => TypeOK /\ WalletLoads /\ SavedSurvives
  BY IInvLoads DEF IInv
<1> QED
  BY <1>1, Inductive, PTL

-----------------------------------------------------------------------------
(* The system calls implement the cell of WalletStore.                      *)

(* Under the invariant the cell's past is what the directories name.        *)
LEMMA PastIs == ASSUME IInv PROVE Past = {Content(d) : d \in entries}
<1>1. \A d \in entries : d.wallet # NoFile => platter[d.wallet] = {Content(d)}
  BY DEF IInv, Whole, Content
<1>2. \A d \in entries :
         (IF d.wallet = NoFile THEN {NoWallet} ELSE platter[d.wallet]) = {Content(d)}
  BY <1>1 DEF Content
<1>3. Past = UNION {{Content(d)} : d \in entries}
  BY <1>2 DEF Past
<1> QED
  BY <1>3

LEMMA PastWillBe ==
    ASSUME IInv'
    PROVE  Past' = {IF d.wallet = NoFile THEN NoWallet ELSE bytes'[d.wallet] : d \in entries'}
<1>1. (Past = {Content(d) : d \in entries})'
  BY PastIs, PTL
<1> QED
  BY <1>1 DEF Content

(* A step that leaves every wallet of every directory alone is a stutter.   *)
LEMMA Untouched ==
    ASSUME IInv, IInv', names'.wallet = names.wallet, entries \subseteq entries',
           \A d \in entries' : \E e \in entries : e.wallet = d.wallet,
           \A d \in entries : d.wallet # NoFile => bytes'[d.wallet] = bytes[d.wallet]
    PROVE  Content(names)' = Content(names) /\ Past' = Past
<1> DEFINE Then(d) == IF d.wallet = NoFile THEN NoWallet ELSE bytes'[d.wallet]
<1>1. \A d \in entries : \A e \in entries' : e.wallet = d.wallet => Then(e) = Content(d)
  BY DEF Content
<1>2. Content(names)' = Content(names)
  <2>1. names \in entries
    BY DEF IInv, Apart
  <2> QED
    BY <2>1 DEF Content
<1>3. Past = {Content(d) : d \in entries}
  BY PastIs
<1>4. Past' = {Then(d) : d \in entries'}
  BY PastWillBe
<1> HIDE DEF Then
<1>5. {Then(d) : d \in entries'} = {Content(d) : d \in entries}
  BY <1>1
<1> QED
  BY <1>2, <1>3, <1>4, <1>5

(* Writing the temporary file is such a step.                               *)
LEMMA TmpStutters ==
    ASSUME IInv, IInv', NEW p \in Procs,
           WritePart(p) \/ WriteRest(p) \/ SyncFile(p)
    PROVE  Content(names)' = Content(names) /\ Past' = Past
<1>1. run[p].fd \in Files /\ names.tmp = run[p].fd
  BY WriterHolds DEF WritePart, WriteRest, SyncFile, At
<1>2. \A d \in entries : d.wallet # run[p].fd /\ d \in Dir
  BY <1>1, FileAssumption DEF IInv, Apart, TypeOK
<1>3. \A g \in Files : g # run[p].fd => bytes'[g] = bytes[g]
  BY <1>1 DEF WritePart, WriteRest, SyncFile, IInv, TypeOK
<1>4. \A d \in entries : d.wallet # NoFile => bytes'[d.wallet] = bytes[d.wallet]
  BY <1>2, <1>3 DEF Dir
<1>5. names' = names /\ entries' = entries
  BY DEF WritePart, WriteRest, SyncFile
<1> QED
  BY <1>4, <1>5, Untouched

LEMMA OpenStutters ==
    ASSUME IInv, IInv', NEW p \in Procs, OpenTmp(p)
    PROVE  Content(names)' = Content(names) /\ Past' = Past
<1>1. PICK f \in Files :
          /\ IF names.tmp = NoFile THEN Free(f) ELSE f = names.tmp
          /\ names' = [names EXCEPT !.tmp = f]
          /\ entries' = entries \cup {names'}
          /\ bytes' = [bytes EXCEPT ![f] = Empty]
  BY DEF OpenTmp
<1>2. names \in entries /\ \A d \in entries : d.wallet # f /\ d \in Dir
  BY <1>1 DEF Free, IInv, Apart, TypeOK
<1>3. names'.wallet = names.wallet
  BY <1>1, <1>2 DEF Dir
<1>4. \A d \in entries : d.wallet # NoFile => bytes'[d.wallet] = bytes[d.wallet]
  BY <1>1, <1>2 DEF Dir, IInv, TypeOK
<1> QED
  BY <1>1, <1>2, <1>3, <1>4, Untouched

(* The rename is the cell's Put.                                            *)
LEMMA RenamePuts ==
    ASSUME IInv, IInv', NEW p \in Procs, Rename(p)
    PROVE  \E s \in Secrets : Cell!Put(s)
<1> DEFINE m == run[p].mem
<1>1. /\ run[p].fd \in Files /\ bytes[run[p].fd] = m /\ platter[run[p].fd] = {m}
      /\ m \in Secrets
      /\ names' = [wallet |-> run[p].fd, tmp |-> NoFile]
      /\ Continues(Content(names), m)
  BY RenameInstalls
<1>2. entries' = entries \cup {names'} /\ bytes' = bytes /\ platter' = platter
  BY DEF Rename
<1>3. names'.wallet = run[p].fd /\ names'.wallet # NoFile
  BY <1>1, FileAssumption
<1>4. Content(names)' = m
  BY <1>1, <1>2, <1>3 DEF Content
<1>5. Past' = Past \cup {m}
  <2> DEFINE Leaves(d) == IF d.wallet = NoFile THEN {NoWallet} ELSE platter[d.wallet]
  <2>1. Past = UNION {Leaves(d) : d \in entries}
    BY DEF Past
  <2>2. Past' = UNION {Leaves(d) : d \in entries'}
    BY <1>2 DEF Past
  <2>3. Leaves(names') = {m}
    BY <1>1, <1>3
  <2> HIDE DEF Leaves, m
  <2> QED
    BY <1>2, <2>1, <2>2, <2>3
<1> QED
  BY <1>1, <1>4, <1>5 DEF Cell!Put, Continues

(* Syncing the directory settles the cell, or does nothing to it.           *)
LEMMA SyncDirSettles ==
    ASSUME IInv, IInv', NEW p \in Procs, SyncDir(p)
    PROVE  Cell!Settle \/ (Content(names)' = Content(names) /\ Past' = Past)
<1>1. Content(names)' = Content(names)
  BY DEF SyncDir, Content
<1>2. CASE entries' = {names}
  <2>1. names' = names /\ bytes' = bytes
    BY DEF SyncDir
  <2>2. Past' = {Content(names)}
    BY <1>2, <2>1, PastWillBe DEF Content
  <2> QED
    BY <1>1, <2>2 DEF Cell!Settle
<1>3. CASE entries' = entries
  BY <1>1, <1>3 DEF SyncDir, Past
<1> QED
  BY <1>2, <1>3 DEF SyncDir

(* A loss of power is the cell's: it goes back to something of its past.    *)
LEMMA PowerLossIsTheCells ==
    ASSUME IInv, IInv', PowerLoss
    PROVE  Cell!PowerLost
<1>1. /\ names' \in entries /\ entries' = {names'} /\ names' \in Dir
      /\ \A f \in Files : bytes'[f] \in platter[f]
  BY DEF PowerLoss, IInv, TypeOK
<1>2. Content(names)' = Content(names')
  BY <1>1 DEF Content, IInv, Whole, Dir
<1>3. Content(names') \in Past
  BY <1>1, PastIs
<1>4. Past' = {Content(names)'}
  BY <1>1, PastWillBe DEF Content
<1> QED
  BY <1>2, <1>3, <1>4 DEF Cell!PowerLost

(* Every step is a step of the cell or leaves it alone.                     *)
LEMMA CellStep ==
    ASSUME IInv, IInv', [Next]_vars
    PROVE  [Cell!StoreNext]_(Cell!storeVars)
<1> USE DEF Cell!StoreNext, Cell!storeVars
<1>1. CASE PowerLoss
  BY <1>1, PowerLossIsTheCells
<1>2. CASE \E p \in Procs : Command(p)
  <2> PICK p \in Procs : Command(p)
    BY <1>2
  <2>1. CASE (\E seed \in Seeds : Create(p, seed)) \/ Load(p) \/ Fail(p)
    BY <2>1 DEF Create, Load, Fail, Content, Past
  <2>2. CASE OpenTmp(p)
    BY <2>2, OpenStutters
  <2>3. CASE WritePart(p) \/ WriteRest(p) \/ SyncFile(p)
    BY <2>3, TmpStutters
  <2>4. CASE Rename(p)
    BY <2>4, RenamePuts
  <2>5. CASE SyncDir(p)
    BY <2>5, SyncDirSettles
  <2> QED
    BY <2>1, <2>2, <2>3, <2>4, <2>5 DEF Command
<1>3. CASE UNCHANGED vars
  BY <1>3 DEF vars, Content, Past
<1> QED
  BY <1>1, <1>2, <1>3 DEF Next

LEMMA CellInit == ASSUME Init PROVE Cell!StoreInit
BY DEF Init, Cell!StoreInit, Content, Past

(* save, create_wallet and load on files implement the cell that the other  *)
(* components rely on (wallet.rs:106-206).                                  *)
THEOREM FilesImplementCell == ASSUME Alone PROVE Spec => StoreSpec
<1>1. Init => Cell!StoreInit
  BY CellInit
<1>2. IInv /\ IInv' /\ [Next]_vars => [Cell!StoreNext]_(Cell!storeVars)
  BY CellStep
<1> QED
  BY <1>1, <1>2, Inductive, PTL DEF Spec, StoreSpec, Cell!StoreSpec

-----------------------------------------------------------------------------
(* The mnemonic.                                                            *)

(* The cell never leads back to the file of another mnemonic.               *)
OneSeed == \A x \in Past : x # NoWallet =>
               Content(names) # NoWallet /\ x.seed = Content(names).seed

LEMMA OneSeedStep ==
    ASSUME OneSeed, [Cell!StoreNext]_(Cell!storeVars)
    PROVE  OneSeed'
<1>1. CASE \E s \in Secrets : Cell!Put(s)
  <2> PICK s \in Secrets : Cell!Put(s)
    BY <1>1
  <2>1. s # NoWallet
    BY FileAssumption DEF Bytes
  <2> QED
    BY <2>1 DEF Cell!Put, OneSeed
<1>2. CASE Cell!Settle
  BY <1>2 DEF Cell!Settle, OneSeed
<1>3. CASE Cell!PowerLost
  BY <1>3 DEF Cell!PowerLost, OneSeed
<1>4. CASE Content(names)' = Content(names) /\ Past' = Past
  BY <1>4 DEF OneSeed
<1> QED
  BY <1>1, <1>2, <1>3, <1>4 DEF Cell!StoreNext, Cell!storeVars

(* The mnemonic in wallet.json is never exchanged for another, by no command*)
(* and by no loss of power (wallet.rs:115).                                 *)
THEOREM MnemonicIsKept == ASSUME Alone PROVE Spec => SeedKept
<1> DEFINE Keeps == Content(names) \in Secrets /\ Content(names)' \in Secrets
                       => Content(names)'.seed = Content(names).seed
<1>1. Init => OneSeed
  BY DEF Init, OneSeed, Past
<1>2. OneSeed /\ [Cell!StoreNext]_(Cell!storeVars) => OneSeed'
  BY OneSeedStep
<1>3. OneSeed /\ [Cell!StoreNext]_(Cell!storeVars) => Keeps
  <2> SUFFICES ASSUME OneSeed, [Cell!StoreNext]_(Cell!storeVars),
                      Content(names) \in Secrets, Content(names)' \in Secrets
               PROVE  Content(names)'.seed = Content(names).seed
    OBVIOUS
  <2>1. NoWallet \notin Secrets
    BY FileAssumption DEF Bytes
  <2> QED
    BY <2>1 DEF OneSeed, Cell!StoreNext, Cell!storeVars, Cell!Put, Cell!Settle,
                Cell!PowerLost
<1> HIDE DEF Keeps
<1>4. Keeps => [Keeps]_vars
  OBVIOUS
<1>5. Spec => [][Cell!StoreNext]_(Cell!storeVars)
  BY FilesImplementCell, PTL DEF StoreSpec, Cell!StoreSpec
<1>6. Spec => [][Keeps]_vars
  BY <1>1, <1>2, <1>3, <1>5, PTL DEF Spec
<1> QED
  BY <1>6 DEF SeedKept, Keeps
=============================================================================
