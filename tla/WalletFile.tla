----------------------------- MODULE WalletFile -----------------------------
(***************************************************************************)
(* wallet.json and its temporary file (wallet.rs): create_wallet, load and *)
(* save as system calls, run by commands that may be cut off between any   *)
(* two of them, on a machine that may lose power.  A file is an inode: the *)
(* rename moves a name, and whoever holds the file goes on writing to it.  *)
(* What was written but not synced may or may not survive a loss of power. *)
(***************************************************************************)
EXTENDS Naturals, FiniteSets

CONSTANTS
    Procs,       \* command invocations
    Overlap,     \* may two invocations run at the same time?
    Seeds,       \* mnemonics
    Files,       \* inodes
    NoFile,      \* a name that names no file
    Empty,       \* a file without a byte
    Garbled,     \* a file that load cannot parse or decrypt
    NoWallet,    \* there is no wallet file
    MaxRev       \* bound: saves of one wallet

(* What the file says: its mnemonic, and how many saves changed the rest.   *)
Secrets == [seed : Seeds, rev : 0..MaxRev]
Bytes == Secrets \cup {Empty, Garbled}

ASSUME FileAssumption ==
    /\ Overlap \in BOOLEAN
    /\ MaxRev \in Nat
    /\ NoFile \notin Files
    /\ NoWallet \notin Bytes
    /\ Empty \notin Secrets /\ Garbled \notin Secrets

VARIABLES
    names,       \* the directory: what wallet.json and .wallet.json.tmp name
    entries,     \* directories that a loss of power may leave
    bytes,       \* per file: what a read returns
    platter,     \* per file: contents that a loss of power may leave
    run,         \* per process: where its command is, and its locals
    safe         \* history: the last saved content whose directory was synced

vars == <<names, entries, bytes, platter, run, safe>>

Dir == [wallet : Files \cup {NoFile}, tmp : Files \cup {NoFile}]
Places == {"off", "ready", "write", "rest", "sync", "rename", "dirsync"}

(* The locals: the secrets in memory, the file held open, and whether nobody*)
(* else has had it open since.                                              *)
Invocation == [pc : Places, mem : Secrets \cup {NoWallet},
               fd : Files \cup {NoFile}, clean : BOOLEAN]

Idle == [pc |-> "off", mem |-> NoWallet, fd |-> NoFile, clean |-> TRUE]

Off(p) == run[p].pc = "off"
At(p, pc) == run[p].pc = pc
MayStart == Overlap \/ \A q \in Procs : Off(q)

Holders(f) == {q \in Procs : run[q].fd = f}

(* What load makes of a directory.                                          *)
Content(d) == IF d.wallet = NoFile THEN NoWallet ELSE bytes[d.wallet]

-----------------------------------------------------------------------------
(* A faulty create_wallet: it does not ask whether the file exists.         *)
CreateAnyway(p, seed) ==
    /\ Off(p) /\ MayStart
    /\ run' = [run EXCEPT ![p] =
                [Idle EXCEPT !.pc = "ready", !.mem = [seed |-> seed, rev |-> 0]]]
    /\ UNCHANGED <<names, entries, bytes, platter, safe>>

(* create_wallet with a fresh or an imported mnemonic: it asks whether the  *)
(* file exists and saves later.                                             *)
Create(p, seed) ==
    /\ Off(p) /\ MayStart
    /\ names.wallet = NoFile
    /\ run' = [run EXCEPT ![p] =
                [Idle EXCEPT !.pc = "ready", !.mem = [seed |-> seed, rev |-> 0]]]
    /\ UNCHANGED <<names, entries, bytes, platter, safe>>

(* Every other command loads the file; the secrets it will save differ.     *)
Load(p) ==
    /\ Off(p) /\ MayStart
    /\ Content(names) \in Secrets
    /\ Content(names).rev < MaxRev
    /\ run' = [run EXCEPT ![p] =
                [Idle EXCEPT !.pc = "ready", !.mem = [Content(names) EXCEPT !.rev = @ + 1]]]
    /\ UNCHANGED <<names, entries, bytes, platter, safe>>

-----------------------------------------------------------------------------
(* save, one system call per action.                                        *)

Free(f) ==
    /\ \A d \in entries : f # d.wallet /\ f # d.tmp
    /\ Holders(f) = {}

(* A faulty save: it writes over wallet.json itself, once there is one.     *)
OpenInPlace(p) ==
    /\ At(p, "ready")
    /\ \E f \in Files :
          /\ IF names.wallet = NoFile THEN Free(f) ELSE f = names.wallet
          /\ names' = [wallet |-> f, tmp |-> f]
          /\ entries' = entries \cup {names'}
          /\ bytes' = [bytes EXCEPT ![f] = Empty]
          /\ platter' = [platter EXCEPT ![f] = @ \cup {Empty}]
          /\ run' = [run EXCEPT ![p].pc = "write", ![p].fd = f]
    /\ UNCHANGED safe

(* The temporary file is opened: created, or cut to nothing if it is there. *)
OpenTmp(p) ==
    /\ At(p, "ready")
    /\ \E f \in Files :
          /\ IF names.tmp = NoFile THEN Free(f) ELSE f = names.tmp
          /\ names' = [names EXCEPT !.tmp = f]
          /\ entries' = entries \cup {names'}
          /\ bytes' = [bytes EXCEPT ![f] = Empty]
          /\ platter' = [platter EXCEPT
                ![f] = IF names.tmp = NoFile THEN {Empty} ELSE @ \cup {Empty}]
          /\ run' = [q \in Procs |->
                IF q = p THEN [run[p] EXCEPT !.pc = "write", !.fd = f,
                                             !.clean = Holders(f) = {}]
                ELSE IF q \in Holders(f) THEN [run[q] EXCEPT !.clean = FALSE]
                ELSE run[q]]
    /\ UNCHANGED safe

(* write_all, cut in two: a file written in part cannot be read ...         *)
WritePart(p) ==
    /\ At(p, "write")
    /\ bytes' = [bytes EXCEPT ![run[p].fd] = Garbled]
    /\ platter' = [platter EXCEPT ![run[p].fd] = @ \cup {Garbled}]
    /\ run' = [run EXCEPT ![p].pc = "rest"]
    /\ UNCHANGED <<names, entries, safe>>

(* ... and the rest makes it whole, unless another process has written to   *)
(* it, cut it or written less than is there.                                *)
WriteRest(p) ==
    /\ At(p, "rest")
    /\ \E b \in IF run[p].clean THEN {run[p].mem} ELSE {run[p].mem, Garbled} :
          /\ bytes' = [bytes EXCEPT ![run[p].fd] = b]
          /\ platter' = [platter EXCEPT ![run[p].fd] = @ \cup {b}]
    /\ run' = [run EXCEPT ![p].pc = "sync"]
    /\ UNCHANGED <<names, entries, safe>>

(* A faulty save: the file is not synced before the rename.                 *)
SyncNothing(p) ==
    /\ At(p, "sync")
    /\ run' = [run EXCEPT ![p].pc = "rename"]
    /\ UNCHANGED <<names, entries, bytes, platter, safe>>

(* file.sync_all().                                                         *)
SyncFile(p) ==
    /\ At(p, "sync")
    /\ platter' = [platter EXCEPT ![run[p].fd] = {bytes[run[p].fd]}]
    /\ run' = [run EXCEPT ![p].pc = "rename"]
    /\ UNCHANGED <<names, entries, bytes, safe>>

(* set_permissions and rename address the temporary file by its name, and   *)
(* fail when there is none.                                                 *)
Rename(p) ==
    /\ At(p, "rename")
    /\ names.tmp # NoFile
    /\ names' = [wallet |-> names.tmp, tmp |-> NoFile]
    /\ entries' = entries \cup {names'}
    /\ run' = [run EXCEPT ![p].pc = "dirsync"]
    /\ UNCHANGED <<bytes, platter, safe>>

(* A faulty end of save: it reports a directory that was not synced.        *)
SyncDirNever(p) ==
    /\ At(p, "dirsync")
    /\ safe' = Content(names)
    /\ UNCHANGED entries
    /\ run' = [run EXCEPT ![p] = Idle]
    /\ UNCHANGED <<names, bytes, platter>>

(* The directory is synced, if it can be; the save has succeeded either     *)
(* way.  The command ends or saves again.                                   *)
SyncDir(p) ==
    /\ At(p, "dirsync")
    /\ \/ entries' = {names} /\ safe' = Content(names)
       \/ UNCHANGED <<entries, safe>>
    /\ \/ run' = [run EXCEPT ![p] = Idle]
       \/ /\ run[p].mem.rev < MaxRev
          /\ run' = [run EXCEPT ![p].pc = "ready", ![p].mem.rev = @ + 1,
                                ![p].fd = NoFile, ![p].clean = TRUE]
    /\ UNCHANGED <<names, bytes, platter>>

-----------------------------------------------------------------------------
(* The command is cut off: an error, Ctrl-C, a crash of the process.        *)
Fail(p) ==
    /\ ~Off(p)
    /\ run' = [run EXCEPT ![p] = Idle]
    /\ UNCHANGED <<names, entries, bytes, platter, safe>>

(* The machine stops: every file and the directory are as some state that   *)
(* reached the disk.                                                        *)
PowerLoss ==
    /\ names' \in entries
    /\ entries' = {names'}
    /\ bytes' \in {b \in [Files -> Bytes] : \A f \in Files : b[f] \in platter[f]}
    /\ platter' = [f \in Files |-> {bytes'[f]}]
    /\ run' = [p \in Procs |-> Idle]
    /\ UNCHANGED safe

Init ==
    /\ names = [wallet |-> NoFile, tmp |-> NoFile]
    /\ entries = {names}
    /\ bytes = [f \in Files |-> Empty]
    /\ platter = [f \in Files |-> {Empty}]
    /\ run = [p \in Procs |-> Idle]
    /\ safe = NoWallet

Command(p) ==
    \/ \E seed \in Seeds : Create(p, seed)
    \/ Load(p)
    \/ OpenTmp(p)
    \/ WritePart(p)
    \/ WriteRest(p)
    \/ SyncFile(p)
    \/ Rename(p)
    \/ SyncDir(p)
    \/ Fail(p)

Next == PowerLoss \/ \E p \in Procs : Command(p)

Spec == Init /\ [][Next]_vars

-----------------------------------------------------------------------------
(* Properties.                                                              *)

(* Every variable keeps its shape (wallet.rs).                              *)
TypeOK ==
    /\ names \in Dir
    /\ entries \in SUBSET Dir
    /\ bytes \in [Files -> Bytes]
    /\ platter \in [Files -> SUBSET Bytes]
    /\ run \in [Procs -> Invocation]
    /\ safe \in Secrets \cup {NoWallet}

(* Whatever wallet.json names at any moment is a whole wallet, and so it    *)
(* would be after a loss of power now: a writer that crashed leaves the real*)
(* wallet loadable (wallet.rs:392, save).                                   *)
WalletLoads ==
    /\ Content(names) \in Secrets \cup {NoWallet}
    /\ \A d \in entries : d.wallet # NoFile => platter[d.wallet] \subseteq Secrets

(* Once a save has synced the directory, no loss of power takes the file    *)
(* back to before that save (wallet.rs:201, so the rename itself is         *)
(* durable).                                                                *)
SavedSurvives ==
    safe # NoWallet =>
        \A d \in entries :
            /\ d.wallet # NoFile
            /\ \A b \in platter[d.wallet] :
                   b \in Secrets /\ b.seed = safe.seed /\ safe.rev <= b.rev

(* The mnemonic in the file is never exchanged for another (wallet.rs:115,  *)
(* create_wallet refuses a name that is taken).                             *)
SeedKept ==
    [][Content(names) \in Secrets /\ Content(names)' \in Secrets
         => Content(names)'.seed = Content(names).seed]_vars

(* What the directory could name after a loss of power now.                 *)
Past == UNION {IF d.wallet = NoFile THEN {NoWallet} ELSE platter[d.wallet] : d \in entries}

(* The files implement the cell that the other components rely on: at every *)
(* system call of save, crash and loss of power (wallet.rs:167-206).        *)
Cell == INSTANCE WalletStore WITH store <- Content(names), past <- Past
StoreSpec == Cell!StoreSpec

-----------------------------------------------------------------------------
(* Why: the inductive invariant, for commands that do not overlap.          *)

Busy(p) == ~Off(p)
Solo == \A p, q \in Procs : Busy(p) /\ Busy(q) => p = q

(* A file that wallet.json names, or may name after a loss of power, is     *)
(* whole and on the platter, and is never the temporary file.               *)
Whole ==
    \A d \in entries : d.wallet # NoFile =>
        bytes[d.wallet] \in Secrets /\ platter[d.wallet] = {bytes[d.wallet]}
Apart ==
    /\ names \in entries
    /\ \A d \in entries : d.tmp # NoFile => d.wallet # d.tmp
    /\ names.tmp # NoFile => \A d \in entries : d.wallet # names.tmp

(* The command holds the temporary file, alone, and has written its secrets.*)
Holding(p) ==
    LET r == run[p]
    IN  /\ r.pc \in {"off", "ready"} => r.fd = NoFile
        /\ r.pc # "off" => r.mem \in Secrets
        /\ r.pc \in {"write", "rest", "sync", "rename"} =>
               r.fd \in Files /\ names.tmp = r.fd /\ r.clean
        /\ r.pc \in {"sync", "rename"} => bytes[r.fd] = r.mem
        /\ r.pc = "rename" => platter[r.fd] = {r.mem}

(* What it is about to save continues what the file says.                   *)
Continues(old, new) == old # NoWallet => old.seed = new.seed /\ old.rev <= new.rev
Heir(p) ==
    /\ run[p].pc \notin {"off", "dirsync"} => Continues(Content(names), run[p].mem)
    /\ run[p].pc = "dirsync" => Content(names) = run[p].mem

IInv ==
    /\ TypeOK
    /\ Solo
    /\ Whole
    /\ Apart
    /\ \A p \in Procs : Holding(p) /\ Heir(p)
    /\ SavedSurvives
=============================================================================
