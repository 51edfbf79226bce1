----------------------------- MODULE SyncCache ------------------------------
(***************************************************************************)
(* The pool-event cache of sync_cache.rs, a file that every wallet of the  *)
(* data directory shares, with the code of flow.rs that seeds, hydrates and*)
(* reads it.  Each process is one command: it may seed the cache from a    *)
(* download, then syncs and reads the nullifiers (sync_notes) or hydrates. *)
(* The chain grows and its last Margin blocks may be replaced at any time; *)
(* a command may end, or crash, between any two steps.                     *)
(*                                                                         *)
(* The records of the file are a set.  Every writer appends the records of *)
(* consecutive blocks in one order, so a shorter file is a subset and a    *)
(* longer one a superset; records the header counts but that are not in    *)
(* the file stand for a file that is too short, or has a hole of zeros:    *)
(* either fails to open.                                                   *)
(***************************************************************************)
EXTENDS Naturals, Sequences, FiniteSets

CONSTANTS
    Procs,         \* command invocations that may exist at once
    Overlap,       \* may two invocations run at the same time?
    Nullifiers,    \* NoteSpent events
    Others,        \* the other pool events
    Deployed,      \* deployed_block
    Margin,        \* REORG_MARGIN
    MaxRecords,    \* max_bytes, in records
    Endpoint,      \* is EVENT_CACHE_ENDPOINT set?
    MaxHead,       \* bound: blocks
    MaxReorgs,     \* bound: replaced blocks
    MaxDownloads   \* bound: downloads that begin to be written

ASSUME CacheAssumption ==
    /\ Overlap \in BOOLEAN /\ Endpoint \in BOOLEAN
    /\ IsFiniteSet(Nullifiers) /\ IsFiniteSet(Others)
    /\ Deployed \in Nat /\ Margin \in Nat /\ MaxRecords \in Nat
    /\ MaxHead \in Nat /\ MaxReorgs \in Nat /\ MaxDownloads \in Nat

VARIABLES
    chain,       \* the events of each block
    reorgs,      \* number of blocks replaced so far
    files,       \* the files that were ever created, by inode
    path,        \* the inode of pool-sync-<network>.bin, 0 if there is none
    part,        \* the inode of its .bin.part, 0 if there is none
    downloads,   \* number of downloads so far
    run          \* per process: where its command is, and its locals

chainVars == <<chain, reorgs>>
fileVars == <<files, path, part, downloads>>
vars == <<chain, reorgs, files, path, part, downloads, run>>

-----------------------------------------------------------------------------
Events == Nullifiers \cup Others
Record == [block : Nat, event : Events]
Header == [through : Nat, recs : SUBSET Record]
File == [blank : BOOLEAN, hdr : Header, body : SUBSET Record]

Latest == Len(chain)

(* What the pool logged in the blocks from..to of the chain.                *)
Logged(c, from, to) ==
    {r \in [block : 1..Len(c), event : Events] :
        r.block \in from..to /\ r.event \in c[r.block]}

SpentIn(recs) == {r.event : r \in {x \in recs : x.event \in Nullifiers}}

Monus(a, b) == IF a > b THEN a - b ELSE 0
Larger(a, b) == IF a > b THEN a ELSE b
Smaller(a, b) == IF a < b THEN a ELSE b

-----------------------------------------------------------------------------
(* sync_cache.rs: the decisions.                                            *)

(* Faulty forms of the window: the whole range is taken from the cache; the *)
(* fetch starts one block late.                                             *)
WindowToTip(from, to, through) ==
    [safe |-> to, cached |-> Smaller(through, to),
     rpc |-> Larger(from, Smaller(through, to) + 1)]
WindowLate(from, to, through) ==
    LET cached == Smaller(through, Monus(to, Margin))
    IN  [safe |-> Monus(to, Margin), cached |-> cached, rpc |-> Larger(from, cached + 2)]

ReorgSafeWindow(from, to, through) ==
    LET cached == Smaller(through, Monus(to, Margin))
    IN  [safe |-> Monus(to, Margin), cached |-> cached, rpc |-> Larger(from, cached + 1)]

(* Faulty forms: the empty cache ends two blocks early; a block is skipped; *)
(* a cache of one block counts as empty.                                    *)
FreshHeaderEarly == [through |-> Deployed - 2, recs |-> {}]
NextBlockSkips(h) == Larger(h.through + 2, Deployed)
IsEmptyAtFirst(h) == h.through <= Deployed

FreshHeader == [through |-> Monus(Deployed, 1), recs |-> {}]
NextBlock(h) == Larger(h.through + 1, Deployed)
IsEmpty(h) == h.through < Deployed

(* extend: the blocks after `through` whose records all fit; when some do   *)
(* not, the header stops at the last block that was stored with records.    *)
ExtendIgnoringCap(h, to, recs) ==   \* faulty: `through` moves on over the cap
    LET new == {r \in recs : r.block > h.through}
    IN  [through |-> to,
         recs |-> h.recs \cup {r \in new : Cardinality(h.recs \cup
                       {x \in new : x.block <= r.block}) <= MaxRecords}]
ExtendedLate(h, to, recs) ==   \* faulty: the first new block is skipped
    [through |-> to, recs |-> h.recs \cup {r \in recs : r.block > h.through + 1}]
Extended(h, to, recs) ==
    LET new == {r \in recs : r.block > h.through}
        kept == {r \in new : Cardinality(h.recs \cup
                       {x \in new : x.block <= r.block}) <= MaxRecords}
        reached == {h.through} \cup {r.block : r \in kept}
    IN  [through |-> IF kept = new THEN to
                     ELSE CHOOSE b \in reached : \A c \in reached : c <= b,
         recs |-> h.recs \cup kept]

(* open: what the header counts must be in the file, and decode.            *)
Whole(f) == f.hdr.recs \subseteq f.body

-----------------------------------------------------------------------------
(* The commands.                                                            *)

Places == {"off", "seed", "download", "fill", "check", "rename", "head",
           "open", "create", "fresh", "trim", "opened",
           "fetch", "records", "header", "spent", "logs"}
Goals == {"seed", "sync", "hydrate", "spent"}

(* The locals of one command: `goal` is the routine that is at work, `hdr`  *)
(* the header it holds in memory, `next` the header it is about to write,   *)
(* `from` and `to` the blocks it wants, `rpc` the block it fetches from,    *)
(* `got` the events it has.                                                 *)
Locals == [pc : Places, cmd : {"sync", "hydrate"}, goal : Goals, ino : Nat,
           hdr : Header, next : Header, from : Nat, to : Nat, rpc : Nat,
           got : SUBSET Record]

Idle == [pc |-> "off", cmd |-> "sync", goal |-> "seed", ino |-> 0,
         hdr |-> FreshHeader, next |-> FreshHeader,
         from |-> 0, to |-> 0, rpc |-> 0, got |-> {}]

Off(p) == run[p].pc = "off"
At(p, pc) == run[p].pc = pc
Goto(p, pc) == run' = [run EXCEPT ![p].pc = pc]
Stop(p) == run' = [run EXCEPT ![p] = Idle]
Begin(p, cmd, pc) == run' = [run EXCEPT ![p] = [Idle EXCEPT !.cmd = cmd, !.pc = pc]]
GoOn(p) == Begin(p, run[p].cmd, "head")   \* past seed_event_cache

Start(p, cmd) ==
    /\ Off(p)
    /\ Overlap \/ \A q \in Procs : Off(q)
    /\ Begin(p, cmd, IF Endpoint THEN "seed" ELSE "head")
    /\ UNCHANGED <<chainVars, fileVars>>

(* An error, a crash: the file stays as it is.                              *)
Fail(p) ==
    /\ ~Off(p)
    /\ Stop(p)
    /\ UNCHANGED <<chainVars, fileVars>>

-----------------------------------------------------------------------------
(* SyncCache::open, for whichever routine asked.                            *)

(* The file is looked up, its header and its length are read.  A file that  *)
(* does not open ends the command, except in seed_event_cache, which only   *)
(* reports it.                                                              *)
Look(p) ==
    /\ At(p, "open")
    /\ IF path = 0 THEN Goto(p, "create")
       ELSE LET f == files[path]
                opened == IF f.body = f.hdr.recs THEN "opened" ELSE "trim"
            IN  CASE f.blank ->
                       run' = [run EXCEPT ![p].ino = path, ![p].hdr = FreshHeader,
                                          ![p].pc = "fresh"]
                  [] ~f.blank /\ Whole(f) ->
                       run' = [run EXCEPT ![p].ino = path, ![p].hdr = f.hdr,
                                          ![p].pc = opened]
                  [] OTHER ->
                       IF run[p].goal = "seed" THEN GoOn(p) ELSE Stop(p)
    /\ UNCHANGED <<chainVars, fileVars>>

(* It did not exist: it is created now, unless someone else just did.       *)
Create(p) ==
    /\ At(p, "create")
    /\ IF path = 0
       THEN /\ files' = Append(files, [blank |-> TRUE, hdr |-> FreshHeader, body |-> {}])
            /\ path' = Len(files) + 1
       ELSE UNCHANGED <<files, path>>
    /\ run' = [run EXCEPT ![p].ino = path', ![p].hdr = FreshHeader, ![p].pc = "fresh"]
    /\ UNCHANGED <<chainVars, part, downloads>>

Fresh(p) ==
    /\ At(p, "fresh")
    /\ files' = [files EXCEPT ![run[p].ino].blank = FALSE,
                              ![run[p].ino].hdr = run[p].hdr]
    /\ Goto(p, "opened")
    /\ UNCHANGED <<chainVars, path, part, downloads>>

(* Records beyond the header are left by a crash: the file is cut to what   *)
(* the header that was read counts, then decoded.                           *)
Trim(p) ==
    LET kept == files[run[p].ino].body \cap run[p].hdr.recs
    IN  /\ At(p, "trim")
        /\ files' = [files EXCEPT ![run[p].ino].body = kept]
        /\ IF kept = run[p].hdr.recs THEN Goto(p, "opened")
           ELSE IF run[p].goal = "seed" THEN GoOn(p) ELSE Stop(p)
        /\ UNCHANGED <<chainVars, path, part, downloads>>

-----------------------------------------------------------------------------
(* seed_event_cache and install_download.                                   *)

Seed(p) ==
    /\ At(p, "seed")
    /\ IF path = 0 THEN Goto(p, "download")
       ELSE run' = [run EXCEPT ![p].goal = "seed", ![p].pc = "open"]
    /\ UNCHANGED <<chainVars, fileVars>>

SeedOpened(p) ==
    /\ At(p, "opened")
    /\ run[p].goal = "seed"
    /\ IF IsEmpty(run[p].hdr) THEN Begin(p, run[p].cmd, "download") ELSE GoOn(p)
    /\ UNCHANGED <<chainVars, fileVars>>

(* The download failed; the command goes on without it.                     *)
NoDownload(p) ==
    /\ At(p, "download")
    /\ GoOn(p)
    /\ UNCHANGED <<chainVars, fileVars>>

(* fs::write of the .bin.part file: it is emptied, then filled.             *)
Download(p) ==
    /\ At(p, "download")
    /\ downloads < MaxDownloads
    /\ LET blank == [blank |-> TRUE, hdr |-> FreshHeader, body |-> {}]
       IN  IF part = 0
           THEN files' = Append(files, blank) /\ part' = Len(files) + 1
           ELSE files' = [files EXCEPT ![part] = blank] /\ UNCHANGED part
    /\ downloads' = downloads + 1
    /\ run' = [run EXCEPT ![p].ino = part', ![p].pc = "fill"]
    /\ UNCHANGED <<chainVars, path>>

(* What the endpoint served: a cache through block t, whole or cut short.   *)
Fill(p, t, body) ==
    /\ At(p, "fill")
    /\ files' = [files EXCEPT
                    ![run[p].ino] = [blank |-> FALSE,
                        hdr |-> [through |-> t, recs |-> Logged(chain, Deployed, t)],
                        body |-> @.body \cup body]]
    /\ Goto(p, "check")
    /\ UNCHANGED <<chainVars, path, part, downloads>>

(* The .bin.part file is opened as a cache, which creates or trims it, and  *)
(* decoded; when that fails it is removed.                                  *)
CheckNothing(p) ==   \* faulty: the download is installed unseen
    /\ At(p, "check")
    /\ Goto(p, "rename")
    /\ UNCHANGED <<chainVars, fileVars>>
Check(p) ==
    /\ At(p, "check")
    /\ LET fresh == [blank |-> FALSE, hdr |-> FreshHeader, body |-> {}]
       IN  IF part = 0
           THEN files' = Append(files, fresh) /\ part' = Len(files) + 1 /\ Goto(p, "rename")
           ELSE LET f == files[part]
                IN  IF f.blank
                    THEN files' = [files EXCEPT ![part] = fresh] /\ UNCHANGED part
                         /\ Goto(p, "rename")
                    ELSE IF Whole(f)
                    THEN files' = [files EXCEPT ![part].body = f.hdr.recs] /\ UNCHANGED part
                         /\ Goto(p, "rename")
                    ELSE part' = 0 /\ UNCHANGED files /\ GoOn(p)
    /\ UNCHANGED <<chainVars, path, downloads>>

Rename(p) ==
    /\ At(p, "rename")
    /\ IF part = 0 THEN UNCHANGED <<path, part>> ELSE path' = part /\ part' = 0
    /\ GoOn(p)
    /\ UNCHANGED <<chainVars, files, downloads>>

-----------------------------------------------------------------------------
(* CachingSyncer::sync, hydrate_local_cache and spent_nullifiers.           *)

(* The latest block is asked for, then the cache is opened.                 *)
AskLatest(p) ==
    /\ At(p, "head")
    /\ run' = [run EXCEPT ![p] = [Idle EXCEPT !.cmd = run[p].cmd, !.goal = run[p].cmd,
                                              !.to = Latest, !.pc = "open"]]
    /\ UNCHANGED <<chainVars, fileVars>>

(* sync: the indexer wants from..to; the cache gives what it has of it      *)
(* outside of the reorg margin.                                             *)
ReadCache(p, from) ==
    LET h == run[p].hdr
        w == ReorgSafeWindow(from, run[p].to, h.through)
        cached == {r \in h.recs : r.block \in from..Smaller(w.cached, run[p].to)}
    IN  /\ At(p, "opened")
        /\ run[p].goal = "sync"
        /\ cached \subseteq files[run[p].ino].body
        /\ run' = [run EXCEPT ![p].from = from, ![p].rpc = w.rpc, ![p].got = cached,
                              ![p].pc = IF w.rpc <= run[p].to THEN "fetch" ELSE "spent"]
        /\ UNCHANGED <<chainVars, fileVars>>

(* hydrate: everything after the cache, unless that is within the margin.   *)
HydrateEarly(p) ==   \* faulty: stops one block before the margin
    LET from == Larger(run[p].hdr.through + 1, Deployed)
    IN  /\ At(p, "opened")
        /\ run[p].goal = "hydrate"
        /\ IF from >= Monus(run[p].to, Margin) THEN Stop(p)
           ELSE run' = [run EXCEPT ![p].from = from, ![p].rpc = from, ![p].pc = "fetch"]
        /\ UNCHANGED <<chainVars, fileVars>>
HydrateOpened(p) ==
    LET from == Larger(run[p].hdr.through + 1, Deployed)
    IN  /\ At(p, "opened")
        /\ run[p].goal = "hydrate"
        /\ IF from > Monus(run[p].to, Margin) THEN Stop(p)
           ELSE run' = [run EXCEPT ![p].from = from, ![p].rpc = from, ![p].pc = "fetch"]
        /\ UNCHANGED <<chainVars, fileVars>>

(* The rest comes from the RPC.  It is stored as far as the margin if it    *)
(* continues the cache; the indexer gets both parts.                        *)
Fetched(p) == Logged(chain, run[p].rpc, run[p].to)
Delivered(p) == run[p].got \cup Fetched(p)
Fetch(p) ==
    LET r == run[p]
        safe == ReorgSafeWindow(r.from, r.to, r.hdr.through).safe
        durable == {x \in Fetched(p) : x.block <= safe}
        stored == safe >= r.rpc /\ r.rpc = NextBlock(r.hdr)
    IN  /\ At(p, "fetch")
        /\ IF stored
           THEN run' = [run EXCEPT ![p] =
                          [Idle EXCEPT !.cmd = r.cmd, !.goal = r.goal, !.ino = r.ino,
                                       !.hdr = r.hdr, !.next = Extended(r.hdr, safe, durable),
                                       !.pc = "records"]]
           ELSE Begin(p, r.cmd, "spent")
        /\ UNCHANGED <<chainVars, fileVars>>

(* extend: the records are appended first, then the header is rewritten.    *)
Records(p) ==
    /\ At(p, "records")
    /\ files' = [files EXCEPT ![run[p].ino].body = @ \cup (run[p].next.recs \ run[p].hdr.recs)]
    /\ Goto(p, "header")
    /\ UNCHANGED <<chainVars, path, part, downloads>>

WriteHeader(p) ==
    /\ At(p, "header")
    /\ files' = [files EXCEPT ![run[p].ino].hdr = run[p].next]
    /\ IF run[p].goal = "sync" THEN Begin(p, run[p].cmd, "spent") ELSE Stop(p)
    /\ UNCHANGED <<chainVars, path, part, downloads>>

(* spent_nullifiers: the cached ones if there is a cache ...                *)
Spent(p) ==
    /\ At(p, "spent")
    /\ run' = [run EXCEPT ![p] = [Idle EXCEPT !.goal = "spent", !.from = Deployed,
                                              !.pc = IF path = 0 THEN "logs" ELSE "open"]]
    /\ UNCHANGED <<chainVars, fileVars>>

SpentOpened(p) ==
    /\ At(p, "opened")
    /\ run[p].goal = "spent"
    /\ run[p].hdr.recs \subseteq files[run[p].ino].body
    /\ run' = [run EXCEPT ![p] = [Idle EXCEPT !.goal = "spent", !.got = run[p].hdr.recs,
                                              !.from = NextBlock(run[p].hdr), !.pc = "logs"]]
    /\ UNCHANGED <<chainVars, fileVars>>

(* ... and those of the logs after it.                                      *)
Answer(p) == SpentIn(run[p].got \cup Logged(chain, run[p].from, Latest))
Logs(p) ==
    /\ At(p, "logs")
    /\ Stop(p)
    /\ UNCHANGED <<chainVars, fileVars>>

-----------------------------------------------------------------------------
(* The chain.                                                               *)

Grow(events) ==
    /\ Latest < MaxHead
    /\ chain' = Append(chain, events)
    /\ UNCHANGED <<reorgs, fileVars, run>>

(* A reorg shows as other events in a block of the last Margin ones.        *)
Reorg(b, events) ==
    /\ reorgs < MaxReorgs
    /\ b + Margin > Latest
    /\ chain' = [chain EXCEPT ![b] = events]
    /\ reorgs' = reorgs + 1
    /\ UNCHANGED <<fileVars, run>>

Chain ==
    \/ \E events \in SUBSET Events : Grow(events)
    \/ \E b \in 1..Latest, events \in SUBSET Events : Reorg(b, events)

Init ==
    /\ chain = <<>>
    /\ reorgs = 0
    /\ files = <<>>
    /\ path = 0
    /\ part = 0
    /\ downloads = 0
    /\ run = [p \in Procs |-> Idle]

Open(p) == Look(p) \/ Create(p) \/ Fresh(p) \/ Trim(p)

(* The endpoint serves a cache that ends before the margin.                 *)
Served == Monus(Deployed, 1)..Larger(Monus(Latest, Margin), Monus(Deployed, 1))
Install(p) ==
    \/ Seed(p) \/ SeedOpened(p) \/ NoDownload(p) \/ Download(p)
    \/ \E t \in Served : \E body \in SUBSET Logged(chain, Deployed, t) : Fill(p, t, body)
    \/ Check(p) \/ Rename(p)

Fetching(p) ==
    \/ AskLatest(p)
    \/ \E from \in Deployed..(run[p].to + 1) : ReadCache(p, from)
    \/ HydrateOpened(p) \/ Fetch(p) \/ Records(p) \/ WriteHeader(p)
    \/ Spent(p) \/ SpentOpened(p) \/ Logs(p)

Command(p) ==
    \/ \E cmd \in {"sync", "hydrate"} : Start(p, cmd)
    \/ Open(p)
    \/ Install(p)
    \/ Fetching(p)
    \/ Fail(p)

Next == Chain \/ \E p \in Procs : Command(p)

Spec == Init /\ [][Next]_vars

(* A command that is at work goes on, hydrate-local-cache is run again and  *)
(* again, and from some moment on no command is cut off: one that ends has  *)
(* come to its end.                                                         *)
Fairness ==
    /\ \A p \in Procs :
          /\ WF_vars(Open(p) \/ Install(p) \/ Fetching(p))
          /\ SF_vars(Start(p, "hydrate"))
    /\ <>[][\A p \in Procs : Fail(p) => Open(p) \/ Fetching(p)]_vars

FairSpec == Spec /\ Fairness

-----------------------------------------------------------------------------
(* Properties.                                                              *)

TypeOK ==
    /\ chain \in Seq(SUBSET Events)
    /\ reorgs \in Nat
    /\ files \in Seq(File)
    /\ path \in 0..Len(files)
    /\ part \in 0..Len(files)
    /\ downloads \in Nat
    /\ run \in [Procs -> Locals]

(* The file as the next command finds it.                                   *)
Cache == files[path]

(* A cache that opens holds what the chain logged through the block that    *)
(* its header names: no gap, no event of a block that was replaced, however *)
(* commands interleave or end (reorg_safe_window, extend).                  *)
CacheNeverLies ==
    path # 0 /\ ~Cache.blank /\ Whole(Cache)
        => Cache.hdr.recs = Logged(chain, Deployed, Cache.hdr.through)

(* Whatever a command leaves behind when it fails, the next one can open    *)
(* the cache: the header never counts records that are not there.           *)
CacheOpens == path # 0 /\ ~Cache.blank => Whole(Cache)

(* What a sync hands to the indexer is what the chain holds in the blocks   *)
(* that were asked for, when the fetch ends: the part from the cache cannot *)
(* have been replaced (CachingSyncer::sync).                                *)
SyncMatchesChain ==
    [][\A p \in Procs :
          Fetch(p) /\ run[p].goal = "sync"
              => Delivered(p) = Logged(chain, run[p].from, run[p].to)]_vars

(* The nullifiers that the notes are checked against are exactly those that *)
(* the pool has logged, cached or not (spent_nullifiers).                   *)
SpentMatchesChain ==
    [][\A p \in Procs :
          Logs(p) => Answer(p) = SpentIn(Logged(chain, Deployed, Latest))]_vars

(* The blocks that the cache covers only become more, in spite of seeding,  *)
(* failures and the size cap.                                               *)
CacheOnlyGrows ==
    [][path # 0 /\ ~Cache.blank
          => path' # 0 /\ Cache.hdr.through <= Cache'.hdr.through]_vars

(* extend stores nothing that takes the file beyond the cap, and does not   *)
(* claim blocks whose records it left out.                                  *)
CapIsKept ==
    [][\A p \in Procs :
          WriteHeader(p) =>
              /\ run[p].next.recs = run[p].hdr.recs
                 \/ Cardinality(run[p].next.recs) <= MaxRecords
              /\ run[p].next.recs = Logged(chain, Deployed, run[p].next.through)]_vars

(* Run often enough, hydrate brings the cache up to the margin of a chain   *)
(* that stands still, unless the cap is in the way.                         *)
CacheCatchesUp ==
    Latest = MaxHead ~>
        LET safe == Monus(MaxHead, Margin)
        IN  \/ path # 0 /\ Cache.hdr.through >= safe
            \/ Cardinality(Logged(chain, Deployed, safe)) > MaxRecords
=============================================================================
