------------------------ MODULE SyncCacheAloneProofs ------------------------
(***************************************************************************)
(* Theorems about SyncCache when one command runs at a time: whatever a    *)
(* command leaves behind when it is cut off, the next one can open the     *)
(* cache, and the blocks it covers only become more.                       *)
(***************************************************************************)
EXTENDS SyncCacheProofs

Alone == Overlap = FALSE

(* The file that is there opens, and nobody is about to overwrite it.       *)
PathOpens(fs, pa, pt) ==
    pa # 0 => /\ pa # pt /\ pa \in DOMAIN fs
              /\ ~fs[pa].blank => Whole(fs[pa])

(* The command has the file, and the header that it holds is the file's.    *)
HasFile(l, fs, pa) ==
    pa # 0 /\ l.ino = pa /\ ~fs[pa].blank /\ l.hdr = fs[pa].hdr

(* A download replaces no more than an empty cache.                         *)
NothingToLose(fs, pa) == pa # 0 => fs[pa].blank \/ fs[pa].hdr.through < Deployed

HoldsFile(l, fs, pa, pt) ==
    /\ l.pc = "create" => pa = 0
    /\ l.pc = "fresh" => pa # 0 /\ l.ino = pa /\ fs[pa].blank /\ l.hdr = FreshHeader
    /\ l.pc \in {"trim", "opened", "fetch", "records", "header"} => HasFile(l, fs, pa)
    /\ l.pc = "header" => l.next.recs \ l.hdr.recs \subseteq fs[pa].body
    /\ l.pc \in {"download", "fill", "check", "rename"} => NothingToLose(fs, pa)
    /\ l.pc = "fill" => l.ino = pt /\ pt # 0
    /\ l.pc \in {"check", "rename"} /\ pt # 0 /\ ~fs[pt].blank =>
         fs[pt].hdr.through >= Monus(Deployed, 1)
    /\ l.pc = "rename" /\ pt # 0 => ~fs[pt].blank /\ Whole(fs[pt])

OneRuns == \A p, q \in Procs : ~Off(p) /\ ~Off(q) => p = q

AInv ==
    /\ IInv
    /\ OneRuns
    /\ PathOpens(files, path, part)
    /\ \A p \in Procs : HoldsFile(run[p], files, path, part)

-----------------------------------------------------------------------------
(* The command that moves is the only one at work.                          *)
LEMMA MoveKeeps ==
    ASSUME AInv, IInv', NEW p \in Procs, ~Off(p) \/ \A q \in Procs : Off(q),
           PathOpens(files', path', part'),
           \E l : HoldsFile(l, files', path', part') /\ run' = [run EXCEPT ![p] = l]
    PROVE  AInv'
<1>1. PICK l : HoldsFile(l, files', path', part') /\ run' = [run EXCEPT ![p] = l]
  OBVIOUS
<1>2. run \in [Procs -> Locals] /\ run' \in [Procs -> Locals]
  BY DEF AInv, IInv, TypeOK
<1>3. \A q \in Procs : q # p => run[q].pc = "off" /\ run'[q] = run[q]
  BY <1>1, <1>2 DEF AInv, OneRuns, Off
<1>4. run'[p] = l
  BY <1>1, <1>2
<1>5. OneRuns'
  BY <1>3 DEF OneRuns, Off
<1>6. ASSUME NEW q \in Procs  PROVE HoldsFile(run'[q], files', path', part')
  <2>1. CASE q = p
    BY <1>1, <1>4, <2>1
  <2>2. CASE q # p
    <3>1. run'[q].pc = "off"
      BY <1>3, <2>2
    <3> QED
      BY <3>1 DEF HoldsFile
  <2> QED
    BY <2>1, <2>2
<1> QED
  BY <1>5, <1>6 DEF AInv

(* A step that leaves the files alone.                                      *)
LEMMA LocalMoveKeeps ==
    ASSUME AInv, IInv', NEW p \in Procs, ~Off(p) \/ \A q \in Procs : Off(q),
           UNCHANGED fileVars,
           \E l : HoldsFile(l, files, path, part) /\ run' = [run EXCEPT ![p] = l]
    PROVE  AInv'
<1>1. files' = files /\ path' = path /\ part' = part
  BY DEF fileVars
<1>2. PathOpens(files', path', part')
  BY <1>1 DEF AInv
<1>3. \E l : HoldsFile(l, files', path', part') /\ run' = [run EXCEPT ![p] = l]
  BY <1>1
<1> QED
  BY <1>2, <1>3, MoveKeeps

Free == Places \ {"create", "fresh", "trim", "opened", "fetch", "records", "header",
                  "download", "fill", "check", "rename"}

LEMMA FreeHolds ==
    ASSUME NEW l, NEW fs, NEW pa, NEW pt, l.pc \in Free
    PROVE  HoldsFile(l, fs, pa, pt)
BY DEF HoldsFile, Free

(* Commands that go to a place where they hold nothing.                     *)
LEMMA FreeMoves ==
    ASSUME IInv, NEW p \in Procs, NEW cmd, NEW pc \in Free,
           Begin(p, cmd, pc) \/ Goto(p, pc) \/ Stop(p) \/ GoOn(p), NEW fs, NEW pa, NEW pt
    PROVE  \E l : HoldsFile(l, fs, pa, pt) /\ run' = [run EXCEPT ![p] = l]
<1>1. \E l : l.pc \in Free /\ run' = [run EXCEPT ![p] = l]
  <2>1. CASE Begin(p, cmd, pc)
    <3>1. [Idle EXCEPT !.cmd = cmd, !.pc = pc].pc = pc
      BY DEF Idle
    <3> QED
      BY <2>1, <3>1 DEF Begin
  <2>2. CASE Goto(p, pc)
    <3>1. [run[p] EXCEPT !.pc = pc].pc = pc
      BY Facts DEF Locals
    <3>2. run' = [run EXCEPT ![p] = [run[p] EXCEPT !.pc = pc]]
      BY <2>2 DEF Goto
    <3> QED
      BY <3>1, <3>2
  <2>3. CASE Stop(p)
    BY <2>3 DEF Stop, Idle, Free, Places
  <2>4. CASE GoOn(p)
    <3>1. [Idle EXCEPT !.cmd = run[p].cmd, !.pc = "head"].pc = "head" /\ "head" \in Free
      BY DEF Idle, Free, Places
    <3> QED
      BY <2>4, <3>1 DEF GoOn, Begin
  <2> QED
    BY <2>1, <2>2, <2>3, <2>4
<1> QED
  BY <1>1, FreeHolds
-----------------------------------------------------------------------------
(* What the command that moves knows.                                       *)
LEMMA AFacts ==
    ASSUME AInv
    PROVE  /\ IInv /\ files \in Seq(File) /\ Len(files) \in Nat
           /\ path \in 0..Len(files) /\ part \in 0..Len(files)
           /\ DOMAIN files = 1..Len(files)
           /\ PathOpens(files, path, part)
           /\ \A p \in Procs : HoldsFile(run[p], files, path, part) /\ run[p] \in Locals
BY Facts DEF AInv, IInv, TypeOK

LEMMA StartAlone ==
    ASSUME Alone, AInv, IInv', NEW p \in Procs, NEW cmd \in {"sync", "hydrate"}, Start(p, cmd)
    PROVE  AInv'
<1>1. /\ \A q \in Procs : Off(q)
      /\ UNCHANGED fileVars
      /\ Begin(p, cmd, IF Endpoint THEN "seed" ELSE "head")
  BY DEF Alone, Start
<1>2. (IF Endpoint THEN "seed" ELSE "head") \in Free
  BY DEF Free, Places
<1> QED
  BY <1>1, <1>2, AFacts, FreeMoves, LocalMoveKeeps

(* A command that ends, or goes past the seed.                              *)
LEMMA LeaveAlone ==
    ASSUME AInv, IInv', NEW p \in Procs, ~Off(p), UNCHANGED fileVars,
           NEW cmd, NEW pc \in Free, Begin(p, cmd, pc) \/ Goto(p, pc) \/ Stop(p) \/ GoOn(p)
    PROVE  AInv'
BY AFacts, FreeMoves, LocalMoveKeeps

LEMMA LookAlone == ASSUME AInv, IInv', NEW p \in Procs, Look(p) PROVE AInv'
<1> DEFINE f == files[path]
<1>1. UNCHANGED fileVars /\ ~Off(p) /\ run[p] \in Locals /\ "off" \in Free
  BY AFacts DEF Look, At, Off, Free, Places
<1>2. CASE path = 0
  <2> DEFINE l == [run[p] EXCEPT !.pc = "create"]
  <2>1. run' = [run EXCEPT ![p] = l]
    BY <1>2 DEF Look, Goto
  <2>2. l.pc = "create"
    BY <1>1 DEF Locals
  <2> HIDE DEF l
  <2>3. HoldsFile(l, files, path, part)
    BY <1>2, <2>2 DEF HoldsFile
  <2> QED
    BY <1>1, <2>1, <2>3, LocalMoveKeeps
<1>3. CASE path # 0 /\ f.blank
  <2> DEFINE l == [run[p] EXCEPT !.ino = path, !.hdr = FreshHeader, !.pc = "fresh"]
  <2>1. run' = [run EXCEPT ![p] = l]
    BY <1>3 DEF Look
  <2>2. l.pc = "fresh" /\ l.ino = path /\ l.hdr = FreshHeader
    BY <1>1 DEF Locals
  <2> HIDE DEF l
  <2>3. HoldsFile(l, files, path, part)
    BY <1>3, <2>2 DEF HoldsFile
  <2> QED
    BY <1>1, <2>1, <2>3, LocalMoveKeeps
<1>4. CASE path # 0 /\ ~f.blank /\ Whole(f)
  <2> DEFINE pc == IF f.body = f.hdr.recs THEN "opened" ELSE "trim"
             l == [run[p] EXCEPT !.ino = path, !.hdr = f.hdr, !.pc = pc]
  <2>1. run' = [run EXCEPT ![p] = l]
    BY <1>4 DEF Look
  <2>2. pc \in {"opened", "trim"}
    OBVIOUS
  <2> HIDE DEF pc
  <2>3. l.pc = pc /\ l.ino = path /\ l.hdr = files[path].hdr
    BY <1>1 DEF Locals
  <2> HIDE DEF l
  <2>4. HoldsFile(l, files, path, part)
    BY <1>4, <2>2, <2>3 DEF HoldsFile, HasFile
  <2> QED
    BY <1>1, <2>1, <2>4, LocalMoveKeeps
<1>5. CASE path # 0 /\ ~f.blank /\ ~Whole(f)
  BY <1>5, AFacts DEF PathOpens
<1> QED
  BY <1>2, <1>3, <1>4, <1>5

LEMMA SeedAlone ==
    ASSUME AInv, IInv', NEW p \in Procs, Seed(p) \/ SeedOpened(p) \/ NoDownload(p)
    PROVE  AInv'
<1>1. UNCHANGED fileVars /\ ~Off(p) /\ run[p] \in Locals
  BY AFacts DEF Seed, SeedOpened, NoDownload, At, Off
<1>2. "head" \in Free /\ "open" \in Free
  BY DEF Free, Places
<1>3. CASE Seed(p) /\ path # 0
  <2> DEFINE l == [run[p] EXCEPT !.goal = "seed", !.pc = "open"]
  <2>1. run' = [run EXCEPT ![p] = l] /\ l.pc = "open"
    BY <1>1, <1>3 DEF Seed, Locals
  <2> HIDE DEF l
  <2> QED
    BY <1>1, <1>2, <2>1, FreeHolds, LocalMoveKeeps
<1>4. CASE Seed(p) /\ path = 0
  <2> DEFINE l == [run[p] EXCEPT !.pc = "download"]
  <2>1. run' = [run EXCEPT ![p] = l] /\ l.pc = "download"
    BY <1>1, <1>4 DEF Seed, Goto, Locals
  <2> HIDE DEF l
  <2>2. HoldsFile(l, files, path, part)
    BY <1>4, <2>1 DEF HoldsFile, NothingToLose
  <2> QED
    BY <1>1, <2>1, <2>2, LocalMoveKeeps
<1>5. CASE SeedOpened(p) /\ IsEmpty(run[p].hdr)
  <2> DEFINE l == [Idle EXCEPT !.cmd = run[p].cmd, !.pc = "download"]
  <2>1. run' = [run EXCEPT ![p] = l] /\ l.pc = "download"
    BY <1>1, <1>5, IdleType DEF SeedOpened, Begin, Locals
  <2> HIDE DEF l
  <2>2. HasFile(run[p], files, path) /\ run[p].hdr.through < Deployed
    BY <1>5, AFacts DEF SeedOpened, At, HoldsFile, IsEmpty
  <2>3. HoldsFile(l, files, path, part)
    BY <2>1, <2>2 DEF HoldsFile, HasFile, NothingToLose
  <2> QED
    BY <1>1, <2>1, <2>3, LocalMoveKeeps
<1>6. CASE (SeedOpened(p) /\ ~IsEmpty(run[p].hdr)) \/ NoDownload(p)
  <2>1. GoOn(p)
    BY <1>6 DEF SeedOpened, NoDownload
  <2> QED
    BY <1>1, <1>2, <2>1, LeaveAlone
<1> QED
  BY <1>3, <1>4, <1>5, <1>6

LEMMA AskAlone == ASSUME AInv, IInv', NEW p \in Procs, AskLatest(p) PROVE AInv'
<1> DEFINE l == [Idle EXCEPT !.cmd = run[p].cmd, !.goal = run[p].cmd, !.to = Latest,
                             !.pc = "open"]
<1>1. /\ run' = [run EXCEPT ![p] = l] /\ UNCHANGED fileVars /\ ~Off(p)
      /\ l.pc = "open" /\ "open" \in Free
  BY IdleType DEF AskLatest, Locals, At, Off, Free, Places
<1> HIDE DEF l
<1> QED
  BY <1>1, FreeHolds, LocalMoveKeeps

LEMMA ReadAlone ==
    ASSUME AInv, IInv', NEW p \in Procs, NEW from, ReadCache(p, from)
    PROVE  AInv'
<1> DEFINE w == ReorgSafeWindow(from, run[p].to, run[p].hdr.through)
           cached == {r \in run[p].hdr.recs : r.block \in from..Smaller(w.cached, run[p].to)}
           pc == IF w.rpc <= run[p].to THEN "fetch" ELSE "spent"
           l == [run[p] EXCEPT !.from = from, !.rpc = w.rpc, !.got = cached, !.pc = pc]
<1>1. /\ run' = [run EXCEPT ![p] = l] /\ UNCHANGED fileVars /\ ~Off(p)
      /\ run[p] \in Locals /\ HasFile(run[p], files, path)
  BY AFacts DEF ReadCache, At, Off, HoldsFile
<1>2. pc \in {"fetch", "spent"}
  OBVIOUS
<1> HIDE DEF w, cached, pc
<1>3. l.pc = pc /\ l.ino = run[p].ino /\ l.hdr = run[p].hdr
  BY <1>1 DEF Locals
<1> HIDE DEF l
<1>4. HoldsFile(l, files, path, part)
  BY <1>1, <1>2, <1>3 DEF HoldsFile, HasFile
<1> QED
  BY <1>1, <1>4, LocalMoveKeeps

LEMMA HydrateAlone == ASSUME AInv, IInv', NEW p \in Procs, HydrateOpened(p) PROVE AInv'
<1> DEFINE from == Larger(run[p].hdr.through + 1, Deployed)
           l == [run[p] EXCEPT !.from = from, !.rpc = from, !.pc = "fetch"]
<1>1. /\ UNCHANGED fileVars /\ ~Off(p) /\ run[p] \in Locals /\ HasFile(run[p], files, path)
      /\ "off" \in Free
  BY AFacts DEF HydrateOpened, At, Off, HoldsFile, Free, Places
<1>2. CASE Stop(p)
  BY <1>1, <1>2, LeaveAlone
<1>3. CASE run' = [run EXCEPT ![p] = l]
  <2> HIDE DEF from
  <2>1. l.pc = "fetch" /\ l.ino = run[p].ino /\ l.hdr = run[p].hdr
    BY <1>1 DEF Locals
  <2> HIDE DEF l
  <2>2. HoldsFile(l, files, path, part)
    BY <1>1, <2>1 DEF HoldsFile, HasFile
  <2> QED
    BY <1>1, <1>3, <2>2, LocalMoveKeeps
<1> QED
  BY <1>2, <1>3 DEF HydrateOpened

LEMMA FetchAlone == ASSUME AInv, IInv', NEW p \in Procs, Fetch(p) PROVE AInv'
<1> DEFINE r == run[p]
           safe == ReorgSafeWindow(r.from, r.to, r.hdr.through).safe
           next == Extended(r.hdr, safe, {x \in Fetched(p) : x.block <= safe})
           l == [Idle EXCEPT !.cmd = r.cmd, !.goal = r.goal, !.ino = r.ino,
                             !.hdr = r.hdr, !.next = next, !.pc = "records"]
<1>1. /\ UNCHANGED fileVars /\ ~Off(p) /\ r \in Locals /\ HasFile(r, files, path)
      /\ "spent" \in Free
  BY AFacts DEF Fetch, At, Off, HoldsFile, Free, Places
<1>2. run' = [run EXCEPT ![p] = l] \/ Begin(p, r.cmd, "spent")
  BY DEF Fetch
<1>3. CASE run' = [run EXCEPT ![p] = l]
  <2> HIDE DEF next
  <2>1. l.pc = "records" /\ l.ino = r.ino /\ l.hdr = r.hdr
    BY IdleType DEF Locals
  <2> HIDE DEF l
  <2>2. HoldsFile(l, files, path, part)
    BY <1>1, <2>1 DEF HoldsFile, HasFile
  <2> QED
    BY <1>1, <1>3, <2>2, LocalMoveKeeps
<1>4. CASE Begin(p, r.cmd, "spent")
  BY <1>1, <1>4, LeaveAlone
<1> QED
  BY <1>2, <1>3, <1>4

LEMMA SpentAlone ==
    ASSUME AInv, IInv', NEW p \in Procs, Spent(p) \/ SpentOpened(p) \/ Logs(p)
    PROVE  AInv'
<1>1. UNCHANGED fileVars /\ ~Off(p) /\ {"logs", "open", "off"} \subseteq Free
  BY DEF Spent, SpentOpened, Logs, At, Off, Free, Places
<1>2. \E l : run' = [run EXCEPT ![p] = l] /\ l.pc \in Free
  <2>1. CASE Spent(p)
    <3> DEFINE l == [Idle EXCEPT !.goal = "spent", !.from = Deployed,
                                 !.pc = IF path = 0 THEN "logs" ELSE "open"]
    <3>1. run' = [run EXCEPT ![p] = l] /\ l.pc \in {"logs", "open"}
      BY <2>1, IdleType DEF Spent, Locals
    <3> HIDE DEF l
    <3> QED
      BY <1>1, <3>1
  <2>2. CASE SpentOpened(p)
    <3> DEFINE l == [Idle EXCEPT !.goal = "spent", !.got = run[p].hdr.recs,
                                 !.from = NextBlock(run[p].hdr), !.pc = "logs"]
    <3>1. run' = [run EXCEPT ![p] = l] /\ l.pc = "logs"
      BY <2>2, IdleType DEF SpentOpened, Locals
    <3> HIDE DEF l
    <3> QED
      BY <1>1, <3>1
  <2>3. CASE Logs(p)
    <3>1. run' = [run EXCEPT ![p] = Idle] /\ Idle.pc = "off"
      BY <2>3 DEF Logs, Stop, Idle
    <3> QED
      BY <1>1, <3>1
  <2> QED
    BY <2>1, <2>2, <2>3
<1> QED
  BY <1>1, <1>2, FreeHolds, LocalMoveKeeps
-----------------------------------------------------------------------------
(* Steps that change the files.                                             *)

LEMMA CreateAlone == ASSUME AInv, IInv', NEW p \in Procs, Create(p) PROVE AInv'
<1> DEFINE l == [run[p] EXCEPT !.ino = path', !.hdr = FreshHeader, !.pc = "fresh"]
<1>1. /\ run' = [run EXCEPT ![p] = l] /\ ~Off(p) /\ run[p] \in Locals
      /\ path = 0 /\ part' = part
      /\ files' = Append(files, BlankFile) /\ path' = Len(files) + 1
  BY AFacts DEF Create, At, Off, HoldsFile, BlankFile
<1>2. l.pc = "fresh" /\ l.ino = path' /\ l.hdr = FreshHeader
  BY <1>1 DEF Locals
<1> HIDE DEF l
<1>3. /\ path' # 0 /\ path' # part' /\ path' \in DOMAIN files'
      /\ files'[path'] = BlankFile
  BY <1>1, AFacts, BlankType
<1>4. files'[path'].blank
  BY <1>3 DEF BlankFile
<1>5. PathOpens(files', path', part')
  BY <1>3, <1>4 DEF PathOpens
<1>6. HoldsFile(l, files', path', part')
  BY <1>2, <1>3, <1>4 DEF HoldsFile
<1> QED
  BY <1>1, <1>5, <1>6, MoveKeeps

(* A step that rewrites the file that the command holds.                    *)
LEMMA RewriteKeeps ==
    ASSUME AInv, IInv', NEW p \in Procs, ~Off(p), path # 0, UNCHANGED <<path, part>>,
           \E g : /\ files' = [files EXCEPT ![path] = g] /\ (~g.blank => Whole(g))
                  /\ \E l : /\ run' = [run EXCEPT ![p] = l]
                            /\ \A fs : fs[path] = g => HoldsFile(l, fs, path, part)
    PROVE  AInv'
<1>1. PICK g : /\ files' = [files EXCEPT ![path] = g] /\ (~g.blank => Whole(g))
               /\ \E l : /\ run' = [run EXCEPT ![p] = l]
                         /\ \A fs : fs[path] = g => HoldsFile(l, fs, path, part)
  OBVIOUS
<1>2. path \in DOMAIN files /\ path # part
  BY AFacts DEF PathOpens
<1>3. files'[path] = g /\ path \in DOMAIN files'
  BY <1>1, <1>2, AFacts
<1>4. PathOpens(files', path', part')
  BY <1>1, <1>2, <1>3 DEF PathOpens
<1> QED
  BY <1>1, <1>3, <1>4, MoveKeeps

LEMMA FreshAlone == ASSUME AInv, IInv', NEW p \in Procs, Fresh(p) PROVE AInv'
<1> DEFINE g == [files[path] EXCEPT !.blank = FALSE, !.hdr = run[p].hdr]
           l == [run[p] EXCEPT !.pc = "opened"]
<1>1. /\ run[p].ino = path /\ path # 0 /\ run[p].hdr = FreshHeader /\ ~Off(p)
      /\ run[p] \in Locals /\ UNCHANGED <<path, part>> /\ run' = [run EXCEPT ![p] = l]
  BY AFacts DEF Fresh, At, Off, HoldsFile, Goto
<1>2. files' = [files EXCEPT ![path] = g]
  BY <1>1 DEF Fresh
<1>3. path \in DOMAIN files /\ files[path] \in File
  BY <1>1, AFacts
<1>4. /\ ~g.blank /\ g.hdr = FreshHeader /\ g.hdr.recs = {}
      /\ l.pc = "opened" /\ l.ino = path /\ l.hdr = FreshHeader
  BY <1>1, <1>3 DEF File, Locals, FreshHeader
<1> HIDE DEF g, l
<1>5. Whole(g)
  BY <1>4 DEF Whole
<1>6. \A fs : fs[path] = g => HoldsFile(l, fs, path, part)
  BY <1>1, <1>4 DEF HoldsFile, HasFile
<1> QED
  BY <1>1, <1>2, <1>5, <1>6, RewriteKeeps

(* Alone, a file with more than the header counts is only cut.              *)
LEMMA TrimAlone == ASSUME AInv, IInv', NEW p \in Procs, Trim(p) PROVE AInv'
<1> DEFINE g == [files[path] EXCEPT !.body = files[path].body \cap run[p].hdr.recs]
           l == [run[p] EXCEPT !.pc = "opened"]
<1>1. /\ HasFile(run[p], files, path) /\ ~Off(p) /\ run[p] \in Locals
      /\ UNCHANGED <<path, part>> /\ path # 0 /\ run[p].ino = path
  BY AFacts DEF Trim, At, Off, HoldsFile, HasFile
<1>2. files' = [files EXCEPT ![path] = g]
  BY <1>1 DEF Trim
<1>3. path \in DOMAIN files /\ files[path] \in File /\ Whole(files[path])
  BY <1>1, AFacts DEF PathOpens, HasFile
<1>4. files[path].body \cap run[p].hdr.recs = run[p].hdr.recs
  BY <1>1, <1>3 DEF Whole, HasFile
<1>5. run' = [run EXCEPT ![p] = l]
  BY <1>1, <1>4 DEF Trim, Goto
<1>6. /\ ~g.blank /\ g.hdr = files[path].hdr /\ g.hdr = run[p].hdr /\ g.body = run[p].hdr.recs
      /\ l.pc = "opened" /\ l.ino = path /\ l.hdr = run[p].hdr
  BY <1>1, <1>3, <1>4 DEF File, Locals, HasFile
<1> HIDE DEF g, l
<1>7. Whole(g)
  BY <1>6 DEF Whole
<1>8. \A fs : fs[path] = g => HoldsFile(l, fs, path, part)
  BY <1>1, <1>6 DEF HoldsFile, HasFile
<1> QED
  BY <1>1, <1>2, <1>5, <1>7, <1>8, RewriteKeeps

LEMMA RecordsAlone == ASSUME AInv, IInv', NEW p \in Procs, Records(p) PROVE AInv'
<1> DEFINE new == run[p].next.recs \ run[p].hdr.recs
           g == [files[path] EXCEPT !.body = files[path].body \cup new]
           l == [run[p] EXCEPT !.pc = "header"]
<1>1. /\ HasFile(run[p], files, path) /\ ~Off(p) /\ run[p] \in Locals
      /\ UNCHANGED <<path, part>> /\ path # 0 /\ run[p].ino = path
  BY AFacts DEF Records, At, Off, HoldsFile, HasFile
<1>2. files' = [files EXCEPT ![path] = g] /\ run' = [run EXCEPT ![p] = l]
  BY <1>1 DEF Records, Goto
<1>3. path \in DOMAIN files /\ files[path] \in File /\ Whole(files[path])
  BY <1>1, AFacts DEF PathOpens, HasFile
<1>4. /\ ~g.blank /\ g.hdr = files[path].hdr /\ g.hdr = run[p].hdr
      /\ g.body = files[path].body \cup new
      /\ l.pc = "header" /\ l.ino = path /\ l.hdr = run[p].hdr /\ l.next = run[p].next
  BY <1>1, <1>3 DEF File, Locals, HasFile
<1> HIDE DEF g, l
<1>5. Whole(g)
  BY <1>3, <1>4 DEF Whole
<1>6. \A fs : fs[path] = g => HoldsFile(l, fs, path, part)
  BY <1>1, <1>4 DEF HoldsFile, HasFile
<1> QED
  BY <1>1, <1>2, <1>5, <1>6, RewriteKeeps

LEMMA HeaderAlone == ASSUME AInv, IInv', NEW p \in Procs, WriteHeader(p) PROVE AInv'
<1> DEFINE g == [files[path] EXCEPT !.hdr = run[p].next]
<1>1. /\ HasFile(run[p], files, path) /\ ~Off(p) /\ run[p] \in Locals
      /\ UNCHANGED <<path, part>> /\ path # 0 /\ run[p].ino = path
      /\ run[p].next.recs \ run[p].hdr.recs \subseteq files[path].body
  BY AFacts DEF WriteHeader, At, Off, HoldsFile, HasFile
<1>2. files' = [files EXCEPT ![path] = g]
  BY <1>1 DEF WriteHeader
<1>3. path \in DOMAIN files /\ files[path] \in File /\ Whole(files[path])
  BY <1>1, AFacts DEF PathOpens, HasFile
<1>4. g.hdr = run[p].next /\ g.body = files[path].body
  BY <1>3 DEF File
<1> HIDE DEF g
<1>5. Whole(g)
  BY <1>1, <1>3, <1>4 DEF Whole, HasFile
<1>6. \E l : run' = [run EXCEPT ![p] = l] /\ l.pc \in Free
  <2>1. CASE Begin(p, run[p].cmd, "spent")
    <3> DEFINE l == [Idle EXCEPT !.cmd = run[p].cmd, !.pc = "spent"]
    <3>1. run' = [run EXCEPT ![p] = l] /\ l.pc = "spent" /\ "spent" \in Free
      BY <2>1, IdleType DEF Begin, Locals, Free, Places
    <3> HIDE DEF l
    <3> QED
      BY <3>1
  <2>2. CASE Stop(p)
    <3>1. run' = [run EXCEPT ![p] = Idle] /\ Idle.pc = "off" /\ "off" \in Free
      BY <2>2 DEF Stop, Idle, Free, Places
    <3> QED
      BY <3>1
  <2> QED
    BY <2>1, <2>2 DEF WriteHeader
<1>7. \E l : /\ run' = [run EXCEPT ![p] = l]
             /\ \A fs : fs[path] = g => HoldsFile(l, fs, path, part)
  BY <1>6, FreeHolds
<1> QED
  BY <1>1, <1>2, <1>5, <1>7, RewriteKeeps
-----------------------------------------------------------------------------
(* Steps on the .bin.part file.                                             *)

(* The file of the cache stays as it is.                                    *)
PathKept ==
    /\ path' = path
    /\ path # 0 => path # part' /\ path \in DOMAIN files' /\ files'[path] = files[path]

LEMMA PartKeeps ==
    ASSUME AInv, IInv', NEW p \in Procs, ~Off(p), PathKept,
           \E l : HoldsFile(l, files', path, part') /\ run' = [run EXCEPT ![p] = l]
    PROVE  AInv'
<1>1. PathOpens(files', path', part')
  BY AFacts DEF PathOpens, PathKept
<1>2. path' = path
  BY DEF PathKept
<1> QED
  BY <1>1, <1>2, MoveKeeps

LEMMA DownloadAlone == ASSUME AInv, IInv', NEW p \in Procs, Download(p) PROVE AInv' /\ PathKept
<1> DEFINE l == [run[p] EXCEPT !.ino = part', !.pc = "fill"]
<1>1. /\ run' = [run EXCEPT ![p] = l] /\ ~Off(p) /\ run[p] \in Locals /\ path' = path
      /\ NothingToLose(files, path)
  BY AFacts DEF Download, At, Off, HoldsFile
<1>2. l.pc = "fill" /\ l.ino = part'
  BY <1>1 DEF Locals
<1> HIDE DEF l
<1>3. PathKept /\ part' # 0
  <2>1. CASE part = 0
    <3>1. files' = Append(files, BlankFile) /\ part' = Len(files) + 1
      BY <2>1 DEF Download, BlankFile
    <3> QED
      BY <1>1, <3>1, AFacts DEF PathKept, PathOpens
  <2>2. CASE part # 0
    <3>1. files' = [files EXCEPT ![part] = BlankFile] /\ part' = part
      BY <2>2 DEF Download, BlankFile
    <3> QED
      BY <1>1, <2>2, <3>1, AFacts DEF PathKept, PathOpens
  <2> QED
    BY <2>1, <2>2
<1>4. NothingToLose(files', path)
  BY <1>1, <1>3 DEF NothingToLose, PathKept
<1>5. HoldsFile(l, files', path, part')
  BY <1>2, <1>3, <1>4 DEF HoldsFile
<1> QED
  BY <1>1, <1>3, <1>5, PartKeeps

LEMMA FillAlone ==
    ASSUME AInv, IInv', NEW p \in Procs, NEW t \in Served,
           NEW body \in SUBSET Logged(chain, Deployed, t), Fill(p, t, body)
    PROVE  AInv' /\ PathKept
<1> DEFINE h == [through |-> t, recs |-> Logged(chain, Deployed, t)]
           g == [blank |-> FALSE, hdr |-> h, body |-> files[part].body \cup body]
           l == [run[p] EXCEPT !.pc = "check"]
<1>1. /\ run' = [run EXCEPT ![p] = l] /\ ~Off(p) /\ run[p] \in Locals
      /\ path' = path /\ part' = part
      /\ NothingToLose(files, path) /\ run[p].ino = part /\ part # 0
  BY AFacts DEF Fill, At, Off, HoldsFile, Goto
<1>2. files' = [files EXCEPT ![part] = g]
  BY <1>1 DEF Fill
<1>3. l.pc = "check"
  BY <1>1 DEF Locals
<1> HIDE DEF l
<1>4. g.hdr.through >= Monus(Deployed, 1)
  <2>1. Monus(Deployed, 1) \in Nat /\ Monus(Latest, Margin) \in Nat
    BY AFacts, Facts DEF Monus, Latest
  <2>2. t >= Monus(Deployed, 1)
    BY <2>1 DEF Served
  <2> QED
    BY <2>2
<1> HIDE DEF g
<1>5. PathKept /\ files'[part] = g
  BY <1>1, <1>2, AFacts DEF PathKept, PathOpens
<1>6. NothingToLose(files', path)
  BY <1>1, <1>5 DEF NothingToLose, PathKept
<1>7. HoldsFile(l, files', path, part')
  BY <1>1, <1>3, <1>4, <1>5, <1>6 DEF HoldsFile
<1> QED
  BY <1>1, <1>5, <1>7, PartKeeps

LEMMA CheckAlone == ASSUME AInv, IInv', NEW p \in Procs, Check(p) PROVE AInv' /\ PathKept
<1> DEFINE floor == Monus(Deployed, 1)
           l == [run[p] EXCEPT !.pc = "rename"]
<1>1. /\ ~Off(p) /\ run[p] \in Locals /\ path' = path /\ NothingToLose(files, path)
      /\ part # 0 /\ ~files[part].blank => files[part].hdr.through >= floor
  BY AFacts DEF Check, At, Off, HoldsFile
<1>2. floor \in Nat /\ ~EmptyFile.blank /\ Whole(EmptyFile) /\ EmptyFile.hdr.through >= floor
  BY CacheAssumption DEF EmptyFile, FreshHeader, Whole, Monus
<1>3. l.pc = "rename" /\ "head" \in Free
  BY <1>1 DEF Locals, Free, Places
<1> HIDE DEF l, floor
<1>4. CASE part # 0 /\ ~files[part].blank /\ ~Whole(files[part])
  <2>1. files' = files /\ part' = 0 /\ GoOn(p)
    BY <1>4 DEF Check
  <2>2. PathKept
    BY <1>1, <2>1, AFacts DEF PathKept, PathOpens
  <2> QED
    BY <1>1, <1>3, <2>1, <2>2, AFacts, FreeMoves, PartKeeps
<1>5. ASSUME NEW g, PathKept, part' # 0, files'[part'] = g,
             ~g.blank, Whole(g), g.hdr.through >= floor, Goto(p, "rename")
      PROVE  AInv' /\ PathKept
  <2>1. run' = [run EXCEPT ![p] = l]
    BY <1>5 DEF Goto, l
  <2>2. NothingToLose(files', path)
    BY <1>1, <1>5 DEF NothingToLose, PathKept
  <2>3. HoldsFile(l, files', path, part')
    BY <1>3, <1>5, <2>2 DEF HoldsFile, floor
  <2> QED
    BY <1>1, <1>5, <2>1, <2>3, PartKeeps
<1>6. CASE part = 0
  <2>1. files' = Append(files, EmptyFile) /\ part' = Len(files) + 1 /\ Goto(p, "rename")
    BY <1>6 DEF Check, EmptyFile
  <2>2. PathKept /\ part' # 0 /\ files'[part'] = EmptyFile
    BY <1>1, <2>1, AFacts DEF PathKept, PathOpens
  <2> QED
    BY <1>2, <1>5, <2>1, <2>2
<1>7. CASE part # 0 /\ files[part].blank
  <2>1. files' = [files EXCEPT ![part] = EmptyFile] /\ part' = part /\ Goto(p, "rename")
    BY <1>7 DEF Check, EmptyFile
  <2>2. PathKept /\ part' # 0 /\ files'[part'] = EmptyFile
    BY <1>1, <1>7, <2>1, AFacts DEF PathKept, PathOpens
  <2> QED
    BY <1>2, <1>5, <2>1, <2>2
<1>8. CASE part # 0 /\ ~files[part].blank /\ Whole(files[part])
  <2> DEFINE g == [files[part] EXCEPT !.body = files[part].hdr.recs]
  <2>1. files' = [files EXCEPT ![part] = g] /\ part' = part /\ Goto(p, "rename")
    BY <1>8 DEF Check
  <2>2. files[part] \in File
    BY <1>8, AFacts
  <2>3. ~g.blank /\ Whole(g) /\ g.hdr.through >= floor
    BY <1>1, <1>8, <2>2 DEF File, Whole
  <2> HIDE DEF g
  <2>4. PathKept /\ part' # 0 /\ files'[part'] = g
    BY <1>1, <1>8, <2>1, AFacts DEF PathKept, PathOpens
  <2> QED
    BY <1>5, <2>1, <2>3, <2>4
<1> QED
  BY <1>4, <1>6, <1>7, <1>8

LEMMA RenameAlone == ASSUME AInv, IInv', NEW p \in Procs, Rename(p) PROVE AInv'
<1>1. /\ ~Off(p) /\ files' = files /\ GoOn(p) /\ "head" \in Free
      /\ part # 0 => ~files[part].blank /\ Whole(files[part])
  BY AFacts DEF Rename, At, Off, HoldsFile, Free, Places
<1>2. PathOpens(files', path', part')
  BY <1>1, AFacts DEF Rename, PathOpens
<1>3. \E l : HoldsFile(l, files', path', part') /\ run' = [run EXCEPT ![p] = l]
  BY <1>1, AFacts, FreeMoves
<1> QED
  BY <1>1, <1>2, <1>3, MoveKeeps

-----------------------------------------------------------------------------
LEMMA AloneInit == ASSUME Init PROVE AInv
<1>1. run = [p \in Procs |-> Idle] /\ path = 0 /\ IInv /\ Idle.pc = "off" /\ "off" \in Free
  BY InitIInv DEF Init, Idle, Free, Places
<1> QED
  BY <1>1, FreeHolds DEF AInv, OneRuns, Off, PathOpens

LEMMA AloneKeeps == ASSUME Alone, AInv, [Next]_vars PROVE AInv'
<1>1. IInv'
  BY NextKeeps DEF AInv
<1>2. CASE UNCHANGED <<fileVars, run>>
  BY <1>1, <1>2 DEF AInv, OneRuns, Off, fileVars
<1>3. CASE Chain
  BY <1>2, <1>3 DEF Chain, Grow, Reorg
<1>4. ASSUME NEW p \in Procs, Command(p)  PROVE AInv'
  <2>1. CASE Open(p)
    BY <1>1, <2>1, LookAlone, CreateAlone, FreshAlone, TrimAlone DEF Open
  <2>2. CASE Install(p)
    BY <1>1, <2>2, SeedAlone, DownloadAlone, FillAlone, CheckAlone, RenameAlone DEF Install
  <2>3. CASE Fetching(p)
    BY <1>1, <2>3, AskAlone, ReadAlone, HydrateAlone, FetchAlone, RecordsAlone, HeaderAlone,
       SpentAlone DEF Fetching
  <2>4. CASE Fail(p)
    <3>1. UNCHANGED fileVars /\ ~Off(p) /\ Stop(p) /\ "off" \in Free
      BY <2>4 DEF Fail, Free, Places
    <3> QED
      BY <1>1, <3>1, LeaveAlone
  <2>5. ASSUME NEW cmd \in {"sync", "hydrate"}, Start(p, cmd)  PROVE AInv'
    BY <1>1, <2>5, StartAlone
  <2> QED
    BY <1>4, <2>1, <2>2, <2>3, <2>4, <2>5 DEF Command
<1>5. CASE UNCHANGED vars
  BY <1>2, <1>5 DEF vars, fileVars
<1> QED
  BY <1>3, <1>4, <1>5 DEF Next

(* The strengthened invariant of a cache that one command at a time uses.   *)
THEOREM AloneInductive == ASSUME Alone PROVE Spec => []AInv
BY AloneInit, AloneKeeps, PTL DEF Spec

(* Whatever a command leaves behind when it fails, the next one can open    *)
(* the cache (sync_cache.rs:108, 159).                                      *)
THEOREM CacheAlwaysOpens == ASSUME Alone PROVE Spec => []CacheOpens
<1>1. AInv => CacheOpens
  BY DEF AInv, PathOpens, CacheOpens, Cache
<1> QED
  BY <1>1, AloneInductive, PTL
-----------------------------------------------------------------------------
(* The cache never covers less than before.                                 *)
Covers == path # 0 /\ ~Cache.blank => path' # 0 /\ Cache.hdr.through <= Cache'.hdr.through

LEMMA KeptCovers == ASSUME AInv, PathKept PROVE Covers
<1> SUFFICES ASSUME path # 0  PROVE path' # 0 /\ Cache.hdr.through <= Cache'.hdr.through
  BY DEF Covers
<1>1. path' # 0 /\ Cache' = Cache /\ path \in DOMAIN files
  BY AFacts DEF PathKept, Cache
<1>2. Cache.hdr.through \in Nat
  BY <1>1, AFacts, FileTyped DEF Cache, Header
<1> QED
  BY <1>1, <1>2

LEMMA FilesKeptCover ==
    ASSUME AInv, UNCHANGED <<files, path>>  PROVE Covers
<1> SUFFICES ASSUME path # 0  PROVE path' # 0 /\ Cache.hdr.through <= Cache'.hdr.through
  BY DEF Covers
<1>1. path \in DOMAIN files /\ Cache' = Cache
  BY AFacts DEF Cache
<1>2. Cache.hdr.through \in Nat
  BY <1>1, AFacts, FileTyped DEF Cache, Header
<1> QED
  BY <1>1, <1>2

LEMMA OpenCovers == ASSUME AInv, NEW p \in Procs, Open(p) PROVE Covers
<1>1. CASE Look(p)
  BY <1>1, FilesKeptCover DEF Look, fileVars
<1>2. CASE Create(p)
  BY <1>2, AFacts DEF Create, At, HoldsFile, Covers
<1>3. CASE Fresh(p)
  BY <1>3, AFacts DEF Fresh, At, HoldsFile, Covers, Cache
<1>4. CASE Trim(p)
  <2> SUFFICES ASSUME path # 0  PROVE path' # 0 /\ Cache.hdr.through <= Cache'.hdr.through
    BY DEF Covers
  <2>1. path \in DOMAIN files /\ files[path] \in File /\ run[p].ino = path /\ path' = path
    BY <1>4, AFacts DEF Trim, At, HoldsFile, HasFile
  <2>2. files' = [files EXCEPT ![path] = [files[path] EXCEPT !.body =
                      files[path].body \cap run[p].hdr.recs]]
    BY <1>4, <2>1 DEF Trim
  <2>3. Cache'.hdr = Cache.hdr
    BY <2>1, <2>2 DEF Cache, File
  <2>4. Cache.hdr.through \in Nat
    BY <2>1, AFacts, FileTyped DEF Cache, Header
  <2> QED
    BY <2>1, <2>3, <2>4
<1> QED
  BY <1>1, <1>2, <1>3, <1>4 DEF Open

LEMMA RenameCovers == ASSUME AInv, NEW p \in Procs, Rename(p) PROVE Covers
<1>1. CASE part = 0
  BY <1>1, FilesKeptCover DEF Rename
<1>2. CASE part # 0
  <2> SUFFICES ASSUME path # 0, ~Cache.blank
               PROVE  path' # 0 /\ Cache.hdr.through <= Cache'.hdr.through
    BY DEF Covers
  <2>1. /\ path' = part /\ Cache' = files[part] /\ ~files[part].blank
        /\ files[part].hdr.through >= Monus(Deployed, 1)
        /\ Cache.hdr.through < Deployed
    BY <1>2, AFacts DEF Rename, At, HoldsFile, NothingToLose, Cache
  <2>2. path \in DOMAIN files /\ part \in DOMAIN files
    BY <1>2, AFacts
  <2>3. Cache.hdr.through \in Nat /\ files[part].hdr.through \in Nat /\ Deployed \in Nat
    BY <2>2, AFacts, Facts, FileTyped DEF Cache, Header
  <2> QED
    BY <1>2, <2>1, <2>3 DEF Monus
<1> QED
  BY <1>1, <1>2

LEMMA FetchCovers == ASSUME AInv, NEW p \in Procs, Fetching(p) PROVE Covers
<1>1. CASE Records(p)
  <2> SUFFICES ASSUME path # 0  PROVE path' # 0 /\ Cache.hdr.through <= Cache'.hdr.through
    BY DEF Covers
  <2>1. path \in DOMAIN files /\ files[path] \in File /\ run[p].ino = path /\ path' = path
    BY <1>1, AFacts DEF Records, At, HoldsFile, HasFile
  <2>2. files' = [files EXCEPT ![path] = [files[path] EXCEPT !.body =
                      files[path].body \cup (run[p].next.recs \ run[p].hdr.recs)]]
    BY <1>1, <2>1 DEF Records
  <2>3. Cache'.hdr = Cache.hdr
    BY <2>1, <2>2 DEF Cache, File
  <2>4. Cache.hdr.through \in Nat
    BY <2>1, AFacts, FileTyped DEF Cache, Header
  <2> QED
    BY <2>1, <2>3, <2>4
<1>2. CASE WriteHeader(p)
  <2>1. /\ run[p].ino = path /\ path # 0 /\ run[p].hdr = Cache.hdr /\ path' = path
        /\ run[p].hdr.through <= run[p].next.through
    BY <1>2, AFacts, Facts DEF WriteHeader, At, HoldsFile, HasFile, Cache, SoundOn,
       ExtendsWithinCap
  <2>2. path \in DOMAIN files /\ files[path] \in File
    BY <2>1, AFacts
  <2>3. files' = [files EXCEPT ![path] = [files[path] EXCEPT !.hdr = run[p].next]]
    BY <1>2, <2>1 DEF WriteHeader
  <2>4. Cache'.hdr = run[p].next
    BY <2>1, <2>2, <2>3 DEF Cache, File
  <2> QED
    BY <2>1, <2>4 DEF Covers
<1>3. CASE AskLatest(p) \/ HydrateOpened(p) \/ Fetch(p) \/ Spent(p) \/ SpentOpened(p) \/ Logs(p)
  BY <1>3, FilesKeptCover
     DEF AskLatest, HydrateOpened, Fetch, Spent, SpentOpened, Logs, fileVars
<1>4. ASSUME NEW from, ReadCache(p, from)  PROVE Covers
  BY <1>4, FilesKeptCover DEF ReadCache, fileVars
<1> QED
  BY <1>1, <1>2, <1>3, <1>4 DEF Fetching

LEMMA InstallCovers == ASSUME AInv, IInv', NEW p \in Procs, Install(p) PROVE Covers
<1>1. CASE Seed(p) \/ SeedOpened(p) \/ NoDownload(p)
  BY <1>1, FilesKeptCover DEF Seed, SeedOpened, NoDownload, fileVars
<1>2. CASE Rename(p)
  BY <1>2, RenameCovers
<1>3. CASE ~(Seed(p) \/ SeedOpened(p) \/ NoDownload(p) \/ Rename(p))
  BY <1>3, DownloadAlone, FillAlone, CheckAlone, KeptCovers DEF Install
<1> QED
  BY <1>1, <1>2, <1>3

(* The blocks that the cache covers only become more, in spite of seeding,  *)
(* failures, reorgs and the cap.                                            *)
THEOREM CoverageOnlyGrows == ASSUME Alone PROVE Spec => CacheOnlyGrows
<1>1. ASSUME AInv, IInv', [Next]_vars  PROVE Covers
  <2>1. CASE UNCHANGED fileVars
    BY <1>1, <2>1, FilesKeptCover DEF fileVars
  <2>2. CASE Chain \/ UNCHANGED vars
    BY <2>1, <2>2 DEF Chain, Grow, Reorg, vars, fileVars
  <2>3. ASSUME NEW p \in Procs, Command(p)  PROVE Covers
    <3>1. CASE Open(p) \/ Install(p) \/ Fetching(p)
      BY <1>1, <3>1, OpenCovers, InstallCovers, FetchCovers
    <3>2. CASE ~(Open(p) \/ Install(p) \/ Fetching(p))
      BY <2>1, <2>3, <3>2 DEF Command, Start, Fail
    <3> QED
      BY <3>1, <3>2
  <2> QED
    BY <1>1, <2>2, <2>3 DEF Next
<1>2. ASSUME AInv, IInv', [Next]_vars
      PROVE  [path # 0 /\ ~Cache.blank
                => path' # 0 /\ Cache.hdr.through <= Cache'.hdr.through]_vars
  BY <1>1, <1>2 DEF Covers
<1> QED
  BY <1>2, AloneInductive, Inductive, PTL DEF CacheOnlyGrows, Spec
=============================================================================
