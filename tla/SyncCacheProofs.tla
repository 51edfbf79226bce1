-------------------------- MODULE SyncCacheProofs --------------------------
(***************************************************************************)
(* Theorems about SyncCache for any number of processes, events, blocks,   *)
(* reorgs and downloads, any margin and cap, and however commands overlap: *)
(* what a header counts is what the chain logged through its block.        *)
(***************************************************************************)
EXTENDS SyncCache, TLAPS, FiniteSetTheorems, WellFoundedInduction

Chains == Seq(SUBSET Events)

(* No reorg reaches what a header counts, and it is what the chain has.     *)
SettledOn(c, h) ==
    /\ h.recs = Logged(c, Deployed, h.through)
    /\ h.through + Margin <= Len(c) \/ h.through = Monus(Deployed, 1)

(* What the locals of a command hold, at its place.                         *)
ReadPart(l) ==
    /\ l.from >= Deployed
    /\ LET w == ReorgSafeWindow(l.from, l.to, l.hdr.through)
       IN  /\ l.rpc = w.rpc
           /\ l.got = {r \in l.hdr.recs : r.block \in l.from..Smaller(w.cached, l.to)}

FromCache(c, l) ==
    \E h \in Header :
        /\ SettledOn(c, h)
        /\ l.got = h.recs
        /\ l.from = NextBlock(h) \/ (l.from = Deployed /\ h.recs = {})

ExtendsWithinCap(l) ==
    /\ l.hdr.through <= l.next.through
    /\ l.next.recs = l.hdr.recs \/ Cardinality(l.next.recs) <= MaxRecords

SoundOn(c, l) ==
    /\ SettledOn(c, l.hdr) /\ SettledOn(c, l.next)
    /\ l.to <= Len(c)
    /\ l.pc = "fetch" /\ l.goal = "sync" => ReadPart(l)
    /\ l.pc \in {"records", "header"} => ExtendsWithinCap(l)
    /\ l.pc = "logs" => FromCache(c, l)

FilesSettled(c, fs) == \A i \in DOMAIN fs : SettledOn(c, fs[i].hdr)

IInv ==
    /\ TypeOK
    /\ FilesSettled(chain, files)
    /\ \A p \in Procs : SoundOn(chain, run[p])

-----------------------------------------------------------------------------
(* What Logged returns.                                                     *)

LEMMA LoggedHas ==
    ASSUME NEW c \in Chains, NEW a \in Nat, NEW b \in Nat, NEW r
    PROVE  r \in Logged(c, a, b) <=>
             /\ r \in [block : 1..Len(c), event : Events]
             /\ a <= r.block /\ r.block <= b /\ r.event \in c[r.block]
BY DEF Logged, Chains

LEMMA LoggedType ==
    ASSUME NEW c \in Chains, NEW a \in Nat, NEW b \in Nat
    PROVE  Logged(c, a, b) \subseteq Record
<1>1. Len(c) \in Nat
  BY DEF Chains
<1> QED
  BY <1>1, LoggedHas DEF Record

LEMMA LoggedSplit ==
    ASSUME NEW c \in Chains, NEW a \in Nat, NEW b \in Nat, NEW d \in Nat,
           NEW e \in Nat, b <= d, a <= e, e <= b + 1
    PROVE  Logged(c, a, b) \cup Logged(c, e, d) = Logged(c, a, d)
<1>1. ASSUME NEW r  PROVE r \in Logged(c, a, b) \cup Logged(c, e, d) <=> r \in Logged(c, a, d)
  <2>1. Len(c) \in Nat
    BY DEF Chains
  <2>2. r \in [block : 1..Len(c), event : Events] => r.block \in Nat
    BY <2>1
  <2> QED
    BY <2>2, LoggedHas
<1> QED
  BY <1>1

(* Before its first block the pool has logged nothing.                      *)
LEMMA NothingBefore ==
    ASSUME NEW c \in Chains
    PROVE  Logged(c, Deployed, Monus(Deployed, 1)) = {}
<1>1. Len(c) \in Nat /\ Deployed \in Nat /\ Monus(Deployed, 1) \in Nat
  BY CacheAssumption DEF Chains, Monus
<1>2. ASSUME NEW r \in Logged(c, Deployed, Monus(Deployed, 1))  PROVE FALSE
  <2>1. /\ r.block \in 1..Len(c) /\ Deployed <= r.block /\ r.block <= Monus(Deployed, 1)
    BY <1>1, <1>2, LoggedHas
  <2> QED
    BY <1>1, <2>1 DEF Monus
<1> QED
  BY <1>2

LEMMA LoggedStable ==
    ASSUME NEW c \in Chains, NEW e \in Chains, NEW a \in Nat, NEW t \in Nat,
           t <= Len(c), Len(c) <= Len(e), \A i \in 1..t : e[i] = c[i]
    PROVE  Logged(e, a, t) = Logged(c, a, t)
<1>1. ASSUME NEW r  PROVE r \in Logged(e, a, t) <=> r \in Logged(c, a, t)
  <2>1. Len(c) \in Nat /\ Len(e) \in Nat
    BY DEF Chains
  <2>2. CASE r \in [block : 1..Len(e), event : Events] /\ r.block <= t
    <3>1. r.block \in 1..t /\ r.block \in 1..Len(c)
      BY <2>1, <2>2
    <3>2. r \in [block : 1..Len(c), event : Events]
      BY <2>2, <3>1
    <3>3. e[r.block] = c[r.block]
      BY <3>1
    <3> QED
      BY <2>2, <3>2, <3>3, LoggedHas
  <2>3. CASE ~(r \in [block : 1..Len(e), event : Events] /\ r.block <= t)
    <3>1. r \in [block : 1..Len(c), event : Events] => r \in [block : 1..Len(e), event : Events]
      BY <2>1
    <3> QED
      BY <2>3, <3>1, LoggedHas
  <2> QED
    BY <2>2, <2>3
<1> QED
  BY <1>1

(* A chain that changes only within the margin leaves settled headers so.   *)
LEMMA SettledStays ==
    ASSUME NEW c \in Chains, NEW e \in Chains, NEW h \in Header, Len(c) <= Len(e),
           \A i \in 1..Len(c) : i + Margin <= Len(c) => e[i] = c[i],
           SettledOn(c, h)
    PROVE  SettledOn(e, h)
<1>1. /\ Len(c) \in Nat /\ Len(e) \in Nat /\ h.through \in Nat /\ Deployed \in Nat
      /\ Margin \in Nat
  BY CacheAssumption DEF Chains, Header
<1>2. CASE h.through = Monus(Deployed, 1)
  BY <1>2, NothingBefore DEF SettledOn
<1>3. CASE h.through + Margin <= Len(c)
  <2>1. \A i \in 1..h.through : e[i] = c[i]
    BY <1>1, <1>3
  <2>2. Logged(e, Deployed, h.through) = Logged(c, Deployed, h.through)
    BY <1>1, <1>3, <2>1, LoggedStable
  <2> QED
    BY <1>1, <1>3, <2>2 DEF SettledOn
<1> QED
  BY <1>2, <1>3 DEF SettledOn

-----------------------------------------------------------------------------
(* The cap counts records, of which there are finitely many.                *)
LEMMA LoggedFinite ==
    ASSUME NEW c \in Chains, NEW a, NEW b
    PROVE  IsFiniteSet(Logged(c, a, b))
<1> DEFINE D == (1..Len(c)) \X Events
           T == [block : 1..Len(c), event : Events]
           f == [x \in D |-> [block |-> x[1], event |-> x[2]]]
<1>1. IsFiniteSet(1..Len(c)) /\ IsFiniteSet(Events)
  <2>1. Len(c) \in Int /\ 1 \in Int
    BY DEF Chains
  <2> QED
    BY <2>1, FS_Interval, FS_Union, CacheAssumption DEF Events
<1>2. IsFiniteSet(D)
  BY <1>1, FS_Product
<1>3. f \in Surjection(D, T)
  <2>1. f \in [D -> T]
    OBVIOUS
  <2>2. ASSUME NEW t \in T  PROVE \E x \in D : f[x] = t
    <3>1. <<t.block, t.event>> \in D /\ f[<<t.block, t.event>>] = t
      OBVIOUS
    <3> QED
      BY <3>1
  <2> QED
    BY <2>1, <2>2 DEF Surjection
<1>4. IsFiniteSet(T)
  BY <1>2, <1>3, FS_Surjection
<1>5. Logged(c, a, b) \subseteq T
  BY DEF Logged
<1> QED
  BY <1>4, <1>5, FS_Subset

LEMMA LargestBlock ==
    ASSUME NEW N \in Nat, NEW S \in SUBSET (0..N), S # {}
    PROVE  \E i \in S : \A j \in S : j <= i
<1> DEFINE R == {ss \in Nat \X Nat : ss[1] < ss[2]}
           T == {N - i : i \in S}
<1>1. IsWellFoundedOn(R, Nat)
  BY NatLessThanWellFounded DEF OpToRel
<1>2. T \subseteq Nat
  <2> SUFFICES ASSUME NEW i \in S  PROVE N - i \in Nat
    OBVIOUS
  <2>1. i \in 0..N
    OBVIOUS
  <2> QED
    BY <2>1
<1>3. T # {}
  OBVIOUS
<1> HIDE DEF R, T
<1>4. PICK x \in T : \A y \in T : ~(<<y, x>> \in R)
  BY <1>1, <1>2, <1>3, WFMin
<1>5. PICK i \in S : x = N - i
  BY <1>4 DEF T
<1>6. \A j \in S : ~(N - j < N - i)
  BY <1>2, <1>4, <1>5 DEF R, T
<1> QED
  BY <1>5, <1>6

(* extend keeps the promise of the header it starts from, whatever the cap  *)
(* leaves out, and stores nothing beyond the cap.                           *)
LEMMA ExtendSettles ==
    ASSUME NEW c \in Chains, NEW h \in Header, SettledOn(c, h),
           NEW safe \in Nat, NEW to \in Nat, safe <= to, safe + Margin <= Len(c),
           NextBlock(h) <= safe
    PROVE  LET new == {x \in Logged(c, NextBlock(h), to) : x.block <= safe}
               e == Extended(h, safe, new)
           IN  /\ e \in Header /\ SettledOn(c, e)
               /\ h.through <= e.through /\ h.recs \subseteq e.recs
               /\ e.recs = h.recs \/ Cardinality(e.recs) <= MaxRecords
<1> DEFINE recs == {x \in Logged(c, NextBlock(h), to) : x.block <= safe}
           new == {r \in recs : r.block > h.through}
           upTo(b) == h.recs \cup {x \in new : x.block <= b}
           kept == {r \in new : Cardinality(h.recs \cup
                       {x \in new : x.block <= r.block}) <= MaxRecords}
           reached == {h.through} \cup {r.block : r \in kept}
           top == CHOOSE b \in reached : \A d \in reached : d <= b
           e == Extended(h, safe, recs)
<1>1. /\ h.through \in Nat /\ Deployed \in Nat /\ Margin \in Nat /\ MaxRecords \in Nat
      /\ NextBlock(h) \in Nat /\ h.through + 1 <= NextBlock(h) /\ Deployed <= NextBlock(h)
      /\ h.through < safe /\ Len(c) \in Nat
      /\ NextBlock(h) = h.through + 1 \/ (NextBlock(h) = Deployed /\ h.through < Deployed)
  <2>1. h.through \in Nat /\ Deployed \in Nat /\ Margin \in Nat /\ MaxRecords \in Nat
    BY CacheAssumption DEF Header
  <2>2. Len(c) \in Nat
    BY DEF Chains
  <2>3. NextBlock(h) = IF h.through + 1 > Deployed THEN h.through + 1 ELSE Deployed
    BY DEF NextBlock, Larger
  <2>4. NextBlock(h) \in Nat /\ h.through + 1 <= NextBlock(h) /\ Deployed <= NextBlock(h)
    BY <2>1, <2>3
  <2>5. h.through < safe
    BY <2>1, <2>4
  <2>6. NextBlock(h) = h.through + 1 \/ (NextBlock(h) = Deployed /\ h.through < Deployed)
    BY <2>1, <2>3
  <2> QED
    BY <2>1, <2>2, <2>4, <2>5, <2>6
<1>2. /\ h.recs = Logged(c, Deployed, h.through)
      /\ h.through + Margin <= Len(c) \/ h.through = Monus(Deployed, 1)
  BY DEF SettledOn
<1>3. \A x \in new : /\ x.block \in Nat /\ h.through < x.block /\ x.block <= safe
                      /\ x \in Record
  BY <1>1, LoggedHas, LoggedType
<1>4. new = Logged(c, NextBlock(h), safe)
  BY <1>1, LoggedHas
<1> HIDE DEF new
<1>5. ASSUME NEW b \in Nat, h.through <= b, b <= safe
      PROVE  upTo(b) = Logged(c, Deployed, b)
  <2>1. {x \in new : x.block <= b} = Logged(c, NextBlock(h), b)
    BY <1>1, <1>4, <1>5, LoggedHas
  <2>2. CASE NextBlock(h) = h.through + 1
    BY <1>1, <1>2, <1>5, <2>1, <2>2, LoggedSplit
  <2>3. CASE NextBlock(h) = Deployed /\ h.through < Deployed
    <3>1. ASSUME NEW r  PROVE r \notin Logged(c, Deployed, h.through)
      BY <1>1, <2>3, LoggedHas
    <3>2. h.recs = {}
      BY <1>2, <3>1
    <3> QED
      BY <2>1, <2>3, <3>2
  <2> QED
    BY <1>1, <2>2, <2>3
<1>6. ASSUME NEW b  PROVE IsFiniteSet(upTo(b))
  <2>1. IsFiniteSet(h.recs) /\ IsFiniteSet(new)
    BY <1>2, <1>4, LoggedFinite
  <2>2. IsFiniteSet({x \in new : x.block <= b})
    BY <2>1, FS_Subset
  <2> QED
    BY <2>1, <2>2, FS_Union
<1>7. /\ kept \subseteq new
      /\ \A r \in new : r \in kept <=> Cardinality(upTo(r.block)) <= MaxRecords
  OBVIOUS
<1>8. \A r \in kept, x \in new : x.block <= r.block => x \in kept
  <2> SUFFICES ASSUME NEW r \in kept, NEW x \in new, x.block <= r.block
               PROVE  Cardinality(upTo(x.block)) <= MaxRecords
    BY <1>7
  <2>1. upTo(x.block) \subseteq upTo(r.block)
    BY <1>3, <1>7
  <2>2. Cardinality(upTo(r.block)) <= MaxRecords
    BY <1>7
  <2> HIDE DEF upTo, kept
  <2>3. Cardinality(upTo(x.block)) <= Cardinality(upTo(r.block))
    BY <1>6, <2>1, FS_Subset
  <2>4. Cardinality(upTo(x.block)) \in Nat /\ Cardinality(upTo(r.block)) \in Nat
    BY <1>6, FS_CardinalityType
  <2> QED
    BY <1>1, <2>2, <2>3, <2>4
<1>9. e = [through |-> IF kept = new THEN safe ELSE top, recs |-> h.recs \cup kept]
  BY DEF Extended, new
<1>10. top \in reached /\ \A d \in reached : d <= top
  <2>1. reached \in SUBSET (0..safe) /\ reached # {}
    <3> HIDE DEF kept
    <3>1. \A r \in kept : r.block \in 0..safe
      BY <1>1, <1>3, <1>7
    <3>2. h.through \in 0..safe /\ h.through \in reached
      BY <1>1
    <3> QED
      BY <3>1, <3>2
  <2>2. \E b \in reached : \A d \in reached : d <= b
    BY <2>1, LargestBlock
  <2> QED
    BY <2>2
<1> HIDE DEF kept, upTo, e, top
<1>11. ASSUME kept # {}
       PROVE  \E r \in kept : top = r.block /\ h.recs \cup kept = upTo(r.block)
  <2>1. PICK r \in kept : top = r.block
    <3>1. PICK k \in kept : TRUE
      BY <1>11
    <3>2. k.block <= top /\ h.through < k.block /\ k.block \in Nat
      BY <1>3, <1>7, <1>10, <3>1
    <3>3. top # h.through
      BY <1>1, <3>2
    <3> QED
      BY <1>10, <3>3
  <2>2. \A x \in kept : x.block <= r.block
    BY <1>10, <2>1
  <2>3. kept = {x \in new : x.block <= r.block}
    BY <1>7, <1>8, <2>2
  <2> QED
    BY <2>1, <2>3 DEF upTo
<1>12. \E b \in Nat : /\ h.through <= b /\ b <= safe /\ e.through = b
                      /\ h.recs \cup kept = upTo(b)
                      /\ b = h.through \/ b + Margin <= Len(c)
  <2>1. CASE kept = new
    <3>1. e.through = safe
      BY <1>9, <2>1
    <3>2. upTo(safe) = h.recs \cup kept
      BY <1>3, <2>1 DEF upTo
    <3> QED
      BY <1>1, <3>1, <3>2
  <2>2. CASE kept # new /\ kept = {}
    <3>1. reached = {h.through} /\ top = h.through
      BY <1>10, <2>2
    <3>2. {x \in new : x.block <= h.through} = {}
      BY <1>1, <1>3
    <3>3. upTo(h.through) = h.recs \cup kept
      BY <2>2, <3>2 DEF upTo
    <3> QED
      BY <1>1, <1>9, <2>2, <3>1, <3>3
  <2>3. CASE kept # new /\ kept # {}
    <3>1. PICK r \in kept : top = r.block /\ h.recs \cup kept = upTo(r.block)
      BY <1>11, <2>3
    <3>2. r.block \in Nat /\ h.through < r.block /\ r.block <= safe
      BY <1>3, <1>7
    <3> QED
      BY <1>1, <1>9, <2>3, <3>1, <3>2
  <2> QED
    BY <2>1, <2>2, <2>3
<1>13. PICK b \in Nat : /\ h.through <= b /\ b <= safe /\ e.through = b
                        /\ h.recs \cup kept = upTo(b)
                        /\ b = h.through \/ b + Margin <= Len(c)
  BY <1>12
<1>14. e.recs = h.recs \cup kept /\ e.recs = Logged(c, Deployed, e.through)
  BY <1>5, <1>9, <1>13
<1>15. SettledOn(c, e)
  BY <1>2, <1>13, <1>14 DEF SettledOn
<1>16. e \in Header
  <2>1. e.recs \subseteq Record
    BY <1>1, <1>13, <1>14, LoggedType
  <2> QED
    BY <1>9, <1>13, <2>1 DEF Header
<1>17. e.recs = h.recs \/ Cardinality(e.recs) <= MaxRecords
  <2>1. CASE kept = {}
    BY <1>14, <2>1
  <2>2. CASE kept # {}
    BY <1>7, <1>11, <1>14, <2>2
  <2> QED
    BY <2>1, <2>2
<1> QED
  BY <1>13, <1>14, <1>15, <1>16, <1>17 DEF e
-----------------------------------------------------------------------------
(* The locals of a command.                                                 *)

LEMMA Facts ==
    ASSUME IInv
    PROVE  /\ chain \in Chains /\ Len(chain) \in Nat /\ Deployed \in Nat /\ Margin \in Nat
           /\ files \in Seq(File) /\ run \in [Procs -> Locals]
           /\ \A p \in Procs : /\ run[p] \in Locals /\ SoundOn(chain, run[p])
                               /\ run[p].hdr \in Header /\ run[p].next \in Header
                               /\ run[p].to \in Nat /\ run[p].from \in Nat
BY CacheAssumption DEF IInv, TypeOK, Chains, Locals

LEMMA FreshType == FreshHeader \in Header /\ \A c \in Chains : SettledOn(c, FreshHeader)
<1>1. Monus(Deployed, 1) \in Nat
  BY CacheAssumption DEF Monus
<1> QED
  BY <1>1, NothingBefore DEF FreshHeader, Header, SettledOn

LEMMA IdleType ==
    /\ Idle \in Locals
    /\ Idle.pc = "off" /\ Idle.hdr = FreshHeader /\ Idle.next = FreshHeader /\ Idle.to = 0
BY FreshType DEF Idle, Locals, Places, Goals

Quiet == Places \ {"fetch", "records", "header", "logs"}

LEMMA QuietSound ==
    ASSUME NEW c \in Chains, NEW l, l.pc \in Quiet,
           SettledOn(c, l.hdr), SettledOn(c, l.next), l.to <= Len(c)
    PROVE  SoundOn(c, l)
BY DEF SoundOn, Quiet

LEMMA BeginSound ==
    ASSUME NEW c \in Chains, NEW cmd \in {"sync", "hydrate"}, NEW goal \in Goals,
           NEW pc \in Quiet, NEW to \in Nat, to <= Len(c)
    PROVE  LET l == [Idle EXCEPT !.cmd = cmd, !.goal = goal, !.to = to, !.pc = pc]
           IN  l \in Locals /\ SoundOn(c, l)
<1> DEFINE l == [Idle EXCEPT !.cmd = cmd, !.goal = goal, !.to = to, !.pc = pc]
<1>1. l \in Locals
  BY IdleType DEF Locals, Quiet
<1>2. l.pc = pc /\ l.hdr = FreshHeader /\ l.next = FreshHeader /\ l.to = to
  BY IdleType DEF Locals
<1>3. SettledOn(c, FreshHeader)
  BY FreshType
<1> HIDE DEF l
<1>4. SoundOn(c, l)
  BY <1>2, <1>3, QuietSound
<1> QED
  BY <1>1, <1>4 DEF l

(* Commands that begin, or go back to the start.                            *)
LEMMA BeginType ==
    ASSUME NEW c \in Chains, NEW cmd \in {"sync", "hydrate"}, NEW pc \in Quiet
    PROVE  /\ [Idle EXCEPT !.cmd = cmd, !.pc = pc] \in Locals
           /\ SoundOn(c, [Idle EXCEPT !.cmd = cmd, !.pc = pc])
<1> DEFINE l == [Idle EXCEPT !.cmd = cmd, !.pc = pc]
<1>1. l \in Locals /\ l.pc = pc /\ l.hdr = FreshHeader /\ l.next = FreshHeader /\ l.to = 0
  BY IdleType DEF Locals, Quiet
<1>2. SettledOn(c, FreshHeader) /\ 0 <= Len(c)
  BY FreshType DEF Chains
<1> HIDE DEF l
<1>3. SoundOn(c, l)
  BY <1>1, <1>2, QuietSound
<1> QED
  BY <1>1, <1>3 DEF l

-----------------------------------------------------------------------------
(* What the steps do to the files.                                          *)

LEMMA FileChanged ==
    ASSUME NEW c, NEW fs \in Seq(File), FilesSettled(c, fs), NEW i, NEW g,
           i \in DOMAIN fs => g \in File /\ SettledOn(c, g.hdr)
    PROVE  /\ [fs EXCEPT ![i] = g] \in Seq(File) /\ Len([fs EXCEPT ![i] = g]) = Len(fs)
           /\ FilesSettled(c, [fs EXCEPT ![i] = g])
<1> DEFINE gs == [fs EXCEPT ![i] = g]
<1>1. Len(fs) \in Nat /\ DOMAIN fs = 1..Len(fs) /\ \A j \in 1..Len(fs) : fs[j] \in File
  OBVIOUS
<1>2. gs = [j \in 1..Len(fs) |-> IF j = i THEN g ELSE fs[j]]
  BY <1>1
<1>3. \A j \in 1..Len(fs) : gs[j] \in File /\ SettledOn(c, gs[j].hdr)
  BY <1>1, <1>2 DEF FilesSettled
<1>4. gs \in [1..Len(fs) -> File]
  BY <1>2, <1>3
<1> HIDE DEF gs
<1>5. gs \in Seq(File) /\ Len(gs) = Len(fs)
  BY <1>1, <1>4
<1>6. FilesSettled(c, gs)
  BY <1>3, <1>4 DEF FilesSettled
<1> QED
  BY <1>5, <1>6 DEF gs

LEMMA FileReplaced ==
    ASSUME NEW c, NEW fs \in Seq(File), FilesSettled(c, fs), NEW i,
           NEW g \in File, SettledOn(c, g.hdr)
    PROVE  /\ [fs EXCEPT ![i] = g] \in Seq(File) /\ Len([fs EXCEPT ![i] = g]) = Len(fs)
           /\ FilesSettled(c, [fs EXCEPT ![i] = g])
BY FileChanged

LEMMA FileAppended ==
    ASSUME NEW c, NEW fs \in Seq(File), FilesSettled(c, fs),
           NEW g \in File, SettledOn(c, g.hdr)
    PROVE  /\ Append(fs, g) \in Seq(File) /\ Len(Append(fs, g)) = Len(fs) + 1
           /\ FilesSettled(c, Append(fs, g))
<1>1. /\ Append(fs, g) \in Seq(File) /\ Len(Append(fs, g)) = Len(fs) + 1
      /\ Len(fs) \in Nat /\ DOMAIN fs = 1..Len(fs)
      /\ DOMAIN Append(fs, g) = 1..(Len(fs) + 1)
  OBVIOUS
<1>2. ASSUME NEW i \in 1..(Len(fs) + 1)  PROVE SettledOn(c, Append(fs, g)[i].hdr)
  <2>1. CASE i = Len(fs) + 1
    BY <2>1
  <2>2. CASE i # Len(fs) + 1
    <3>1. i \in 1..Len(fs) /\ Append(fs, g)[i] = fs[i]
      BY <1>1, <2>2
    <3> QED
      BY <1>1, <3>1 DEF FilesSettled
  <2> QED
    BY <2>1, <2>2
<1> QED
  BY <1>1, <1>2 DEF FilesSettled

(* One command moves, while the chain stands still.                         *)
LEMMA RunKeeps ==
    ASSUME IInv, UNCHANGED chainVars, NEW p \in Procs,
           files' \in Seq(File), FilesSettled(chain, files'),
           path' \in 0..Len(files'), part' \in 0..Len(files'), downloads' \in Nat,
           \E l \in Locals : SoundOn(chain, l) /\ run' = [run EXCEPT ![p] = l]
    PROVE  IInv'
<1>1. PICK l \in Locals : SoundOn(chain, l) /\ run' = [run EXCEPT ![p] = l]
  OBVIOUS
<1>2. run' \in [Procs -> Locals] /\ \A q \in Procs : SoundOn(chain, run'[q])
  BY <1>1, Facts
<1> QED
  BY <1>2 DEF IInv, TypeOK, chainVars

LEMMA LocalKeeps ==
    ASSUME IInv, UNCHANGED <<chainVars, fileVars>>, NEW p \in Procs,
           \E l \in Locals : SoundOn(chain, l) /\ run' = [run EXCEPT ![p] = l]
    PROVE  IInv'
<1>1. /\ files' \in Seq(File) /\ FilesSettled(chain, files') /\ downloads' \in Nat
      /\ path' \in 0..Len(files') /\ part' \in 0..Len(files')
  BY DEF IInv, TypeOK, fileVars
<1> QED
  BY <1>1, RunKeeps

(* A command that goes on, to a place that promises nothing.                *)
LEMMA GotoSound ==
    ASSUME IInv, NEW p \in Procs, NEW pc \in Quiet
    PROVE  /\ [run[p] EXCEPT !.pc = pc] \in Locals
           /\ SoundOn(chain, [run[p] EXCEPT !.pc = pc])
<1> DEFINE l == [run[p] EXCEPT !.pc = pc]
<1>1. run[p] \in Locals /\ SoundOn(chain, run[p])
  BY Facts
<1>2. /\ l \in Locals /\ l.pc = pc /\ l.hdr = run[p].hdr /\ l.next = run[p].next
      /\ l.to = run[p].to
  BY <1>1 DEF Locals, Quiet
<1> HIDE DEF l
<1>3. SoundOn(chain, l)
  BY <1>1, <1>2, Facts, QuietSound DEF SoundOn
<1> QED
  BY <1>2, <1>3 DEF l

LEMMA StopSound == ASSUME NEW c \in Chains PROVE Idle \in Locals /\ SoundOn(c, Idle)
<1>1. SettledOn(c, FreshHeader) /\ 0 <= Len(c) /\ "off" \in Quiet
  BY FreshType DEF Chains, Quiet, Places
<1> QED
  BY <1>1, IdleType, QuietSound
-----------------------------------------------------------------------------
(* Each action keeps the invariant.                                         *)

LEMMA InitIInv == ASSUME Init PROVE IInv
<1>1. chain \in Chains /\ chain = <<>> /\ files = <<>> /\ <<>> \in Seq(File)
  BY DEF Init, Chains
<1>2. \A p \in Procs : run[p] \in Locals /\ SoundOn(chain, run[p])
  BY <1>1, StopSound DEF Init
<1>3. TypeOK
  BY <1>1, <1>2 DEF Init, TypeOK, Chains
<1>4. FilesSettled(chain, files)
  BY <1>1 DEF FilesSettled
<1> QED
  BY <1>2, <1>3, <1>4 DEF IInv

(* A command begins, ends, is cut off, or goes past the seed.               *)
LEMMA BeginKeeps ==
    ASSUME IInv, UNCHANGED <<chainVars, fileVars>>, NEW p \in Procs,
           NEW cmd \in {"sync", "hydrate"}, NEW pc \in Quiet, Begin(p, cmd, pc)
    PROVE  IInv'
<1>1. chain \in Chains
  BY Facts
<1> QED
  BY <1>1, BeginType, LocalKeeps DEF Begin

LEMMA StopKeeps ==
    ASSUME IInv, UNCHANGED <<chainVars, fileVars>>, NEW p \in Procs, Stop(p)
    PROVE  IInv'
<1>1. chain \in Chains
  BY Facts
<1> QED
  BY <1>1, StopSound, LocalKeeps DEF Stop

LEMMA GotoKeeps ==
    ASSUME IInv, UNCHANGED <<chainVars, fileVars>>, NEW p \in Procs,
           NEW pc \in Quiet, Goto(p, pc)
    PROVE  IInv'
<1>1. run' = [run EXCEPT ![p] = [run[p] EXCEPT !.pc = pc]]
  BY DEF Goto
<1> QED
  BY <1>1, GotoSound, LocalKeeps

LEMMA GoOnKeeps ==
    ASSUME IInv, UNCHANGED <<chainVars, fileVars>>, NEW p \in Procs, GoOn(p)
    PROVE  IInv'
<1>1. run[p].cmd \in {"sync", "hydrate"} /\ "head" \in Quiet
  BY Facts DEF Locals, Quiet, Places
<1> QED
  BY <1>1, BeginKeeps DEF GoOn

(* Where a command goes when the chain stands still and the files change.   *)
LEMMA MovesAre ==
    ASSUME IInv, NEW p \in Procs, NEW pc \in Quiet,
           Goto(p, pc) \/ GoOn(p) \/ Stop(p)
    PROVE  \E l \in Locals : SoundOn(chain, l) /\ run' = [run EXCEPT ![p] = l]
<1>1. CASE Goto(p, pc)
  <2>1. run' = [run EXCEPT ![p] = [run[p] EXCEPT !.pc = pc]]
    BY <1>1 DEF Goto
  <2> QED
    BY <2>1, GotoSound
<1>2. CASE GoOn(p)
  <2>1. /\ run[p].cmd \in {"sync", "hydrate"} /\ "head" \in Quiet /\ chain \in Chains
    BY Facts DEF Locals, Quiet, Places
  <2> QED
    BY <1>2, <2>1, BeginType DEF GoOn, Begin
<1>3. CASE Stop(p)
  BY <1>3, Facts, StopSound DEF Stop
<1> QED
  BY <1>1, <1>2, <1>3

(* A file is looked up: the header is settled like every header.            *)
LEMMA LookKeeps == ASSUME IInv, NEW p \in Procs, Look(p) PROVE IInv'
<1> DEFINE f == files[path]
<1>1. UNCHANGED <<chainVars, fileVars>>
  BY DEF Look
<1>2. CASE path = 0
  BY <1>1, <1>2, GotoKeeps DEF Look, Quiet, Places
<1>3. CASE path # 0
  <2>1. f \in File /\ f.hdr \in Header /\ SettledOn(chain, f.hdr) /\ path \in Nat
    <3>1. path \in 1..Len(files) /\ Len(files) \in Nat /\ files \in Seq(File)
      BY <1>3 DEF IInv, TypeOK
    <3>2. f \in File /\ path \in DOMAIN files
      BY <3>1
    <3> QED
      BY <3>1, <3>2 DEF IInv, FilesSettled, File
  <2>2. ASSUME NEW h \in Header, SettledOn(chain, h), NEW pc \in {"fresh", "opened", "trim"},
               run' = [run EXCEPT ![p].ino = path, ![p].hdr = h, ![p].pc = pc]
        PROVE  IInv'
    <3> DEFINE l == [run[p] EXCEPT !.ino = path, !.hdr = h, !.pc = pc]
    <3>1. run' = [run EXCEPT ![p] = l]
      BY <2>2
    <3>2. /\ l \in Locals /\ l.pc \in Quiet /\ l.hdr = h /\ l.next = run[p].next
          /\ l.to = run[p].to
      BY <2>1, Facts DEF Locals, Quiet, Places
    <3> HIDE DEF l
    <3>3. SoundOn(chain, l)
      BY <2>2, <3>2, Facts, QuietSound DEF SoundOn
    <3> QED
      BY <1>1, <3>1, <3>2, <3>3, LocalKeeps
  <2> HIDE DEF f
  <2>3. CASE f.blank
    <3>1. run' = [run EXCEPT ![p].ino = path, ![p].hdr = FreshHeader, ![p].pc = "fresh"]
      BY <1>3, <2>3 DEF Look, f
    <3> QED
      BY <2>2, <3>1, Facts, FreshType
  <2>4. CASE ~f.blank /\ Whole(f)
    <3> DEFINE opened == IF f.body = f.hdr.recs THEN "opened" ELSE "trim"
    <3>1. run' = [run EXCEPT ![p].ino = path, ![p].hdr = f.hdr, ![p].pc = opened]
      BY <1>3, <2>4 DEF Look, f
    <3>2. opened \in {"fresh", "opened", "trim"}
      OBVIOUS
    <3> HIDE DEF opened
    <3> QED
      BY <2>1, <2>2, <3>1, <3>2
  <2>5. CASE ~f.blank /\ ~Whole(f)
    <3>1. GoOn(p) \/ Stop(p)
      BY <1>3, <2>5 DEF Look, f
    <3> QED
      BY <1>1, <3>1, GoOnKeeps, StopKeeps
  <2> QED
    BY <2>3, <2>4, <2>5
<1> QED
  BY <1>2, <1>3

BlankFile == [blank |-> TRUE, hdr |-> FreshHeader, body |-> {}]
EmptyFile == [blank |-> FALSE, hdr |-> FreshHeader, body |-> {}]
LEMMA BlankType ==
    /\ BlankFile \in File /\ EmptyFile \in File
    /\ BlankFile.hdr = FreshHeader /\ EmptyFile.hdr = FreshHeader
    /\ \A c \in Chains : SettledOn(c, BlankFile.hdr) /\ SettledOn(c, EmptyFile.hdr)
BY FreshType DEF BlankFile, EmptyFile, File

LEMMA CreateKeeps == ASSUME IInv, NEW p \in Procs, Create(p) PROVE IInv'
<1>1. UNCHANGED chainVars /\ UNCHANGED <<part, downloads>>
  BY DEF Create
<1>2. /\ files \in Seq(File) /\ FilesSettled(chain, files) /\ Len(files) \in Nat
      /\ path \in 0..Len(files) /\ part \in 0..Len(files) /\ downloads \in Nat
      /\ chain \in Chains
  BY Facts DEF IInv, TypeOK
<1>3. /\ files' \in Seq(File) /\ FilesSettled(chain, files')
      /\ path' \in 0..Len(files') /\ part' \in 0..Len(files')
  <2>1. CASE path = 0
    <3>1. files' = Append(files, BlankFile) /\ path' = Len(files) + 1
      BY <2>1 DEF Create, BlankFile
    <3>2. /\ files' \in Seq(File) /\ Len(files') = Len(files) + 1
          /\ FilesSettled(chain, files')
      BY <1>2, <3>1, BlankType, FileAppended
    <3> QED
      BY <1>1, <1>2, <3>1, <3>2
  <2>2. CASE path # 0
    BY <1>1, <1>2, <2>2 DEF Create
  <2> QED
    BY <2>1, <2>2
<1>4. \E l \in Locals : SoundOn(chain, l) /\ run' = [run EXCEPT ![p] = l]
  <2> DEFINE l == [run[p] EXCEPT !.ino = path', !.hdr = FreshHeader, !.pc = "fresh"]
  <2>1. run' = [run EXCEPT ![p] = l]
    BY DEF Create
  <2>2. path' \in Nat
    BY <1>3
  <2>3. /\ l \in Locals /\ l.pc \in Quiet /\ l.hdr = FreshHeader
        /\ l.next = run[p].next /\ l.to = run[p].to
    BY <2>2, Facts, FreshType DEF Locals, Quiet, Places
  <2> HIDE DEF l
  <2>4. SoundOn(chain, l)
    BY <2>3, Facts, FreshType, QuietSound DEF SoundOn
  <2> QED
    BY <2>1, <2>3, <2>4
<1> QED
  BY <1>1, <1>2, <1>3, <1>4, RunKeeps

(* A header or a body is written into a file.                               *)
LEMMA WriteKeeps ==
    ASSUME IInv, NEW p \in Procs, UNCHANGED <<chainVars, path, part, downloads>>,
           \E i, g :
               /\ files' = [files EXCEPT ![i] = g]
               /\ i \in DOMAIN files => g \in File /\ SettledOn(chain, g.hdr),
           \E l \in Locals : SoundOn(chain, l) /\ run' = [run EXCEPT ![p] = l]
    PROVE  IInv'
<1>1. PICK i, g :
               /\ files' = [files EXCEPT ![i] = g]
               /\ i \in DOMAIN files => g \in File /\ SettledOn(chain, g.hdr)
  OBVIOUS
<1>2. /\ files \in Seq(File) /\ FilesSettled(chain, files)
      /\ path \in 0..Len(files) /\ part \in 0..Len(files) /\ downloads \in Nat
  BY DEF IInv, TypeOK
<1> DEFINE fs == [files EXCEPT ![i] = g]
<1>3. fs \in Seq(File) /\ Len(fs) = Len(files) /\ FilesSettled(chain, fs)
  BY <1>1, <1>2, FileChanged
<1>4. files' = fs
  BY <1>1
<1> HIDE DEF fs
<1> QED
  BY <1>2, <1>3, <1>4, RunKeeps
LEMMA FileTyped ==
    ASSUME IInv, NEW i \in DOMAIN files
    PROVE  /\ files[i] \in File /\ files[i].hdr \in Header /\ files[i].body \subseteq Record
           /\ SettledOn(chain, files[i].hdr)
<1>1. files \in Seq(File) /\ FilesSettled(chain, files)
  BY DEF IInv, TypeOK
<1>2. files[i] \in File
  BY <1>1
<1> QED
  BY <1>1, <1>2 DEF FilesSettled, File

LEMMA FreshKeeps == ASSUME IInv, NEW p \in Procs, Fresh(p) PROVE IInv'
<1> DEFINE i == run[p].ino
           g == [files[i] EXCEPT !.blank = FALSE, !.hdr = run[p].hdr]
<1>1. UNCHANGED <<chainVars, path, part, downloads>> /\ Goto(p, "opened")
  BY DEF Fresh
<1>2. files' = [files EXCEPT ![i] = g]
  BY DEF Fresh
<1>3. i \in DOMAIN files => g \in File /\ SettledOn(chain, g.hdr)
  <2> SUFFICES ASSUME i \in DOMAIN files  PROVE g \in File /\ SettledOn(chain, g.hdr)
    OBVIOUS
  <2>1. files[i] \in File
    BY FileTyped
  <2>2. g \in File /\ g.hdr = run[p].hdr
    BY <2>1, Facts DEF File
  <2> QED
    BY <2>2, Facts DEF SoundOn
<1> HIDE DEF g
<1>4. \E l \in Locals : SoundOn(chain, l) /\ run' = [run EXCEPT ![p] = l]
  BY <1>1, MovesAre DEF Quiet, Places
<1> QED
  BY <1>1, <1>2, <1>3, <1>4, WriteKeeps

LEMMA TrimKeeps == ASSUME IInv, NEW p \in Procs, Trim(p) PROVE IInv'
<1> DEFINE i == run[p].ino
           g == [files[i] EXCEPT !.body = files[i].body \cap run[p].hdr.recs]
<1>1. /\ UNCHANGED <<chainVars, path, part, downloads>>
      /\ Goto(p, "opened") \/ GoOn(p) \/ Stop(p)
  BY DEF Trim
<1>2. files' = [files EXCEPT ![i] = g]
  BY DEF Trim
<1>3. i \in DOMAIN files => g \in File /\ SettledOn(chain, g.hdr)
  <2> SUFFICES ASSUME i \in DOMAIN files  PROVE g \in File /\ SettledOn(chain, g.hdr)
    OBVIOUS
  <2>1. files[i] \in File /\ SettledOn(chain, files[i].hdr)
    BY FileTyped
  <2>2. g \in File /\ g.hdr = files[i].hdr
    BY <2>1 DEF File
  <2> QED
    BY <2>1, <2>2
<1> HIDE DEF g
<1>4. \E l \in Locals : SoundOn(chain, l) /\ run' = [run EXCEPT ![p] = l]
  BY <1>1, MovesAre DEF Quiet, Places
<1> QED
  BY <1>1, <1>2, <1>3, <1>4, WriteKeeps

LEMMA SeedKeeps ==
    ASSUME IInv, NEW p \in Procs, Seed(p) \/ SeedOpened(p) \/ NoDownload(p)
    PROVE  IInv'
<1>1. UNCHANGED <<chainVars, fileVars>>
  BY DEF Seed, SeedOpened, NoDownload
<1>2. run[p].cmd \in {"sync", "hydrate"} /\ {"download", "open"} \subseteq Quiet
  BY Facts DEF Locals, Quiet, Places
<1>3. CASE Seed(p)
  <2>1. CASE path = 0
    BY <1>1, <1>2, <1>3, <2>1, GotoKeeps DEF Seed
  <2>2. CASE path # 0
    <3> DEFINE l == [run[p] EXCEPT !.goal = "seed", !.pc = "open"]
    <3>1. run' = [run EXCEPT ![p] = l]
      BY <1>3, <2>2 DEF Seed
    <3>2. /\ l \in Locals /\ l.pc \in Quiet /\ l.hdr = run[p].hdr /\ l.next = run[p].next
          /\ l.to = run[p].to
      BY Facts DEF Locals, Quiet, Places, Goals
    <3> HIDE DEF l
    <3>3. SoundOn(chain, l)
      BY <3>2, Facts, QuietSound DEF SoundOn
    <3> QED
      BY <1>1, <3>1, <3>2, <3>3, LocalKeeps
  <2> QED
    BY <2>1, <2>2
<1>4. CASE SeedOpened(p) \/ NoDownload(p)
  <2>1. Begin(p, run[p].cmd, "download") \/ GoOn(p)
    BY <1>4 DEF SeedOpened, NoDownload
  <2> QED
    BY <1>1, <1>2, <2>1, BeginKeeps, GoOnKeeps
<1> QED
  BY <1>3, <1>4

(* The .bin.part file: emptied, filled with what the endpoint serves,       *)
(* opened as a cache, renamed.                                              *)
LEMMA DownloadKeeps == ASSUME IInv, NEW p \in Procs, Download(p) PROVE IInv'
<1>1. UNCHANGED chainVars /\ path' = path /\ downloads' = downloads + 1
  BY DEF Download
<1>2. /\ files \in Seq(File) /\ FilesSettled(chain, files) /\ Len(files) \in Nat
      /\ path \in 0..Len(files) /\ part \in 0..Len(files) /\ downloads \in Nat
      /\ chain \in Chains
  BY Facts DEF IInv, TypeOK
<1>3. /\ files' \in Seq(File) /\ FilesSettled(chain, files')
      /\ path' \in 0..Len(files') /\ part' \in 0..Len(files')
  <2>1. CASE part = 0
    <3>1. files' = Append(files, BlankFile) /\ part' = Len(files) + 1
      BY <2>1 DEF Download, BlankFile
    <3>2. /\ files' \in Seq(File) /\ Len(files') = Len(files) + 1
          /\ FilesSettled(chain, files')
      BY <1>2, <3>1, BlankType, FileAppended
    <3> QED
      BY <1>1, <1>2, <3>1, <3>2
  <2>2. CASE part # 0
    <3>1. files' = [files EXCEPT ![part] = BlankFile] /\ part' = part
      BY <2>2 DEF Download, BlankFile
    <3> DEFINE fs == [files EXCEPT ![part] = BlankFile]
    <3>2. fs \in Seq(File) /\ Len(fs) = Len(files) /\ FilesSettled(chain, fs)
      BY <1>2, BlankType, FileReplaced
    <3> HIDE DEF fs
    <3>3. files' = fs
      BY <3>1 DEF fs
    <3> QED
      BY <1>1, <1>2, <3>1, <3>2, <3>3
  <2> QED
    BY <2>1, <2>2
<1>4. \E l \in Locals : SoundOn(chain, l) /\ run' = [run EXCEPT ![p] = l]
  <2> DEFINE l == [run[p] EXCEPT !.ino = part', !.pc = "fill"]
  <2>1. run' = [run EXCEPT ![p] = l]
    BY DEF Download
  <2>2. part' \in Nat
    BY <1>3
  <2>3. /\ l \in Locals /\ l.pc \in Quiet /\ l.hdr = run[p].hdr
        /\ l.next = run[p].next /\ l.to = run[p].to
    BY <2>2, Facts DEF Locals, Quiet, Places
  <2> HIDE DEF l
  <2>4. SoundOn(chain, l)
    BY <2>3, Facts, QuietSound DEF SoundOn
  <2> QED
    BY <2>1, <2>3, <2>4
<1>5. downloads' \in Nat
  BY <1>1, <1>2
<1> QED
  BY <1>1, <1>3, <1>4, <1>5, RunKeeps

LEMMA ServedSettles ==
    ASSUME IInv, NEW t \in Served
    PROVE  LET h == [through |-> t, recs |-> Logged(chain, Deployed, t)]
           IN  h \in Header /\ SettledOn(chain, h)
<1> DEFINE h == [through |-> t, recs |-> Logged(chain, Deployed, t)]
<1>1. /\ t \in Nat
      /\ t + Margin <= Len(chain) \/ t = Monus(Deployed, 1)
  <2>1. Monus(Deployed, 1) \in Nat /\ Monus(Latest, Margin) \in Nat
    BY Facts DEF Monus, Latest
  <2>2. t \in Nat /\ Monus(Deployed, 1) <= t
    BY <2>1 DEF Served, Larger
  <2>3. t <= Monus(Deployed, 1) \/ t <= Monus(Latest, Margin)
    BY <2>1 DEF Served, Larger
  <2>4. t <= Monus(Latest, Margin) =>
            t + Margin <= Len(chain) \/ (t = 0 /\ t = Monus(Deployed, 1))
    BY <2>1, <2>2, Facts DEF Monus, Latest
  <2> QED
    BY <2>1, <2>2, <2>3, <2>4
<1>2. Logged(chain, Deployed, t) \subseteq Record
  BY <1>1, Facts, LoggedType
<1> QED
  BY <1>1, <1>2 DEF Header, SettledOn

LEMMA FillKeeps ==
    ASSUME IInv, NEW p \in Procs, NEW t \in Served,
           NEW body \in SUBSET Logged(chain, Deployed, t), Fill(p, t, body)
    PROVE  IInv'
<1> DEFINE i == run[p].ino
           h == [through |-> t, recs |-> Logged(chain, Deployed, t)]
           g == [blank |-> FALSE, hdr |-> h, body |-> files[i].body \cup body]
<1>1. UNCHANGED <<chainVars, path, part, downloads>> /\ Goto(p, "check")
  BY DEF Fill
<1>2. files' = [files EXCEPT ![i] = g]
  BY DEF Fill
<1>3. i \in DOMAIN files => g \in File /\ SettledOn(chain, g.hdr)
  <2> SUFFICES ASSUME i \in DOMAIN files  PROVE g \in File /\ SettledOn(chain, g.hdr)
    OBVIOUS
  <2>1. files[i].body \subseteq Record
    BY FileTyped
  <2>2. h \in Header /\ SettledOn(chain, h) /\ h.recs = Logged(chain, Deployed, t)
    BY ServedSettles
  <2>3. h.recs \subseteq Record
    BY <2>2 DEF Header
  <2> HIDE DEF h
  <2> QED
    BY <2>1, <2>2, <2>3 DEF File
<1> HIDE DEF g
<1>4. \E l \in Locals : SoundOn(chain, l) /\ run' = [run EXCEPT ![p] = l]
  BY <1>1, MovesAre DEF Quiet, Places
<1> QED
  BY <1>1, <1>2, <1>3, <1>4, WriteKeeps

LEMMA CheckKeeps == ASSUME IInv, NEW p \in Procs, Check(p) PROVE IInv'
<1>1. /\ UNCHANGED <<chainVars, path, downloads>>
      /\ Goto(p, "rename") \/ GoOn(p)
  BY DEF Check
<1>2. /\ files \in Seq(File) /\ FilesSettled(chain, files) /\ Len(files) \in Nat
      /\ path \in 0..Len(files) /\ part \in 0..Len(files) /\ downloads \in Nat
      /\ chain \in Chains
  BY Facts DEF IInv, TypeOK
<1>3. /\ files' \in Seq(File) /\ FilesSettled(chain, files')
      /\ path' \in 0..Len(files') /\ part' \in 0..Len(files')
  <2>1. CASE part = 0
    <3>1. files' = Append(files, EmptyFile) /\ part' = Len(files) + 1
      BY <2>1 DEF Check, EmptyFile
    <3>2. /\ files' \in Seq(File) /\ Len(files') = Len(files) + 1
          /\ FilesSettled(chain, files')
      BY <1>2, <3>1, BlankType, FileAppended
    <3> QED
      BY <1>1, <1>2, <3>1, <3>2
  <2>2. CASE part # 0 /\ files[part].blank
    <3>1. files' = [files EXCEPT ![part] = EmptyFile] /\ part' = part
      BY <2>2 DEF Check, EmptyFile
    <3>2. /\ files' \in Seq(File) /\ Len(files') = Len(files)
          /\ FilesSettled(chain, files')
      BY <1>2, <3>1, BlankType, FileReplaced
    <3> QED
      BY <1>1, <1>2, <3>1, <3>2
  <2>3. CASE part # 0 /\ ~files[part].blank /\ Whole(files[part])
    <3> DEFINE g == [files[part] EXCEPT !.body = files[part].hdr.recs]
    <3>1. files' = [files EXCEPT ![part] = g] /\ part' = part
      BY <2>3 DEF Check
    <3>2. files[part] \in File /\ files[part].hdr \in Header /\ SettledOn(chain, files[part].hdr)
      BY <1>2, <2>3, FileTyped
    <3>3. g \in File /\ SettledOn(chain, g.hdr)
      BY <3>2 DEF File, Header
    <3> HIDE DEF g
    <3> DEFINE fs == [files EXCEPT ![part] = g]
    <3>4. fs \in Seq(File) /\ Len(fs) = Len(files) /\ FilesSettled(chain, fs)
      BY <1>2, <3>3, FileReplaced
    <3> HIDE DEF fs
    <3>5. files' = fs
      BY <3>1 DEF fs
    <3> QED
      BY <1>1, <1>2, <3>1, <3>4, <3>5
  <2>4. CASE part # 0 /\ ~files[part].blank /\ ~Whole(files[part])
    <3>1. files' = files /\ part' = 0
      BY <2>4 DEF Check
    <3> QED
      BY <1>1, <1>2, <3>1
  <2> QED
    BY <2>1, <2>2, <2>3, <2>4
<1>4. \E l \in Locals : SoundOn(chain, l) /\ run' = [run EXCEPT ![p] = l]
  BY <1>1, MovesAre DEF Quiet, Places
<1> QED
  BY <1>1, <1>2, <1>3, <1>4, RunKeeps

LEMMA RenameKeeps == ASSUME IInv, NEW p \in Procs, Rename(p) PROVE IInv'
<1>1. UNCHANGED <<chainVars, files, downloads>> /\ GoOn(p)
  BY DEF Rename
<1>2. /\ files' \in Seq(File) /\ FilesSettled(chain, files') /\ downloads' \in Nat
      /\ path' \in 0..Len(files') /\ part' \in 0..Len(files')
  BY <1>1 DEF Rename, IInv, TypeOK
<1>3. \E l \in Locals : SoundOn(chain, l) /\ run' = [run EXCEPT ![p] = l]
  BY <1>1, MovesAre DEF Quiet, Places
<1> QED
  BY <1>1, <1>2, <1>3, RunKeeps
-----------------------------------------------------------------------------
(* sync, hydrate and spent_nullifiers.                                      *)

LEMMA AskKeeps == ASSUME IInv, NEW p \in Procs, AskLatest(p) PROVE IInv'
<1> DEFINE l == [Idle EXCEPT !.cmd = run[p].cmd, !.goal = run[p].cmd, !.to = Latest,
                             !.pc = "open"]
<1>1. run' = [run EXCEPT ![p] = l] /\ UNCHANGED <<chainVars, fileVars>>
  BY DEF AskLatest
<1>2. /\ run[p].cmd \in {"sync", "hydrate"} /\ run[p].cmd \in Goals /\ "open" \in Quiet
      /\ chain \in Chains /\ Latest \in Nat /\ Latest <= Len(chain)
  BY Facts DEF Locals, Quiet, Places, Goals, Latest
<1>3. l \in Locals /\ SoundOn(chain, l)
  BY <1>2, BeginSound
<1> HIDE DEF l
<1> QED
  BY <1>1, <1>3, LocalKeeps

LEMMA ReadKeeps ==
    ASSUME IInv, NEW p \in Procs, NEW from \in Deployed..(run[p].to + 1), ReadCache(p, from)
    PROVE  IInv'
<1> DEFINE h == run[p].hdr
           w == ReorgSafeWindow(from, run[p].to, h.through)
           cached == {r \in h.recs : r.block \in from..Smaller(w.cached, run[p].to)}
           l == [run[p] EXCEPT !.from = from, !.rpc = w.rpc, !.got = cached,
                               !.pc = IF w.rpc <= run[p].to THEN "fetch" ELSE "spent"]
<1>1. run' = [run EXCEPT ![p] = l] /\ UNCHANGED <<chainVars, fileVars>>
  BY DEF ReadCache
<1>2. from \in Nat /\ from >= Deployed
  BY Facts
<1>3. w.rpc \in Nat
  <2>1. h.through \in Nat /\ Monus(run[p].to, Margin) \in Nat
    BY Facts DEF Header, Monus
  <2>2. Smaller(h.through, Monus(run[p].to, Margin)) \in Nat
    BY <2>1 DEF Smaller
  <2>3. w.rpc = Larger(from, Smaller(h.through, Monus(run[p].to, Margin)) + 1)
    BY DEF ReorgSafeWindow
  <2> QED
    BY <1>2, <2>2, <2>3 DEF Larger
<1>4. cached \subseteq Record
  BY Facts DEF Header
<1>5. /\ l \in Locals /\ l.hdr = h /\ l.next = run[p].next /\ l.to = run[p].to
      /\ l.from = from /\ l.rpc = w.rpc /\ l.got = cached /\ l.pc \in {"fetch", "spent"}
  <2> HIDE DEF w, cached, h
  <2> QED
    BY <1>2, <1>3, <1>4, Facts DEF Locals, Places, h
<1>6. ReadPart(l)
  <2> HIDE DEF l
  <2> QED
    BY <1>2, <1>5 DEF ReadPart
<1> HIDE DEF l
<1>7. SoundOn(chain, l)
  BY <1>5, <1>6, Facts DEF SoundOn
<1> QED
  BY <1>1, <1>5, <1>7, LocalKeeps

LEMMA HydrateKeeps == ASSUME IInv, NEW p \in Procs, HydrateOpened(p) PROVE IInv'
<1> DEFINE from == Larger(run[p].hdr.through + 1, Deployed)
           l == [run[p] EXCEPT !.from = from, !.rpc = from, !.pc = "fetch"]
<1>1. UNCHANGED <<chainVars, fileVars>> /\ run[p].goal = "hydrate"
  BY DEF HydrateOpened
<1>2. CASE Stop(p)
  BY <1>1, <1>2, StopKeeps
<1>3. CASE run' = [run EXCEPT ![p] = l]
  <2>1. from \in Nat
    BY Facts DEF Header, Larger
  <2> HIDE DEF from
  <2>2. /\ l \in Locals /\ l.hdr = run[p].hdr /\ l.next = run[p].next /\ l.to = run[p].to
        /\ l.pc = "fetch" /\ l.goal = "hydrate"
    BY <1>1, <2>1, Facts DEF Locals, Places
  <2> HIDE DEF l
  <2>3. SoundOn(chain, l)
    BY <2>2, Facts DEF SoundOn
  <2> QED
    BY <1>1, <1>3, <2>2, <2>3, LocalKeeps
<1> QED
  BY <1>2, <1>3 DEF HydrateOpened

LEMMA FetchKeeps == ASSUME IInv, NEW p \in Procs, Fetch(p) PROVE IInv'
<1> DEFINE r == run[p]
           safe == Monus(r.to, Margin)
           durable == {x \in Logged(chain, r.rpc, r.to) : x.block <= safe}
           next == Extended(r.hdr, safe, durable)
           l == [Idle EXCEPT !.cmd = r.cmd, !.goal = r.goal, !.ino = r.ino,
                             !.hdr = r.hdr, !.next = next, !.pc = "records"]
           stored == safe >= r.rpc /\ r.rpc = NextBlock(r.hdr)
<1>1. /\ UNCHANGED <<chainVars, fileVars>>
      /\ IF stored THEN run' = [run EXCEPT ![p] = l] ELSE Begin(p, r.cmd, "spent")
  BY DEF Fetch, ReorgSafeWindow, Fetched
<1>2. r \in Locals /\ SoundOn(chain, r) /\ r.cmd \in {"sync", "hydrate"} /\ "spent" \in Quiet
  BY Facts DEF Locals, Quiet, Places
<1>3. CASE stored
  <2>1. r.hdr \in Header /\ SettledOn(chain, r.hdr) /\ r.to <= Len(chain) /\ r.to \in Nat
    BY <1>2, Facts DEF SoundOn
  <2>2. NextBlock(r.hdr) \in Nat /\ NextBlock(r.hdr) > 0
    BY <2>1, Facts DEF NextBlock, Larger, Header
  <2>3. safe \in Nat /\ safe <= r.to /\ NextBlock(r.hdr) <= safe /\ safe + Margin <= Len(chain)
    BY <1>3, <2>1, <2>2, Facts DEF Monus
  <2>4. durable = {x \in Logged(chain, NextBlock(r.hdr), r.to) : x.block <= safe}
    BY <1>3
  <2> HIDE DEF safe
  <2>5. /\ next \in Header /\ SettledOn(chain, next) /\ r.hdr.through <= next.through
        /\ next.recs = r.hdr.recs \/ Cardinality(next.recs) <= MaxRecords
    BY <2>1, <2>3, <2>4, Facts, ExtendSettles
  <2> HIDE DEF next
  <2>6. /\ l \in Locals /\ l.pc = "records" /\ l.hdr = r.hdr /\ l.next = next /\ l.to = 0
    BY <1>2, <2>1, <2>5, IdleType DEF Locals, Places
  <2> HIDE DEF l
  <2>7. SoundOn(chain, l)
    BY <2>1, <2>5, <2>6, Facts DEF SoundOn, ExtendsWithinCap
  <2> QED
    BY <1>1, <1>3, <2>6, <2>7, LocalKeeps
<1>4. CASE ~stored
  BY <1>1, <1>2, <1>4, BeginKeeps
<1> QED
  BY <1>3, <1>4

LEMMA RecordsKeeps == ASSUME IInv, NEW p \in Procs, Records(p) PROVE IInv'
<1> DEFINE i == run[p].ino
           g == [files[i] EXCEPT !.body =
                    files[i].body \cup (run[p].next.recs \ run[p].hdr.recs)]
           l == [run[p] EXCEPT !.pc = "header"]
<1>1. UNCHANGED <<chainVars, path, part, downloads>> /\ run' = [run EXCEPT ![p] = l]
  BY DEF Records, Goto
<1>2. files' = [files EXCEPT ![i] = g]
  BY DEF Records
<1>3. i \in DOMAIN files => g \in File /\ SettledOn(chain, g.hdr)
  <2> SUFFICES ASSUME i \in DOMAIN files  PROVE g \in File /\ SettledOn(chain, g.hdr)
    OBVIOUS
  <2>1. files[i] \in File /\ SettledOn(chain, files[i].hdr)
    BY FileTyped
  <2>2. run[p].next.recs \subseteq Record
    BY Facts DEF Header
  <2>3. g \in File /\ g.hdr = files[i].hdr
    BY <2>1, <2>2 DEF File
  <2> QED
    BY <2>1, <2>3
<1> HIDE DEF g
<1>4. l \in Locals /\ SoundOn(chain, l)
  <2>1. /\ l \in Locals /\ l.pc = "header" /\ l.hdr = run[p].hdr /\ l.next = run[p].next
        /\ l.to = run[p].to
    BY Facts DEF Locals, Places
  <2>2. SoundOn(chain, run[p]) /\ run[p].pc = "records"
    BY Facts DEF Records, At
  <2> HIDE DEF l
  <2> QED
    BY <2>1, <2>2 DEF SoundOn, ExtendsWithinCap
<1> HIDE DEF l
<1> QED
  BY <1>1, <1>2, <1>3, <1>4, WriteKeeps

LEMMA HeaderKeeps == ASSUME IInv, NEW p \in Procs, WriteHeader(p) PROVE IInv'
<1> DEFINE i == run[p].ino
           g == [files[i] EXCEPT !.hdr = run[p].next]
<1>1. UNCHANGED <<chainVars, path, part, downloads>>
  BY DEF WriteHeader
<1>2. files' = [files EXCEPT ![i] = g]
  BY DEF WriteHeader
<1>3. i \in DOMAIN files => g \in File /\ SettledOn(chain, g.hdr)
  <2> SUFFICES ASSUME i \in DOMAIN files  PROVE g \in File /\ SettledOn(chain, g.hdr)
    OBVIOUS
  <2>1. files[i] \in File
    BY FileTyped
  <2>2. g \in File /\ g.hdr = run[p].next
    BY <2>1, Facts DEF File
  <2> QED
    BY <2>2, Facts DEF SoundOn
<1> HIDE DEF g
<1>4. \E l \in Locals : SoundOn(chain, l) /\ run' = [run EXCEPT ![p] = l]
  <2>1. /\ run[p].cmd \in {"sync", "hydrate"} /\ "spent" \in Quiet /\ chain \in Chains
    BY Facts DEF Locals, Quiet, Places
  <2> QED
    BY <2>1, BeginType, StopSound DEF WriteHeader, Begin, Stop
<1> QED
  BY <1>1, <1>2, <1>3, <1>4, WriteKeeps

(* The nullifiers: from the cache, and from the logs after it.              *)
LEMMA SpentKeeps == ASSUME IInv, NEW p \in Procs, Spent(p) PROVE IInv'
<1> DEFINE pc == IF path = 0 THEN "logs" ELSE "open"
           l == [Idle EXCEPT !.goal = "spent", !.from = Deployed, !.pc = pc]
<1>1. run' = [run EXCEPT ![p] = l] /\ UNCHANGED <<chainVars, fileVars>>
  BY DEF Spent
<1>2. pc \in {"logs", "open"}
  OBVIOUS
<1> HIDE DEF pc
<1>3. /\ l \in Locals /\ l.pc = pc /\ l.hdr = FreshHeader /\ l.next = FreshHeader
      /\ l.to = 0 /\ l.from = Deployed /\ l.got = {}
  BY <1>2, Facts, IdleType DEF Locals, Places, Goals, Idle
<1> HIDE DEF l
<1>4. chain \in Chains /\ SettledOn(chain, FreshHeader) /\ FreshHeader \in Header
      /\ FreshHeader.recs = {}
  BY Facts, FreshType DEF FreshHeader
<1>5. FromCache(chain, l)
  BY <1>3, <1>4 DEF FromCache
<1>6. SoundOn(chain, l)
  BY <1>2, <1>3, <1>4, <1>5, Facts DEF SoundOn
<1> QED
  BY <1>1, <1>3, <1>6, LocalKeeps

LEMMA SpentOpenedKeeps == ASSUME IInv, NEW p \in Procs, SpentOpened(p) PROVE IInv'
<1> DEFINE h == run[p].hdr
           l == [Idle EXCEPT !.goal = "spent", !.got = h.recs, !.from = NextBlock(h),
                             !.pc = "logs"]
<1>1. run' = [run EXCEPT ![p] = l] /\ UNCHANGED <<chainVars, fileVars>>
  BY DEF SpentOpened
<1>2. h \in Header /\ SettledOn(chain, h)
  BY Facts DEF SoundOn
<1>3. NextBlock(h) \in Nat /\ h.recs \subseteq Record
  BY <1>2, Facts DEF NextBlock, Larger, Header
<1> HIDE DEF h
<1>4. /\ l \in Locals /\ l.pc = "logs" /\ l.hdr = FreshHeader /\ l.next = FreshHeader
      /\ l.to = 0 /\ l.from = NextBlock(h) /\ l.got = h.recs
  BY <1>3, IdleType DEF Locals, Places, Goals
<1> HIDE DEF l
<1>5. FromCache(chain, l)
  BY <1>2, <1>4 DEF FromCache
<1>6. chain \in Chains /\ SettledOn(chain, FreshHeader)
  BY Facts, FreshType
<1>7. SoundOn(chain, l)
  BY <1>4, <1>5, <1>6, Facts DEF SoundOn
<1> QED
  BY <1>1, <1>4, <1>7, LocalKeeps

-----------------------------------------------------------------------------
(* The chain grows, or has its last blocks replaced.                        *)

LEMMA ChainMoves ==
    ASSUME IInv, NEW e \in Chains, chain' = e, reorgs' \in Nat,
           UNCHANGED <<fileVars, run>>, Len(chain) <= Len(e),
           \A i \in 1..Len(chain) : i + Margin <= Len(chain) => e[i] = chain[i]
    PROVE  IInv'
<1>1. \A h \in Header : SettledOn(chain, h) => SettledOn(e, h)
  BY Facts, SettledStays
<1>2. FilesSettled(e, files)
  BY <1>1, FileTyped DEF FilesSettled
<1>3. ASSUME NEW p \in Procs  PROVE SoundOn(e, run[p])
  <2>1. SoundOn(chain, run[p]) /\ run[p].hdr \in Header /\ run[p].next \in Header
        /\ run[p].to \in Nat
    BY Facts
  <2>2. SettledOn(e, run[p].hdr) /\ SettledOn(e, run[p].next) /\ run[p].to <= Len(e)
    BY <1>1, <2>1, Facts DEF SoundOn, Chains
  <2>3. FromCache(chain, run[p]) => FromCache(e, run[p])
    BY <1>1 DEF FromCache
  <2> QED
    BY <2>1, <2>2, <2>3 DEF SoundOn
<1>4. TypeOK'
  BY DEF IInv, TypeOK, Chains, fileVars
<1> QED
  BY <1>2, <1>3, <1>4 DEF IInv, fileVars

LEMMA ChainKeeps == ASSUME IInv, Chain PROVE IInv'
<1>1. chain \in Chains /\ Len(chain) \in Nat /\ reorgs \in Nat /\ DOMAIN chain = 1..Len(chain)
  BY Facts DEF IInv, TypeOK, Chains
<1>2. ASSUME NEW events \in SUBSET Events, Grow(events)  PROVE IInv'
  <2> DEFINE e == Append(chain, events)
  <2>1. chain' = e /\ UNCHANGED <<reorgs, fileVars, run>>
    BY <1>2 DEF Grow
  <2>2. /\ e \in Chains /\ Len(chain) <= Len(e)
        /\ \A i \in 1..Len(chain) : e[i] = chain[i]
    BY <1>1 DEF Chains
  <2> HIDE DEF e
  <2> QED
    BY <1>1, <2>1, <2>2, ChainMoves
<1>3. ASSUME NEW b \in 1..Latest, NEW events \in SUBSET Events, Reorg(b, events)  PROVE IInv'
  <2> DEFINE e == [chain EXCEPT ![b] = events]
  <2>1. /\ chain' = e /\ reorgs' = reorgs + 1 /\ UNCHANGED <<fileVars, run>>
        /\ b + Margin > Len(chain)
    BY <1>3 DEF Reorg, Latest
  <2>2. /\ e \in Chains /\ Len(e) = Len(chain)
        /\ \A i \in 1..Len(chain) : i # b => e[i] = chain[i]
    <3>1. \A i \in 1..Len(chain) : chain[i] \in SUBSET Events
      BY <1>1 DEF Chains
    <3>2. e = [i \in 1..Len(chain) |-> IF i = b THEN events ELSE chain[i]]
      BY <1>1
    <3>3. e \in [1..Len(chain) -> SUBSET Events]
      BY <3>1, <3>2
    <3> HIDE DEF e
    <3> QED
      BY <1>1, <3>2, <3>3 DEF Chains
  <2> HIDE DEF e
  <2>3. \A i \in 1..Len(chain) : i + Margin <= Len(chain) => e[i] = chain[i]
    BY <1>1, <2>1, <2>2, Facts DEF Latest
  <2>4. reorgs' \in Nat /\ Len(chain) <= Len(e)
    BY <1>1, <2>1, <2>2
  <2> QED
    BY <2>1, <2>2, <2>3, <2>4, ChainMoves
<1> QED
  BY <1>2, <1>3 DEF Chain

LEMMA CommandKeeps == ASSUME IInv, NEW p \in Procs, Command(p) PROVE IInv'
<1>1. ASSUME NEW cmd \in {"sync", "hydrate"}, Start(p, cmd)  PROVE IInv'
  <2>1. (IF Endpoint THEN "seed" ELSE "head") \in Quiet
    BY DEF Quiet, Places
  <2> QED
    BY <1>1, <2>1, BeginKeeps DEF Start
<1>2. CASE Open(p)
  BY <1>2, LookKeeps, CreateKeeps, FreshKeeps, TrimKeeps DEF Open
<1>3. CASE Install(p)
  BY <1>3, SeedKeeps, DownloadKeeps, FillKeeps, CheckKeeps, RenameKeeps DEF Install
<1>4. CASE Fetching(p)
  <2>1. ASSUME Logs(p)  PROVE IInv'
    BY <2>1, StopKeeps DEF Logs
  <2> QED
    BY <1>4, <2>1, AskKeeps, ReadKeeps, HydrateKeeps, FetchKeeps, RecordsKeeps, HeaderKeeps,
       SpentKeeps, SpentOpenedKeeps DEF Fetching
<1>5. CASE Fail(p)
  BY <1>5, StopKeeps DEF Fail
<1> QED
  BY <1>1, <1>2, <1>3, <1>4, <1>5 DEF Command

LEMMA NextKeeps == ASSUME IInv, [Next]_vars PROVE IInv'
<1>1. CASE Chain
  BY <1>1, ChainKeeps
<1>2. ASSUME NEW p \in Procs, Command(p)  PROVE IInv'
  BY <1>2, CommandKeeps
<1>3. CASE UNCHANGED vars
  BY <1>3 DEF vars, IInv, TypeOK, FilesSettled
<1> QED
  BY <1>1, <1>2, <1>3 DEF Next

(* The strengthened invariant.                                              *)
THEOREM Inductive == Spec => []IInv
BY InitIInv, NextKeeps, PTL DEF Spec
-----------------------------------------------------------------------------
(* A cache that opens holds what the chain logged through its header's      *)
(* block, and every variable keeps its shape, also when commands overlap,   *)
(* race with reorgs and die anywhere (sync_cache.rs).                       *)
THEOREM CacheIsTrue == Spec => [](TypeOK /\ CacheNeverLies)
<1>1. IInv => TypeOK /\ CacheNeverLies
  <2> SUFFICES ASSUME IInv, path # 0  PROVE Cache.hdr.recs = Logged(chain, Deployed, Cache.hdr.through)
    BY DEF IInv, CacheNeverLies
  <2>1. path \in DOMAIN files
    BY DEF IInv, TypeOK
  <2> QED
    BY <2>1, FileTyped DEF Cache, SettledOn
<1> QED
  BY <1>1, Inductive, PTL

(* The part of the answer that comes from the cache ends where the part     *)
(* from the RPC begins.                                                     *)
LEMMA DeliveredIsLogged ==
    ASSUME IInv, NEW p \in Procs, run[p].pc = "fetch", run[p].goal = "sync"
    PROVE  Delivered(p) = Logged(chain, run[p].from, run[p].to)
<1> DEFINE l == run[p]
           cached == Smaller(l.hdr.through, Monus(l.to, Margin))
<1>1. /\ l.from \in Nat /\ l.to \in Nat /\ l.hdr.through \in Nat /\ Deployed \in Nat
      /\ chain \in Chains /\ l.hdr.recs = Logged(chain, Deployed, l.hdr.through)
      /\ l.from >= Deployed
  BY Facts DEF SoundOn, SettledOn, ReadPart, Header
<1>2. cached \in Nat /\ cached <= l.hdr.through /\ cached <= l.to
  BY <1>1, Facts DEF Smaller, Monus
<1>3. /\ l.rpc = Larger(l.from, cached + 1)
      /\ l.got = {r \in l.hdr.recs : r.block \in l.from..Smaller(cached, l.to)}
  BY Facts DEF SoundOn, ReadPart, ReorgSafeWindow
<1>4. Smaller(cached, l.to) = cached
  BY <1>1, <1>2 DEF Smaller
<1> HIDE DEF cached, l
<1>5. l.got = Logged(chain, l.from, cached)
  <2>1. ASSUME NEW r  PROVE r \in l.got <=> r \in Logged(chain, l.from, cached)
    <3>1. Len(chain) \in Nat
      BY <1>1 DEF Chains
    <3>2. r \in [block : 1..Len(chain), event : Events] => r.block \in Nat
      BY <3>1
    <3>3. r \in l.hdr.recs <=>
             /\ r \in [block : 1..Len(chain), event : Events]
             /\ Deployed <= r.block /\ r.block <= l.hdr.through /\ r.event \in chain[r.block]
      BY <1>1, LoggedHas
    <3>4. r \in l.got <=> r \in l.hdr.recs /\ r.block \in l.from..cached
      BY <1>3, <1>4
    <3>5. r \in Logged(chain, l.from, cached) <=>
             /\ r \in [block : 1..Len(chain), event : Events]
             /\ l.from <= r.block /\ r.block <= cached /\ r.event \in chain[r.block]
      BY <1>1, <1>2, LoggedHas
    <3> QED
      BY <1>1, <1>2, <3>2, <3>3, <3>4, <3>5
  <2> QED
    BY <2>1
<1>6. Logged(chain, l.from, cached) \cup Logged(chain, l.rpc, l.to)
        = Logged(chain, l.from, l.to)
  <2>1. CASE cached + 1 >= l.from
    <3>1. l.rpc = cached + 1
      BY <1>1, <1>2, <1>3, <2>1 DEF Larger
    <3> QED
      BY <1>1, <1>2, <2>1, <3>1, LoggedSplit
  <2>2. CASE cached + 1 < l.from
    <3>1. l.rpc = l.from
      BY <1>1, <1>2, <1>3, <2>2 DEF Larger
    <3>2. ASSUME NEW r \in Logged(chain, l.from, cached)  PROVE FALSE
      <4>1. /\ r \in [block : 1..Len(chain), event : Events]
            /\ l.from <= r.block /\ r.block <= cached
        BY <1>1, <1>2, <3>2, LoggedHas
      <4>2. r.block \in Nat
        BY <1>1, <4>1 DEF Chains
      <4> QED
        BY <1>1, <1>2, <2>2, <4>1, <4>2
    <3> QED
      BY <3>1, <3>2
  <2> QED
    BY <1>1, <1>2, <2>1, <2>2
<1> QED
  BY <1>5, <1>6 DEF Delivered, Fetched, l

(* What a sync hands to the indexer is what the chain holds in the blocks   *)
(* that were asked for, for any margin and whatever was cached              *)
(* (CachingSyncer::sync).                                                   *)
THEOREM SyncsMatchChain == Spec => SyncMatchesChain
<1> DEFINE A == \A p \in Procs :
          Fetch(p) /\ run[p].goal = "sync"
              => Delivered(p) = Logged(chain, run[p].from, run[p].to)
<1>1. IInv => [A]_vars
  BY DeliveredIsLogged DEF Fetch, At
<1> QED
  BY <1>1, Inductive, PTL DEF SyncMatchesChain

(* The nullifiers of the cache and of the logs after it are those the pool  *)
(* has logged (spent_nullifiers).                                           *)
THEOREM SpentIsComplete == Spec => SpentMatchesChain
<1> DEFINE A == \A p \in Procs :
          Logs(p) => Answer(p) = SpentIn(Logged(chain, Deployed, Latest))
<1>1. ASSUME IInv, NEW p \in Procs, run[p].pc = "logs"
      PROVE  Answer(p) = SpentIn(Logged(chain, Deployed, Latest))
  <2>1. FromCache(chain, run[p])
    BY <1>1, Facts DEF SoundOn
  <2>2. PICK h \in Header :
          /\ SettledOn(chain, h) /\ run[p].got = h.recs
          /\ run[p].from = NextBlock(h) \/ (run[p].from = Deployed /\ h.recs = {})
    BY <2>1 DEF FromCache
  <2>3. /\ chain \in Chains /\ Latest \in Nat /\ Deployed \in Nat /\ h.through \in Nat
        /\ Latest = Len(chain) /\ Margin \in Nat
    BY <1>1, Facts DEF Latest, Header
  <2>4. run[p].got \cup Logged(chain, run[p].from, Latest) = Logged(chain, Deployed, Latest)
    <3>1. CASE run[p].from = Deployed /\ h.recs = {}
      BY <2>2, <3>1
    <3>2. CASE run[p].from = NextBlock(h)
      <4>1. run[p].got = Logged(chain, Deployed, h.through)
        BY <2>2 DEF SettledOn
      <4>2. CASE h.through + 1 > Deployed /\ h.through <= Latest
        <5>1. run[p].from = h.through + 1 /\ run[p].from \in Nat
          BY <2>3, <3>2, <4>2 DEF NextBlock, Larger
        <5> QED
          BY <2>3, <4>1, <4>2, <5>1, LoggedSplit
      <4>3. CASE h.through + 1 <= Deployed
        <5>1. run[p].from = Deployed
          BY <2>3, <3>2, <4>3 DEF NextBlock, Larger
        <5>2. ASSUME NEW r \in Logged(chain, Deployed, h.through)  PROVE FALSE
          <6>1. /\ r \in [block : 1..Len(chain), event : Events]
                /\ Deployed <= r.block /\ r.block <= h.through
            BY <2>3, <5>2, LoggedHas
          <6>2. r.block \in Nat
            BY <2>3, <6>1
          <6> QED
            BY <2>3, <4>3, <6>1, <6>2
        <5> QED
          BY <4>1, <5>1, <5>2
      <4>4. CASE h.through + 1 > Deployed /\ h.through > Latest
        <5>1. h.through = Monus(Deployed, 1)
          BY <2>2, <2>3, <4>4 DEF SettledOn
        <5>2. Deployed = 0 /\ h.through = 0
          BY <2>3, <4>4, <5>1 DEF Monus
        <5> QED
          BY <2>3, <4>4, <5>2
      <4> QED
        BY <2>3, <4>2, <4>3, <4>4
    <3> QED
      BY <2>2, <3>1, <3>2
  <2> QED
    BY <2>4 DEF Answer
<1>2. IInv => [A]_vars
  BY <1>1 DEF Logs, At
<1> QED
  BY <1>2, Inductive, PTL DEF SpentMatchesChain

(* extend keeps to the cap and never claims a block it left out, whichever  *)
(* of two overlapping commands writes (sync_cache.rs extend).               *)
THEOREM ExtendKeepsCap == Spec => CapIsKept
<1> DEFINE A == \A p \in Procs :
          WriteHeader(p) =>
              /\ run[p].next.recs = run[p].hdr.recs
                 \/ Cardinality(run[p].next.recs) <= MaxRecords
              /\ run[p].next.recs = Logged(chain, Deployed, run[p].next.through)
<1>1. IInv => [A]_vars
  BY Facts DEF WriteHeader, At, SoundOn, SettledOn, ExtendsWithinCap
<1> QED
  BY <1>1, Inductive, PTL DEF CapIsKept
=============================================================================
