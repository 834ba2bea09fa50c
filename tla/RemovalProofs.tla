----------------------------- MODULE RemovalProofs -----------------------------
(***************************************************************************)
(* NoInnocentRemoval of LibraryIndex: whatever runs at the same time, a    *)
(* scan or a refresh removes no row of a path that was present all the     *)
(* while it ran.                                                           *)
(***************************************************************************)
EXTENDS LibraryIndexProofs

(***************************************************************************)
(* The inductive invariant.                                                *)
(***************************************************************************)
ScanWorkers == Scanners \cup Crons

(* What is on disk lies in a directory that is there.                      *)
TreeOnDisk == \A p \in Paths : OnDisk(p) => Exists(Parent[p])

(* A transaction that has not ended only added rows: every deletion is     *)
(* committed by the statement that makes it.                               *)
ViewKeeps == \A p \in Paths : db.items[p] # None => view.items[p] # None

(* What a running job has recorded as gone: all that is absent, with a     *)
(* directory everything in it, and the rows the job is about to delete.    *)
Remembers(j) ==
    /\ Absent \subseteq j.gone
    /\ \A p \in Paths : p \notin j.gone => Parent[p] \notin j.gone
    /\ j.missing \subseteq j.gone

(* A refresh has read the rows of the children of its directory.           *)
KnowsChildren(j) ==
    j.pc = "scandir" => \A p \in Paths : j.snap[p] # None => Parent[p] = j.at

(* The walk of a scan: the directories it has listed, and the paths it has *)
(* listed so far.                                                          *)
Entering(j) == IF j.pc = "dir" THEN {j.at} ELSE {}
Visited(j)  == j.rels \cup Entering(j) \cup ({Root} \ j.todo)
Met(j)      == j.rels \cup Entering(j) \cup j.todo \cup j.left

(* It has met every present path of every directory it has listed.         *)
Covers(j) ==
    /\ j.pc \in {"spawned", "snapshot"} => j.rels = {}
    /\ j.pc \in {"walk", "dir", "pages", "upsert", "meta", "cleanup"} =>
          \A p \in Paths : (p \notin j.gone /\ Parent[p] \in Visited(j))
                             => p \in Met(j)
    /\ j.pc = "cleanup" => j.todo = {} /\ j.left = {}

JobInv(w, j) ==
    /\ j.pc # "idle" => Remembers(j)
    /\ KnowsChildren(j)
    /\ w \in ScanWorkers => Covers(j)

RemovalInv ==
    /\ TreeOnDisk
    /\ ViewKeeps
    /\ \A w \in Workers : JobInv(w, job[w])

(***************************************************************************)
(* The kinds of steps.                                                     *)
(***************************************************************************)
LEMMA Kinds ==
    ASSUME NEW w \in Workers
    PROVE  /\ w \in ScanWorkers => w \notin Refreshers \cup Timers \cup Pathers
           /\ w \in Refreshers => w \notin ScanWorkers \cup Timers \cup Pathers
BY WorkerAssumption DEF ScanWorkers

(* A job that records the same, or more, remembers no less.                *)
LEMMA StepJob ==
    ASSUME TypeInv, RemovalInv, NEW w \in Workers, NEW j, Become(w, j),
           JobInv(w, j), UNCHANGED diskVars, ViewKeeps'
    PROVE  RemovalInv'
<1>1. \A x \in Workers : job'[x] = IF x = w THEN j ELSE job[x]
  BY DEF Become, TypeInv, TypeOK
<1>2. disk' = disk /\ dirs' = dirs
  BY DEF diskVars
<1>3. TreeOnDisk'
  BY <1>2 DEF RemovalInv, TreeOnDisk, OnDisk, Exists
<1>4. \A x \in Workers : JobInv(x, job'[x])
  BY <1>1 DEF RemovalInv
<1>5. Absent' = Absent
  BY <1>2 DEF Absent, OnDisk
<1>6. \A x \in Workers : JobInv(x, job[x])'
  BY <1>4, <1>5 DEF JobInv, Remembers, KnowsChildren, Covers, Visited, Met,
                    Entering
<1> QED  BY <1>3, <1>6 DEF RemovalInv

LEMMA IdleInv ==
    ASSUME NEW w
    PROVE  JobInv(w, IdleJob)
BY DEF JobInv, IdleJob, KnowsChildren, Covers

(* The jobs that are not scans have nothing to cover.                      *)
LEMMA PlainInv ==
    ASSUME NEW w \in Workers, w \notin ScanWorkers, JobInv(w, job[w]),
           job[w].pc # "idle", NEW j, j.pc # "scandir",
           j.gone = job[w].gone, j.missing \subseteq job[w].gone
    PROVE  JobInv(w, j)
BY DEF JobInv, KnowsChildren, Remembers

(***************************************************************************)
(* What the statements do to the rows of items.                            *)
(***************************************************************************)
Keeps(ix) == \A p \in Paths : view.items[p] # None => ix.items[p] # None

LEMMA KeepOps ==
    ASSUME TypeInv
    PROVE  /\ Keeps(view)
           /\ Keeps(PruneStale(view))
           /\ \A d \in Dirs : Keeps(UpsertDir(view, d))
           /\ \A w \in Workers : Keeps(WithMeta(w))
<1>1. view \in Index
  BY DEF TypeInv, TypeOK
<1>2. Keeps(view)
  BY DEF Keeps
<1>3. PruneStale(view).items = view.items
  BY <1>1 DEF PruneStale, Index
<1>4. ASSUME NEW d \in Dirs
      PROVE  Keeps(UpsertDir(view, d))
  <2>1. [stamp |-> None, pages |-> 0] \in Row
    BY DEF Row
  <2> QED  BY <1>1, <2>1, RowAssumption DEF UpsertDir, Index, Keeps
<1>5. \A w \in Workers : WithMeta(w).items = view.items
  BY <1>1 DEF WithMeta, UpsertMetaIfAny, UpsertMeta
<1> QED  BY <1>2, <1>3, <1>4, <1>5 DEF Keeps

LEMMA StoreKeeps ==
    ASSUME ViewKeeps, NEW w
    PROVE  /\ UNCHANGED storeVars => ViewKeeps'
           /\ Rollback(w) => ViewKeeps'
           /\ \A ix : Commit(w, ix) => ViewKeeps'
           /\ \A ix : Keeps(ix) /\ Write(w, ix) => ViewKeeps'
BY DEF ViewKeeps, Keeps, storeVars, Rollback, Commit, Write

LEMMA DeletedOnly ==
    ASSUME TypeInv, NEW S, NEW p \in Paths, view.items[p] # None,
           \/ DeleteRows(view, S).items[p] = None
           \/ CleanupDeleted(view, S).items[p] = None
    PROVE  p \in S
BY DEF TypeInv, TypeOK, Index, DeleteRows, CleanupDeleted, Without

(***************************************************************************)
(* The steps on one file that all kinds of job share.                      *)
(***************************************************************************)
(* A job that moves on at the same file has met what it had met.           *)
LEMMA SameWalk ==
    ASSUME NEW w \in Workers, JobInv(w, job[w]),
           job[w].pc \in {"walk", "pages", "upsert", "meta"}, NEW j,
           j.pc \in {"walk", "pages", "upsert", "meta"},
           j.gone = job[w].gone, j.missing = job[w].missing,
           j.rels = job[w].rels, j.todo = job[w].todo, j.left = job[w].left
    PROVE  JobInv(w, j)
<1>1. Remembers(j) /\ KnowsChildren(j)
  BY DEF JobInv, Remembers, KnowsChildren
<1>2. w \in ScanWorkers => Covers(j)
  BY DEF JobInv, Covers, Visited, Met, Entering
<1> QED  BY <1>1, <1>2 DEF JobInv

LEMMA CountPagesKeeps ==
    ASSUME TypeInv, RemovalInv, NEW w \in Workers, CountPages(w)
    PROVE  RemovalInv'
<1> DEFINE j == [job[w] EXCEPT !.pc = "upsert",
                               !.pages = PagesOnDisk(job[w].file)]
<1>1. job[w] \in Job /\ job[w].pc = "pages" /\ JobInv(w, job[w])
  BY WorkerTypes DEF CountPages, RemovalInv
<1>2. /\ j.pc = "upsert" /\ j.gone = job[w].gone
      /\ j.missing = job[w].missing /\ j.rels = job[w].rels
      /\ j.todo = job[w].todo /\ j.left = job[w].left
  BY <1>1 DEF Job
<1>3. Become(w, j) /\ UNCHANGED diskVars /\ UNCHANGED storeVars
  BY DEF CountPages
<1> HIDE DEF j
<1>4. JobInv(w, j)
  BY <1>1, <1>2, SameWalk
<1> QED  BY <1>3, <1>4, StepJob, StoreKeeps DEF RemovalInv

LEMMA UpsertFileRowKeeps ==
    ASSUME TypeInv, RemovalInv, NEW w \in Workers, UpsertFileRow(w)
    PROVE  RemovalInv'
<1> DEFINE j  == [job[w] EXCEPT !.pc = "meta"]
           ix == UpsertFile(view, job[w].file, job[w].stamp, job[w].pages)
<1>1. /\ job[w] \in Job /\ job[w].pc = "upsert" /\ JobInv(w, job[w])
      /\ job[w].file \in Files /\ view \in Index
  BY WorkerTypes DEF UpsertFileRow, RemovalInv, AtPath, TypeInv, TypeOK
<1>2. /\ j.pc = "meta" /\ j.gone = job[w].gone
      /\ j.missing = job[w].missing /\ j.rels = job[w].rels
      /\ j.todo = job[w].todo /\ j.left = job[w].left
  BY <1>1 DEF Job
<1>3. [stamp |-> job[w].stamp, pages |-> job[w].pages] \in Row
  BY <1>1 DEF Job, Row
<1>4. Keeps(ix)
  BY <1>1, <1>3, RowAssumption DEF UpsertFile, Index, Keeps
<1>5. Become(w, j) /\ UNCHANGED diskVars /\ Write(w, ix)
  BY DEF UpsertFileRow, Goto
<1> HIDE DEF j, ix
<1>6. JobInv(w, j)
  BY <1>1, <1>2, SameWalk
<1> QED  BY <1>4, <1>5, <1>6, StepJob, StoreKeeps DEF RemovalInv

LEMMA DropKeeps ==
    ASSUME TypeInv, RemovalInv, NEW w \in Workers, Drop(w),
           UNCHANGED diskVars,
           \/ UNCHANGED storeVars
           \/ Rollback(w)
           \/ \E ix : Commit(w, ix)
    PROVE  RemovalInv'
<1>1. ViewKeeps'
  BY StoreKeeps DEF RemovalInv
<1>2. Become(w, IdleJob) /\ JobInv(w, IdleJob)
  BY IdleInv DEF Drop
<1> HIDE DEF IdleJob
<1> QED  BY <1>1, <1>2, StepJob

(***************************************************************************)
(* Scans                                                                   *)
(***************************************************************************)
(* At the end of the walk every path that was there all the while has been *)
(* met: a first one that was not would lie in a directory that has been.   *)
LEMMA WalkMeetsAll ==
    ASSUME TypeInv, NEW w \in ScanWorkers, JobInv(w, job[w]),
           job[w].pc = "cleanup", NEW p \in Paths, p \notin job[w].gone
    PROVE  p \in job[w].rels
<1> DEFINE j == job[w]
           S == {d \in Dirs : d \notin j.gone /\ d \notin j.rels}
<1>1. /\ Visited(j) = j.rels \cup {Root} /\ Met(j) = j.rels
      /\ \A q \in Paths : (q \notin j.gone /\ Parent[q] \in Visited(j))
                            => q \in j.rels
      /\ \A q \in Paths : q \notin j.gone => Parent[q] \notin j.gone
  BY DEF JobInv, Covers, Remembers, Visited, Met, Entering
<1>2. \A q \in Paths : Parent[q] \in Dirs \cup {Root}
  BY TreeAssumption DEF Places
<1> HIDE DEF j
<1>3. S = {}
  <2>1. SUFFICES ASSUME S # {}
                 PROVE  FALSE
    OBVIOUS
  <2>2. PICK d \in S : Parent[d] \notin S
    BY <2>1, TreeAssumption
  <2>3. d \in Paths /\ Parent[d] \in Visited(j)
    BY <1>1, <1>2, <2>2 DEF Paths
  <2> QED  BY <1>1, <2>2, <2>3
<1> QED  BY <1>1, <1>2, <1>3 DEF j, Paths

LEMMA ScanKeeps ==
    ASSUME TypeInv, RemovalInv, NEW w \in ScanWorkers, ScanStep(w)
    PROVE  RemovalInv'
<1>0. /\ w \in Workers /\ job[w] \in Job /\ AtPath(job[w]) /\ JobInv(w, job[w])
      /\ dirs \in SUBSET Dirs
  BY WorkerTypes DEF ScanWorkers, Workers, Server, RemovalInv, TypeInv, TypeOK
<1>a. ScanAbort(w) /\ UNCHANGED diskVars => RemovalInv'
  BY <1>0, DropKeeps DEF ScanAbort
<1>1. CASE ScanBegin(w)
  <2> DEFINE j == [job[w] EXCEPT !.pc = "snapshot"]
  <2>1. /\ job[w].pc = "spawned" /\ j.pc = "snapshot" /\ j.gone = job[w].gone
        /\ j.missing = job[w].missing /\ j.rels = job[w].rels
    BY <1>0, <1>1 DEF ScanBegin, Job
  <2>2. Become(w, j) /\ UNCHANGED diskVars /\ UNCHANGED storeVars
    BY <1>1 DEF ScanBegin, Goto
  <2> HIDE DEF j
  <2>3. JobInv(w, j)
    BY <1>0, <2>1 DEF JobInv, Remembers, KnowsChildren, Covers
  <2> QED  BY <1>0, <2>2, <2>3, StepJob, StoreKeeps DEF RemovalInv
<1>2. CASE ScanSnapshot(w)
  <2> DEFINE j == [job[w] EXCEPT !.pc = "walk", !.todo = {Root},
                     !.snap = IF job[w].force THEN NoRows ELSE Reads(w).items]
  <2>1. /\ job[w].pc = "snapshot" /\ j.pc = "walk" /\ j.gone = job[w].gone
        /\ j.missing = job[w].missing /\ j.rels = job[w].rels
        /\ j.todo = {Root}
    BY <1>0, <1>2 DEF ScanSnapshot, Job
  <2>2. Become(w, j) /\ UNCHANGED diskVars /\ UNCHANGED storeVars
    BY <1>2 DEF ScanSnapshot
  <2> HIDE DEF j
  <2>3. JobInv(w, j)
    BY <1>0, <2>1
       DEF JobInv, Remembers, KnowsChildren, Covers, Visited, Entering
  <2> QED  BY <1>0, <2>2, <2>3, StepJob, StoreKeeps DEF RemovalInv
<1>3. ASSUME NEW d \in Places, ScanList(w, d)
      PROVE  RemovalInv'
  <2> DEFINE j == [job[w] EXCEPT
            !.pc   = IF d \in dirs THEN "dir" ELSE "walk",
            !.at   = IF d \in dirs THEN d ELSE Root,
            !.todo = (@ \ {d}) \cup SubdirsIn(d),
            !.left = FilesIn(d)]
  <2>1. /\ job[w].pc = "walk" /\ job[w].left = {} /\ d \in job[w].todo
        /\ Become(w, j) /\ UNCHANGED diskVars /\ UNCHANGED storeVars
    BY <1>3 DEF ScanList
  <2>2. /\ j.pc = (IF d \in dirs THEN "dir" ELSE "walk")
        /\ j.at = (IF d \in dirs THEN d ELSE Root)
        /\ j.todo = (job[w].todo \ {d}) \cup SubdirsIn(d)
        /\ j.left = FilesIn(d) /\ j.gone = job[w].gone
        /\ j.missing = job[w].missing /\ j.rels = job[w].rels
    BY <1>0 DEF Job
  <2> HIDE DEF j
  <2>3. Remembers(job[w]) /\ Remembers(j) /\ KnowsChildren(j)
    BY <1>0, <2>1, <2>2 DEF JobInv, Remembers, KnowsChildren
  <2>4. ASSUME NEW p \in Paths, p \notin j.gone, Parent[p] \in Visited(j)
        PROVE  p \in Met(j)
    <3>1. OnDisk(p)
      BY <2>3, <2>4 DEF Remembers, Absent
    <3>2. CASE Parent[p] = d
      BY <2>2, <3>1, <3>2 DEF OnDisk, SubdirsIn, FilesIn, Met, Paths
    <3>3. CASE Parent[p] # d
      <4>1. Parent[p] \in Visited(job[w])
        BY <2>1, <2>2, <2>4, <3>3 DEF Visited, Entering
      <4>2. p \in job[w].rels \cup job[w].todo
        BY <1>0, <2>1, <2>2, <2>4, <4>1 DEF JobInv, Covers, Met, Entering
      <4>3. p = d => d \in dirs \/ p \in job[w].rels
        BY <3>1, <4>2, PathAssumption, TreeAssumption
           DEF OnDisk, Paths, Places
      <4> QED  BY <2>2, <4>2, <4>3 DEF Met, Entering
    <3> QED  BY <3>2, <3>3
  <2>5. Covers(j)
    BY <2>2, <2>4 DEF Covers
  <2>6. JobInv(w, j)
    BY <2>3, <2>5 DEF JobInv
  <2> QED  BY <1>0, <2>1, <2>6, StepJob, StoreKeeps DEF RemovalInv
<1>4. CASE ScanDir(w)
  <2> DEFINE d == job[w].at
             j == [job[w] EXCEPT !.pc = "walk", !.at = Root, !.rels = @ \cup {d}]
  <2>0. job[w].pc = "dir" /\ UNCHANGED diskVars
    BY <1>4 DEF ScanDir
  <2>1. CASE ScanAbort(w)
    BY <1>a, <2>0, <2>1
  <2>2. CASE Write(w, UpsertDir(view, d)) /\ Become(w, j)
    <3>1. /\ j.pc = "walk" /\ j.rels = job[w].rels \cup {d}
          /\ j.todo = job[w].todo /\ j.left = job[w].left
          /\ j.gone = job[w].gone /\ j.missing = job[w].missing
          /\ d \in Dirs
      BY <1>0, <2>0 DEF Job, AtPath
    <3> HIDE DEF j
    <3>2. Visited(j) = Visited(job[w]) /\ Met(j) = Met(job[w])
      BY <2>0, <3>1 DEF Visited, Met, Entering
    <3>3. JobInv(w, j)
      BY <1>0, <2>0, <3>1, <3>2 DEF JobInv, Remembers, KnowsChildren, Covers
    <3>4. ViewKeeps'
      BY <2>2, <3>1, KeepOps, StoreKeeps DEF RemovalInv
    <3> QED  BY <1>0, <2>0, <2>2, <3>3, <3>4, StepJob
  <2> QED  BY <1>4, <2>1, <2>2 DEF ScanDir
<1>5. ASSUME NEW f \in Files, ScanFile(w, f)
      PROVE  RemovalInv'
  <2> DEFINE k == [job[w] EXCEPT !.left = @ \ {f}, !.rels = @ \cup {f}]
             i == [k EXCEPT !.pc = "pages", !.file = f, !.stamp = disk[f]]
  <2>0. job[w].pc = "walk" /\ UNCHANGED diskVars /\ f \in job[w].left
    BY <1>5 DEF ScanFile
  <2>1. CASE ScanAbort(w)
    BY <1>a, <2>0, <2>1
  <2>2. ASSUME NEW j \in {k, i}, Become(w, j), UNCHANGED storeVars
        PROVE  RemovalInv'
    <3>1. /\ j.pc \in {"walk", "pages"} /\ j.rels = job[w].rels \cup {f}
          /\ j.todo = job[w].todo /\ j.left = job[w].left \ {f}
          /\ j.gone = job[w].gone /\ j.missing = job[w].missing
      BY <1>0, <2>0, <2>2 DEF Job
    <3> HIDE DEF k, i
    <3>2. /\ Visited(j) = Visited(job[w]) \cup {f} /\ Met(j) = Met(job[w])
          /\ \A p \in Paths : Parent[p] # f
      BY <2>0, <3>1, TreeAssumption, PathAssumption
         DEF Visited, Met, Entering, Places, Paths
    <3>3. JobInv(w, j)
      BY <1>0, <2>0, <3>1, <3>2 DEF JobInv, Remembers, KnowsChildren, Covers
    <3> QED  BY <1>0, <2>0, <2>2, <3>3, StepJob, StoreKeeps DEF RemovalInv
  <2> QED  BY <1>5, <2>1, <2>2 DEF ScanFile
<1>6. CASE CountPages(w)
  BY <1>0, <1>6, CountPagesKeeps
<1>7. CASE UpsertFileRow(w)
  BY <1>0, <1>7, UpsertFileRowKeeps
<1>8. CASE ScanMeta(w)
  <2> DEFINE n == IF job[w].dirty + 1 >= CommitEvery THEN 0 ELSE job[w].dirty + 1
             j == [job[w] EXCEPT !.pc = "walk", !.file = None,
                        !.stamp = None, !.pages = 0, !.dirty = n]
  <2>1. /\ Become(w, j) /\ job[w].pc = "meta" /\ UNCHANGED diskVars
        /\ Write(w, WithMeta(w)) \/ Commit(w, WithMeta(w))
    BY <1>8 DEF ScanMeta
  <2>2. /\ j.pc = "walk" /\ j.rels = job[w].rels
        /\ j.todo = job[w].todo /\ j.left = job[w].left
        /\ j.gone = job[w].gone /\ j.missing = job[w].missing
    BY <1>0 DEF Job
  <2> HIDE DEF j
  <2>3. JobInv(w, j)
    BY <1>0, <2>1, <2>2, SameWalk
  <2>4. ViewKeeps'
    BY <1>0, <2>1, KeepOps, StoreKeeps DEF RemovalInv
  <2> QED  BY <1>0, <2>1, <2>3, <2>4, StepJob
<1>9. CASE ScanWalked(w)
  <2> DEFINE j == [job[w] EXCEPT !.pc = "cleanup", !.dirty = 0]
  <2>1. /\ Become(w, j) /\ job[w].pc = "walk" /\ UNCHANGED diskVars
        /\ job[w].todo = {} /\ job[w].left = {}
        /\ Commit(w, view) \/ UNCHANGED storeVars
    BY <1>9 DEF ScanWalked
  <2>2. /\ j.pc = "cleanup" /\ j.rels = job[w].rels
        /\ j.todo = job[w].todo /\ j.left = job[w].left
        /\ j.gone = job[w].gone /\ j.missing = job[w].missing
    BY <1>0 DEF Job
  <2> HIDE DEF j
  <2>3. JobInv(w, j)
    BY <1>0, <2>1, <2>2
       DEF JobInv, Remembers, KnowsChildren, Covers, Visited, Met, Entering
  <2>4. ViewKeeps'
    BY <2>1, StoreKeeps DEF RemovalInv
  <2> QED  BY <1>0, <2>1, <2>3, <2>4, StepJob
<1>10. CASE ScanMissing(w)
  <2> DEFINE missing == Listed(Reads(w).items) \ job[w].rels
             j == [job[w] EXCEPT !.missing = missing,
                      !.snap = NoRows, !.rels = {},
                      !.pc = IF missing = {} THEN "prune" ELSE "delete"]
  <2>1. /\ Become(w, j) /\ job[w].pc = "cleanup" /\ UNCHANGED diskVars
        /\ UNCHANGED storeVars
    BY <1>10 DEF ScanMissing
  <2>2. /\ j.pc \in {"prune", "delete"} /\ j.gone = job[w].gone
        /\ j.missing = missing
    BY <1>0 DEF Job
  <2>3. missing \subseteq job[w].gone
    BY <1>0, <2>1, WalkMeetsAll DEF Listed
  <2> HIDE DEF j, missing
  <2>4. JobInv(w, j)
    BY <1>0, <2>1, <2>2, <2>3 DEF JobInv, Remembers, KnowsChildren, Covers
  <2> QED  BY <1>0, <2>1, <2>4, StepJob, StoreKeeps DEF RemovalInv
<1>11. CASE ScanDelete(w)
  <2> DEFINE j == [job[w] EXCEPT !.pc = "prune", !.missing = {}]
  <2>1. /\ Become(w, j) /\ job[w].pc = "delete" /\ UNCHANGED diskVars
        /\ Commit(w, CleanupDeleted(view, job[w].missing))
    BY <1>11 DEF ScanDelete
  <2>2. j.pc = "prune" /\ j.gone = job[w].gone /\ j.missing = {}
    BY <1>0 DEF Job
  <2> HIDE DEF j
  <2>3. JobInv(w, j)
    BY <1>0, <2>1, <2>2 DEF JobInv, Remembers, KnowsChildren, Covers
  <2> QED  BY <1>0, <2>1, <2>3, StepJob, StoreKeeps DEF RemovalInv
<1>12. ASSUME NEW pc \in {"clear", "finish"}, Goto(w, pc),
              job[w].pc \in {"prune", "clear"}, UNCHANGED diskVars,
              UNCHANGED storeVars \/ Commit(w, PruneStale(view))
       PROVE  RemovalInv'
  <2> DEFINE j == [job[w] EXCEPT !.pc = pc]
  <2>1. Become(w, j) /\ j.pc = pc /\ j.gone = job[w].gone
        /\ j.missing = job[w].missing
    BY <1>0, <1>12 DEF Goto, Job
  <2> HIDE DEF j
  <2>2. JobInv(w, j)
    BY <1>0, <1>12, <2>1 DEF JobInv, Remembers, KnowsChildren, Covers
  <2>3. ViewKeeps'
    BY <1>12, StoreKeeps DEF RemovalInv
  <2> QED  BY <1>0, <1>12, <2>1, <2>2, <2>3, StepJob
<1>13. CASE ScanFinish(w)
  BY <1>0, <1>13, DropKeeps DEF ScanFinish
<1>14. CASE ScanLockedOut(w)
  BY <1>14, <1>a DEF ScanLockedOut
<1> QED
  BY <1>1, <1>2, <1>3, <1>4, <1>5, <1>6, <1>7, <1>8, <1>9, <1>10, <1>11,
     <1>12, <1>13, <1>14
  DEF ScanStep, ScanPrune, ScanClear

(***************************************************************************)
(* Refreshes                                                               *)
(***************************************************************************)
LEMMA RefreshKeeps ==
    ASSUME TypeInv, RemovalInv, NEW w \in Refreshers, RefreshStep(w)
    PROVE  RemovalInv'
<1>0. /\ w \in Workers /\ w \notin ScanWorkers /\ job[w] \in Job
      /\ JobInv(w, job[w])
  BY WorkerTypes, Kinds DEF Workers, Server, RemovalInv
<1>a. RefreshAbort(w) /\ UNCHANGED diskVars => RemovalInv'
  BY <1>0, DropKeeps DEF RefreshAbort
<1>1. CASE RefreshGate(w)
  <2> DEFINE j == [job[w] EXCEPT !.pc = "select"]
  <2>1. CASE Drop(w)
    BY <1>0, <1>1, <2>1, DropKeeps DEF RefreshGate
  <2>2. CASE Become(w, j)
    <3>1. /\ j.pc = "select" /\ job[w].pc = "gate" /\ j.gone = job[w].gone
          /\ j.missing = job[w].missing
      BY <1>0, <1>1 DEF Job, RefreshGate
    <3> HIDE DEF j
    <3>2. JobInv(w, j)
      BY <1>0, <3>1, PlainInv DEF JobInv, Remembers
    <3> QED  BY <1>0, <1>1, <2>2, <3>2, StepJob, StoreKeeps
             DEF RefreshGate, RemovalInv
  <2> QED  BY <1>1, <2>1, <2>2 DEF RefreshGate, Goto
<1>2. CASE RefreshSelect(w)
  <2> DEFINE j == [job[w] EXCEPT !.pc = "scandir",
                     !.snap = ChildRows(Reads(w).items, job[w].at)]
  <2>1. /\ Become(w, j) /\ job[w].pc = "select" /\ UNCHANGED diskVars
        /\ UNCHANGED storeVars
    BY <1>2 DEF RefreshSelect
  <2>2. /\ j.pc = "scandir" /\ j.gone = job[w].gone /\ j.at = job[w].at
        /\ j.missing = job[w].missing
        /\ j.snap = ChildRows(Reads(w).items, job[w].at)
    BY <1>0 DEF Job
  <2> HIDE DEF j
  <2>3. JobInv(w, j)
    BY <1>0, <2>1, <2>2 DEF JobInv, Remembers, KnowsChildren, ChildRows
  <2> QED  BY <1>0, <2>1, <2>3, StepJob, StoreKeeps DEF RemovalInv
<1>3. CASE RefreshScandir(w)
  <2> DEFINE d == job[w].at
             known == Listed(job[w].snap)
             missing == known \ (SubdirsIn(d) \cup FilesIn(d))
             j == [job[w] EXCEPT
                    !.pc = "walk",
                    !.todo = SubdirsIn(d) \ known,
                    !.left = FilesIn(d),
                    !.missing = missing]
  <2>0. job[w].pc = "scandir" /\ UNCHANGED diskVars
    BY <1>3 DEF RefreshScandir
  <2>1. CASE RefreshAbort(w)
    BY <1>a, <2>0, <2>1
  <2>2. CASE Become(w, j) /\ UNCHANGED storeVars
    <3>1. j.pc = "walk" /\ j.gone = job[w].gone /\ j.missing = missing
      BY <1>0 DEF Job
    <3>2. missing \subseteq job[w].gone
      <4>1. SUFFICES ASSUME NEW p \in missing
                     PROVE  p \in Absent
        BY <1>0, <2>0 DEF JobInv, Remembers
      <4>2. p \in Paths /\ Parent[p] = d
        BY <1>0, <2>0 DEF JobInv, KnowsChildren, Listed
      <4> QED  BY <4>2 DEF Absent, OnDisk, SubdirsIn, FilesIn
    <3> HIDE DEF j, missing
    <3>3. JobInv(w, j)
      BY <1>0, <2>0, <3>1, <3>2, PlainInv
    <3> QED  BY <1>0, <2>0, <2>2, <3>3, StepJob, StoreKeeps DEF RemovalInv
  <2> QED  BY <1>3, <2>1, <2>2 DEF RefreshScandir
<1>4. ASSUME NEW d \in Dirs, RefreshDir(w, d)
      PROVE  RemovalInv'
  <2> DEFINE j == [job[w] EXCEPT !.todo = @ \ {d}]
  <2>0. job[w].pc = "walk" /\ UNCHANGED diskVars
    BY <1>4 DEF RefreshDir
  <2>1. CASE RefreshAbort(w)
    BY <1>a, <2>0, <2>1
  <2>2. CASE Write(w, UpsertDir(view, d)) /\ Become(w, j)
    <3>1. /\ j.pc = "walk" /\ j.gone = job[w].gone
          /\ j.missing = job[w].missing
      BY <1>0, <2>0 DEF Job
    <3> HIDE DEF j
    <3>2. JobInv(w, j)
      BY <1>0, <2>0, <3>1, PlainInv DEF JobInv, Remembers
    <3>3. ViewKeeps'
      BY <2>2, KeepOps, StoreKeeps DEF RemovalInv
    <3> QED  BY <1>0, <2>0, <2>2, <3>2, <3>3, StepJob
  <2> QED  BY <1>4, <2>1, <2>2 DEF RefreshDir
<1>5. ASSUME NEW f \in Files, RefreshFile(w, f)
      PROVE  RemovalInv'
  <2> DEFINE k == [job[w] EXCEPT !.left = @ \ {f}]
             i == [k EXCEPT !.pc = "pages", !.file = f, !.stamp = disk[f]]
  <2>0. job[w].pc = "walk" /\ UNCHANGED diskVars
    BY <1>5 DEF RefreshFile
  <2>1. CASE RefreshAbort(w)
    BY <1>a, <2>0, <2>1
  <2>2. ASSUME NEW j \in {k, i}, Become(w, j), UNCHANGED storeVars
        PROVE  RemovalInv'
    <3>1. /\ j.pc \in {"walk", "pages"} /\ j.gone = job[w].gone
          /\ j.missing = job[w].missing
      BY <1>0, <2>0, <2>2 DEF Job
    <3> HIDE DEF k, i
    <3>2. JobInv(w, j)
      BY <1>0, <2>0, <3>1, PlainInv DEF JobInv, Remembers
    <3> QED  BY <1>0, <2>0, <2>2, <3>2, StepJob, StoreKeeps DEF RemovalInv
  <2> QED  BY <1>5, <2>1, <2>2 DEF RefreshFile
<1>6. CASE CountPages(w)
  BY <1>0, <1>6, CountPagesKeeps
<1>7. CASE UpsertFileRow(w)
  BY <1>0, <1>7, UpsertFileRowKeeps
<1>8. CASE RefreshMeta(w)
  <2> DEFINE j == [job[w] EXCEPT !.pc = "walk", !.file = None,
                                 !.stamp = None, !.pages = 0]
  <2>1. /\ Become(w, j) /\ job[w].pc = "meta" /\ UNCHANGED diskVars
        /\ Write(w, WithMeta(w))
    BY <1>8 DEF RefreshMeta
  <2>2. j.pc = "walk" /\ j.gone = job[w].gone /\ j.missing = job[w].missing
    BY <1>0 DEF Job
  <2> HIDE DEF j
  <2>3. JobInv(w, j)
    BY <1>0, <2>1, <2>2, PlainInv DEF JobInv, Remembers
  <2>4. ViewKeeps'
    BY <1>0, <2>1, KeepOps, StoreKeeps DEF RemovalInv
  <2> QED  BY <1>0, <2>1, <2>3, <2>4, StepJob
<1>9. CASE RefreshEnd(w)
  BY <1>0, <1>9, DropKeeps DEF RefreshEnd
<1>10. CASE RefreshLockedOut(w)
  BY <1>10, <1>a DEF RefreshLockedOut
<1> QED
  BY <1>1, <1>2, <1>3, <1>4, <1>5, <1>6, <1>7, <1>8, <1>9, <1>10
  DEF RefreshStep

(***************************************************************************)
(* Timers and path reindexes delete nothing that they had to look up.      *)
(***************************************************************************)
LEMMA PlainStep ==
    ASSUME TypeInv, RemovalInv, NEW w \in Workers, w \notin ScanWorkers,
           job[w].pc # "idle", NEW j, Become(w, j), j.pc # "scandir",
           j.gone = job[w].gone, j.missing = job[w].missing,
           UNCHANGED diskVars,
           UNCHANGED storeVars \/ \E ix : Keeps(ix) /\ Write(w, ix)
    PROVE  RemovalInv'
<1>1. JobInv(w, j)
  BY PlainInv DEF RemovalInv, JobInv, Remembers
<1>2. ViewKeeps'
  BY StoreKeeps DEF RemovalInv
<1> QED  BY <1>1, <1>2, StepJob

LEMMA TimerKeeps ==
    ASSUME TypeInv, RemovalInv, NEW w \in Timers, TimerStep(w)
    PROVE  RemovalInv'
<1>0. w \in Workers /\ w \notin ScanWorkers /\ job[w] \in Job
  BY WorkerTypes, Kinds DEF Workers, Server
<1>1. CASE TimerStat(w)
  <2> DEFINE j == [job[w] EXCEPT !.pc = "pages", !.stamp = disk[job[w].file]]
  <2>0. job[w].pc = "stat" /\ UNCHANGED diskVars /\ UNCHANGED storeVars
    BY <1>1 DEF TimerStat
  <2>1. CASE Drop(w)
    BY <1>0, <2>0, <2>1, DropKeeps
  <2>2. CASE Become(w, j)
    <3>1. /\ j.pc = "pages" /\ j.gone = job[w].gone
          /\ j.missing = job[w].missing
      BY <1>0 DEF Job
    <3> HIDE DEF j
    <3> QED  BY <1>0, <2>0, <2>2, <3>1, PlainStep
  <2> QED  BY <1>1, <2>1, <2>2 DEF TimerStat
<1>2. CASE CountPages(w)
  BY <1>0, <1>2, CountPagesKeeps
<1>3. CASE UpsertFileRow(w)
  BY <1>0, <1>3, UpsertFileRowKeeps
<1>4. CASE TimerMeta(w)
  BY <1>0, <1>4, DropKeeps DEF TimerMeta
<1>5. CASE TimerDelete(w)
  BY <1>0, <1>5, DropKeeps DEF TimerDelete
<1>6. CASE TimerLockedOut(w)
  BY <1>0, <1>6, DropKeeps DEF TimerLockedOut
<1> QED
  BY <1>1, <1>2, <1>3, <1>4, <1>5, <1>6 DEF TimerStep

LEMMA PathKeeps ==
    ASSUME TypeInv, RemovalInv, NEW w \in Pathers, PathStep(w)
    PROVE  RemovalInv'
<1>0. /\ w \in Workers /\ w \notin ScanWorkers /\ job[w] \in Job
      /\ AtPath(job[w]) /\ dirs \in SUBSET Dirs
  BY WorkerTypes, Kinds DEF Workers, Server, TypeInv, TypeOK
<1>a. PathAbort(w) /\ UNCHANGED diskVars => RemovalInv'
  BY <1>0, DropKeeps DEF PathAbort
<1>1. ASSUME NEW d \in Places, PathList(w, d)
      PROVE  RemovalInv'
  <2> DEFINE j == [job[w] EXCEPT
            !.pc   = IF d \in dirs THEN "dir" ELSE "walk",
            !.at   = IF d \in dirs THEN d ELSE Root,
            !.todo = (@ \ {d}) \cup SubdirsIn(d),
            !.left = FilesIn(d)]
  <2>1. /\ Become(w, j) /\ job[w].pc = "walk" /\ UNCHANGED diskVars
        /\ UNCHANGED storeVars
    BY <1>1 DEF PathList
  <2>2. /\ j.pc \in {"dir", "walk"} /\ j.gone = job[w].gone
        /\ j.missing = job[w].missing
    BY <1>0 DEF Job
  <2> HIDE DEF j
  <2> QED  BY <1>0, <2>1, <2>2, PlainStep
<1>2. CASE PathDir(w)
  <2> DEFINE d == job[w].at
             j == [job[w] EXCEPT !.pc = "walk", !.at = Root]
  <2>0. job[w].pc = "dir" /\ UNCHANGED diskVars
    BY <1>2 DEF PathDir
  <2>1. CASE PathAbort(w)
    BY <1>a, <2>0, <2>1
  <2>2. CASE Write(w, UpsertDir(view, d)) /\ Become(w, j)
    <3>1. /\ j.pc = "walk" /\ j.gone = job[w].gone
          /\ j.missing = job[w].missing
      BY <1>0 DEF Job
    <3>2. Keeps(UpsertDir(view, d))
      <4>1. d \in Dirs
        BY <1>0, <2>0 DEF AtPath
      <4> QED  BY <4>1, KeepOps
    <3> HIDE DEF j, d
    <3> QED  BY <1>0, <2>0, <2>2, <3>1, <3>2, PlainStep
  <2> QED  BY <1>2, <2>1, <2>2 DEF PathDir
<1>3. ASSUME NEW f \in Files, PathFile(w, f)
      PROVE  RemovalInv'
  <2> DEFINE j == [job[w] EXCEPT !.pc = "pages", !.left = @ \ {f},
                                 !.file = f, !.stamp = disk[f]]
  <2>0. job[w].pc = "walk" /\ UNCHANGED diskVars
    BY <1>3 DEF PathFile
  <2>1. CASE PathAbort(w)
    BY <1>a, <2>0, <2>1
  <2>2. CASE Become(w, j) /\ UNCHANGED storeVars
    <3>1. /\ j.pc = "pages" /\ j.gone = job[w].gone
          /\ j.missing = job[w].missing
      BY <1>0 DEF Job
    <3> HIDE DEF j
    <3> QED  BY <1>0, <2>0, <2>2, <3>1, PlainStep
  <2> QED  BY <1>3, <2>1, <2>2 DEF PathFile
<1>4. CASE CountPages(w)
  BY <1>0, <1>4, CountPagesKeeps
<1>5. CASE UpsertFileRow(w)
  BY <1>0, <1>5, UpsertFileRowKeeps
<1>6. CASE PathMeta(w)
  <2> DEFINE j == [job[w] EXCEPT !.pc = "walk", !.file = None,
                                 !.stamp = None, !.pages = 0]
  <2>1. /\ Become(w, j) /\ job[w].pc = "meta" /\ UNCHANGED diskVars
        /\ Write(w, WithMeta(w))
    BY <1>6 DEF PathMeta
  <2>2. j.pc = "walk" /\ j.gone = job[w].gone /\ j.missing = job[w].missing
    BY <1>0 DEF Job
  <2> HIDE DEF j
  <2> QED  BY <1>0, <2>1, <2>2, KeepOps, PlainStep
<1>7. CASE PathEnd(w)
  BY <1>0, <1>7, DropKeeps DEF PathEnd
<1>8. CASE PathLockedOut(w)
  BY <1>8, <1>a DEF PathLockedOut
<1> QED
  BY <1>1, <1>2, <1>3, <1>4, <1>5, <1>6, <1>7, <1>8 DEF PathStep

(***************************************************************************)
(* Everything else that happens                                            *)
(***************************************************************************)
(* What is absent when a job begins is absent with everything below it.    *)
LEMMA AbsentBelow ==
    ASSUME TypeInv, TreeOnDisk, NEW p \in Paths, p \notin Absent
    PROVE  Parent[p] \notin Absent
<1>1. Exists(Parent[p])
  BY DEF TreeOnDisk, Absent
<1>2. dirs \in SUBSET Dirs
  BY DEF TypeInv, TypeOK
<1> QED  BY <1>1, <1>2, TreeAssumption, PathAssumption
         DEF Exists, Absent, OnDisk, Paths

LEMMA FreshInv ==
    ASSUME TypeInv, TreeOnDisk, NEW w \in Workers, NEW j,
           j.gone = Absent, j.missing = {}, j.rels = {}, j.pc # "scandir",
           w \in ScanWorkers => j.pc = "spawned"
    PROVE  JobInv(w, j)
BY AbsentBelow DEF JobInv, Remembers, KnowsChildren, Covers

LEMMA BeginKeeps ==
    ASSUME TypeInv, RemovalInv, NEW w \in Workers, NEW j \in Job, Begin(w, j),
           j.missing = {}, j.rels = {}, j.pc # "scandir",
           w \in ScanWorkers => j.pc = "spawned",
           UNCHANGED diskVars, UNCHANGED storeVars
    PROVE  RemovalInv'
<1> DEFINE k == [j EXCEPT !.gone = Absent]
<1>1. /\ k.pc = j.pc /\ k.gone = Absent /\ k.missing = {} /\ k.rels = {}
      /\ Become(w, k)
  BY DEF Job, Begin
<1> HIDE DEF k
<1>2. JobInv(w, k)
  BY <1>1, FreshInv DEF RemovalInv
<1> QED  BY <1>1, <1>2, StepJob, StoreKeeps DEF RemovalInv

LEMMA StartKeeps ==
    ASSUME TypeInv, RemovalInv, Start \/ CronStart \/ WatcherStart
    PROVE  RemovalInv'
<1>1. ASSUME NEW w \in Scanners, NEW force \in BOOLEAN, StartScan(w, force)
      PROVE  RemovalInv'
  <2>1. /\ Spawned(force) \in Job /\ Spawned(force).pc = "spawned"
        /\ Spawned(force).missing = {} /\ Spawned(force).rels = {}
    BY IdleJobType DEF Spawned, Job, PCs, IdleJob
  <2> QED  BY <1>1, <2>1, BeginKeeps DEF StartScan, Workers, Server
<1>2. ASSUME NEW w \in Crons, StartCron(w)
      PROVE  RemovalInv'
  <2>1. /\ Spawned(FALSE) \in Job /\ Spawned(FALSE).pc = "spawned"
        /\ Spawned(FALSE).missing = {} /\ Spawned(FALSE).rels = {}
    BY IdleJobType DEF Spawned, Job, PCs, IdleJob
  <2> QED  BY <1>2, <2>1, BeginKeeps DEF StartCron, Workers
<1>3. ASSUME NEW w \in Refreshers, NEW d \in Places, RefreshStart(w, d)
      PROVE  RemovalInv'
  <2> DEFINE j == [IdleJob EXCEPT !.pc = "gate", !.at = d]
  <2>1. j \in Job /\ j.pc = "gate" /\ j.missing = {} /\ j.rels = {}
    BY IdleJobType DEF Job, PCs, IdleJob
  <2>2. w \in Workers /\ w \notin ScanWorkers
    BY Kinds DEF Workers, Server
  <2> HIDE DEF j
  <2>3. Begin(w, j)
    BY <1>3 DEF RefreshStart, j
  <2> QED  BY <1>3, <2>1, <2>2, <2>3, BeginKeeps DEF RefreshStart
<1>4. ASSUME NEW w \in Timers, NEW f \in Files, Fire(w, f)
      PROVE  RemovalInv'
  <2> DEFINE j == [IdleJob EXCEPT !.file = f,
                     !.pc = IF timer[f] = "reindex" THEN "stat" ELSE "delete"]
  <2>1. /\ j \in Job /\ j.pc \in {"stat", "delete"} /\ j.missing = {}
        /\ j.rels = {}
    BY IdleJobType DEF Job, PCs, IdleJob
  <2>2. w \in Workers /\ w \notin ScanWorkers
    BY Kinds DEF Workers, Server
  <2> HIDE DEF j
  <2>3. Begin(w, j)
    BY <1>4 DEF Fire, j
  <2> QED  BY <1>4, <2>1, <2>2, <2>3, BeginKeeps DEF Fire
<1>5. ASSUME NEW w \in Pathers, NEW p \in Paths \cup {Root}, PathStart(w, p)
      PROVE  RemovalInv'
  <2> DEFINE j == [IdleJob EXCEPT !.pc = "walk",
                     !.todo = IF p \in Files THEN {} ELSE {p},
                     !.left = IF p \in Files THEN {p} ELSE {}]
  <2>1. j \in Job
    BY ZenonT(60), IdleJobType DEF Job, PCs, Paths, Places
  <2>2. j.pc = "walk" /\ j.missing = {} /\ j.rels = {}
    BY DEF IdleJob
  <2>3. w \in Workers /\ w \notin ScanWorkers
    BY Kinds DEF Workers, Server
  <2> HIDE DEF j
  <2>4. Begin(w, j)
    BY <1>5 DEF PathStart, j
  <2> QED  BY <1>5, <2>1, <2>2, <2>3, <2>4, BeginKeeps DEF PathStart
<1> QED
  BY <1>1, <1>2, <1>3, <1>4, <1>5 DEF Start, CronStart, WatcherStart

(* A change of the library is recorded in every job that runs.             *)
LEMMA ChangeJobs ==
    ASSUME TypeInv, RemovalInv, NEW S, Change(S), TreeOnDisk',
           Absent' \subseteq Absent \cup S, S \cap dirs' = {}, S \subseteq Paths,
           dirs' \in SUBSET Dirs
    PROVE  RemovalInv'
<1>1. /\ UNCHANGED storeVars
      /\ \A w \in Workers :
            /\ job'[w] = IF job[w].pc = "idle" THEN job[w]
                         ELSE [job[w] EXCEPT !.gone = @ \cup S]
            /\ job[w] \in Job /\ JobInv(w, job[w])
  BY DEF Change, TypeInv, TypeOK, RemovalInv
<1>2. ASSUME NEW w \in Workers, job[w].pc # "idle"
      PROVE  JobInv(w, job[w])'
  <2> DEFINE i == job[w]
             j == [job[w] EXCEPT !.gone = @ \cup S]
  <2>1. /\ j.gone = i.gone \cup S /\ j.pc = i.pc /\ j.missing = i.missing
        /\ j.rels = i.rels /\ j.todo = i.todo /\ j.left = i.left
        /\ j.at = i.at /\ j.snap = i.snap
        /\ job'[w] = j /\ JobInv(w, i) /\ i.pc # "idle"
    BY <1>1, <1>2 DEF Job
  <2> HIDE DEF i, j
  <2>2. Absent' \subseteq j.gone /\ j.missing \subseteq j.gone
    BY <2>1 DEF JobInv, Remembers
  <2>3. ASSUME NEW p \in Paths, p \notin j.gone
        PROVE  Parent[p] \notin j.gone
    <3>1. Parent[p] \notin i.gone
      BY <2>1, <2>3 DEF JobInv, Remembers
    <3>2. OnDisk(p)'
      BY <2>2, <2>3 DEF Absent
    <3>3. Parent[p] = Root \/ Parent[p] \in dirs'
      BY <3>2 DEF TreeOnDisk, Exists
    <3> QED  BY <2>1, <3>1, <3>3, TreeAssumption
  <2>4. KnowsChildren(j) /\ (w \in ScanWorkers => Covers(j))
    BY <2>1 DEF JobInv, KnowsChildren, Covers, Visited, Met, Entering
  <2> QED  BY <2>1, <2>2, <2>3, <2>4
           DEF JobInv, Remembers, KnowsChildren, Covers, Visited, Met, Entering
<1>3. ASSUME NEW w \in Workers, job[w].pc = "idle"
      PROVE  JobInv(w, job[w])'
  BY <1>1, <1>3 DEF JobInv, KnowsChildren, Covers
<1>4. ViewKeeps'
  BY <1>1, StoreKeeps DEF RemovalInv
<1> QED  BY <1>2, <1>3, <1>4 DEF RemovalInv

LEMMA ChangeKeeps ==
    ASSUME TypeInv, RemovalInv, LibraryChange
    PROVE  RemovalInv'
<1>0. /\ disk \in [Files -> Versions \cup {None}] /\ dirs \in SUBSET Dirs
      /\ TreeOnDisk
      /\ \A p \in Paths : Parent[p] \in Places
  BY TreeAssumption DEF TypeInv, TypeOK, RemovalInv
<1>1. ASSUME NEW f \in Files, NEW v \in Versions, WriteFile(f, v)
      PROVE  RemovalInv'
  <2>1. /\ disk' = [disk EXCEPT ![f] = v] /\ dirs' = dirs /\ v # None
        /\ Exists(Parent[f]) /\ Change({})
    BY <1>1, NoneAssumption DEF WriteFile, MayShow
  <2>2. TreeOnDisk' /\ Absent' \subseteq Absent
    BY <1>0, <2>1 DEF TreeOnDisk, OnDisk, Exists, Absent
  <2> QED  BY <1>0, <2>1, <2>2, ChangeJobs
<1>2. ASSUME NEW f \in Files, RemoveFile(f)
      PROVE  RemovalInv'
  <2>1. /\ disk' = [disk EXCEPT ![f] = None] /\ dirs' = dirs
        /\ Change({f})
    BY <1>2 DEF RemoveFile
  <2>2. TreeOnDisk' /\ Absent' \subseteq Absent \cup {f}
    BY <1>0, <2>1 DEF TreeOnDisk, OnDisk, Exists, Absent
  <2>3. {f} \cap dirs' = {} /\ {f} \subseteq Paths
    BY <1>0, <2>1, PathAssumption DEF Paths
  <2> QED  BY <1>0, <2>1, <2>2, <2>3, ChangeJobs
<1>3. ASSUME NEW f \in Files, NEW g \in Files, MoveFile(f, g)
      PROVE  RemovalInv'
  <2>1. /\ disk' = [disk EXCEPT ![f] = None, ![g] = disk[f]] /\ dirs' = dirs
        /\ Exists(Parent[g]) /\ Change({f}) /\ f # g
    BY <1>3 DEF MoveFile, MayShow
  <2>2. TreeOnDisk' /\ Absent' \subseteq Absent \cup {f}
    <3>1. \A h \in Files : disk'[h] = IF h = g THEN disk[f]
                                      ELSE IF h = f THEN None ELSE disk[h]
      BY <1>0, <2>1
    <3> QED  BY <1>0, <1>3, <2>1, <3>1
             DEF TreeOnDisk, OnDisk, Exists, Absent, MoveFile
  <2>3. {f} \cap dirs' = {} /\ {f} \subseteq Paths
    BY <1>0, <2>1, PathAssumption DEF Paths
  <2> QED  BY <1>0, <2>1, <2>2, <2>3, ChangeJobs
<1>4. ASSUME NEW d \in Dirs, MakeDir(d)
      PROVE  RemovalInv'
  <2>1. /\ disk' = disk /\ dirs' = dirs \cup {d} /\ Exists(Parent[d])
        /\ Change({})
    BY <1>4 DEF MakeDir
  <2>2. TreeOnDisk' /\ Absent' \subseteq Absent
    BY <1>0, <2>1 DEF TreeOnDisk, OnDisk, Exists, Absent
  <2> QED  BY <1>0, <2>1, <2>2, ChangeJobs
<1>5. ASSUME NEW d \in Dirs, RemoveTree(d)
      PROVE  RemovalInv'
  <2>1. /\ disk' = [f \in Files |-> IF Parent[f] = d THEN None ELSE disk[f]]
        /\ dirs' = dirs \ {d} /\ SubdirsIn(d) = {}
        /\ Change({d} \cup FilesIn(d))
    BY <1>5 DEF RemoveTree
  <2>2. TreeOnDisk'
    <3>1. ASSUME NEW p \in Paths, OnDisk(p)'
          PROVE  Parent[p] # d /\ OnDisk(p)
      BY <2>1, <3>1 DEF OnDisk, SubdirsIn
    <3> QED  BY <1>0, <2>1, <3>1 DEF TreeOnDisk, Exists
  <2>3. Absent' \subseteq Absent \cup ({d} \cup FilesIn(d))
    BY <2>1 DEF Absent, OnDisk, FilesIn
  <2>4. /\ ({d} \cup FilesIn(d)) \cap dirs' = {}
        /\ {d} \cup FilesIn(d) \subseteq Paths
    BY <1>0, <2>1, PathAssumption DEF Paths, FilesIn
  <2> QED  BY <1>0, <2>1, <2>2, <2>3, <2>4, ChangeJobs
<1> QED  BY <1>1, <1>2, <1>3, <1>4, <1>5 DEF LibraryChange

(* The jobs a server starts with: none, or one scan that begins now.       *)
LEMMA StartupFresh ==
    ASSUME NEW jobs \in [Workers -> Job], NEW ix,
           NEW result \in Startup(jobs, ix), NEW w \in Workers
    PROVE  \/ result[w] = jobs[w]
           \/ /\ w \in Scanners
              /\ result[w].pc = "spawned" /\ result[w].gone = Absent
              /\ result[w].missing = {} /\ result[w].rels = {}
<1> DEFINE k == [Spawned(TRUE) EXCEPT !.gone = Absent]
<1>1. /\ k.pc = "spawned" /\ k.gone = Absent /\ k.missing = {}
      /\ k.rels = {}
  BY DEF Spawned, IdleJob
<1> HIDE DEF k
<1>2. \/ result = jobs
      \/ \E x \in Scanners : result = [jobs EXCEPT ![x] = k]
  BY DEF Startup, k
<1> QED  BY <1>1, <1>2

LEMMA CrashKeeps == ASSUME TypeInv, RemovalInv, Crash PROVE RemovalInv'
<1> DEFINE jobs == [w \in Workers |-> IF w \in Server THEN IdleJob ELSE job[w]]
<1>1. jobs \in [Workers -> Job]
  BY IdleJobType, WorkerTypes
<1>2. \A w \in Workers : JobInv(w, job'[w])
  <2>1. \A w \in Workers : JobInv(w, jobs[w])
    BY IdleInv DEF RemovalInv
  <2>2. job' \in Startup(jobs, db)
    BY DEF Crash
  <2> HIDE DEF jobs
  <2>3. SUFFICES ASSUME NEW w \in Workers, job'[w] # jobs[w]
                 PROVE  JobInv(w, job'[w])
    BY <2>1
  <2> QED  BY <1>1, <2>2, <2>3, StartupFresh, FreshInv DEF RemovalInv
<1>3. disk' = disk /\ dirs' = dirs /\ db' = db /\ view' \in {db, view}
  BY DEF Crash, diskVars
<1>4. TreeOnDisk' /\ ViewKeeps'
  BY <1>3 DEF RemovalInv, TreeOnDisk, ViewKeeps, OnDisk, Exists
<1>5. Absent' = Absent
  BY <1>3 DEF Absent, OnDisk
<1>6. \A w \in Workers : JobInv(w, job[w])'
  BY <1>2, <1>5 DEF JobInv, Remembers, KnowsChildren, Covers, Visited, Met,
                    Entering
<1> QED  BY <1>4, <1>6 DEF RemovalInv

LEMMA InitRemoval == ASSUME Init, TypeInv PROVE RemovalInv
<1> DEFINE jobs == [w \in Workers |-> IdleJob]
<1>1. TreeOnDisk /\ ViewKeeps
  BY DEF Init, TreeOnDisk, ViewKeeps, OnDisk, Paths
<1>2. ASSUME NEW w \in Workers
      PROVE  JobInv(w, job[w])
  <2>1. job \in Startup(jobs, db) /\ jobs \in [Workers -> Job]
    BY IdleJobType DEF Init
  <2>2. JobInv(w, jobs[w])
    BY IdleInv
  <2> HIDE DEF jobs
  <2> QED  BY <1>1, <2>1, <2>2, StartupFresh, FreshInv
<1> QED  BY <1>1, <1>2 DEF RemovalInv

(* A step of a worker is a step of its kind.                               *)
LEMMA WorkKeeps ==
    ASSUME TypeInv, RemovalInv, NEW w \in Workers, Work(w)
    PROVE  RemovalInv'
BY ScanKeeps, RefreshKeeps, TimerKeeps, PathKeeps DEF Work, ScanWorkers

LEMMA NextRemoval ==
    ASSUME TypeInv, RemovalInv, [Next]_vars
    PROVE  RemovalInv'
<1>1. CASE UNCHANGED <<disk, dirs, db, view, job>>
  <2>1. TreeOnDisk' /\ ViewKeeps'
    BY <1>1 DEF RemovalInv, TreeOnDisk, ViewKeeps, OnDisk, Exists
  <2>2. Absent' = Absent
    BY <1>1 DEF Absent, OnDisk
  <2>3. \A w \in Workers : JobInv(w, job[w])'
    BY <1>1, <2>2 DEF RemovalInv, JobInv, Remembers, KnowsChildren, Covers,
                      Visited, Met, Entering
  <2> QED  BY <2>1, <2>3 DEF RemovalInv
<1>2. CASE UNCHANGED vars \/ Dispatch \/ \E d \in Places : IntervalOver(d)
  BY <1>1, <1>2 DEF vars, Dispatch, IntervalOver, diskVars, storeVars
<1> QED
  BY <1>2, WorkKeeps, ChangeKeeps, StartKeeps, CrashKeeps DEF Next

(***************************************************************************)
(* The action property.                                                    *)
(***************************************************************************)
OnlyGone(w) ==
    \A p \in Paths : (db.items[p] # None /\ db'.items[p] = None)
                       => p \in job[w].gone

(* A commit of a transaction that only added rows removes none.            *)
LEMMA CommitKeeps ==
    ASSUME ViewKeeps, NEW w, NEW ix, Keeps(ix), Commit(w, ix)
    PROVE  OnlyGone(w)
BY DEF ViewKeeps, Keeps, Commit, OnlyGone

LEMMA CommitDeletes ==
    ASSUME TypeInv, RemovalInv, NEW w \in Workers, job[w].pc # "idle",
           \/ Commit(w, DeleteRows(view, job[w].missing))
           \/ Commit(w, CleanupDeleted(view, job[w].missing))
    PROVE  OnlyGone(w)
<1>1. job[w].missing \subseteq job[w].gone
  BY DEF RemovalInv, JobInv, Remembers
<1>2. \A p \in Paths : db.items[p] # None => view.items[p] # None
  BY DEF RemovalInv, ViewKeeps
<1> QED  BY <1>1, <1>2, DeletedOnly DEF Commit, OnlyGone

LEMMA NoCommit ==
    ASSUME NEW w, db' = db
    PROVE  OnlyGone(w)
BY DEF OnlyGone

LEMMA ScanOnlyGone ==
    ASSUME TypeInv, RemovalInv, NEW w \in Workers, ScanStep(w)
    PROVE  OnlyGone(w)
<1>0. ViewKeeps
  BY DEF RemovalInv
<1>1. CASE ScanMeta(w)
  BY <1>0, <1>1, KeepOps, CommitKeeps, NoCommit DEF ScanMeta, Write
<1>2. CASE ScanWalked(w)
  BY <1>0, <1>2, KeepOps, CommitKeeps, NoCommit DEF ScanWalked, storeVars
<1>3. CASE ScanDelete(w)
  BY <1>3, CommitDeletes DEF ScanDelete
<1>4. CASE ScanPrune(w)
  BY <1>0, <1>4, KeepOps, CommitKeeps DEF ScanPrune
<1>5. CASE ~(ScanMeta(w) \/ ScanWalked(w) \/ ScanDelete(w) \/ ScanPrune(w))
  <2>1. db' = db
    BY <1>5 DEF ScanStep, ScanBegin, ScanSnapshot, ScanList, ScanDir, ScanFile,
                CountPages, UpsertFileRow, ScanMissing, ScanClear, ScanFinish,
                ScanLockedOut, ScanAbort, Rollback, Write, storeVars
  <2> QED  BY <2>1, NoCommit
<1> QED  BY <1>1, <1>2, <1>3, <1>4, <1>5

LEMMA RefreshOnlyGone ==
    ASSUME TypeInv, RemovalInv, NEW w \in Workers, RefreshStep(w)
    PROVE  OnlyGone(w)
<1>1. CASE RefreshEnd(w)
  BY <1>1, CommitDeletes, NoCommit DEF RefreshEnd, storeVars
<1>2. CASE ~RefreshEnd(w)
  <2>1. db' = db
    BY <1>2 DEF RefreshStep, RefreshGate, RefreshSelect, RefreshScandir,
                RefreshDir, RefreshFile, CountPages, UpsertFileRow,
                RefreshMeta, RefreshLockedOut, RefreshAbort, Rollback, Write,
                storeVars
  <2> QED  BY <2>1, NoCommit
<1> QED  BY <1>1, <1>2

(* A step of a worker leaves the jobs of the others alone.                 *)
LEMMA WorkOwnJob ==
    ASSUME TypeInv, NEW w \in Workers, Work(w), NEW x \in Workers, x # w
    PROVE  job'[x] = job[x]
<1>1. SUFFICES ASSUME NEW j, Become(w, j)
               PROVE  job'[x] = job[x]
  BY DEF Work, ScanStep, ScanBegin, ScanSnapshot, ScanList, ScanDir, ScanFile,
         CountPages, UpsertFileRow, ScanMeta, ScanWalked, ScanMissing,
         ScanDelete, ScanPrune, ScanClear, ScanFinish, ScanLockedOut,
         ScanAbort, RefreshStep, RefreshGate, RefreshSelect, RefreshScandir,
         RefreshDir, RefreshFile, RefreshMeta, RefreshEnd, RefreshLockedOut,
         RefreshAbort, TimerStep, TimerStat, TimerMeta, TimerDelete,
         TimerLockedOut, PathStep, PathList, PathDir, PathFile, PathMeta,
         PathEnd, PathLockedOut, PathAbort, Goto, Drop
<1> QED  BY <1>1 DEF Become, TypeInv, TypeOK

LEMMA StepOnlyGone ==
    ASSUME TypeInv, RemovalInv, [Next]_vars,
           NEW w \in Scanners \cup Crons \cup Refreshers
    PROVE  RemovesOnlyGone(w)
<1>0. w \in Workers
  BY DEF Workers, Server
<1>1. SUFFICES ASSUME db' # db, job'[w] # job[w]
               PROVE  OnlyGone(w)
  BY DEF RemovesOnlyGone, OnlyGone
<1>2. PICK x \in Workers : Work(x)
  BY <1>1 DEF Next, vars, storeVars, LibraryChange, WriteFile, RemoveFile,
              MoveFile, MakeDir, RemoveTree, Change, Start, StartScan,
              RefreshStart, PathStart, CronStart, StartCron, Dispatch,
              WatcherStart, Fire, IntervalOver, Crash
<1>3. x = w
  BY <1>0, <1>1, <1>2, WorkOwnJob
<1>4. ScanStep(w) \/ RefreshStep(w)
  BY <1>0, <1>2, <1>3, Kinds DEF Work, ScanWorkers
<1> QED  BY <1>0, <1>4, ScanOnlyGone, RefreshOnlyGone

(* What the running jobs know of the library and what they are about to    *)
(* delete: the inductive invariant behind the next theorem.                *)
THEOREM RemovalInvariant == Spec => []RemovalInv
<1>1. Init => TypeInv /\ RemovalInv
  BY InitType, InitRemoval
<1>2. TypeInv /\ RemovalInv /\ [Next]_vars => TypeInv' /\ RemovalInv'
  BY NextType, NextRemoval
<1> QED  BY <1>1, <1>2, PTL DEF Spec

(* No scan or refresh costs a file or directory its row that was there all *)
(* the while it ran, whatever other jobs, crashes and changes interleave.  *)
THEOREM InnocentStay == Spec => NoInnocentRemoval
<1>1. Init => TypeInv /\ RemovalInv
  BY InitType, InitRemoval
<1>2. TypeInv /\ RemovalInv /\ [Next]_vars => TypeInv' /\ RemovalInv'
  BY NextType, NextRemoval
<1>3. TypeInv /\ RemovalInv /\ [Next]_vars
        => [\A w \in Scanners \cup Crons \cup Refreshers : RemovesOnlyGone(w)]_vars
  BY StepOnlyGone
<1> QED  BY <1>1, <1>2, <1>3, PTL DEF Spec, NoInnocentRemoval
===============================================================================
