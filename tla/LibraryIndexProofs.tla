-------------------------- MODULE LibraryIndexProofs --------------------------
(***************************************************************************)
(* Theorems about LibraryIndex, for every library, every set of jobs and   *)
(* every bound.                                                            *)
(***************************************************************************)
EXTENDS LibraryIndex, TLAPS

(***************************************************************************)
(* The index operators take indexes to indexes.                            *)
(***************************************************************************)
LEMMA IndexOps ==
    ASSUME NEW ix \in Index
    PROVE  /\ \A d \in Dirs : UpsertDir(ix, d) \in Index
           /\ \A f \in Files, v \in Versions \cup {None}, n \in Nat :
                 UpsertFile(ix, f, v, n) \in Index
           /\ \A f \in Files, i \in Infos \cup {None} :
                 UpsertMetaIfAny(ix, f, i) \in Index
           /\ \A S : DeleteRows(ix, S) \in Index /\ CleanupDeleted(ix, S) \in Index
           /\ PruneStale(ix) \in Index
<1>1. \A d \in Dirs : UpsertDir(ix, d) \in Index
  BY DEF UpsertDir, Index, Row, Paths
<1>2. \A f \in Files, v \in Versions \cup {None}, n \in Nat :
        UpsertFile(ix, f, v, n) \in Index
  BY DEF UpsertFile, Index, Row, Paths
<1>3. \A f \in Files, i \in Infos \cup {None} :
        UpsertMetaIfAny(ix, f, i) \in Index
  BY DEF UpsertMetaIfAny, UpsertMeta, Index, Paths
<1>4. \A S : DeleteRows(ix, S) \in Index /\ CleanupDeleted(ix, S) \in Index
  BY DEF DeleteRows, CleanupDeleted, Without, Index, Paths
<1>5. PruneStale(ix) \in Index
  BY DEF PruneStale, Without, Index, Paths
<1> QED  BY <1>1, <1>2, <1>3, <1>4, <1>5

LEMMA NoRowsType == NoRows \in [Paths -> Row \cup {None}]
BY DEF NoRows

LEMMA IdleJobType == IdleJob \in Job
BY NoRowsType DEF IdleJob, Job, PCs, Places

(***************************************************************************)
(* Type correctness.  TypeOK alone is not inductive: a job that is at one  *)
(* of the steps on a file must have a file, and one at the step on a       *)
(* directory must have a directory.  The parts of TypeInv are              *)
(* named after the variables they are about.                               *)
(***************************************************************************)
AtPath(j) ==
    /\ j.pc \in {"stat", "pages", "upsert", "meta"} => j.file \in Files
    /\ j.pc = "dir" => j.at \in Dirs

TypeInv == TypeOK /\ \A w \in Workers : AtPath(job[w])

JobsTyped  == job \in [Workers -> Job] /\ \A w \in Workers : AtPath(job[w])
StoreTyped == db \in Index /\ view \in Index /\ owner \in Workers \cup {None}
DiskTyped  == /\ disk \in [Files -> Versions \cup {None}]
              /\ dirs \in SUBSET Dirs
              /\ seen \in [Files -> SUBSET Versions]
              /\ changes \in Nat
QueueTyped == queue \in Seq([gone : Files \cup {None}, came : Files \cup {None}])
WatchTyped == QueueTyped /\ timer \in [Files -> {"none", "reindex", "delete"}]
GateTyped  == running \in BOOLEAN /\ checked \in SUBSET Places
BoundTyped == requests \in Nat /\ crashes \in Nat

LEMMA TypeParts ==
    /\ TypeInv <=> /\ JobsTyped /\ StoreTyped /\ DiskTyped
                   /\ WatchTyped /\ GateTyped /\ BoundTyped
    /\ TypeInv' <=> /\ JobsTyped' /\ StoreTyped' /\ DiskTyped'
                    /\ WatchTyped' /\ GateTyped' /\ BoundTyped'
BY DEF TypeInv, TypeOK, JobsTyped, StoreTyped, DiskTyped, QueueTyped,
       WatchTyped, GateTyped, BoundTyped

LEMMA Unaffected ==
    ASSUME TypeInv
    PROVE  /\ UNCHANGED diskVars => DiskTyped'
           /\ UNCHANGED watchVars => WatchTyped'
           /\ UNCHANGED gateVars => GateTyped'
           /\ UNCHANGED storeVars => StoreTyped'
           /\ UNCHANGED boundVars => BoundTyped'
           /\ UNCHANGED job => JobsTyped'
BY TypeParts
   DEF JobsTyped, StoreTyped, DiskTyped, QueueTyped, WatchTyped, GateTyped,
       BoundTyped, diskVars, watchVars, gateVars, storeVars, boundVars

LEMMA WorkerTypes ==
    ASSUME TypeInv, NEW w \in Workers
    PROVE  job[w] \in Job /\ AtPath(job[w]) /\ Reads(w) \in Index
BY DEF TypeInv, TypeOK, Reads

LEMMA WriteType ==
    ASSUME TypeInv, NEW w \in Workers, NEW ix \in Index,
           Write(w, ix) \/ Commit(w, ix)
    PROVE  StoreTyped'
BY DEF TypeInv, TypeOK, StoreTyped, Write, Commit

LEMMA RollbackType ==
    ASSUME TypeInv, NEW w \in Workers, Rollback(w)
    PROVE  StoreTyped'
BY DEF TypeInv, TypeOK, StoreTyped, Rollback

LEMMA BecomeType ==
    ASSUME TypeInv, NEW w \in Workers, NEW j \in Job, AtPath(j), Become(w, j)
    PROVE  JobsTyped'
BY DEF TypeInv, TypeOK, JobsTyped, Become

LEMMA GotoType ==
    ASSUME TypeInv, NEW w \in Workers, NEW pc \in PCs \ {"dir"}, Goto(w, pc),
           job[w].file \in Files \/ pc \notin {"stat", "pages", "upsert", "meta"}
    PROVE  JobsTyped'
<1> DEFINE j == [job[w] EXCEPT !.pc = pc]
<1>1. job[w] \in Job
  BY WorkerTypes
<1>2. j \in Job
  BY <1>1 DEF Job
<1>3. AtPath(j)
  BY <1>1 DEF Job, AtPath
<1> QED  BY <1>2, <1>3, BecomeType DEF Goto

LEMMA DropType ==
    ASSUME TypeInv, NEW w \in Workers, Drop(w)
    PROVE  JobsTyped'
<1>1. AtPath(IdleJob)
  BY DEF AtPath, IdleJob
<1> QED  BY <1>1, IdleJobType, BecomeType DEF Drop

LEMMA BeginType ==
    ASSUME TypeInv, NEW w \in Workers, NEW j \in Job, AtPath(j), Begin(w, j)
    PROVE  JobsTyped'
<1> DEFINE k == [j EXCEPT !.gone = Absent]
<1>1. k \in Job /\ AtPath(k)
  BY DEF Job, Absent, AtPath
<1> QED  BY <1>1, BecomeType DEF Begin

LEMMA OnDiskTypes ==
    ASSUME TypeInv, NEW f \in Files
    PROVE  PagesOnDisk(f) \in Nat /\ InfoOnDisk(f) \in Infos \cup {None}
BY VersionAssumption DEF TypeInv, TypeOK, PagesOnDisk, InfoOnDisk

(* The steps on one file that all kinds of job share.                      *)
LEMMA CountPagesType ==
    ASSUME TypeInv, NEW w \in Workers, CountPages(w)
    PROVE  TypeInv'
<1> DEFINE j == [job[w] EXCEPT !.pc = "upsert",
                               !.pages = PagesOnDisk(job[w].file)]
<1>1. job[w] \in Job /\ job[w].file \in Files /\ Become(w, j)
  BY WorkerTypes DEF AtPath, CountPages
<1>2. PagesOnDisk(job[w].file) \in Nat
  BY <1>1, OnDiskTypes
<1>3. j \in Job
  BY <1>1, <1>2 DEF Job, PCs
<1>4. AtPath(j)
  BY <1>1 DEF Job, AtPath
<1>5. JobsTyped'
  BY <1>1, <1>3, <1>4, BecomeType
<1> QED  BY <1>5, Unaffected, TypeParts
        DEF CountPages, diskVars, watchVars, gateVars, storeVars, boundVars

LEMMA UpsertFileRowType ==
    ASSUME TypeInv, NEW w \in Workers, UpsertFileRow(w)
    PROVE  TypeInv'
<1>1. job[w] \in Job /\ job[w].file \in Files
  BY WorkerTypes DEF AtPath, UpsertFileRow
<1>2. /\ view \in Index
      /\ job[w].stamp \in Versions \cup {None} /\ job[w].pages \in Nat
  BY <1>1 DEF TypeInv, TypeOK, Job
<1>3. UpsertFile(view, job[w].file, job[w].stamp, job[w].pages) \in Index
  BY <1>1, <1>2, IndexOps
<1>4. StoreTyped'
  BY <1>3, WriteType DEF UpsertFileRow
<1>5. JobsTyped'
  BY <1>1, GotoType DEF UpsertFileRow, PCs
<1> QED  BY <1>4, <1>5, Unaffected, TypeParts
        DEF UpsertFileRow, diskVars, watchVars, gateVars, boundVars

LEMMA WithMetaType ==
    ASSUME TypeInv, NEW w \in Workers, job[w].pc = "meta"
    PROVE  WithMeta(w) \in Index
<1>1. job[w].file \in Files /\ view \in Index
  BY WorkerTypes DEF TypeInv, TypeOK, AtPath
<1> QED  BY <1>1, IndexOps, OnDiskTypes DEF WithMeta

LEMMA ScanAbortType ==
    ASSUME TypeInv, NEW w \in Workers, ScanAbort(w)
    PROVE  StoreTyped' /\ JobsTyped' /\ GateTyped'
<1>1. StoreTyped' /\ JobsTyped'
  BY RollbackType, DropType DEF ScanAbort
<1>2. GateTyped'
  BY DEF ScanAbort, GateTyped, TypeInv, TypeOK
<1> QED  BY <1>1, <1>2

LEMMA ScanType ==
    ASSUME TypeInv, NEW w \in Workers, ScanStep(w)
    PROVE  TypeInv'
<1>0. /\ job[w] \in Job /\ AtPath(job[w]) /\ Reads(w) \in Index
      /\ view \in Index /\ disk \in [Files -> Versions \cup {None}]
      /\ dirs \in SUBSET Dirs /\ running \in BOOLEAN
      /\ checked \in SUBSET Places
  BY WorkerTypes DEF TypeInv, TypeOK
<1>1. CASE ScanBegin(w)
  <2>1. JobsTyped'
    BY <1>1, GotoType DEF ScanBegin, PCs
  <2>2. GateTyped'
    BY <1>0, <1>1 DEF ScanBegin, GateTyped
  <2> QED  BY <1>1, <2>1, <2>2, Unaffected, TypeParts
           DEF ScanBegin, diskVars, watchVars, storeVars, boundVars
<1>2. CASE ScanSnapshot(w)
  <2> DEFINE j == [job[w] EXCEPT !.pc = "walk", !.todo = {Root},
                     !.snap = IF job[w].force THEN NoRows ELSE Reads(w).items]
  <2>1. j \in Job
    BY ZenonT(60), <1>0, NoRowsType DEF Job, PCs, Places, Index
  <2>2. AtPath(j)
    BY <1>0 DEF Job, AtPath
  <2>3. JobsTyped'
    BY <1>2, <2>1, <2>2, BecomeType DEF ScanSnapshot
  <2> QED  BY <1>2, <2>3, Unaffected, TypeParts
           DEF ScanSnapshot, diskVars, watchVars, gateVars, storeVars, boundVars
<1>3. ASSUME NEW d \in Places, ScanList(w, d)
      PROVE  TypeInv'
  <2> DEFINE pc   == IF d \in dirs THEN "dir" ELSE "walk"
             at   == IF d \in dirs THEN d ELSE Root
             todo == (job[w].todo \ {d}) \cup SubdirsIn(d)
             left == FilesIn(d)
             j == [job[w] EXCEPT !.pc = pc, !.at = at,
                                 !.todo = todo, !.left = left]
  <2>1. Become(w, j)
    BY <1>3 DEF ScanList
  <2>2. /\ pc \in PCs \ {"stat", "pages", "upsert", "meta"} /\ at \in Places
        /\ todo \in SUBSET Places /\ left \in SUBSET Files
        /\ pc = "dir" => at \in Dirs
    BY <1>0 DEF SubdirsIn, FilesIn, Places, PCs, Job
  <2> HIDE DEF pc, at, todo, left
  <2>3. j \in Job /\ AtPath(j)
    BY <1>0, <2>2 DEF Job, AtPath
  <2>4. JobsTyped'
    BY <2>1, <2>3, BecomeType
  <2> QED  BY <1>3, <2>4, Unaffected, TypeParts
           DEF ScanList, diskVars, watchVars, gateVars, storeVars, boundVars
<1>4. CASE ScanDir(w)
  <2> DEFINE d == job[w].at
             rels == job[w].rels \cup {d}
             j == [job[w] EXCEPT !.pc = "walk", !.at = Root, !.rels = rels]
  <2>0. d \in Dirs
    BY <1>0, <1>4 DEF ScanDir, AtPath
  <2>1. CASE Write(w, UpsertDir(view, d)) /\ Become(w, j) /\ UNCHANGED gateVars
    <3>1. UpsertDir(view, d) \in Index
      BY <1>0, <2>0, IndexOps
    <3>2. rels \in SUBSET Paths
      BY <1>0, <2>0 DEF Job, Paths
    <3>3. j \in Job /\ AtPath(j)
      <4> HIDE DEF d, rels
      <4> QED  BY <1>0, <3>2 DEF Job, PCs, Places, AtPath
    <3>4. StoreTyped' /\ JobsTyped' /\ GateTyped'
      BY <2>1, <3>1, <3>3, WriteType, BecomeType, Unaffected
    <3> QED  BY <1>4, <3>4, Unaffected, TypeParts
             DEF ScanDir, diskVars, watchVars, boundVars
  <2>2. CASE ScanAbort(w)
    <3>1. StoreTyped' /\ JobsTyped' /\ GateTyped'
      BY <2>2, ScanAbortType
    <3> QED  BY <1>4, <3>1, Unaffected, TypeParts
             DEF ScanDir, diskVars, watchVars, boundVars
  <2> QED  BY <1>4, <2>1, <2>2 DEF ScanDir
<1>5. ASSUME NEW f \in Files, ScanFile(w, f)
      PROVE  TypeInv'
  <2> DEFINE k == [job[w] EXCEPT !.left = @ \ {f}, !.rels = @ \cup {f}]
             j == [k EXCEPT !.pc = "pages", !.file = f, !.stamp = disk[f]]
  <2>1. k \in Job /\ AtPath(k)
    BY <1>0, <1>5 DEF Job, Paths, AtPath, ScanFile
  <2>2. j \in Job
    BY <1>0, <2>1 DEF Job, PCs
  <2>3. AtPath(j)
    BY <2>1 DEF Job, AtPath
  <2>4. \/ ScanAbort(w)
        \/ Become(w, k) /\ UNCHANGED <<gateVars, storeVars>>
        \/ Become(w, j) /\ UNCHANGED <<gateVars, storeVars>>
    BY <1>5 DEF ScanFile
  <2>5. StoreTyped' /\ JobsTyped' /\ GateTyped'
    BY <2>1, <2>2, <2>3, <2>4, ScanAbortType, BecomeType, Unaffected
       DEF gateVars, storeVars
  <2> QED  BY <1>5, <2>5, Unaffected, TypeParts
           DEF ScanFile, diskVars, watchVars, boundVars
<1>6. CASE ScanMeta(w)
  <2> DEFINE full == job[w].dirty + 1 >= CommitEvery
             dirty == IF full THEN 0 ELSE job[w].dirty + 1
             j == [job[w] EXCEPT !.pc = "walk", !.file = None,
                     !.stamp = None, !.pages = 0, !.dirty = dirty]
  <2>1. dirty \in Nat
    BY <1>0 DEF Job
  <2>2. j \in Job /\ AtPath(j)
    <3> HIDE DEF dirty
    <3> QED  BY <1>0, <2>1 DEF Job, PCs, AtPath
  <2>3. JobsTyped' /\ StoreTyped'
    BY <1>6, <2>2, BecomeType, WithMetaType, WriteType DEF ScanMeta
  <2> QED  BY <1>6, <2>3, Unaffected, TypeParts
           DEF ScanMeta, diskVars, watchVars, gateVars, boundVars
<1>7. CASE ScanWalked(w)
  <2> DEFINE j == [job[w] EXCEPT !.pc = "cleanup", !.dirty = 0]
  <2>1. j \in Job
    BY <1>0 DEF Job, PCs
  <2>2. AtPath(j)
    BY <1>0 DEF Job, AtPath
  <2>3. JobsTyped' /\ StoreTyped'
    BY <1>0, <1>7, <2>1, <2>2, BecomeType, WriteType, Unaffected DEF ScanWalked
  <2> QED  BY <1>7, <2>3, Unaffected, TypeParts
           DEF ScanWalked, diskVars, watchVars, gateVars, boundVars
<1>8. CASE ScanMissing(w)
  <2> DEFINE missing == Listed(Reads(w).items) \ job[w].rels
             j == [job[w] EXCEPT !.missing = missing,
                     !.snap = NoRows, !.rels = {},
                     !.pc = IF missing = {} THEN "prune" ELSE "delete"]
  <2>1. missing \in SUBSET Paths
    BY DEF Listed
  <2>2. j \in Job
    BY <1>0, <2>1, NoRowsType DEF Job, PCs
  <2>3. AtPath(j)
    BY <1>0 DEF Job, AtPath
  <2>4. JobsTyped'
    BY <1>8, <2>2, <2>3, BecomeType DEF ScanMissing
  <2> QED  BY <1>8, <2>4, Unaffected, TypeParts
           DEF ScanMissing, diskVars, watchVars, gateVars, storeVars, boundVars
<1>9. CASE ScanDelete(w)
  <2> DEFINE j == [job[w] EXCEPT !.pc = "prune", !.missing = {}]
  <2>1. j \in Job
    BY <1>0 DEF Job, PCs
  <2>2. AtPath(j)
    BY <1>0 DEF Job, AtPath
  <2>3. JobsTyped' /\ StoreTyped'
    BY <1>0, <1>9, <2>1, <2>2, BecomeType, IndexOps, WriteType DEF ScanDelete
  <2> QED  BY <1>9, <2>3, Unaffected, TypeParts
           DEF ScanDelete, diskVars, watchVars, gateVars, boundVars
<1>10. CASE ScanPrune(w)
  <2>1. JobsTyped' /\ StoreTyped'
    BY <1>0, <1>10, GotoType, IndexOps, WriteType DEF ScanPrune, PCs
  <2> QED  BY <1>10, <2>1, Unaffected, TypeParts
           DEF ScanPrune, diskVars, watchVars, gateVars, boundVars
<1>11. CASE ScanClear(w)
  <2>1. JobsTyped' /\ GateTyped'
    BY <1>0, <1>11, GotoType DEF ScanClear, PCs, GateTyped
  <2> QED  BY <1>11, <2>1, Unaffected, TypeParts
           DEF ScanClear, diskVars, watchVars, storeVars, boundVars
<1>12. CASE ScanFinish(w)
  <2>1. JobsTyped' /\ GateTyped'
    BY <1>0, <1>12, DropType DEF ScanFinish, GateTyped
  <2> QED  BY <1>12, <2>1, Unaffected, TypeParts
           DEF ScanFinish, diskVars, watchVars, storeVars, boundVars
<1>13. CASE ScanLockedOut(w)
  <2>1. StoreTyped' /\ JobsTyped' /\ GateTyped'
    BY <1>13, ScanAbortType DEF ScanLockedOut
  <2> QED  BY <1>13, <2>1, Unaffected, TypeParts
           DEF ScanLockedOut, diskVars, watchVars, boundVars
<1> QED
  BY <1>1, <1>2, <1>3, <1>4, <1>5, <1>6, <1>7, <1>8, <1>9, <1>10, <1>11,
     <1>12, <1>13, CountPagesType, UpsertFileRowType DEF ScanStep

LEMMA RefreshType ==
    ASSUME TypeInv, NEW w \in Workers, RefreshStep(w)
    PROVE  TypeInv'
<1>0. /\ job[w] \in Job /\ AtPath(job[w]) /\ Reads(w) \in Index
      /\ view \in Index /\ disk \in [Files -> Versions \cup {None}]
      /\ dirs \in SUBSET Dirs
  BY WorkerTypes DEF TypeInv, TypeOK
<1>a. RefreshAbort(w) => StoreTyped' /\ JobsTyped'
  BY RollbackType, DropType DEF RefreshAbort
<1>1. CASE RefreshGate(w)
  <2>1. JobsTyped'
    BY <1>1, GotoType, DropType DEF RefreshGate, PCs
  <2> QED  BY <1>1, <2>1, Unaffected, TypeParts
           DEF RefreshGate, diskVars, watchVars, gateVars, storeVars, boundVars
<1>2. CASE RefreshSelect(w)
  <2> DEFINE snap == ChildRows(Reads(w).items, job[w].at)
             j == [job[w] EXCEPT !.pc = "scandir", !.snap = snap]
  <2>1. snap \in [Paths -> Row \cup {None}]
    BY <1>0 DEF ChildRows, Index
  <2>2. j \in Job /\ AtPath(j)
    <3> HIDE DEF snap
    <3> QED  BY <1>0, <2>1 DEF Job, PCs, AtPath
  <2>3. JobsTyped'
    BY <1>2, <2>2, BecomeType DEF RefreshSelect
  <2> QED  BY <1>2, <2>3, Unaffected, TypeParts
           DEF RefreshSelect, diskVars, watchVars, gateVars, storeVars, boundVars
<1>3. CASE RefreshScandir(w)
  <2> DEFINE d == job[w].at
             known == Listed(job[w].snap)
             todo == SubdirsIn(d) \ known
             left == FilesIn(d)
             missing == known \ (SubdirsIn(d) \cup FilesIn(d))
             j == [job[w] EXCEPT !.pc = "walk", !.todo = todo, !.left = left,
                                 !.missing = missing]
  <2>1. /\ todo \in SUBSET Places /\ left \in SUBSET Files
        /\ missing \in SUBSET Paths
    BY <1>0 DEF SubdirsIn, FilesIn, Listed, Places
  <2>2. j \in Job /\ AtPath(j)
    <3> HIDE DEF todo, left, missing
    <3> QED  BY <1>0, <2>1 DEF Job, PCs, AtPath
  <2>3. RefreshAbort(w) \/ (Become(w, j) /\ UNCHANGED storeVars)
    BY <1>3 DEF RefreshScandir
  <2>4. JobsTyped' /\ StoreTyped'
    BY <1>a, <2>2, <2>3, BecomeType, Unaffected
  <2> QED  BY <1>3, <2>4, Unaffected, TypeParts
           DEF RefreshScandir, diskVars, watchVars, gateVars, boundVars
<1>4. ASSUME NEW d \in Dirs, RefreshDir(w, d)
      PROVE  TypeInv'
  <2> DEFINE j == [job[w] EXCEPT !.todo = @ \ {d}]
  <2>1. UpsertDir(view, d) \in Index
    BY <1>0, IndexOps
  <2>2. j \in Job /\ AtPath(j)
    <3>1. j \in Job
      BY <1>0 DEF Job
    <3> QED  BY <1>0, <1>4, <3>1 DEF Job, AtPath, RefreshDir
  <2>3. RefreshAbort(w) \/ (Become(w, j) /\ Write(w, UpsertDir(view, d)))
    BY <1>4 DEF RefreshDir
  <2>4. JobsTyped' /\ StoreTyped'
    BY <1>a, <2>1, <2>2, <2>3, BecomeType, WriteType
  <2> QED  BY <1>4, <2>4, Unaffected, TypeParts
           DEF RefreshDir, diskVars, watchVars, gateVars, boundVars
<1>5. ASSUME NEW f \in Files, RefreshFile(w, f)
      PROVE  TypeInv'
  <2> DEFINE k == [job[w] EXCEPT !.left = @ \ {f}]
             j == [k EXCEPT !.pc = "pages", !.file = f, !.stamp = disk[f]]
  <2>1. k \in Job /\ AtPath(k)
    BY <1>0, <1>5 DEF Job, AtPath, RefreshFile
  <2>2. j \in Job
    BY <1>0, <2>1 DEF Job, PCs
  <2>3. AtPath(j)
    BY <2>1 DEF Job, AtPath
  <2>4. \/ RefreshAbort(w)
        \/ Become(w, k) /\ UNCHANGED storeVars
        \/ Become(w, j) /\ UNCHANGED storeVars
    BY <1>5 DEF RefreshFile
  <2>5. StoreTyped' /\ JobsTyped'
    BY <1>a, <2>1, <2>2, <2>3, <2>4, BecomeType, Unaffected
  <2> QED  BY <1>5, <2>5, Unaffected, TypeParts
           DEF RefreshFile, diskVars, watchVars, gateVars, boundVars
<1>6. CASE RefreshMeta(w)
  <2> DEFINE j == [job[w] EXCEPT !.pc = "walk", !.file = None,
                                 !.stamp = None, !.pages = 0]
  <2>1. j \in Job /\ AtPath(j)
    BY <1>0 DEF Job, PCs, AtPath
  <2>2. JobsTyped' /\ StoreTyped'
    BY <1>6, <2>1, BecomeType, WithMetaType, WriteType DEF RefreshMeta
  <2> QED  BY <1>6, <2>2, Unaffected, TypeParts
           DEF RefreshMeta, diskVars, watchVars, gateVars, boundVars
<1>7. CASE RefreshEnd(w)
  <2>1. JobsTyped' /\ StoreTyped'
    BY <1>0, <1>7, DropType, IndexOps, WriteType, Unaffected DEF RefreshEnd
  <2> QED  BY <1>7, <2>1, Unaffected, TypeParts
           DEF RefreshEnd, diskVars, watchVars, gateVars, boundVars
<1>8. CASE RefreshLockedOut(w)
  <2>1. JobsTyped' /\ StoreTyped'
    BY <1>8, <1>a DEF RefreshLockedOut
  <2> QED  BY <1>8, <2>1, Unaffected, TypeParts
           DEF RefreshLockedOut, diskVars, watchVars, gateVars, boundVars
<1> QED
  BY <1>1, <1>2, <1>3, <1>4, <1>5, <1>6, <1>7, <1>8,
     CountPagesType, UpsertFileRowType DEF RefreshStep

LEMMA TimerType ==
    ASSUME TypeInv, NEW w \in Workers, TimerStep(w)
    PROVE  TypeInv'
<1>0. job[w] \in Job /\ AtPath(job[w]) /\ view \in Index
  BY WorkerTypes DEF TypeInv, TypeOK
<1>1. CASE TimerStat(w)
  <2> DEFINE v == disk[job[w].file]
             j == [job[w] EXCEPT !.pc = "pages", !.stamp = v]
  <2>1. job[w].file \in Files /\ v \in Versions \cup {None}
    BY <1>0, <1>1 DEF TimerStat, AtPath, TypeInv, TypeOK
  <2>2. j \in Job /\ AtPath(j)
    <3> HIDE DEF v
    <3> QED  BY <1>0, <2>1 DEF Job, PCs, AtPath
  <2>3. JobsTyped'
    BY <1>1, <2>2, BecomeType, DropType DEF TimerStat
  <2> QED  BY <1>1, <2>3, Unaffected, TypeParts
           DEF TimerStat, diskVars, watchVars, gateVars, storeVars, boundVars
<1>2. CASE TimerMeta(w)
  <2>1. JobsTyped' /\ StoreTyped'
    BY <1>2, DropType, WithMetaType, WriteType DEF TimerMeta
  <2> QED  BY <1>2, <2>1, Unaffected, TypeParts
           DEF TimerMeta, diskVars, watchVars, gateVars, boundVars
<1>3. CASE TimerDelete(w)
  <2>1. JobsTyped' /\ StoreTyped'
    BY <1>0, <1>3, DropType, IndexOps, WriteType DEF TimerDelete
  <2> QED  BY <1>3, <2>1, Unaffected, TypeParts
           DEF TimerDelete, diskVars, watchVars, gateVars, boundVars
<1>4. CASE TimerLockedOut(w)
  <2>1. JobsTyped'
    BY <1>4, DropType DEF TimerLockedOut
  <2> QED  BY <1>4, <2>1, Unaffected, TypeParts
           DEF TimerLockedOut, diskVars, watchVars, gateVars, storeVars,
               boundVars
<1> QED
  BY <1>1, <1>2, <1>3, <1>4, CountPagesType, UpsertFileRowType DEF TimerStep

LEMMA PathType ==
    ASSUME TypeInv, NEW w \in Workers, PathStep(w)
    PROVE  TypeInv'
<1>0. /\ job[w] \in Job /\ AtPath(job[w]) /\ view \in Index
      /\ disk \in [Files -> Versions \cup {None}] /\ dirs \in SUBSET Dirs
  BY WorkerTypes DEF TypeInv, TypeOK
<1>a. PathAbort(w) => StoreTyped' /\ JobsTyped'
  BY RollbackType, DropType DEF PathAbort
<1>1. ASSUME NEW d \in Places, PathList(w, d)
      PROVE  TypeInv'
  <2> DEFINE pc   == IF d \in dirs THEN "dir" ELSE "walk"
             at   == IF d \in dirs THEN d ELSE Root
             todo == (job[w].todo \ {d}) \cup SubdirsIn(d)
             left == FilesIn(d)
             j == [job[w] EXCEPT !.pc = pc, !.at = at,
                                 !.todo = todo, !.left = left]
  <2>1. Become(w, j)
    BY <1>1 DEF PathList
  <2>2. /\ pc \in PCs \ {"stat", "pages", "upsert", "meta"} /\ at \in Places
        /\ todo \in SUBSET Places /\ left \in SUBSET Files
        /\ pc = "dir" => at \in Dirs
    BY <1>0 DEF SubdirsIn, FilesIn, Places, PCs, Job
  <2> HIDE DEF pc, at, todo, left
  <2>3. j \in Job /\ AtPath(j)
    BY <1>0, <2>2 DEF Job, AtPath
  <2>4. JobsTyped'
    BY <2>1, <2>3, BecomeType
  <2> QED  BY <1>1, <2>4, Unaffected, TypeParts
           DEF PathList, diskVars, watchVars, gateVars, storeVars, boundVars
<1>2. CASE PathDir(w)
  <2> DEFINE d == job[w].at
             j == [job[w] EXCEPT !.pc = "walk", !.at = Root]
  <2>1. j \in Job /\ AtPath(j)
    BY <1>0 DEF Job, PCs, Places, AtPath
  <2>2. \/ PathAbort(w)
        \/ d \in Dirs /\ Write(w, UpsertDir(view, d)) /\ Become(w, j)
    BY <1>0, <1>2 DEF PathDir, AtPath
  <2>3. JobsTyped' /\ StoreTyped'
    BY <1>0, <1>a, <2>1, <2>2, BecomeType, IndexOps, WriteType
  <2> QED  BY <1>2, <2>3, Unaffected, TypeParts
           DEF PathDir, diskVars, watchVars, gateVars, boundVars
<1>3. ASSUME NEW f \in Files, PathFile(w, f)
      PROVE  TypeInv'
  <2> DEFINE j == [job[w] EXCEPT !.pc = "pages", !.left = @ \ {f},
                                 !.file = f, !.stamp = disk[f]]
  <2>1. j \in Job
    BY <1>0 DEF Job, PCs
  <2>2. AtPath(j)
    BY <1>0 DEF Job, AtPath
  <2>3. PathAbort(w) \/ (Become(w, j) /\ UNCHANGED storeVars)
    BY <1>3 DEF PathFile
  <2>4. JobsTyped' /\ StoreTyped'
    BY <1>a, <2>1, <2>2, <2>3, BecomeType, Unaffected
  <2> QED  BY <1>3, <2>4, Unaffected, TypeParts
           DEF PathFile, diskVars, watchVars, gateVars, boundVars
<1>4. CASE PathMeta(w)
  <2> DEFINE j == [job[w] EXCEPT !.pc = "walk", !.file = None,
                                 !.stamp = None, !.pages = 0]
  <2>1. j \in Job /\ AtPath(j)
    BY <1>0 DEF Job, PCs, AtPath
  <2>2. JobsTyped' /\ StoreTyped'
    BY <1>4, <2>1, BecomeType, WithMetaType, WriteType DEF PathMeta
  <2> QED  BY <1>4, <2>2, Unaffected, TypeParts
           DEF PathMeta, diskVars, watchVars, gateVars, boundVars
<1>5. CASE PathEnd(w)
  <2>1. JobsTyped' /\ StoreTyped'
    BY <1>0, <1>5, DropType, WriteType, Unaffected DEF PathEnd
  <2> QED  BY <1>5, <2>1, Unaffected, TypeParts
           DEF PathEnd, diskVars, watchVars, gateVars, boundVars
<1>6. CASE PathLockedOut(w)
  <2>1. JobsTyped' /\ StoreTyped'
    BY <1>6, <1>a DEF PathLockedOut
  <2> QED  BY <1>6, <2>1, Unaffected, TypeParts
           DEF PathLockedOut, diskVars, watchVars, gateVars, boundVars
<1> QED
  BY <1>1, <1>2, <1>3, <1>4, <1>5, <1>6, CountPagesType, UpsertFileRowType
     DEF PathStep

(* The steps that start a job, and the watcher's dispatcher.               *)
LEMMA StartType ==
    ASSUME TypeInv, Start \/ CronStart \/ WatcherStart \/ Dispatch
    PROVE  TypeInv'
<1>0. /\ checked \in SUBSET Places /\ running \in BOOLEAN /\ requests \in Nat
      /\ crashes \in Nat /\ timer \in [Files -> {"none", "reindex", "delete"}]
      /\ queue \in Seq([gone : Files \cup {None}, came : Files \cup {None}])
  BY DEF TypeInv, TypeOK
<1>a. Request => BoundTyped'
  BY <1>0 DEF Request, BoundTyped
<1>1. ASSUME NEW w \in Scanners, NEW force \in BOOLEAN, StartScan(w, force)
      PROVE  TypeInv'
  <2>1. Spawned(force) \in Job /\ AtPath(Spawned(force))
    BY IdleJobType DEF Spawned, Job, PCs, AtPath
  <2>2. w \in Workers
    BY DEF Workers, Server
  <2>3. JobsTyped'
    BY <1>1, <2>1, <2>2, BeginType DEF StartScan
  <2> QED  BY <1>a, <1>1, <2>3, Unaffected, TypeParts
           DEF StartScan, diskVars, watchVars, gateVars, storeVars
<1>2. ASSUME NEW w \in Refreshers, NEW d \in Places, RefreshStart(w, d)
      PROVE  TypeInv'
  <2> DEFINE j == [IdleJob EXCEPT !.pc = "gate", !.at = d]
  <2>1. j \in Job /\ AtPath(j)
    BY IdleJobType DEF Job, PCs, AtPath
  <2>2. w \in Workers
    BY DEF Workers, Server
  <2>3. JobsTyped'
    BY <1>2, <2>1, <2>2, BeginType DEF RefreshStart
  <2>4. GateTyped'
    BY <1>0, <1>2 DEF RefreshStart, GateTyped
  <2> QED  BY <1>a, <1>2, <2>3, <2>4, Unaffected, TypeParts
           DEF RefreshStart, diskVars, watchVars, storeVars
<1>3. ASSUME NEW w \in Pathers, NEW p \in Paths \cup {Root}, PathStart(w, p)
      PROVE  TypeInv'
  <2> DEFINE todo == IF p \in Files THEN {} ELSE {p}
             left == IF p \in Files THEN {p} ELSE {}
             j == [IdleJob EXCEPT !.pc = "walk", !.todo = todo, !.left = left]
  <2>1. todo \in SUBSET Places /\ left \in SUBSET Files
    BY DEF Paths, Places
  <2>2. j \in Job /\ AtPath(j)
    <3> HIDE DEF todo, left
    <3> QED  BY IdleJobType, <2>1 DEF Job, PCs, AtPath
  <2>3. w \in Workers
    BY DEF Workers, Server
  <2>4. JobsTyped'
    BY <1>3, <2>2, <2>3, BeginType DEF PathStart
  <2> QED  BY <1>a, <1>3, <2>4, Unaffected, TypeParts
           DEF PathStart, diskVars, watchVars, gateVars, storeVars
<1>4. ASSUME NEW w \in Crons, StartCron(w)
      PROVE  TypeInv'
  <2>1. Spawned(FALSE) \in Job /\ AtPath(Spawned(FALSE))
    BY IdleJobType DEF Spawned, Job, PCs, AtPath
  <2>2. JobsTyped'
    BY <1>4, <2>1, BeginType DEF StartCron, Workers
  <2> QED  BY <1>4, <2>2, Unaffected, TypeParts
           DEF StartCron, diskVars, watchVars, gateVars, storeVars, boundVars
<1>5. ASSUME NEW w \in Timers, NEW f \in Files, Fire(w, f)
      PROVE  TypeInv'
  <2> DEFINE pc == IF timer[f] = "reindex" THEN "stat" ELSE "delete"
             j == [IdleJob EXCEPT !.file = f, !.pc = pc]
  <2>1. pc \in PCs \ {"dir"}
    BY DEF PCs
  <2>2. j \in Job /\ AtPath(j)
    <3> HIDE DEF pc
    <3> QED  BY IdleJobType, <2>1 DEF Job, AtPath
  <2>3. w \in Workers
    BY DEF Workers, Server
  <2>4. JobsTyped'
    BY <1>5, <2>2, <2>3, BeginType DEF Fire
  <2>5. WatchTyped'
    BY <1>0, <1>5 DEF Fire, WatchTyped, QueueTyped
  <2> QED  BY <1>5, <2>4, <2>5, Unaffected, TypeParts
           DEF Fire, diskVars, gateVars, storeVars, boundVars
<1>6. CASE Dispatch
  <2>1. queue # <<>> /\ queue' = Tail(queue)
    BY <1>6 DEF Dispatch
  <2>2. QueueTyped'
    BY <1>0, <2>1 DEF QueueTyped
  <2>3. timer' \in [Files -> {"none", "reindex", "delete"}]
    BY <1>0, <1>6 DEF Dispatch, Schedule
  <2> QED  BY <1>6, <2>2, <2>3, Unaffected, TypeParts
           DEF WatchTyped, Dispatch, diskVars, gateVars, storeVars, boundVars
<1> QED
  BY <1>1, <1>2, <1>3, <1>4, <1>5, <1>6 DEF Start, CronStart, WatcherStart

LEMMA ChangeType ==
    ASSUME TypeInv, LibraryChange
    PROVE  TypeInv'
<1>0. DiskTyped /\ WatchTyped /\ job \in [Workers -> Job]
  BY DEF TypeInv, TypeOK, DiskTyped, WatchTyped, QueueTyped
<1>1. ASSUME NEW S \in SUBSET Paths, Change(S)
      PROVE  /\ JobsTyped' /\ GateTyped' /\ StoreTyped' /\ BoundTyped'
             /\ changes' \in Nat /\ timer' = timer
  <2> DEFINE k(w) == [job[w] EXCEPT !.gone = @ \cup S]
  <2>1. ASSUME NEW w \in Workers
        PROVE  k(w) \in Job /\ AtPath(k(w))
    <3>1. job[w] \in Job /\ AtPath(job[w])
      BY WorkerTypes
    <3>2. k(w) \in Job
      BY <3>1 DEF Job
    <3> QED  BY <3>1, <3>2 DEF Job, AtPath
  <2>2. job' = [w \in Workers |-> IF job[w].pc = "idle" THEN job[w] ELSE k(w)]
    BY <1>1 DEF Change
  <2> HIDE DEF k
  <2>3. JobsTyped'
    BY <2>1, <2>2, WorkerTypes DEF JobsTyped
  <2>4. changes' \in Nat /\ timer' = timer
    BY <1>0, <1>1 DEF Change, DiskTyped
  <2> QED  BY <1>1, <2>3, <2>4, Unaffected
           DEF Change, gateVars, storeVars, boundVars
<1>2. ASSUME NEW f \in Files \cup {None}, NEW g \in Files \cup {None},
             Event(f, g)
      PROVE  QueueTyped'
  <2> DEFINE e == [gone |-> f, came |-> g]
             E == [gone : Files \cup {None}, came : Files \cup {None}]
  <2>1. e \in E /\ queue \in Seq(E)
    BY <1>0 DEF WatchTyped, QueueTyped
  <2>2. queue' = IF Timers = {} THEN queue ELSE Append(queue, e)
    BY <1>2 DEF Event
  <2>3. queue' \in Seq(E)
    <3> HIDE DEF e, E
    <3> QED  BY <2>1, <2>2
  <2> QED  BY <2>3 DEF QueueTyped
<1>3. queue' = queue => QueueTyped'
  BY <1>0 DEF WatchTyped, QueueTyped
<1>4. ASSUME NEW f \in Files, NEW v \in Versions, WriteFile(f, v)
      PROVE  TypeInv'
  <2>1. DiskTyped'
    BY <1>0, <1>1, <1>4 DEF WriteFile, DiskTyped
  <2> QED  BY <1>0, <1>1, <1>2, <1>4, <2>1, TypeParts DEF WriteFile, WatchTyped
<1>5. ASSUME NEW f \in Files, RemoveFile(f)
      PROVE  TypeInv'
  <2>1. {f} \in SUBSET Paths
    BY DEF Paths
  <2>2. DiskTyped'
    BY <1>0, <1>1, <1>5, <2>1 DEF RemoveFile, DiskTyped
  <2> QED
    BY <1>0, <1>1, <1>2, <1>5, <2>1, <2>2, TypeParts DEF RemoveFile, WatchTyped
<1>6. ASSUME NEW f \in Files, NEW g \in Files, MoveFile(f, g)
      PROVE  TypeInv'
  <2>1. {f} \in SUBSET Paths
    BY DEF Paths
  <2>2. disk[f] \in Versions
    BY <1>0, <1>6 DEF MoveFile, DiskTyped
  <2>3. DiskTyped'
    BY <1>0, <1>1, <1>6, <2>1, <2>2 DEF MoveFile, DiskTyped
  <2> QED
    BY <1>0, <1>1, <1>2, <1>6, <2>1, <2>3, TypeParts DEF MoveFile, WatchTyped
<1>7. ASSUME NEW d \in Dirs, MakeDir(d)
      PROVE  TypeInv'
  <2>1. DiskTyped'
    BY <1>0, <1>1, <1>7 DEF MakeDir, DiskTyped
  <2> QED  BY <1>0, <1>1, <1>3, <1>7, <2>1, TypeParts DEF MakeDir, WatchTyped
<1>8. ASSUME NEW d \in Dirs, RemoveTree(d)
      PROVE  TypeInv'
  <2>1. {d} \cup FilesIn(d) \in SUBSET Paths
    BY DEF Paths, FilesIn
  <2>2. DiskTyped'
    BY <1>0, <1>1, <1>8, <2>1 DEF RemoveTree, DiskTyped
  <2> QED
    BY <1>0, <1>1, <1>3, <1>8, <2>1, <2>2, TypeParts DEF RemoveTree, WatchTyped
<1> QED  BY <1>4, <1>5, <1>6, <1>7, <1>8 DEF LibraryChange

LEMMA StartupType ==
    ASSUME NEW jobs \in [Workers -> Job],
           \A w \in Workers : AtPath(jobs[w]),
           NEW ix, NEW result \in Startup(jobs, ix)
    PROVE  result \in [Workers -> Job] /\ \A w \in Workers : AtPath(result[w])
<1>1. CASE result = jobs
  BY <1>1
<1>2. ASSUME NEW w \in Scanners,
             result = [jobs EXCEPT ![w] = [Spawned(TRUE) EXCEPT !.gone = Absent]]
      PROVE  result \in [Workers -> Job] /\ \A x \in Workers : AtPath(result[x])
  <2> DEFINE k == [Spawned(TRUE) EXCEPT !.gone = Absent]
  <2>1. k \in Job /\ AtPath(k)
    BY IdleJobType DEF Spawned, Job, PCs, AtPath, Absent
  <2>2. result = [jobs EXCEPT ![w] = k]
    BY <1>2
  <2> HIDE DEF k
  <2> QED  BY <2>1, <2>2
<1> QED  BY <1>1, <1>2 DEF Startup

LEMMA CrashType == ASSUME TypeInv, Crash PROVE TypeInv'
<1> DEFINE jobs == [w \in Workers |-> IF w \in Server THEN IdleJob ELSE job[w]]
<1>1. jobs \in [Workers -> Job] /\ \A w \in Workers : AtPath(jobs[w])
  BY IdleJobType, WorkerTypes DEF IdleJob, AtPath
<1>2. job' \in Startup(jobs, db)
  BY DEF Crash
<1>3. JobsTyped'
  <2> HIDE DEF jobs
  <2> QED  BY <1>1, <1>2, StartupType DEF JobsTyped
<1>4. StoreTyped' /\ GateTyped' /\ BoundTyped'
  <2>1. StoreTyped'
    BY DEF Crash, TypeInv, TypeOK, StoreTyped
  <2>2. GateTyped'
    BY DEF Crash, GateTyped
  <2>3. BoundTyped'
    BY DEF Crash, TypeInv, TypeOK, BoundTyped
  <2> QED  BY <2>1, <2>2, <2>3
<1>5. WatchTyped'
  BY DEF Crash, WatchTyped, QueueTyped
<1> QED  BY <1>3, <1>4, <1>5, Unaffected, TypeParts DEF Crash, diskVars

LEMMA InitType == ASSUME Init PROVE TypeInv
<1>1. EmptyIndex \in Index
  BY NoRowsType DEF EmptyIndex, Index
<1>2. FullIndex \in Index
  <2>1. \A p \in Paths : OnDisk(p) /\ p \notin Dirs => disk[p] \in Versions
    BY DEF Init, OnDisk, Paths
  <2>2. \A f \in Files : InfoOnDisk(f) \in Infos \cup {None}
    BY VersionAssumption DEF Init, InfoOnDisk
  <2> QED  BY <2>1, <2>2, VersionAssumption DEF FullIndex, Index, Row
<1>3. JobsTyped
  <2> DEFINE jobs == [w \in Workers |-> IdleJob]
  <2>1. jobs \in [Workers -> Job] /\ \A w \in Workers : AtPath(jobs[w])
    BY IdleJobType DEF IdleJob, AtPath
  <2>2. job \in Startup(jobs, db)
    BY DEF Init
  <2> HIDE DEF jobs
  <2> QED  BY <2>1, <2>2, StartupType DEF JobsTyped
<1>4. StoreTyped
  BY <1>1, <1>2, NoneAssumption DEF Init, StoreTyped
<1>5. DiskTyped
  BY DEF Init, DiskTyped
<1>6. WatchTyped
  BY DEF Init, WatchTyped, QueueTyped
<1> QED
  BY <1>3, <1>4, <1>5, <1>6, TypeParts DEF Init, GateTyped, BoundTyped

LEMMA NextType == ASSUME TypeInv, [Next]_vars PROVE TypeInv'
<1>1. CASE UNCHANGED vars
  BY <1>1, Unaffected, TypeParts DEF vars
<1>2. ASSUME NEW d \in Places, IntervalOver(d)
      PROVE  TypeInv'
  <2>1. GateTyped'
    BY <1>2 DEF IntervalOver, GateTyped, TypeInv, TypeOK
  <2> QED  BY <1>2, <2>1, Unaffected, TypeParts
           DEF IntervalOver, diskVars, watchVars, storeVars, boundVars
<1>3. ASSUME NEW w \in Workers, Work(w)
      PROVE  TypeInv'
  BY <1>3, ScanType, RefreshType, TimerType, PathType DEF Work
<1> QED
  BY <1>1, <1>2, <1>3, ChangeType, StartType, CrashType DEF Next

(* Every variable keeps its type, whatever the library, the jobs and the   *)
(* bounds.                                                                 *)
THEOREM TypeCorrect == Spec => []TypeOK
<1>1. Init => TypeInv
  BY InitType
<1>2. TypeInv /\ [Next]_vars => TypeInv'
  BY NextType
<1>3. TypeInv => TypeOK
  BY DEF TypeInv
<1> QED  BY <1>1, <1>2, <1>3, PTL DEF Spec
===============================================================================
