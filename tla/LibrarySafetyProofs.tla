-------------------------- MODULE LibrarySafetyProofs --------------------------
(***************************************************************************)
(* Whatever jobs run at the same time, the three tables agree and, when no *)
(* path shows a version twice, a row whose stamp is current is right.  The *)
(* proof shows that Inv of LibraryIndex is inductive.                      *)
(***************************************************************************)
EXTENDS LibraryIndexProofs

Good(ix, f) == RowsAgree(ix, f) /\ MetaCurrent(ix, f)

(***************************************************************************)
(* What each index operator does to good rows.                             *)
(***************************************************************************)
LEMMA GoodOps ==
    ASSUME TypeInv, NEW ix \in Index, \A f \in Files : Good(ix, f)
    PROVE  /\ \A d \in Dirs, f \in Files : Good(UpsertDir(ix, d), f)
           /\ \A S : \A f \in Files : Good(DeleteRows(ix, S), f)
           /\ \A S : \A f \in Files : Good(CleanupDeleted(ix, S), f)
           /\ \A f \in Files : Good(PruneStale(ix), f)
<1>1. ASSUME NEW d \in Dirs, NEW f \in Files
      PROVE  Good(UpsertDir(ix, d), f)
  <2>1. f # d /\ Good(ix, f)
    BY PathAssumption
  <2>2. /\ UpsertDir(ix, d).items[f] = ix.items[f]
        /\ UpsertDir(ix, d).meta = ix.meta
        /\ UpsertDir(ix, d).fts = ix.fts
    BY <2>1 DEF UpsertDir, Index
  <2> QED  BY <2>1, <2>2 DEF Good, RowsAgree, MetaCurrent
<1>2. ASSUME NEW S, NEW f \in Files
      PROVE  Good(DeleteRows(ix, S), f)
  <2>1. /\ DeleteRows(ix, S).items[f] = IF f \in S THEN None ELSE ix.items[f]
        /\ DeleteRows(ix, S).meta[f] = IF f \in S THEN None ELSE ix.meta[f]
        /\ DeleteRows(ix, S).fts = ix.fts
    BY DEF DeleteRows, Without, Index, Paths
  <2> QED  BY <2>1 DEF Good, RowsAgree, MetaCurrent
<1>3. ASSUME NEW S, NEW f \in Files
      PROVE  Good(CleanupDeleted(ix, S), f)
  <2>1. /\ CleanupDeleted(ix, S).items[f] = IF f \in S THEN None ELSE ix.items[f]
        /\ CleanupDeleted(ix, S).meta[f] = IF f \in S THEN None ELSE ix.meta[f]
        /\ CleanupDeleted(ix, S).fts[f] = IF f \in S THEN None ELSE ix.fts[f]
    BY DEF CleanupDeleted, Without, Index, Paths
  <2> QED  BY <2>1 DEF Good, RowsAgree, MetaCurrent
<1>4. ASSUME NEW f \in Files
      PROVE  Good(PruneStale(ix), f)
  <2>1. /\ PruneStale(ix).items = ix.items /\ PruneStale(ix).meta = ix.meta
        /\ PruneStale(ix).fts[f] = IF ix.items[f] = None THEN None
                                   ELSE ix.fts[f]
    BY DEF PruneStale, Without, Index
  <2> QED  BY <2>1 DEF Good, RowsAgree, MetaCurrent
<1> QED  BY <1>1, <1>2, <1>3, <1>4

(* The holder of the lock sees good rows unless it is between upsert_file  *)
(* and upsert_meta.                                                        *)
LEMMA ViewGood ==
    ASSUME Inv, NEW w \in Workers, ~Locked(w), job[w].pc # "meta"
    PROVE  \A f \in Files : Good(view, f)
BY DEF Inv, StoreGood, BetweenWrites, Locked, Good

(***************************************************************************)
(* The kinds of steps a job makes while the library stays as it is.        *)
(***************************************************************************)
LEMMA StepStill ==
    ASSUME TypeInv, Inv, NEW w \in Workers, NEW j, Become(w, j), StampFirst(j),
           j.pc # "meta", job[w].pc # "meta",
           UNCHANGED <<disk, seen, storeVars>>
    PROVE  Inv'
<1>1. \A x \in Workers : job'[x] = IF x = w THEN j ELSE job[x]
  BY DEF Become, TypeInv, TypeOK
<1>2. \A f \in Files : BetweenWrites(f)' <=> BetweenWrites(f)
  BY <1>1 DEF BetweenWrites, storeVars, TypeInv, TypeOK
<1>3. StoreGood'
  BY <1>2 DEF Inv, StoreGood, RowsAgree, MetaCurrent, storeVars
<1>4. \A x \in Workers : StampFirst(job[x])' /\ HoldsRow(x)'
  BY <1>1 DEF Inv, StampFirst, HoldsRow, storeVars
<1> QED  BY <1>3, <1>4 DEF Inv

LEMMA StepStore ==
    ASSUME TypeInv, Inv, NEW w \in Workers, NEW j, Become(w, j), StampFirst(j),
           j.pc # "meta",
           NEW ix, \A f \in Files : Good(ix, f),
           Write(w, ix) \/ Commit(w, ix),
           UNCHANGED <<disk, seen>>
    PROVE  Inv'
<1>1. \A x \in Workers : job'[x] = IF x = w THEN j ELSE job[x]
  BY DEF Become, TypeInv, TypeOK
<1>2. view' = ix /\ db' \in {db, ix} /\ owner' \in {w, None}
      /\ (owner' = None => db' = ix)
  BY NoneAssumption, WorkerAssumption DEF Write, Commit
<1>3. StoreGood'
  BY <1>2 DEF Inv, StoreGood, RowsAgree, MetaCurrent, Good
<1>4. \A x \in Workers : StampFirst(job[x])'
  BY <1>1 DEF Inv, StampFirst
<1>5. \A x \in Workers : HoldsRow(x)'
  BY <1>1, WorkerAssumption DEF Inv, HoldsRow, Write, Commit, Locked
<1> QED  BY <1>3, <1>4, <1>5 DEF Inv

LEMMA StepRollback ==
    ASSUME TypeInv, Inv, NEW w \in Workers, Drop(w), Rollback(w),
           job[w].pc # "meta",
           UNCHANGED <<disk, seen>>
    PROVE  Inv'
<1>1. \A x \in Workers : job'[x] = IF x = w THEN IdleJob ELSE job[x]
  BY DEF Drop, Become, TypeInv, TypeOK
<1>2. IdleJob.pc = "idle"
  BY DEF IdleJob
<1>3. StoreGood'
  BY <1>1, <1>2 DEF Inv, StoreGood, RowsAgree, MetaCurrent, BetweenWrites,
                    Rollback, TypeInv, TypeOK
<1>4. \A x \in Workers : StampFirst(job[x])' /\ HoldsRow(x)'
  BY <1>1, <1>2 DEF Inv, StampFirst, HoldsRow, Rollback
<1> QED  BY <1>3, <1>4 DEF Inv

(* The library changes: a file keeps its version, goes, or shows a version *)
(* it never had.                                                           *)
LEMMA StepDisk ==
    ASSUME TypeInv, Inv,
           \A f \in Files :
              /\ \/ Restores
                 \/ disk'[f] \in {disk[f], None}
                 \/ disk'[f] \notin seen[f]
              /\ seen[f] \subseteq seen'[f]
              /\ disk'[f] # None => disk'[f] \in seen'[f],
           \A w \in Workers :
              /\ job'[w].pc = job[w].pc /\ job'[w].file = job[w].file
              /\ job'[w].stamp = job[w].stamp
              /\ job'[w].pages = job[w].pages,
           UNCHANGED storeVars
    PROVE  Inv'
<1>0. /\ db' = db /\ view' = view /\ owner' = owner
      /\ \A f \in Files : seen[f] \in SUBSET Versions
      /\ owner \in Workers \cup {None}
  BY DEF storeVars, TypeInv, TypeOK
<1>1. \A f \in Files : BetweenWrites(f) => BetweenWrites(f)'
  BY <1>0 DEF BetweenWrites
<1>2. StoreGood'
  BY <1>0, <1>1, NoneAssumption DEF Inv, StoreGood, RowsAgree, MetaCurrent
<1>3. \A w \in Workers : StampFirst(job[w])'
  BY <1>0, NoneAssumption, WorkerTypes DEF Inv, StampFirst, AtPath
<1>4. \A w \in Workers : HoldsRow(w)'
  BY <1>0 DEF Inv, HoldsRow
<1> QED  BY <1>2, <1>3, <1>4 DEF Inv

(***************************************************************************)
(* The steps on one file that all kinds of job share.                      *)
(***************************************************************************)
LEMMA AtRest ==
    ASSUME NEW j, j.pc \notin {"pages", "upsert", "meta"}
    PROVE  StampFirst(j)
BY DEF StampFirst

LEMMA PresentSeen ==
    ASSUME Inv, NEW f \in Files, disk[f] # None
    PROVE  disk[f] \in seen[f]
BY DEF Inv, StoreGood

LEMMA CountPagesGood ==
    ASSUME TypeInv, Inv, NEW w \in Workers, CountPages(w)
    PROVE  Inv'
<1> DEFINE n == PagesOnDisk(job[w].file)
           j == [job[w] EXCEPT !.pc = "upsert", !.pages = n]
<1>1. job[w] \in Job /\ job[w].file \in Files /\ job[w].pc = "pages"
  BY WorkerTypes DEF AtPath, CountPages
<1>2. /\ j.pc = "upsert" /\ j.pages = n
      /\ j.file = job[w].file /\ j.stamp = job[w].stamp
  BY <1>1 DEF Job
<1>3. job[w].stamp \in seen[job[w].file] /\ seen[job[w].file] \subseteq Versions
  BY <1>1 DEF Inv, StampFirst, TypeInv, TypeOK
<1>4. job[w].stamp = disk[job[w].file] => n = Pages[job[w].stamp]
  BY <1>3, NoneAssumption DEF PagesOnDisk
<1>5. StampFirst(j)
  BY <1>2, <1>3, <1>4 DEF StampFirst
<1>6. Become(w, j) /\ UNCHANGED <<disk, seen, storeVars>>
  BY DEF CountPages, diskVars
<1> QED
  <2> HIDE DEF j
  <2> QED  BY <1>1, <1>2, <1>5, <1>6, StepStill

LEMMA UpsertFileRowGood ==
    ASSUME TypeInv, Inv, NEW w \in Workers, UpsertFileRow(w)
    PROVE  Inv'
<1> DEFINE f  == job[w].file
           v  == job[w].stamp
           n  == job[w].pages
           ix == UpsertFile(view, f, v, n)
<1>1. /\ job[w] \in Job /\ f \in Files /\ job[w].pc = "upsert"
      /\ view \in Index /\ ~Locked(w)
  BY WorkerTypes DEF AtPath, UpsertFileRow, TypeInv, TypeOK, Write
<1>2. /\ v \in seen[f] /\ v # None
      /\ ~Restores /\ v = disk[f] => n = Pages[v]
  BY <1>1, NoneAssumption DEF Inv, StampFirst, TypeInv, TypeOK
<1>3. /\ ix.items[f] = [stamp |-> v, pages |-> n]
      /\ \A g \in Files \ {f} : ix.items[g] = view.items[g]
      /\ ix.meta = view.meta /\ ix.fts = view.fts
  BY <1>1 DEF UpsertFile, Index, Paths
<1>4. ix.items[f] # None
  BY <1>1, <1>3, RowAssumption DEF Row, Job
<1>5. /\ owner' = w /\ view' = ix /\ db' = db
      /\ disk' = disk /\ seen' = seen
      /\ \A x \in Workers \ {w} : job'[x] = job[x]
      /\ job'[w] = [job[w] EXCEPT !.pc = "meta"]
  BY DEF UpsertFileRow, Write, Goto, Become, diskVars, TypeInv, TypeOK
<1>6. /\ job'[w].pc = "meta" /\ job'[w].file = f
      /\ job'[w].stamp = v /\ job'[w].pages = n
  BY <1>1, <1>5 DEF Job
<1>7. \A g \in Files : Good(view, g)
  BY <1>1, ViewGood
<1> HIDE DEF f, v, n, ix
<1>8. \A g \in Files : RowsAgree(view, g)'
  BY <1>2, <1>3, <1>4, <1>5, <1>7 DEF Good, RowsAgree
<1>9. \A g \in Files : BetweenWrites(g)' \/ MetaCurrent(view, g)'
  BY <1>3, <1>5, <1>6, <1>7, WorkerAssumption
     DEF Good, MetaCurrent, BetweenWrites
<1>10. StoreGood'
  BY <1>5, <1>8, <1>9, WorkerAssumption
     DEF Inv, StoreGood, RowsAgree, MetaCurrent
<1>11. \A x \in Workers : StampFirst(job[x])'
  BY ZenonT(60), <1>2, <1>5, <1>6 DEF Inv, StampFirst
<1>12. \A x \in Workers : HoldsRow(x)'
  BY <1>1, <1>4, <1>5, <1>6, WorkerAssumption DEF Inv, HoldsRow, Locked
<1> QED  BY <1>10, <1>11, <1>12 DEF Inv

LEMMA WithMetaGood ==
    ASSUME TypeInv, Inv, NEW w \in Workers, job[w].pc = "meta"
    PROVE  \A g \in Files : Good(WithMeta(w), g)
<1> DEFINE f  == job[w].file
           i  == InfoOnDisk(f)
           ix == WithMeta(w)
<1>1. f \in Files /\ view \in Index /\ owner = w /\ view.items[f] # None
  BY WorkerTypes DEF AtPath, TypeInv, TypeOK, Inv, HoldsRow
<1>2. /\ \A g \in Files : RowsAgree(view, g)
      /\ \A g \in Files \ {f} : MetaCurrent(view, g)
      /\ \A g \in Files : seen[g] \in SUBSET Versions
  BY <1>1 DEF Inv, StoreGood, BetweenWrites, TypeInv, TypeOK
<1>3. CASE i = None
  <2>1. ix = view
    BY <1>3 DEF WithMeta, UpsertMetaIfAny
  <2>2. MetaCurrent(view, f)
    BY <1>1, <1>2, <1>3, NoneAssumption DEF RowsAgree, MetaCurrent, InfoOnDisk
  <2> QED  BY <1>2, <2>1, <2>2 DEF Good
<1>4. CASE i # None
  <2>1. /\ ix.items = view.items
        /\ ix.meta[f] = i /\ ix.fts[f] = i
        /\ \A g \in Files \ {f} : /\ ix.meta[g] = view.meta[g]
                                 /\ ix.fts[g] = view.fts[g]
    BY <1>1, <1>4 DEF WithMeta, UpsertMetaIfAny, UpsertMeta, Index
  <2>2. disk[f] # None /\ i = Info[disk[f]]
    BY <1>4 DEF InfoOnDisk
  <2> HIDE DEF f, i, ix
  <2>3. \A g \in Files : Good(ix, g)
    BY ZenonT(60), <1>1, <1>2, <2>1, <2>2 DEF Good, RowsAgree, MetaCurrent
  <2> QED  BY <2>3 DEF ix
<1> QED  BY <1>3, <1>4

(***************************************************************************)
(* A step that ends with an open or a committed transaction needs good     *)
(* rows to write; without one only the job has to be looked at.            *)
(***************************************************************************)
LEMMA StepOf ==
    ASSUME TypeInv, Inv, NEW w \in Workers, NEW j, Become(w, j), StampFirst(j),
           j.pc # "meta", job[w].pc # "meta",
           UNCHANGED diskVars,
           \/ UNCHANGED storeVars
           \/ Commit(w, view)
           \/ \E d \in Dirs : Write(w, UpsertDir(view, d))
           \/ \E S : \/ Commit(w, DeleteRows(view, S))
                     \/ Commit(w, CleanupDeleted(view, S))
           \/ Commit(w, PruneStale(view))
    PROVE  Inv'
<1>0. view \in Index /\ UNCHANGED <<disk, seen>>
  BY DEF TypeInv, TypeOK, diskVars
<1>1. CASE UNCHANGED storeVars
  BY <1>0, <1>1, StepStill
<1>2. ASSUME ~Locked(w)
      PROVE  \A f \in Files : Good(view, f)
  BY <1>2, ViewGood
<1>3. CASE Commit(w, view)
  <2>1. \A f \in Files : Good(view, f)
    BY <1>2, <1>3 DEF Commit
  <2> QED  BY <1>0, <1>3, <2>1, StepStore
<1>4. ASSUME NEW d \in Dirs, Write(w, UpsertDir(view, d))
      PROVE  Inv'
  <2>1. \A f \in Files : Good(UpsertDir(view, d), f)
    BY <1>0, <1>2, <1>4, GoodOps DEF Write
  <2> QED  BY <1>0, <1>4, <2>1, StepStore
<1>5. ASSUME NEW S, Commit(w, DeleteRows(view, S))
      PROVE  Inv'
  <2>1. \A f \in Files : Good(DeleteRows(view, S), f)
    BY <1>0, <1>2, <1>5, GoodOps DEF Commit
  <2> QED  BY <1>0, <1>5, <2>1, StepStore
<1>6. ASSUME NEW S, Commit(w, CleanupDeleted(view, S))
      PROVE  Inv'
  <2>1. \A f \in Files : Good(CleanupDeleted(view, S), f)
    BY <1>0, <1>2, <1>6, GoodOps DEF Commit
  <2> QED  BY <1>0, <1>6, <2>1, StepStore
<1>7. CASE Commit(w, PruneStale(view))
  <2>1. \A f \in Files : Good(PruneStale(view), f)
    BY <1>0, <1>2, <1>7, GoodOps DEF Commit
  <2> QED  BY <1>0, <1>7, <2>1, StepStore
<1> QED  BY <1>1, <1>3, <1>4, <1>5, <1>6, <1>7

LEMMA StepMeta ==
    ASSUME TypeInv, Inv, NEW w \in Workers, job[w].pc = "meta",
           NEW j, Become(w, j), j.pc \in {"walk", "idle"},
           Write(w, WithMeta(w)) \/ Commit(w, WithMeta(w)),
           UNCHANGED diskVars
    PROVE  Inv'
<1>1. StampFirst(j)
  BY AtRest
<1>2. UNCHANGED <<disk, seen>>
  BY DEF diskVars
<1> QED  BY <1>1, <1>2, WithMetaGood, StepStore

LEMMA StepAbort ==
    ASSUME TypeInv, Inv, NEW w \in Workers, job[w].pc # "meta",
           Rollback(w), Drop(w), UNCHANGED diskVars
    PROVE  Inv'
<1>1. UNCHANGED <<disk, seen>>
  BY DEF diskVars
<1> QED  BY <1>1, StepRollback

LEMMA StepGoto ==
    ASSUME TypeInv, Inv, NEW w \in Workers, NEW pc, Goto(w, pc),
           pc \notin {"pages", "upsert", "meta"}, job[w].pc # "meta",
           UNCHANGED diskVars,
           UNCHANGED storeVars \/ Commit(w, PruneStale(view))
    PROVE  Inv'
<1> DEFINE j == [job[w] EXCEPT !.pc = pc]
<1>1. j.pc = pc
  BY WorkerTypes DEF Job
<1>2. StampFirst(j) /\ j.pc # "meta" /\ Become(w, j)
  BY <1>1, AtRest DEF Goto
<1> HIDE DEF j
<1> QED  BY <1>2, StepOf

LEMMA StepDrop ==
    ASSUME TypeInv, Inv, NEW w \in Workers, Drop(w), job[w].pc # "meta",
           UNCHANGED diskVars,
           \/ UNCHANGED storeVars
           \/ Commit(w, view)
           \/ \E S : Commit(w, DeleteRows(view, S))
    PROVE  Inv'
<1>1. IdleJob.pc = "idle" /\ Become(w, IdleJob)
  BY DEF IdleJob, Drop
<1>2. StampFirst(IdleJob)
  BY <1>1, AtRest
<1> HIDE DEF IdleJob
<1> QED  BY <1>1, <1>2, StepOf

(* A listed file that is there is taken up with its present stamp.         *)
LEMMA StepStamp ==
    ASSUME TypeInv, Inv, NEW w \in Workers, job[w].pc # "meta", NEW f \in Files,
           disk[f] # None, NEW j, Become(w, j), j.pc = "pages",
           j.file = f, j.stamp = disk[f],
           UNCHANGED diskVars, UNCHANGED storeVars
    PROVE  Inv'
<1>1. StampFirst(j)
  BY PresentSeen DEF StampFirst
<1> QED  BY <1>1, StepOf

(***************************************************************************)
(* Scans                                                                   *)
(***************************************************************************)
LEMMA ScanGood ==
    ASSUME TypeInv, Inv, NEW w \in Workers, ScanStep(w)
    PROVE  Inv'
<1>0. job[w] \in Job /\ AtPath(job[w]) /\ dirs \in SUBSET Dirs
  BY WorkerTypes DEF TypeInv, TypeOK
<1>a. ScanAbort(w) /\ UNCHANGED diskVars /\ job[w].pc # "meta" => Inv'
  BY StepAbort DEF ScanAbort
<1>1. CASE ScanBegin(w)
  BY <1>1, StepGoto DEF ScanBegin
<1>2. CASE ScanSnapshot(w)
  <2> DEFINE j == [job[w] EXCEPT !.pc = "walk", !.todo = {Root},
                     !.snap = IF job[w].force THEN NoRows ELSE Reads(w).items]
  <2>1. Become(w, j) /\ j.pc = "walk" /\ job[w].pc = "snapshot"
    BY <1>0, <1>2 DEF ScanSnapshot, Job
  <2>2. StampFirst(j)
    BY <2>1, AtRest
  <2> HIDE DEF j
  <2> QED  BY <1>2, <2>1, <2>2, StepOf DEF ScanSnapshot
<1>3. ASSUME NEW d \in Places, ScanList(w, d)
      PROVE  Inv'
  <2> DEFINE j == [job[w] EXCEPT
            !.pc   = IF d \in dirs THEN "dir" ELSE "walk",
            !.at   = IF d \in dirs THEN d ELSE Root,
            !.todo = (@ \ {d}) \cup SubdirsIn(d),
            !.left = FilesIn(d)]
  <2>1. Become(w, j) /\ j.pc \in {"dir", "walk"} /\ job[w].pc = "walk"
    BY <1>0, <1>3 DEF ScanList, Job
  <2>2. StampFirst(j)
    BY <2>1, AtRest
  <2> HIDE DEF j
  <2> QED  BY <1>3, <2>1, <2>2, StepOf DEF ScanList
<1>4. CASE ScanDir(w)
  <2> DEFINE d == job[w].at
             j == [job[w] EXCEPT !.pc = "walk", !.at = Root, !.rels = @ \cup {d}]
  <2>1. CASE ScanAbort(w)
    BY <1>4, <1>a, <2>1 DEF ScanDir
  <2>2. CASE Write(w, UpsertDir(view, d)) /\ Become(w, j)
    <3>1. j.pc = "walk" /\ d \in Dirs
      BY <1>0, <1>4 DEF Job, ScanDir, AtPath
    <3>2. StampFirst(j)
      BY <3>1, AtRest
    <3> HIDE DEF j, d
    <3> QED  BY <1>4, <2>2, <3>1, <3>2, StepOf DEF ScanDir
  <2> QED  BY <1>4, <2>1, <2>2 DEF ScanDir
<1>5. ASSUME NEW f \in Files, ScanFile(w, f)
      PROVE  Inv'
  <2> DEFINE k == [job[w] EXCEPT !.left = @ \ {f}, !.rels = @ \cup {f}]
             j == [k EXCEPT !.pc = "pages", !.file = f, !.stamp = disk[f]]
  <2>0. job[w].pc = "walk" /\ UNCHANGED diskVars
    BY <1>5 DEF ScanFile
  <2>1. CASE ScanAbort(w)
    BY <1>a, <2>0, <2>1
  <2>2. CASE Become(w, k) /\ UNCHANGED storeVars
    <3>1. k.pc = "walk"
      BY <1>0, <2>0 DEF Job
    <3>2. StampFirst(k)
      BY <3>1, AtRest
    <3> HIDE DEF k
    <3> QED  BY <2>0, <2>2, <3>1, <3>2, StepOf
  <2>3. CASE disk[f] # None /\ Become(w, j) /\ UNCHANGED storeVars
    <3>1. j.pc = "pages" /\ j.file = f /\ j.stamp = disk[f]
      BY <1>0 DEF Job
    <3> HIDE DEF j
    <3> QED  BY <2>0, <2>3, <3>1, StepStamp
  <2> QED  BY <1>5, <2>1, <2>2, <2>3 DEF ScanFile
<1>6. CASE CountPages(w)
  BY <1>6, CountPagesGood
<1>7. CASE UpsertFileRow(w)
  BY <1>7, UpsertFileRowGood
<1>8. CASE ScanMeta(w)
  <2> DEFINE n == IF job[w].dirty + 1 >= CommitEvery THEN 0 ELSE job[w].dirty + 1
             j == [job[w] EXCEPT !.pc = "walk", !.file = None,
                        !.stamp = None, !.pages = 0, !.dirty = n]
  <2>1. Become(w, j) /\ j.pc = "walk" /\ job[w].pc = "meta"
    BY <1>0, <1>8 DEF ScanMeta, Job
  <2>2. Write(w, WithMeta(w)) \/ Commit(w, WithMeta(w))
    BY <1>8 DEF ScanMeta
  <2> HIDE DEF j
  <2> QED  BY <1>8, <2>1, <2>2, StepMeta DEF ScanMeta
<1>9. CASE ScanWalked(w)
  <2> DEFINE j == [job[w] EXCEPT !.pc = "cleanup", !.dirty = 0]
  <2>1. Become(w, j) /\ j.pc = "cleanup" /\ job[w].pc = "walk"
    BY <1>0, <1>9 DEF ScanWalked, Job
  <2>2. StampFirst(j)
    BY <2>1, AtRest
  <2> HIDE DEF j
  <2> QED  BY <1>9, <2>1, <2>2, StepOf DEF ScanWalked
<1>10. CASE ScanMissing(w)
  <2> DEFINE missing == Listed(Reads(w).items) \ job[w].rels
             j == [job[w] EXCEPT !.missing = missing,
                      !.snap = NoRows, !.rels = {},
                      !.pc = IF missing = {} THEN "prune" ELSE "delete"]
  <2>1. Become(w, j) /\ j.pc \in {"prune", "delete"} /\ job[w].pc = "cleanup"
    BY <1>0, <1>10 DEF ScanMissing, Job
  <2>2. StampFirst(j)
    BY <2>1, AtRest
  <2> HIDE DEF j
  <2> QED  BY <1>10, <2>1, <2>2, StepOf DEF ScanMissing
<1>11. CASE ScanDelete(w)
  <2> DEFINE j == [job[w] EXCEPT !.pc = "prune", !.missing = {}]
  <2>1. Become(w, j) /\ j.pc = "prune" /\ job[w].pc = "delete"
    BY <1>0, <1>11 DEF ScanDelete, Job
  <2>2. StampFirst(j)
    BY <2>1, AtRest
  <2> HIDE DEF j
  <2> QED  BY <1>11, <2>1, <2>2, StepOf DEF ScanDelete
<1>12. CASE ScanPrune(w)
  BY <1>12, StepGoto DEF ScanPrune
<1>13. CASE ScanClear(w)
  BY <1>13, StepGoto DEF ScanClear
<1>14. CASE ScanFinish(w)
  BY <1>14, StepDrop DEF ScanFinish
<1>15. CASE ScanLockedOut(w)
  BY <1>15, <1>a DEF ScanLockedOut
<1> QED
  BY <1>1, <1>2, <1>3, <1>4, <1>5, <1>6, <1>7, <1>8, <1>9, <1>10, <1>11,
     <1>12, <1>13, <1>14, <1>15
  DEF ScanStep

(***************************************************************************)
(* Refreshes                                                               *)
(***************************************************************************)
LEMMA RefreshGood ==
    ASSUME TypeInv, Inv, NEW w \in Workers, RefreshStep(w)
    PROVE  Inv'
<1>0. job[w] \in Job
  BY WorkerTypes
<1>a. RefreshAbort(w) /\ UNCHANGED diskVars /\ job[w].pc # "meta" => Inv'
  BY StepAbort DEF RefreshAbort
<1>1. CASE RefreshGate(w)
  BY <1>1, StepGoto, StepDrop DEF RefreshGate
<1>2. CASE RefreshSelect(w)
  <2> DEFINE j == [job[w] EXCEPT !.pc = "scandir",
                     !.snap = ChildRows(Reads(w).items, job[w].at)]
  <2>1. Become(w, j) /\ j.pc = "scandir" /\ job[w].pc = "select"
    BY <1>0, <1>2 DEF RefreshSelect, Job
  <2>2. StampFirst(j)
    BY <2>1, AtRest
  <2> HIDE DEF j
  <2> QED  BY <1>2, <2>1, <2>2, StepOf DEF RefreshSelect
<1>3. CASE RefreshScandir(w)
  <2> DEFINE d == job[w].at
             known == Listed(job[w].snap)
             j == [job[w] EXCEPT
                    !.pc = "walk",
                    !.todo = SubdirsIn(d) \ known,
                    !.left = FilesIn(d),
                    !.missing = known \ (SubdirsIn(d) \cup FilesIn(d))]
  <2>0. job[w].pc = "scandir" /\ UNCHANGED diskVars
    BY <1>3 DEF RefreshScandir
  <2>1. CASE RefreshAbort(w)
    BY <1>a, <2>0, <2>1
  <2>2. CASE Become(w, j) /\ UNCHANGED storeVars
    <3>1. j.pc = "walk"
      BY <1>0 DEF Job
    <3>2. StampFirst(j)
      BY <3>1, AtRest
    <3> HIDE DEF j
    <3> QED  BY <2>0, <2>2, <3>1, <3>2, StepOf
  <2> QED  BY <1>3, <2>1, <2>2 DEF RefreshScandir
<1>4. ASSUME NEW d \in Dirs, RefreshDir(w, d)
      PROVE  Inv'
  <2> DEFINE j == [job[w] EXCEPT !.todo = @ \ {d}]
  <2>0. job[w].pc = "walk" /\ UNCHANGED diskVars
    BY <1>4 DEF RefreshDir
  <2>1. CASE RefreshAbort(w)
    BY <1>a, <2>0, <2>1
  <2>2. CASE Write(w, UpsertDir(view, d)) /\ Become(w, j)
    <3>1. j.pc = "walk"
      BY <1>0, <2>0 DEF Job
    <3>2. StampFirst(j)
      BY <3>1, AtRest
    <3> HIDE DEF j
    <3> QED  BY <2>0, <2>2, <3>1, <3>2, StepOf
  <2> QED  BY <1>4, <2>1, <2>2 DEF RefreshDir
<1>5. ASSUME NEW f \in Files, RefreshFile(w, f)
      PROVE  Inv'
  <2> DEFINE k == [job[w] EXCEPT !.left = @ \ {f}]
             j == [k EXCEPT !.pc = "pages", !.file = f, !.stamp = disk[f]]
  <2>0. job[w].pc = "walk" /\ UNCHANGED diskVars
    BY <1>5 DEF RefreshFile
  <2>1. CASE RefreshAbort(w)
    BY <1>a, <2>0, <2>1
  <2>2. CASE Become(w, k) /\ UNCHANGED storeVars
    <3>1. k.pc = "walk"
      BY <1>0, <2>0 DEF Job
    <3>2. StampFirst(k)
      BY <3>1, AtRest
    <3> HIDE DEF k
    <3> QED  BY <2>0, <2>2, <3>1, <3>2, StepOf
  <2>3. CASE disk[f] # None /\ Become(w, j) /\ UNCHANGED storeVars
    <3>1. j.pc = "pages" /\ j.file = f /\ j.stamp = disk[f]
      BY <1>0 DEF Job
    <3> HIDE DEF j
    <3> QED  BY <2>0, <2>3, <3>1, StepStamp
  <2> QED  BY <1>5, <2>1, <2>2, <2>3 DEF RefreshFile
<1>6. CASE CountPages(w)
  BY <1>6, CountPagesGood
<1>7. CASE UpsertFileRow(w)
  BY <1>7, UpsertFileRowGood
<1>8. CASE RefreshMeta(w)
  <2> DEFINE j == [job[w] EXCEPT !.pc = "walk", !.file = None,
                                 !.stamp = None, !.pages = 0]
  <2>1. Become(w, j) /\ j.pc = "walk" /\ job[w].pc = "meta"
    BY <1>0, <1>8 DEF RefreshMeta, Job
  <2> HIDE DEF j
  <2> QED  BY <1>8, <2>1, StepMeta DEF RefreshMeta
<1>9. CASE RefreshEnd(w)
  BY <1>9, StepDrop DEF RefreshEnd
<1>10. CASE RefreshLockedOut(w)
  BY <1>10, <1>a DEF RefreshLockedOut
<1> QED
  BY <1>1, <1>2, <1>3, <1>4, <1>5, <1>6, <1>7, <1>8, <1>9, <1>10
  DEF RefreshStep

(***************************************************************************)
(* The watcher's timers                                                    *)
(***************************************************************************)
LEMMA TimerGood ==
    ASSUME TypeInv, Inv, NEW w \in Workers, TimerStep(w)
    PROVE  Inv'
<1>0. job[w] \in Job
  BY WorkerTypes
<1>1. CASE TimerStat(w)
  <2> DEFINE j == [job[w] EXCEPT !.pc = "pages", !.stamp = disk[job[w].file]]
  <2>0. job[w].pc = "stat" /\ UNCHANGED diskVars /\ UNCHANGED storeVars
    BY <1>1 DEF TimerStat
  <2>1. CASE Drop(w)
    BY <2>0, <2>1, StepDrop
  <2>2. CASE disk[job[w].file] # None /\ Become(w, j)
    <3>1. job[w].file \in Files
      BY <2>0, WorkerTypes DEF AtPath
    <3>2. /\ j.pc = "pages" /\ j.file = job[w].file
          /\ j.stamp = disk[job[w].file]
      BY <1>0 DEF Job
    <3> HIDE DEF j
    <3> QED  BY <2>0, <2>2, <3>1, <3>2, StepStamp
  <2> QED  BY <1>1, <2>1, <2>2 DEF TimerStat
<1>2. CASE CountPages(w)
  BY <1>2, CountPagesGood
<1>3. CASE UpsertFileRow(w)
  BY <1>3, UpsertFileRowGood
<1>4. CASE TimerMeta(w)
  <2>1. IdleJob.pc = "idle" /\ Become(w, IdleJob)
    BY <1>4 DEF TimerMeta, Drop, IdleJob
  <2> QED  BY <1>4, <2>1, StepMeta DEF TimerMeta
<1>5. CASE TimerDelete(w)
  BY <1>5, StepDrop DEF TimerDelete
<1>6. CASE TimerLockedOut(w)
  BY <1>6, StepDrop DEF TimerLockedOut
<1> QED
  BY <1>1, <1>2, <1>3, <1>4, <1>5, <1>6 DEF TimerStep

(***************************************************************************)
(* Reindexing a path                                                       *)
(***************************************************************************)
LEMMA PathGood ==
    ASSUME TypeInv, Inv, NEW w \in Workers, PathStep(w)
    PROVE  Inv'
<1>0. job[w] \in Job /\ AtPath(job[w]) /\ dirs \in SUBSET Dirs
  BY WorkerTypes DEF TypeInv, TypeOK
<1>a. PathAbort(w) /\ UNCHANGED diskVars /\ job[w].pc # "meta" => Inv'
  BY StepAbort DEF PathAbort
<1>1. ASSUME NEW d \in Places, PathList(w, d)
      PROVE  Inv'
  <2> DEFINE j == [job[w] EXCEPT
            !.pc   = IF d \in dirs THEN "dir" ELSE "walk",
            !.at   = IF d \in dirs THEN d ELSE Root,
            !.todo = (@ \ {d}) \cup SubdirsIn(d),
            !.left = FilesIn(d)]
  <2>1. Become(w, j) /\ j.pc \in {"dir", "walk"} /\ job[w].pc = "walk"
    BY <1>0, <1>1 DEF PathList, Job
  <2>2. StampFirst(j)
    BY <2>1, AtRest
  <2> HIDE DEF j
  <2> QED  BY <1>1, <2>1, <2>2, StepOf DEF PathList
<1>2. CASE PathDir(w)
  <2> DEFINE d == job[w].at
             j == [job[w] EXCEPT !.pc = "walk", !.at = Root]
  <2>0. job[w].pc = "dir" /\ UNCHANGED diskVars
    BY <1>2 DEF PathDir
  <2>1. CASE PathAbort(w)
    BY <1>a, <2>0, <2>1
  <2>2. CASE Write(w, UpsertDir(view, d)) /\ Become(w, j)
    <3>1. j.pc = "walk" /\ d \in Dirs
      BY <1>0, <2>0 DEF Job, AtPath
    <3>2. StampFirst(j)
      BY <3>1, AtRest
    <3> HIDE DEF j, d
    <3> QED  BY <2>0, <2>2, <3>1, <3>2, StepOf
  <2> QED  BY <1>2, <2>1, <2>2 DEF PathDir
<1>3. ASSUME NEW f \in Files, PathFile(w, f)
      PROVE  Inv'
  <2> DEFINE j == [job[w] EXCEPT !.pc = "pages", !.left = @ \ {f},
                                 !.file = f, !.stamp = disk[f]]
  <2>0. job[w].pc = "walk" /\ UNCHANGED diskVars
    BY <1>3 DEF PathFile
  <2>1. CASE PathAbort(w)
    BY <1>a, <2>0, <2>1
  <2>2. CASE disk[f] # None /\ Become(w, j) /\ UNCHANGED storeVars
    <3>1. j.pc = "pages" /\ j.file = f /\ j.stamp = disk[f]
      BY <1>0 DEF Job
    <3> HIDE DEF j
    <3> QED  BY <2>0, <2>2, <3>1, StepStamp
  <2> QED  BY <1>3, <2>1, <2>2 DEF PathFile
<1>4. CASE CountPages(w)
  BY <1>4, CountPagesGood
<1>5. CASE UpsertFileRow(w)
  BY <1>5, UpsertFileRowGood
<1>6. CASE PathMeta(w)
  <2> DEFINE j == [job[w] EXCEPT !.pc = "walk", !.file = None,
                                 !.stamp = None, !.pages = 0]
  <2>1. Become(w, j) /\ j.pc = "walk" /\ job[w].pc = "meta"
    BY <1>0, <1>6 DEF PathMeta, Job
  <2> HIDE DEF j
  <2> QED  BY <1>6, <2>1, StepMeta DEF PathMeta
<1>7. CASE PathEnd(w)
  BY <1>7, StepDrop DEF PathEnd
<1>8. CASE PathLockedOut(w)
  BY <1>8, <1>a DEF PathLockedOut
<1> QED
  BY <1>1, <1>2, <1>3, <1>4, <1>5, <1>6, <1>7, <1>8 DEF PathStep

(***************************************************************************)
(* Everything else that happens                                            *)
(***************************************************************************)
LEMMA BeginGood ==
    ASSUME TypeInv, Inv, NEW w \in Workers, NEW j \in Job, Begin(w, j),
           j.pc \notin {"pages", "upsert", "meta"},
           UNCHANGED diskVars, UNCHANGED storeVars
    PROVE  Inv'
<1> DEFINE k == [j EXCEPT !.gone = Absent]
<1>1. k.pc = j.pc /\ Become(w, k) /\ job[w].pc = "idle"
  BY DEF Job, Begin
<1>2. StampFirst(k)
  BY <1>1, AtRest
<1> HIDE DEF k
<1> QED  BY <1>1, <1>2, StepOf

LEMMA StartGood ==
    ASSUME TypeInv, Inv, Start \/ CronStart \/ WatcherStart
    PROVE  Inv'
<1>1. ASSUME NEW w \in Scanners, NEW force \in BOOLEAN, StartScan(w, force)
      PROVE  Inv'
  <2>1. Spawned(force) \in Job /\ Spawned(force).pc = "spawned"
    BY IdleJobType DEF Spawned, Job, PCs
  <2> QED  BY <1>1, <2>1, BeginGood DEF StartScan, Workers, Server
<1>2. ASSUME NEW w \in Crons, StartCron(w)
      PROVE  Inv'
  <2>1. Spawned(FALSE) \in Job /\ Spawned(FALSE).pc = "spawned"
    BY IdleJobType DEF Spawned, Job, PCs
  <2> QED  BY <1>2, <2>1, BeginGood DEF StartCron, Workers
<1>3. ASSUME NEW w \in Refreshers, NEW d \in Places, RefreshStart(w, d)
      PROVE  Inv'
  <2> DEFINE j == [IdleJob EXCEPT !.pc = "gate", !.at = d]
  <2>1. j \in Job /\ j.pc = "gate"
    BY IdleJobType DEF Job, PCs
  <2> HIDE DEF j
  <2>2. Begin(w, j)
    BY <1>3 DEF RefreshStart, j
  <2> QED  BY <1>3, <2>1, <2>2, BeginGood DEF RefreshStart, Workers, Server
<1>4. ASSUME NEW w \in Timers, NEW f \in Files, Fire(w, f)
      PROVE  Inv'
  <2> DEFINE j == [IdleJob EXCEPT !.file = f,
                     !.pc = IF timer[f] = "reindex" THEN "stat" ELSE "delete"]
  <2>1. j \in Job /\ j.pc \in {"stat", "delete"}
    BY IdleJobType DEF Job, PCs
  <2> HIDE DEF j
  <2>2. Begin(w, j)
    BY <1>4 DEF Fire, j
  <2> QED  BY <1>4, <2>1, <2>2, BeginGood DEF Fire, Workers, Server
<1>5. ASSUME NEW w \in Pathers, NEW p \in Paths \cup {Root}, PathStart(w, p)
      PROVE  Inv'
  <2> DEFINE j == [IdleJob EXCEPT !.pc = "walk",
                     !.todo = IF p \in Files THEN {} ELSE {p},
                     !.left = IF p \in Files THEN {p} ELSE {}]
  <2>1. j \in Job /\ j.pc = "walk"
    BY ZenonT(60), IdleJobType DEF Job, PCs, Paths, Places
  <2> HIDE DEF j
  <2>2. Begin(w, j)
    BY <1>5 DEF PathStart, j
  <2> QED  BY <1>5, <2>1, <2>2, BeginGood DEF PathStart, Workers, Server
<1> QED
  BY <1>1, <1>2, <1>3, <1>4, <1>5 DEF Start, CronStart, WatcherStart

LEMMA ChangeGood ==
    ASSUME TypeInv, Inv, LibraryChange
    PROVE  Inv'
<1>0. /\ disk \in [Files -> Versions \cup {None}]
      /\ seen \in [Files -> SUBSET Versions]
      /\ \A f \in Files : disk[f] # None => disk[f] \in seen[f]
  BY DEF TypeInv, TypeOK, Inv, StoreGood
<1>1. ASSUME NEW S, Change(S)
      PROVE  /\ \A w \in Workers :
                  /\ job'[w].pc = job[w].pc /\ job'[w].file = job[w].file
                  /\ job'[w].stamp = job[w].stamp
                  /\ job'[w].pages = job[w].pages
             /\ UNCHANGED storeVars
  BY <1>1, WorkerTypes DEF Change, Job
<1>2. ASSUME NEW f \in Files, NEW v \in Versions, WriteFile(f, v)
      PROVE  Inv'
  <2>1. \A g \in Files :
              /\ \/ Restores
                 \/ disk'[g] \in {disk[g], None}
                 \/ disk'[g] \notin seen[g]
              /\ seen[g] \subseteq seen'[g]
              /\ disk'[g] # None => disk'[g] \in seen'[g]
    BY <1>0, <1>2 DEF WriteFile, MayShow
  <2> QED  BY <1>1, <1>2, <2>1, StepDisk DEF WriteFile
<1>3. ASSUME NEW f \in Files, RemoveFile(f)
      PROVE  Inv'
  <2>1. \A g \in Files :
              /\ \/ Restores
                 \/ disk'[g] \in {disk[g], None}
                 \/ disk'[g] \notin seen[g]
              /\ seen[g] \subseteq seen'[g]
              /\ disk'[g] # None => disk'[g] \in seen'[g]
    BY <1>0, <1>3 DEF RemoveFile
  <2> QED  BY <1>1, <1>3, <2>1, StepDisk DEF RemoveFile
<1>4. ASSUME NEW f \in Files, NEW h \in Files, MoveFile(f, h)
      PROVE  Inv'
  <2>1. \A g \in Files :
              /\ \/ Restores
                 \/ disk'[g] \in {disk[g], None}
                 \/ disk'[g] \notin seen[g]
              /\ seen[g] \subseteq seen'[g]
              /\ disk'[g] # None => disk'[g] \in seen'[g]
    BY <1>0, <1>4 DEF MoveFile, MayShow
  <2> QED  BY <1>1, <1>4, <2>1, StepDisk DEF MoveFile
<1>5. ASSUME NEW d \in Dirs, MakeDir(d) \/ RemoveTree(d)
      PROVE  Inv'
  <2>1. \A g \in Files :
              /\ \/ Restores
                 \/ disk'[g] \in {disk[g], None}
                 \/ disk'[g] \notin seen[g]
              /\ seen[g] \subseteq seen'[g]
              /\ disk'[g] # None => disk'[g] \in seen'[g]
    BY <1>0, <1>5 DEF MakeDir, RemoveTree
  <2> QED  BY <1>1, <1>5, <2>1, StepDisk DEF MakeDir, RemoveTree
<1> QED  BY <1>2, <1>3, <1>4, <1>5 DEF LibraryChange

(* The jobs a server starts with are at rest.                              *)
LEMMA StartupRest ==
    ASSUME NEW jobs \in [Workers -> Job], NEW ix,
           NEW result \in Startup(jobs, ix), NEW w \in Workers
    PROVE  result[w] = jobs[w] \/ (w \in Scanners /\ result[w].pc = "spawned")
<1> DEFINE k == [Spawned(TRUE) EXCEPT !.gone = Absent]
<1>1. k.pc = "spawned"
  BY DEF Spawned, IdleJob
<1> HIDE DEF k
<1>2. \/ result = jobs
      \/ \E x \in Scanners : result = [jobs EXCEPT ![x] = k]
  BY DEF Startup, k
<1> QED  BY <1>1, <1>2

(* The database survives a crash, and with it the transaction of a scan    *)
(* that cron runs.                                                         *)
LEMMA CrashGood == ASSUME TypeInv, Inv, Crash PROVE Inv'
<1> DEFINE jobs == [w \in Workers |-> IF w \in Server THEN IdleJob ELSE job[w]]
<1>1. jobs \in [Workers -> Job]
  BY IdleJobType, WorkerTypes
<1>2. ASSUME NEW w \in Workers
      PROVE  job'[w] = jobs[w] \/ (w \in Scanners /\ job'[w].pc = "spawned")
  <2>1. job' \in Startup(jobs, db)
    BY DEF Crash
  <2> HIDE DEF jobs
  <2> QED  BY <1>1, <2>1, StartupRest
<1>3. \A w \in Workers : IF w \in Server
                           THEN job'[w].pc \in {"idle", "spawned"}
                           ELSE job'[w] = job[w]
  BY <1>2 DEF IdleJob, Server
<1>4. /\ disk' = disk /\ seen' = seen /\ db' = db
      /\ owner' = IF owner \in Server THEN None ELSE owner
      /\ view' = IF owner \in Server THEN db ELSE view
      /\ owner \in Workers \cup {None}
  BY DEF Crash, diskVars, TypeInv, TypeOK
<1>5. \A f \in Files : BetweenWrites(f)' \/ MetaCurrent(view, f)'
  <2>1. CASE owner \in Server
    BY <1>4, <2>1 DEF Inv, StoreGood, MetaCurrent
  <2>2. CASE owner \notin Server
    <3>1. \A f \in Files : BetweenWrites(f) => BetweenWrites(f)'
      BY <1>3, <1>4, <2>2 DEF BetweenWrites
    <3> QED  BY <1>4, <2>2, <3>1 DEF Inv, StoreGood, MetaCurrent
  <2> QED  BY <2>1, <2>2
<1>6. StoreGood'
  BY <1>4, <1>5, NoneAssumption, WorkerAssumption
     DEF Inv, StoreGood, RowsAgree, MetaCurrent
<1>7. \A w \in Workers : StampFirst(job[w])'
  BY <1>3, <1>4 DEF Inv, StampFirst
<1>8. \A w \in Workers : HoldsRow(w)'
  BY <1>3, <1>4, WorkerAssumption DEF Inv, HoldsRow
<1> QED  BY <1>6, <1>7, <1>8 DEF Inv

LEMMA InitGood == ASSUME Init PROVE Inv
<1> DEFINE jobs == [w \in Workers |-> IdleJob]
<1>1. \A w \in Workers : job[w].pc \in {"idle", "spawned"}
  <2>1. job \in Startup(jobs, db) /\ jobs \in [Workers -> Job]
    BY IdleJobType DEF Init
  <2>2. \A w \in Workers : jobs[w].pc = "idle"
    BY DEF IdleJob
  <2> HIDE DEF jobs
  <2> QED  BY <2>1, <2>2, StartupRest
<1>2. /\ disk \in [Files -> Versions \cup {None}]
      /\ seen = [f \in Files |-> {disk[f]} \ {None}]
      /\ view = db /\ owner = None
  BY DEF Init
<1>3. ASSUME NEW f \in Files
      PROVE  RowsAgree(db, f) /\ MetaCurrent(db, f)
  <2>1. CASE db = EmptyIndex
    BY <2>1 DEF EmptyIndex, NoRows, RowsAgree, MetaCurrent, Paths
  <2>2. CASE db = FullIndex
    <3>1. f \notin Dirs
      BY PathAssumption
    <3>2. /\ db.items[f] = IF disk[f] = None THEN None
                           ELSE [stamp |-> disk[f], pages |-> Pages[disk[f]]]
          /\ db.meta[f] = InfoOnDisk(f) /\ db.fts[f] = InfoOnDisk(f)
      BY <2>2, <3>1 DEF FullIndex, OnDisk, Paths
    <3>3. ASSUME disk[f] # None
          PROVE  db.items[f] # None /\ db.items[f].stamp = disk[f]
                 /\ db.items[f].pages = Pages[disk[f]]
      BY <1>2, <3>2, <3>3, RowAssumption, VersionAssumption DEF Row
    <3> QED  BY <1>2, <3>2, <3>3 DEF RowsAgree, MetaCurrent, InfoOnDisk
  <2> QED  BY <2>1, <2>2 DEF Init
<1>4. StoreGood
  BY <1>2, <1>3 DEF StoreGood
<1> QED  BY <1>1, <1>4 DEF Inv, StampFirst, HoldsRow

LEMMA NextGood ==
    ASSUME TypeInv, Inv, [Next]_vars
    PROVE  Inv'
<1>1. CASE UNCHANGED vars
  BY <1>1 DEF vars, diskVars, storeVars, Inv, StoreGood, RowsAgree,
              MetaCurrent, BetweenWrites, StampFirst, HoldsRow
<1>2. CASE Dispatch \/ \E d \in Places : IntervalOver(d)
  BY <1>2 DEF Dispatch, IntervalOver, diskVars, storeVars, Inv, StoreGood,
              RowsAgree, MetaCurrent, BetweenWrites, StampFirst, HoldsRow
<1>3. ASSUME NEW w \in Workers, Work(w)
      PROVE  Inv'
  BY <1>3, ScanGood, RefreshGood, TimerGood, PathGood DEF Work
<1> QED
  BY <1>1, <1>2, <1>3, ChangeGood, StartGood, CrashGood DEF Next

(* The inductive invariant of everything that writes the index.            *)
THEOREM IndexInvariant == Spec => []Inv
<1>1. Init => TypeInv /\ Inv
  BY InitType, InitGood
<1>2. TypeInv /\ Inv /\ [Next]_vars => TypeInv' /\ Inv'
  BY NextType, NextGood
<1> QED  BY <1>1, <1>2, PTL DEF Spec

(* In a library whose paths never show a (mtime, size) pair again with     *)
(* other contents, a row whose stamp is current is right in every part,    *)
(* whoever wrote it: skipping unchanged files is justified.                *)
THEOREM CurrentStampIsRight == ASSUME ~Restores PROVE Spec => []StampCertifies
<1>1. Inv => StampCertifies
  BY DEF Inv, StoreGood, RowsAgree, MetaCurrent, StampCertifies, Certified
<1> QED  BY <1>1, IndexInvariant, PTL

(* No deletion path, lock-out or crash leaves metadata without its item.   *)
THEOREM MetaOfListedOnly == Spec => []MetaHasItem
<1>1. Inv => MetaHasItem
  BY DEF Inv, StoreGood, RowsAgree, MetaHasItem
<1> QED  BY <1>1, IndexInvariant, PTL

(* What search finds a listed file by is what is shown for it.             *)
THEOREM SearchTextCurrent == Spec => []SearchTextMatchesMeta
<1>1. Inv => SearchTextMatchesMeta
  BY DEF Inv, StoreGood, RowsAgree, SearchTextMatchesMeta
<1> QED  BY <1>1, IndexInvariant, PTL
===============================================================================
