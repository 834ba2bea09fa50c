----------------------------- MODULE LibraryIndex -----------------------------
(***************************************************************************)
(* Everything that reads the library and writes the index, together: scans *)
(* of the server and of cron, refreshes, watcher timers and path reindexes *)
(* over one SQLite database, while the library changes.                    *)
(***************************************************************************)
EXTENDS Scan, Refresh, Watcher, ReindexPath

(* The index a full scan of the present library leaves behind.             *)
FullIndex ==
    [items |-> [p \in Paths |->
                  IF ~OnDisk(p) THEN None
                  ELSE IF p \in Dirs THEN [stamp |-> None, pages |-> 0]
                  ELSE [stamp |-> disk[p], pages |-> Pages[disk[p]]]],
     meta  |-> [f \in Files |-> InfoOnDisk(f)],
     fts   |-> [f \in Files |-> InfoOnDisk(f)]]

(* A new installation, or a server started over an index that is complete. *)
Init ==
    /\ disk \in [Files -> Versions \cup {None}]
    /\ dirs \in SUBSET Dirs
    /\ \A f \in Files : disk[f] # None => Exists(Parent[f])
    /\ \A d \in dirs : Exists(Parent[d])
    /\ seen = [f \in Files |-> {disk[f]} \ {None}]
    /\ changes = 0
    /\ queue = <<>>
    /\ timer = [f \in Files |-> "none"]
    /\ running = FALSE
    /\ checked = {}
    /\ db \in {EmptyIndex, FullIndex}
    /\ view = db
    /\ owner = None
    /\ job \in Startup([w \in Workers |-> IdleJob], db)
    /\ requests = 0
    /\ crashes = 0

(* The server is killed and started again.  Its memory, its uncommitted    *)
(* transaction and the events of its watcher are lost.                     *)
Crash ==
    /\ crashes < MaxCrashes
    /\ crashes' = crashes + 1
    /\ queue' = <<>>
    /\ timer' = [f \in Files |-> "none"]
    /\ running' = FALSE
    /\ checked' = {}
    /\ owner' = IF owner \in Server THEN None ELSE owner
    /\ view' = IF owner \in Server THEN db ELSE view
    /\ job' \in Startup([w \in Workers |->
                           IF w \in Server THEN IdleJob ELSE job[w]], db)
    /\ UNCHANGED <<diskVars, db, requests>>

Start ==
    \/ \E w \in Scanners, force \in BOOLEAN : StartScan(w, force)
    \/ \E w \in Refreshers, d \in Places : RefreshStart(w, d)
    \/ \E w \in Pathers, p \in Paths \cup {Root} : PathStart(w, p)

CronStart == \E w \in Crons : StartCron(w)

WatcherStart == \E w \in Timers, f \in Files : Fire(w, f)

Work(w) ==
    \/ w \in Scanners \cup Crons /\ ScanStep(w)
    \/ w \in Refreshers /\ RefreshStep(w)
    \/ w \in Timers /\ TimerStep(w)
    \/ w \in Pathers /\ PathStep(w)

Next ==
    \/ LibraryChange
    \/ Start \/ CronStart
    \/ Dispatch \/ WatcherStart
    \/ \E d \in Places : IntervalOver(d)
    \/ \E w \in Workers : Work(w)
    \/ Crash

Spec == Init /\ [][Next]_vars

(* Threads and processes are scheduled, cron starts a scan every hour, and *)
(* the watcher's threads keep dispatching and firing.  Nothing is assumed  *)
(* of the library's owner, of users, or of who gets SQLite's lock.         *)
FairSpec ==
    /\ Spec
    /\ \A w \in Workers : WF_vars(Work(w))
    /\ \A w \in Crons : WF_vars(StartCron(w))
    /\ WF_vars(Dispatch)
    /\ WF_vars(WatcherStart)

(***************************************************************************)
(* Properties                                                              *)
(***************************************************************************)

(* A row whose stamp is the file's present (mtime, size) describes the     *)
(* file's present contents, whichever of the concurrent jobs wrote which   *)
(* part of it: this is what entitles scans and refreshes to skip the file. *)
(* It rests on stat() being taken before the contents are read.            *)
Certified(ix, f) ==
    LET v == disk[f] IN
    (ix.items[f] # None /\ ix.items[f].stamp = v) =>
        /\ ix.items[f].pages = Pages[v]
        /\ Info[v] # None => ix.meta[f] = Info[v] /\ ix.fts[f] = Info[v]

StampCertifies == \A f \in Files : disk[f] # None => Certified(db, f)

(* meta and items change together: no transaction, crash or deletion path  *)
(* leaves the metadata of a file that is not listed.                       *)
MetaHasItem == \A f \in Files : db.meta[f] # None => db.items[f] # None

(* What search finds a listed file by is the metadata shown for it, though *)
(* two of the four ways to delete a row leave its search text behind.      *)
SearchTextMatchesMeta ==
    \A f \in Files : db.meta[f] # None => db.fts[f] = db.meta[f]

(* A scan or a refresh removes the row of a path only when the path was    *)
(* absent at some moment while it ran: skipping a file, losing a directory *)
(* half-way or another job's commits never cost a present file its row.    *)
RemovesOnlyGone(w) ==
    (db' # db /\ job'[w] # job[w]) =>
        \A p \in Paths : (db.items[p] # None /\ db'.items[p] = None)
                            => p \in job[w].gone

NoInnocentRemoval ==
    [][\A w \in Scanners \cup Crons \cup Refreshers : RemovesOnlyGone(w)]_vars

(* Once the library stays as it is and users are done, hourly scans make   *)
(* the index list what is on disk, with the stamps on disk, and keep it so:*)
(* every error of a racing job, lock-out or crash is repaired.             *)
Mirrors ==
    \A p \in Paths : IF OnDisk(p)
                       THEN /\ db.items[p] # None
                            /\ p \in Files => db.items[p].stamp = disk[p]
                       ELSE db.items[p] = None

Converges == <>[]Mirrors

(* INDEX_STATUS does not report a running scan for ever: no way out of     *)
(* run_scan, and no two scans that overlap, leave it set.                  *)
StatusSettles == running ~> ~running

(* scanning.py:312, "Don't run during a full scan": no refresh holds       *)
(* SQLite's write lock while the status says that a scan runs.             *)
NoRefreshDuringScan == running => owner \notin Refreshers

(* docs/scope.md:19, "ComicInfo.xml as single source of truth": the        *)
(* metadata of a file that the index takes for up to date is the file's,   *)
(* if not at once then after enough scans of a library at rest.            *)
MetadataFromFile ==
    \A f \in Files : (disk[f] # None /\ db.items[f] # None
                        /\ db.items[f].stamp = disk[f])
                     => db.meta[f] = Info[disk[f]]

MetadataSettles == <>[]MetadataFromFile

(***************************************************************************)
(* The inductive invariant behind StampCertifies, MetaHasItem and          *)
(* SearchTextMatchesMeta.  The first of them needs paths that never show a *)
(* version again, the other two do not.                                    *)
(***************************************************************************)

(* What holds of the rows of a file at any moment.                         *)
RowsAgree(ix, f) ==
    /\ ix.items[f] # None => ix.items[f].stamp \in seen[f]
    /\ (~Restores /\ ix.items[f] # None /\ ix.items[f].stamp = disk[f])
          => ix.items[f].pages = Pages[disk[f]]
    /\ ix.meta[f] # None => ix.items[f] # None /\ ix.fts[f] = ix.meta[f]

(* What holds of them except between upsert_file and upsert_meta.          *)
MetaCurrent(ix, f) ==
    (~Restores /\ ix.items[f] # None /\ ix.items[f].stamp = disk[f]
        /\ Info[disk[f]] # None)
      => ix.meta[f] = Info[disk[f]] /\ ix.fts[f] = Info[disk[f]]

BetweenWrites(f) ==
    owner # None /\ job[owner].pc = "meta" /\ job[owner].file = f

StoreGood ==
    /\ \A f \in Files : disk[f] # None => disk[f] \in seen[f]
    /\ \A f \in Files : RowsAgree(db, f) /\ MetaCurrent(db, f)
    /\ \A f \in Files : RowsAgree(view, f)
    /\ \A f \in Files : BetweenWrites(f) \/ MetaCurrent(view, f)
    /\ owner = None => view = db

(* The stamp a job carries was taken before anything else it carries.      *)
StampFirst(j) ==
    /\ j.pc \in {"pages", "upsert", "meta"} => j.stamp \in seen[j.file]
    /\ (~Restores /\ j.pc \in {"upsert", "meta"} /\ j.stamp = disk[j.file])
          => j.pages = Pages[j.stamp]

HoldsRow(w) ==
    job[w].pc = "meta" => owner = w /\ view.items[job[w].file] # None

Inv == StoreGood /\ \A w \in Workers : StampFirst(job[w]) /\ HoldsRow(w)
===============================================================================
