--------------------------------- MODULE Scan ---------------------------------
(***************************************************************************)
(* run_scan (app/scanning.py) and what starts it: start_scan for a thread  *)
(* of the server, the cron entry of entrypoint.sh for a process of its     *)
(* own, which has its own INDEX_STATUS and _DIR_CHECKED.                   *)
(***************************************************************************)
EXTENDS Library

InServer(w) == w \in Scanners

Spawned(force) == [IdleJob EXCEPT !.pc = "spawned", !.force = force]

(* start_scan: the thread sets "running" only once it runs.                *)
StartScan(w, force) ==
    /\ ~running
    /\ Request
    /\ Begin(w, Spawned(force))
    /\ UNCHANGED <<diskVars, watchVars, gateVars, storeVars>>

(* startup() of main.py, for a server whose threads have the given jobs:   *)
(* a forced scan when configured or when the index is empty.               *)
Startup(jobs, ix) ==
    IF Scanners = {} \/ (~AutoIndex /\ Listed(ix.items) # {}) THEN {jobs}
    ELSE {[jobs EXCEPT ![w] = [Spawned(TRUE) EXCEPT !.gone = Absent]] :
             w \in Scanners}

StartCron(w) ==
    /\ Begin(w, Spawned(FALSE))
    /\ UNCHANGED <<diskVars, watchVars, gateVars, storeVars, boundVars>>

ScanBegin(w) ==
    /\ job[w].pc = "spawned"
    /\ running' = (running \/ InServer(w))
    /\ Goto(w, "snapshot")
    /\ UNCHANGED <<diskVars, watchVars, checked, storeVars, boundVars>>

ScanSnapshot(w) ==
    /\ job[w].pc = "snapshot"
    /\ Become(w, [job[w] EXCEPT !.pc = "walk", !.todo = {Root},
                    !.snap = IF job[w].force THEN NoRows ELSE Reads(w).items])
    /\ UNCHANGED <<diskVars, watchVars, gateVars, storeVars, boundVars>>

(* Mutant of ScanAbort: the status is left as it was.                      *)
ScanAbortRunning(w) ==
    /\ Rollback(w)
    /\ Drop(w)
    /\ UNCHANGED gateVars

(* The except branch of run_scan: nothing uncommitted survives the close.  *)
ScanAbort(w) ==
    /\ Rollback(w)
    /\ running' = (running /\ ~InServer(w))
    /\ Drop(w)
    /\ UNCHANGED checked

(* os.walk reads a directory before it descends; one that is gone by then  *)
(* is skipped.  The order of the directories is left open: scandir gives   *)
(* none, and a depth-first order is one of them.                           *)
ScanList(w, d) ==
    /\ job[w].pc = "walk"
    /\ job[w].left = {}
    /\ d \in job[w].todo
    /\ Become(w, [job[w] EXCEPT
            !.pc   = IF d \in dirs THEN "dir" ELSE "walk",
            !.at   = IF d \in dirs THEN d ELSE Root,
            !.todo = (@ \ {d}) \cup SubdirsIn(d),
            !.left = FilesIn(d)])
    /\ UNCHANGED <<diskVars, watchVars, gateVars, storeVars, boundVars>>

(* dpath.stat(), and the upsert, which may wait for the lock meanwhile the *)
(* directory goes.                                                         *)
ScanDir(w) ==
    /\ job[w].pc = "dir"
    /\ LET d == job[w].at IN
       \/ /\ Write(w, UpsertDir(view, d))
          /\ Become(w, [job[w] EXCEPT !.pc = "walk", !.at = Root,
                                      !.rels = @ \cup {d}])
          /\ UNCHANGED gateVars
       \/ /\ d \notin dirs          \* stat raises
          /\ ScanAbort(w)
    /\ UNCHANGED <<diskVars, watchVars, boundVars>>

(* Mutant of ScanFile: only an indexed file is entered in current_rels.    *)
ScanFileIndexedOnly(w, f) ==
    /\ job[w].pc = "walk"
    /\ f \in job[w].left
    /\ LET seenJob == [job[w] EXCEPT !.left = @ \ {f}] IN
       \/ disk[f] = None /\ ScanAbort(w)
       \/ /\ disk[f] # None
          /\ Become(w, IF Unchanged(job[w].snap[f], disk[f]) THEN seenJob
                       ELSE [seenJob EXCEPT !.pc = "pages", !.file = f,
                               !.stamp = disk[f], !.rels = @ \cup {f}])
          /\ UNCHANGED <<gateVars, storeVars>>
    /\ UNCHANGED <<diskVars, watchVars, boundVars>>

(* One listed file: p.stat() and the decision to skip it.                  *)
ScanFile(w, f) ==
    /\ job[w].pc = "walk"
    /\ f \in job[w].left
    /\ LET seenJob == [job[w] EXCEPT !.left = @ \ {f}, !.rels = @ \cup {f}] IN
       \/ /\ disk[f] = None         \* stat raises
          /\ ScanAbort(w)
       \/ /\ disk[f] # None
          /\ Unchanged(job[w].snap[f], disk[f])
          /\ Become(w, seenJob)
          /\ UNCHANGED <<gateVars, storeVars>>
       \/ /\ disk[f] # None
          /\ ~Unchanged(job[w].snap[f], disk[f])
          /\ Become(w, [seenJob EXCEPT !.pc = "pages", !.file = f,
                                       !.stamp = disk[f]])
          /\ UNCHANGED <<gateVars, storeVars>>
    /\ UNCHANGED <<diskVars, watchVars, boundVars>>

(* The rest of the file, with the commit after every CommitEvery files.    *)
ScanMeta(w) ==
    /\ job[w].pc = "meta"
    /\ LET full == job[w].dirty + 1 >= CommitEvery IN
       /\ IF full THEN Commit(w, WithMeta(w)) ELSE Write(w, WithMeta(w))
       /\ Become(w, [job[w] EXCEPT !.pc = "walk", !.file = None,
                        !.stamp = None, !.pages = 0,
                        !.dirty = IF full THEN 0 ELSE @ + 1])
    /\ UNCHANGED <<diskVars, watchVars, gateVars, boundVars>>

(* The directories of the walk are not counted in _uncommitted: without an *)
(* indexed file the transaction stays open here.                           *)
ScanWalked(w) ==
    /\ job[w].pc = "walk"
    /\ job[w].todo = {} /\ job[w].left = {}
    /\ IF job[w].dirty > 0 THEN Commit(w, view) ELSE UNCHANGED storeVars
    /\ Become(w, [job[w] EXCEPT !.pc = "cleanup", !.dirty = 0])
    /\ UNCHANGED <<diskVars, watchVars, gateVars, boundVars>>

ScanMissing(w) ==
    /\ job[w].pc = "cleanup"
    /\ LET missing == Listed(Reads(w).items) \ job[w].rels IN
       Become(w, [job[w] EXCEPT !.missing = missing,
                      !.snap = NoRows, !.rels = {},
                      !.pc = IF missing = {} THEN "prune" ELSE "delete"])
    /\ UNCHANGED <<diskVars, watchVars, gateVars, storeVars, boundVars>>

ScanDelete(w) ==
    /\ job[w].pc = "delete"
    /\ Commit(w, CleanupDeleted(view, job[w].missing))
    /\ Become(w, [job[w] EXCEPT !.pc = "prune", !.missing = {}])
    /\ UNCHANGED <<diskVars, watchVars, gateVars, boundVars>>

ScanPrune(w) ==
    /\ job[w].pc = "prune"
    /\ Commit(w, PruneStale(view))
    /\ Goto(w, "clear")
    /\ UNCHANGED <<diskVars, watchVars, gateVars, boundVars>>

ScanClear(w) ==
    /\ job[w].pc = "clear"
    /\ checked' = IF InServer(w) THEN {} ELSE checked
    /\ Goto(w, "finish")
    /\ UNCHANGED <<diskVars, watchVars, running, storeVars, boundVars>>

(* After the thumbnails, which do not touch the index.                     *)
ScanFinish(w) ==
    /\ job[w].pc = "finish"
    /\ running' = (running /\ ~InServer(w))
    /\ Drop(w)
    /\ UNCHANGED <<diskVars, watchVars, checked, storeVars, boundVars>>

(* "database is locked" after the busy timeout, at any writing statement.  *)
ScanLockedOut(w) ==
    /\ Locked(w)
    /\ job[w].pc \in {"dir", "upsert", "delete", "prune"}
    /\ ScanAbort(w)
    /\ UNCHANGED <<diskVars, watchVars, boundVars>>

ScanStep(w) ==
    \/ ScanBegin(w) \/ ScanSnapshot(w)
    \/ \E d \in Places : ScanList(w, d)
    \/ ScanDir(w)
    \/ \E f \in Files : ScanFile(w, f)
    \/ CountPages(w) \/ UpsertFileRow(w) \/ ScanMeta(w)
    \/ ScanWalked(w) \/ ScanMissing(w) \/ ScanDelete(w) \/ ScanPrune(w)
    \/ ScanClear(w) \/ ScanFinish(w)
    \/ ScanLockedOut(w)
===============================================================================
