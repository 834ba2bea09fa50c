-------------------------------- MODULE Refresh --------------------------------
(***************************************************************************)
(* refresh_directory (app/scanning.py): the non-recursive check of one     *)
(* directory that every browse and smart-list request starts with.         *)
(***************************************************************************)
EXTENDS Library

(* A directory checked within DIR_REFRESH_INTERVAL is not checked again;   *)
(* the request is then answered from the index and changes nothing.        *)
RefreshStart(w, d) ==
    /\ d \notin checked
    /\ checked' = checked \cup {d}
    /\ Request
    /\ Begin(w, [IdleJob EXCEPT !.pc = "gate", !.at = d])
    /\ UNCHANGED <<diskVars, watchVars, running, storeVars>>

(* DIR_REFRESH_INTERVAL has passed since the check of d.                   *)
IntervalOver(d) ==
    /\ d \in checked
    /\ checked' = checked \ {d}
    /\ UNCHANGED <<diskVars, watchVars, running, storeVars, job, boundVars>>

(* "Don't run during a full scan": looked at once, before any work.        *)
RefreshGate(w) ==
    /\ job[w].pc = "gate"
    /\ IF running \/ ~Exists(job[w].at) THEN Drop(w) ELSE Goto(w, "select")
    /\ UNCHANGED <<diskVars, watchVars, gateVars, storeVars, boundVars>>

RefreshSelect(w) ==
    /\ job[w].pc = "select"
    /\ Become(w, [job[w] EXCEPT !.pc = "scandir",
                    !.snap = ChildRows(Reads(w).items, job[w].at)])
    /\ UNCHANGED <<diskVars, watchVars, gateVars, storeVars, boundVars>>

(* The except branch: logged, rolled back by the close.                    *)
RefreshAbort(w) ==
    /\ Rollback(w)
    /\ Drop(w)

(* The database was read before the directory is.                          *)
RefreshScandir(w) ==
    /\ job[w].pc = "scandir"
    /\ LET d == job[w].at
           known == Listed(job[w].snap)
       IN \/ /\ Exists(d)
             /\ Become(w, [job[w] EXCEPT
                    !.pc = "walk",
                    !.todo = SubdirsIn(d) \ known,
                    !.left = FilesIn(d),
                    !.missing = known \ (SubdirsIn(d) \cup FilesIn(d))])
             /\ UNCHANGED storeVars
          \/ ~Exists(d) /\ RefreshAbort(w)
    /\ UNCHANGED <<diskVars, watchVars, gateVars, boundVars>>

(* entry.stat(), and the upsert, which may wait for the lock meanwhile the *)
(* directory goes.                                                         *)
RefreshDir(w, d) ==
    /\ job[w].pc = "walk"
    /\ d \in job[w].todo
    /\ \/ /\ Write(w, UpsertDir(view, d))
          /\ Become(w, [job[w] EXCEPT !.todo = @ \ {d}])
       \/ d \notin dirs /\ RefreshAbort(w)      \* entry.stat raises
    /\ UNCHANGED <<diskVars, watchVars, gateVars, boundVars>>

RefreshFile(w, f) ==
    /\ job[w].pc = "walk"
    /\ f \in job[w].left
    /\ LET visited == [job[w] EXCEPT !.left = @ \ {f}] IN
       \/ disk[f] = None /\ RefreshAbort(w)     \* entry.stat raises
       \/ /\ disk[f] # None
          /\ Unchanged(job[w].snap[f], disk[f])
          /\ Become(w, visited)
          /\ UNCHANGED storeVars
       \/ /\ disk[f] # None
          /\ ~Unchanged(job[w].snap[f], disk[f])
          /\ Become(w, [visited EXCEPT !.pc = "pages", !.file = f,
                                       !.stamp = disk[f]])
          /\ UNCHANGED storeVars
    /\ UNCHANGED <<diskVars, watchVars, gateVars, boundVars>>

RefreshMeta(w) ==
    /\ job[w].pc = "meta"
    /\ Write(w, WithMeta(w))
    /\ Become(w, [job[w] EXCEPT !.pc = "walk", !.file = None,
                                !.stamp = None, !.pages = 0])
    /\ UNCHANGED <<diskVars, watchVars, gateVars, boundVars>>

(* The rows of children that were not listed go, the fts rows and the rows *)
(* below a removed directory stay.                                         *)
RefreshEnd(w) ==
    /\ job[w].pc = "walk"
    /\ job[w].todo = {} /\ job[w].left = {}
    /\ IF job[w].missing # {} \/ owner = w
         THEN Commit(w, DeleteRows(view, job[w].missing))
         ELSE UNCHANGED storeVars
    /\ Drop(w)
    /\ UNCHANGED <<diskVars, watchVars, gateVars, boundVars>>

(* "database is locked" is swallowed by the except branch as well.         *)
RefreshLockedOut(w) ==
    /\ Locked(w)
    /\ \/ job[w].pc = "upsert"
       \/ /\ job[w].pc = "walk"
          /\ \/ job[w].todo # {}
             \/ job[w].left = {} /\ job[w].missing # {}
    /\ RefreshAbort(w)
    /\ UNCHANGED <<diskVars, watchVars, gateVars, boundVars>>

RefreshStep(w) ==
    \/ RefreshGate(w) \/ RefreshSelect(w) \/ RefreshScandir(w)
    \/ \E d \in Dirs : RefreshDir(w, d)
    \/ \E f \in Files : RefreshFile(w, f)
    \/ CountPages(w) \/ UpsertFileRow(w) \/ RefreshMeta(w)
    \/ RefreshEnd(w)
    \/ RefreshLockedOut(w)
===============================================================================
