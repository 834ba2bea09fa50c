------------------------------ MODULE ReindexPath ------------------------------
(***************************************************************************)
(* admin_reindex_path (app/routes_admin.py): an administrator has one file *)
(* or one directory tree indexed again.  The request is one transaction,   *)
(* looks at neither INDEX_STATUS nor existing rows, and deletes nothing.   *)
(***************************************************************************)
EXTENDS Library

(* A path that does not exist is answered with 404.                        *)
PathStart(w, p) ==
    /\ p = Root \/ OnDisk(p)
    /\ Request
    /\ Begin(w, [IdleJob EXCEPT !.pc = "walk",
                    !.todo = IF p \in Files THEN {} ELSE {p},
                    !.left = IF p \in Files THEN {p} ELSE {}])
    /\ UNCHANGED <<diskVars, watchVars, gateVars, storeVars>>

(* An exception answers 500; the close rolls back.                         *)
PathAbort(w) ==
    /\ Rollback(w)
    /\ Drop(w)

PathList(w, d) ==
    /\ job[w].pc = "walk"
    /\ job[w].left = {}
    /\ d \in job[w].todo
    /\ Become(w, [job[w] EXCEPT
            !.pc   = IF d \in dirs THEN "dir" ELSE "walk",
            !.at   = IF d \in dirs THEN d ELSE Root,
            !.todo = (@ \ {d}) \cup SubdirsIn(d),
            !.left = FilesIn(d)])
    /\ UNCHANGED <<diskVars, watchVars, gateVars, storeVars, boundVars>>

(* As ScanDir: the upsert may wait for the lock.                           *)
PathDir(w) ==
    /\ job[w].pc = "dir"
    /\ LET d == job[w].at IN
       \/ /\ Write(w, UpsertDir(view, d))
          /\ Become(w, [job[w] EXCEPT !.pc = "walk", !.at = Root])
       \/ d \notin dirs /\ PathAbort(w)
    /\ UNCHANGED <<diskVars, watchVars, gateVars, boundVars>>

PathFile(w, f) ==
    /\ job[w].pc = "walk"
    /\ f \in job[w].left
    /\ \/ disk[f] = None /\ PathAbort(w)
       \/ /\ disk[f] # None
          /\ Become(w, [job[w] EXCEPT !.pc = "pages", !.left = @ \ {f},
                                      !.file = f, !.stamp = disk[f]])
          /\ UNCHANGED storeVars
    /\ UNCHANGED <<diskVars, watchVars, gateVars, boundVars>>

PathMeta(w) ==
    /\ job[w].pc = "meta"
    /\ Write(w, WithMeta(w))
    /\ Become(w, [job[w] EXCEPT !.pc = "walk", !.file = None,
                                !.stamp = None, !.pages = 0])
    /\ UNCHANGED <<diskVars, watchVars, gateVars, boundVars>>

PathEnd(w) ==
    /\ job[w].pc = "walk"
    /\ job[w].todo = {} /\ job[w].left = {}
    /\ IF owner = w THEN Commit(w, view) ELSE UNCHANGED storeVars
    /\ Drop(w)
    /\ UNCHANGED <<diskVars, watchVars, gateVars, boundVars>>

PathLockedOut(w) ==
    /\ Locked(w)
    /\ job[w].pc \in {"dir", "upsert"}
    /\ PathAbort(w)
    /\ UNCHANGED <<diskVars, watchVars, gateVars, boundVars>>

PathStep(w) ==
    \/ \E d \in Places : PathList(w, d)
    \/ PathDir(w)
    \/ \E f \in Files : PathFile(w, f)
    \/ CountPages(w) \/ UpsertFileRow(w) \/ PathMeta(w)
    \/ PathEnd(w)
    \/ PathLockedOut(w)
===============================================================================
