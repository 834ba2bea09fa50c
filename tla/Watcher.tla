-------------------------------- MODULE Watcher --------------------------------
(***************************************************************************)
(* start_watcher, _reindex_file and _delete_file (app/scanning.py): file   *)
(* events schedule a debounced action per path, and each action runs on a  *)
(* timer thread of its own.  The debounce only decides when an action      *)
(* fires, so a scheduled action may fire at any later moment.              *)
(***************************************************************************)
EXTENDS Library

(* _schedule: an action that has not fired yet is cancelled; one that has  *)
(* fired runs on.                                                          *)
Schedule(pending, f, action) ==
    IF f = None THEN pending ELSE [pending EXCEPT ![f] = action]

(* on_created, on_modified, on_deleted and on_moved.                       *)
Dispatch ==
    /\ queue # <<>>
    /\ queue' = Tail(queue)
    /\ timer' = LET e == Head(queue) IN
                Schedule(Schedule(timer, e.gone, "delete"), e.came, "reindex")
    /\ UNCHANGED <<diskVars, gateVars, storeVars, job, boundVars>>

Fire(w, f) ==
    /\ timer[f] # "none"
    /\ timer' = [timer EXCEPT ![f] = "none"]
    /\ Begin(w, [IdleJob EXCEPT !.file = f,
                    !.pc = IF timer[f] = "reindex" THEN "stat" ELSE "delete"])
    /\ UNCHANGED <<diskVars, queue, gateVars, storeVars, boundVars>>

(* index_single_file: abs_path.stat() raises for a file that is gone.      *)
TimerStat(w) ==
    /\ job[w].pc = "stat"
    /\ LET v == disk[job[w].file] IN
       IF v = None THEN Drop(w)
       ELSE Become(w, [job[w] EXCEPT !.pc = "pages", !.stamp = v])
    /\ UNCHANGED <<diskVars, watchVars, gateVars, storeVars, boundVars>>

TimerMeta(w) ==
    /\ job[w].pc = "meta"
    /\ Commit(w, WithMeta(w))
    /\ Drop(w)
    /\ UNCHANGED <<diskVars, watchVars, gateVars, boundVars>>

(* _delete_file does not look whether the file is back.                    *)
TimerDelete(w) ==
    /\ job[w].pc = "delete"
    /\ Commit(w, DeleteRows(view, {job[w].file}))
    /\ Drop(w)
    /\ UNCHANGED <<diskVars, watchVars, gateVars, boundVars>>

(* "database is locked": logged, and the event is lost.                    *)
TimerLockedOut(w) ==
    /\ Locked(w)
    /\ job[w].pc \in {"upsert", "delete"}
    /\ Drop(w)
    /\ UNCHANGED <<diskVars, watchVars, gateVars, storeVars, boundVars>>

TimerStep(w) ==
    \/ TimerStat(w) \/ CountPages(w) \/ UpsertFileRow(w) \/ TimerMeta(w)
    \/ TimerDelete(w)
    \/ TimerLockedOut(w)
===============================================================================
