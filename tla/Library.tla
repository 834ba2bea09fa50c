-------------------------------- MODULE Library --------------------------------
(***************************************************************************)
(* The state shared by everything that maintains the index: the library    *)
(* directory as other programs change it, the SQLite database with its     *)
(* single write lock, and one job per thread or process that indexes.      *)
(* Scan, Refresh, Watcher and ReindexPath add the steps of their kind of   *)
(* job; LibraryIndex composes them.                                        *)
(***************************************************************************)
EXTENDS IndexStore, Sequences, FiniteSets

CONSTANTS Root,        \* LIBRARY_DIR itself, which has no row
          Parent,      \* parent_rel
          Scanners,    \* threads of the server started by start_scan
          Crons,       \* processes started by cron with --scan-only
          Refreshers,  \* requests that call refresh_directory
          Timers,      \* timer threads of the watcher; {} when ENABLE_WATCH is off
          Pathers,     \* requests to /admin/reindex/path
          CommitEvery, \* run_scan commits after this many indexed files
          AutoIndex,   \* AUTO_INDEX_ON_START
          Restores,    \* may a path show a version it has shown before?
          MaxChanges,  \* bound on the changes made to the library
          MaxRequests, \* bound on the requests of users
          MaxCrashes   \* bound on the crashes of the server

Server  == Scanners \cup Refreshers \cup Timers \cup Pathers
Workers == Server \cup Crons
Places  == Dirs \cup {Root}

(* parent_rel shortens a path, so that no directories lie in each other.   *)
ASSUME TreeAssumption ==
    /\ Root \notin Paths /\ Parent \in [Paths -> Places]
    /\ \A S \in SUBSET Dirs : S # {} => \E d \in S : Parent[d] \notin S

(* Every worker is of one kind.                                            *)
ASSUME WorkerAssumption ==
    /\ None \notin Workers
    /\ Scanners \cap (Crons \cup Refreshers \cup Timers \cup Pathers) = {}
    /\ Crons \cap (Refreshers \cup Timers \cup Pathers) = {}
    /\ Refreshers \cap (Timers \cup Pathers) = {}
    /\ Timers \cap Pathers = {}
ASSUME BoundAssumption ==
    /\ CommitEvery \in Nat \ {0}
    /\ AutoIndex \in BOOLEAN /\ Restores \in BOOLEAN
    /\ MaxChanges \in Nat /\ MaxRequests \in Nat /\ MaxCrashes \in Nat

VARIABLES
    disk,      \* the version of each file, None when absent
    dirs,      \* the directories that exist
    seen,      \* history: the versions each file has had
    changes,   \* how often the library was changed
    queue,     \* file events watchdog has not dispatched yet
    timer,     \* _pending: the action scheduled for each path
    running,   \* INDEX_STATUS["running"] of the server
    checked,   \* _DIR_CHECKED: directories checked within the interval
    db,        \* the committed index
    view,      \* the index as the holder of the write lock sees it
    owner,     \* who holds SQLite's write lock, or None
    job,       \* the local state of each worker
    requests,  \* how many requests users made
    crashes    \* how often the server crashed

diskVars  == <<disk, dirs, seen, changes>>
watchVars == <<queue, timer>>
gateVars  == <<running, checked>>
storeVars == <<db, view, owner>>
boundVars == <<requests, crashes>>
vars == <<diskVars, watchVars, gateVars, storeVars, job, boundVars>>

PCs == {"idle", "spawned", "snapshot", "gate", "select", "scandir", "walk",
        "dir", "stat", "pages", "upsert", "meta", "cleanup", "delete",
        "prune", "clear", "finish"}

(* The locals of run_scan, refresh_directory, _reindex_file, _delete_file  *)
(* and admin_reindex_path.  gone is history: the paths that were absent at *)
(* some moment since the job began.                                        *)
Job == [pc      : PCs,
        force   : BOOLEAN,
        at      : Places,                      \* the directory being read
        todo    : SUBSET Places,               \* directories still to visit
        left    : SUBSET Files,                \* listed files still to visit
        rels    : SUBSET Paths,                \* current_rels, fs_rels
        snap    : [Paths -> Row \cup {None}],  \* existing_items, db_children
        missing : SUBSET Paths,                \* rows to delete
        file    : Files \cup {None},
        stamp   : Versions \cup {None},
        pages   : Nat,
        dirty   : Nat,                         \* _uncommitted
        gone    : SUBSET Paths]

IdleJob == [pc |-> "idle", force |-> FALSE, at |-> Root, todo |-> {},
            left |-> {}, rels |-> {}, snap |-> NoRows, missing |-> {},
            file |-> None, stamp |-> None, pages |-> 0, dirty |-> 0,
            gone |-> {}]

TypeOK ==
    /\ disk \in [Files -> Versions \cup {None}]
    /\ dirs \in SUBSET Dirs
    /\ seen \in [Files -> SUBSET Versions]
    /\ changes \in Nat
    /\ queue \in Seq([gone : Files \cup {None}, came : Files \cup {None}])
    /\ timer \in [Files -> {"none", "reindex", "delete"}]
    /\ running \in BOOLEAN
    /\ checked \in SUBSET Places
    /\ db \in Index
    /\ view \in Index
    /\ owner \in Workers \cup {None}
    /\ job \in [Workers -> Job]
    /\ requests \in Nat
    /\ crashes \in Nat

(***************************************************************************)
(* The directory tree.                                                     *)
(***************************************************************************)
OnDisk(p)     == IF p \in Files THEN disk[p] # None ELSE p \in dirs
Exists(d)     == d = Root \/ d \in dirs
FilesIn(d)    == {f \in Files : Parent[f] = d /\ disk[f] # None}
SubdirsIn(d)  == {e \in dirs : Parent[e] = d}
ChildRows(items, d) ==
    [p \in Paths |-> IF Parent[p] = d THEN items[p] ELSE None]

(* Mutant of PagesOnDisk: a missing file has no page count at all.         *)
PagesOrNone(f) == IF disk[f] = None THEN None ELSE Pages[disk[f]]

PagesOnDisk(f) == IF disk[f] = None THEN 0 ELSE Pages[disk[f]]
InfoOnDisk(f)  == IF disk[f] = None THEN None ELSE Info[disk[f]]

(***************************************************************************)
(* SQLite.  The first writing statement of a transaction takes the write   *)
(* lock; the other connections read the committed index meanwhile.  When   *)
(* nobody holds the lock, view is the committed index.                     *)
(***************************************************************************)
Reads(w) == IF owner = w THEN view ELSE db

Locked(w) == owner \notin {None, w}

Write(w, ix) ==
    /\ ~Locked(w)
    /\ owner' = w
    /\ view' = ix
    /\ UNCHANGED db

Commit(w, ix) ==
    /\ ~Locked(w)
    /\ owner' = None
    /\ view' = ix
    /\ db' = ix

Rollback(w) ==
    /\ owner' = IF owner = w THEN None ELSE owner
    /\ view' = IF owner = w THEN db ELSE view
    /\ UNCHANGED db

(***************************************************************************)
(* Jobs.  Begin starts one and records what is absent; Become moves one    *)
(* on.                                                                     *)
(***************************************************************************)
Absent == {p \in Paths : ~OnDisk(p)}

Become(w, j) == job' = [job EXCEPT ![w] = j]

Begin(w, j) ==
    /\ job[w].pc = "idle"
    /\ Become(w, [j EXCEPT !.gone = Absent])

Goto(w, pc) == Become(w, [job[w] EXCEPT !.pc = pc])

Drop(w) == Become(w, IdleJob)

(* cbz_list_pages on the file of the job; an unreadable one has 0 pages.   *)
CountPages(w) ==
    /\ job[w].pc = "pages"
    /\ Become(w, [job[w] EXCEPT !.pc = "upsert",
                                !.pages = PagesOnDisk(job[w].file)])
    /\ UNCHANGED <<diskVars, watchVars, gateVars, storeVars, boundVars>>

(* Mutant of UpsertFileRow: stat() is taken after the pages were counted.  *)
UpsertFileRowLateStat(w) ==
    /\ job[w].pc = "upsert"
    /\ Write(w, UpsertFile(view, job[w].file, disk[job[w].file], job[w].pages))
    /\ Goto(w, "meta")
    /\ UNCHANGED <<diskVars, watchVars, gateVars, boundVars>>

UpsertFileRow(w) ==
    /\ job[w].pc = "upsert"
    /\ Write(w, UpsertFile(view, job[w].file, job[w].stamp, job[w].pages))
    /\ Goto(w, "meta")
    /\ UNCHANGED <<diskVars, watchVars, gateVars, boundVars>>

(* read_comicinfo and upsert_meta: the index the job's transaction becomes.*)
WithMeta(w) == UpsertMetaIfAny(view, job[w].file, InfoOnDisk(job[w].file))

(***************************************************************************)
(* The library is a directory that the owner of the comics changes at any  *)
(* time, in any way a file system allows.  watchdog reports every change   *)
(* of a file, and drops none while it is attached; events of directories   *)
(* are ignored by the handlers, so they are not represented.               *)
(***************************************************************************)
Event(gone, came) ==
    queue' = IF Timers = {} THEN queue
             ELSE Append(queue, [gone |-> gone, came |-> came])

Change(S) ==
    /\ changes < MaxChanges
    /\ changes' = changes + 1
    /\ job' = [w \in Workers |->
                 IF job[w].pc = "idle" THEN job[w]
                 ELSE [job[w] EXCEPT !.gone = @ \cup S]]
    /\ UNCHANGED <<timer, gateVars, storeVars, boundVars>>

MayShow(f, v) == Exists(Parent[f]) /\ (Restores \/ v \notin seen[f])

(* A file appears or is replaced, possibly by one still being written.     *)
WriteFile(f, v) ==
    /\ MayShow(f, v)
    /\ disk[f] # v
    /\ disk' = [disk EXCEPT ![f] = v]
    /\ seen' = [seen EXCEPT ![f] = @ \cup {v}]
    /\ Change({})
    /\ Event(None, f)
    /\ UNCHANGED dirs

RemoveFile(f) ==
    /\ disk[f] # None
    /\ disk' = [disk EXCEPT ![f] = None]
    /\ Change({f})
    /\ Event(f, None)
    /\ UNCHANGED <<dirs, seen>>

(* A rename keeps the modification time and the size.                      *)
MoveFile(f, g) ==
    /\ f # g
    /\ disk[f] # None
    /\ MayShow(g, disk[f])
    /\ disk' = [disk EXCEPT ![f] = None, ![g] = disk[f]]
    /\ seen' = [seen EXCEPT ![g] = @ \cup {disk[f]}]
    /\ Change({f})
    /\ Event(f, g)
    /\ UNCHANGED dirs

MakeDir(d) ==
    /\ d \notin dirs
    /\ Exists(Parent[d])
    /\ dirs' = dirs \cup {d}
    /\ Change({})
    /\ UNCHANGED <<disk, seen, queue>>

(* A directory is moved out of the library with the files in it: the only  *)
(* event is the directory's own.                                           *)
RemoveTree(d) ==
    /\ d \in dirs
    /\ SubdirsIn(d) = {}
    /\ dirs' = dirs \ {d}
    /\ disk' = [f \in Files |-> IF Parent[f] = d THEN None ELSE disk[f]]
    /\ Change({d} \cup FilesIn(d))
    /\ UNCHANGED <<seen, queue>>

LibraryChange ==
    \/ \E f \in Files, v \in Versions : WriteFile(f, v)
    \/ \E f \in Files : RemoveFile(f)
    \/ \E f, g \in Files : MoveFile(f, g)
    \/ \E d \in Dirs : MakeDir(d) \/ RemoveTree(d)

Request ==
    /\ requests < MaxRequests
    /\ requests' = requests + 1
    /\ UNCHANGED crashes
===============================================================================
