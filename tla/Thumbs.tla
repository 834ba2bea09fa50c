-------------------------------- MODULE Thumbs --------------------------------
(***************************************************************************)
(* Cover thumbnails: app/thumbs.py, the precache pass of app/scanning.py   *)
(* and who starts it (run_scan, main.startup, admin_thumbs_precache), the  *)
(* cover requests of app/routes_opds.py and the error log.                 *)
(*                                                                         *)
(* A thumbnail is known by the books whose covers were written into it,    *)
(* each with the ComicVine issue it was written for.  THUMB_STATUS is one  *)
(* record for every pass of the server; passes may overlap, since a scan   *)
(* looks at nothing before it starts one, the others look long before the  *)
(* pass says that it runs, and a scan of the cron process has a status of  *)
(* its own, which nobody reads.                                            *)
(***************************************************************************)
EXTENDS Naturals, FiniteSets

CONSTANTS Books,            \* the .cbz rows of the index
          Passes,           \* threads that may run run_precache_thumbs
          ScanPasses,       \* those of them that run it at the end of a scan
          Workers,          \* threads of the pools and of cover requests
          PoolOf,           \* the pass whose pool a worker is in, or None
          FirstShelves,     \* what the books may be at the start
          Safe,             \* an issue without its unsafe characters
          Empty,            \* an issue with no other
          FilesOf,          \* what the file of a book may become,
          IssuesOf,         \* and the issues, or None, that it may get
          MaxCovers,        \* cover requests
          MaxTroubles,      \* changed files, cleared logs, failures, together
          None

ASSUME ThumbsAssumption ==
    /\ ScanPasses \subseteq Passes /\ PoolOf \in [Workers -> Passes \cup {None}]
    /\ IsFiniteSet(Books) /\ IsFiniteSet(Workers)
    /\ None \notin Books \cup Passes \cup Workers \cup DOMAIN Safe
    /\ MaxCovers \in Nat /\ MaxTroubles \in Nat

(* An issue is any text of a ComicInfo.xml; different issues may have the  *)
(* same safe characters, but none looks like the hash of a path.           *)
ASSUME SafeAssumption == \A i \in DOMAIN Safe : Safe[i] \notin Books

Issues == DOMAIN Safe \cup {None}
Shelf == [Books -> [file : {"good", "bad", "absent"},
                    issue : Issues]]
ASSUME ShelvesAssumption ==
    /\ FirstShelves \subseteq Shelf
    /\ FilesOf \in [Books -> SUBSET {"good", "bad", "absent"}]
    /\ IssuesOf \in [Books -> SUBSET Issues]

VARIABLES shelf,     \* the file of each book, and comicvineissue in its row
          thumb,     \* what lies in /data/thumbs
          log,       \* the books with a line in thumbs_errors.log
          status,    \* THUMB_STATUS
          pass, job, \* the passes under way and the thumbnails at work
          due,       \* books that a finished pass has seen as they are now
          faults, changes, covers

vars == <<shelf, thumb, log, status, pass, job, due, faults, changes, covers>>

-------------------------------------------------------------------------------
File(b) == shelf[b].file
Issue(b) == shelf[b].issue

(* Mutant of ThumbName: no fallback for an issue of unsafe characters.     *)
ThumbNameUnsafe(b, i) == IF i = None THEN b ELSE Safe[i]

ThumbName(b, i) == IF i = None THEN b
                   ELSE IF Safe[i] = Empty THEN b ELSE Safe[i]

ThumbFiles == Books \cup {Safe[i] : i \in DOMAIN Safe}
Jpeg == [of : SUBSET (Books \X Issues), writing : SUBSET Workers, torn : BOOLEAN]
ASSUME NoThumbAssumption == None \notin Jpeg

(* todo: the rows collected, each a book and its issue; fresh: the books    *)
(* that did not change since the pass began; cron: the pass is one of the  *)
(* cron process; alone: no other pass of the server overlapped it.         *)
Pass == [pc : {"idle", "start", "clear", "collect", "work"},
         todo : SUBSET (Books \X Issues), fresh : SUBSET Books,
         cron : BOOLEAN, alone : BOOLEAN]
NoPass == [pc |-> "idle", todo |-> {}, fresh |-> {}, cron |-> FALSE, alone |-> FALSE]

(* A job without a pass is a cover request.                                *)
Job == [pc : {"idle", "look", "load", "saving"}, book : Books \cup {None},
        issue : Issues, pass : Passes \cup {None}]
NoJob == [pc |-> "idle", book |-> None, issue |-> None, pass |-> None]

Resting == [running |-> FALSE, total |-> 0, done |-> 0]

Init ==
    /\ shelf \in FirstShelves
    /\ thumb = [k \in ThumbFiles |-> None]
    /\ log = {} /\ due = {}
    /\ status = Resting
    /\ pass = [p \in Passes |-> NoPass]
    /\ job = [w \in Workers |-> NoJob]
    /\ faults = 0 /\ changes = 0 /\ covers = 0

Begun(p) == pass[p].pc \notin {"idle", "start"}
At(p, pc) == pass[p].pc = pc
Does(w, pc) == job[w].pc = pc

-------------------------------------------------------------------------------
(* The world                                                               *)

(* A book is repaired, damaged or removed; its row stays in the index.     *)
ChangeFile(b) ==
    /\ changes + faults < MaxTroubles /\ changes' = changes + 1
    /\ \E f \in FilesOf[b] \ {File(b)} :
         shelf' = [shelf EXCEPT ![b].file = f]
    /\ due' = due \ {b}
    /\ pass' = [p \in Passes |-> [pass[p] EXCEPT !.fresh = @ \ {b}]]
    /\ UNCHANGED <<thumb, log, status, job, faults, covers>>

(* thumbs_errors_clear                                                     *)
ClearErrors ==
    /\ changes + faults < MaxTroubles /\ changes' = changes + 1
    /\ log' = {} /\ due' = {}
    /\ pass' = [p \in Passes |-> [pass[p] EXCEPT !.fresh = {}]]
    /\ UNCHANGED <<shelf, thumb, status, job, faults, covers>>

(* A scan reads another ComicInfo.xml in a book.                            *)
ChangeIssue(b) ==
    /\ changes + faults < MaxTroubles /\ changes' = changes + 1
    /\ \E i \in IssuesOf[b] \ {Issue(b)} : shelf' = [shelf EXCEPT ![b].issue = i]
    /\ due' = due \ {b}
    /\ pass' = [p \in Passes |-> [pass[p] EXCEPT !.fresh = @ \ {b}]]
    /\ UNCHANGED <<thumb, log, status, job, faults, covers>>

(* A process dies; what is in its memory is gone, what its threads were    *)
(* writing is torn.                                                        *)
Killed(threads) ==
    /\ changes + faults < MaxTroubles /\ faults' = faults + 1
    /\ job' = [w \in Workers |-> IF w \in threads THEN NoJob ELSE job[w]]
    /\ thumb' = [k \in ThumbFiles |-> IF thumb[k] = None THEN None ELSE
         [of |-> thumb[k].of, writing |-> thumb[k].writing \ threads,
          torn |-> thumb[k].torn \/ thumb[k].writing \cap threads # {}]]
    /\ UNCHANGED <<shelf, log, due, changes, covers>>

OfCron(w) == job[w].pass # None /\ pass[job[w].pass].cron

Crash ==
    /\ Killed({w \in Workers : ~OfCron(w)})
    /\ status' = Resting
    /\ pass' = [p \in Passes |-> IF pass[p].cron THEN pass[p] ELSE NoPass]

CrashCron(p) ==
    /\ pass[p].cron
    /\ Killed({w \in Workers : job[w].pass = p})
    /\ pass' = [pass EXCEPT ![p] = NoPass]
    /\ UNCHANGED status

-------------------------------------------------------------------------------
(* A pass                                                                  *)

(* admin_thumbs_precache and startup look at THUMB_STATUS and start a      *)
(* thread; run_scan calls run_precache_thumbs whatever it says.            *)
Launch(p) ==
    /\ At(p, "idle") /\ p \notin ScanPasses /\ ~status.running
    /\ pass' = [pass EXCEPT ![p].pc = "start"]
    /\ UNCHANGED <<shelf, thumb, log, status, job, due, faults, changes, covers>>

Waits(p) == At(p, IF p \in ScanPasses THEN "idle" ELSE "start")

Entered(p, cron) ==
    pass' = [q \in Passes |->
        IF q = p THEN [NoPass EXCEPT !.pc = "clear", !.fresh = Books, !.cron = cron,
             !.alone = ~cron /\ \A o \in Passes \ {p} : Begun(o) => pass[o].cron]
        ELSE [pass[q] EXCEPT !.alone = @ /\ (Begun(q) => cron)]]

(* The status that a pass updates is its own process's.                    *)
Sets(p, new) == status' = IF pass[p].cron THEN status ELSE new

(* Mutant of BeginPass: the counters of the pass before are kept.          *)
BeginPassCounting(p) ==
    /\ Waits(p)
    /\ \/ Entered(p, FALSE) /\ status' = [status EXCEPT !.running = TRUE]
       \/ p \in ScanPasses /\ Entered(p, TRUE) /\ UNCHANGED status
    /\ UNCHANGED <<shelf, thumb, log, job, due, faults, changes, covers>>

(* A pass begins, in the server or, at the end of a scan, in the process   *)
(* that cron runs.                                                         *)
BeginPass(p) ==
    /\ Waits(p)
    /\ \/ Entered(p, FALSE) /\ status' = [running |-> TRUE, total |-> 0, done |-> 0]
       \/ p \in ScanPasses /\ Entered(p, TRUE) /\ UNCHANGED status
    /\ UNCHANGED <<shelf, thumb, log, job, due, faults, changes, covers>>

(* The error log is removed.                                               *)
ClearLog(p) ==
    /\ At(p, "clear")
    /\ log' = {}
    /\ pass' = [pass EXCEPT ![p].pc = "collect"]
    /\ UNCHANGED <<shelf, thumb, status, job, due, faults, changes, covers>>

(* The rows are collected and counted.                                     *)
Collect(p) ==
    /\ At(p, "collect")
    /\ Sets(p, [status EXCEPT !.total = Cardinality(Books)])
    /\ pass' = [pass EXCEPT ![p].pc = "work", ![p].todo = {<<b, Issue(b)>> : b \in Books}]
    /\ UNCHANGED <<shelf, thumb, log, job, due, faults, changes, covers>>

(* The query raises: the thread ends, and nothing resets running.          *)
FailCollect(p) ==
    /\ At(p, "collect") /\ changes + faults < MaxTroubles /\ faults' = faults + 1
    /\ pass' = [pass EXCEPT ![p] = NoPass]
    /\ UNCHANGED <<shelf, thumb, log, status, job, due, changes, covers>>

TakeTask(w, p) ==
    /\ Does(w, "idle") /\ PoolOf[w] = p /\ At(p, "work")
    /\ \E row \in pass[p].todo :
         /\ pass' = [pass EXCEPT ![p].todo = @ \ {row}]
         /\ job' = [job EXCEPT ![w] = [pc |-> "look", book |-> row[1],
                                      issue |-> row[2], pass |-> p]]
    /\ UNCHANGED <<shelf, thumb, log, status, due, faults, changes, covers>>

AllDone(p) == pass[p].todo = {} /\ \A w \in Workers : job[w].pass # p

(* Mutant of EndPass: the counter tells when all is done.                  *)
EndPassByCount(p) ==
    /\ At(p, "work") /\ AllDone(p) /\ (~pass[p].cron => status.done = status.total)
    /\ Sets(p, [status EXCEPT !.running = FALSE])
    /\ pass' = [pass EXCEPT ![p] = NoPass]
    /\ due' = due \cup pass[p].fresh
    /\ UNCHANGED <<shelf, thumb, log, job, faults, changes, covers>>

EndPass(p) ==
    /\ At(p, "work") /\ AllDone(p)
    /\ Sets(p, [status EXCEPT !.running = FALSE])
    /\ pass' = [pass EXCEPT ![p] = NoPass]
    /\ due' = due \cup pass[p].fresh
    /\ UNCHANGED <<shelf, thumb, log, job, faults, changes, covers>>

-------------------------------------------------------------------------------
(* A thumbnail                                                             *)

Name(w) == ThumbName(job[w].book, job[w].issue)
There(w) == thumb[Name(w)] # None

(* thumb and book_thumb.                                                   *)
AskCover(w) ==
    /\ Does(w, "idle") /\ PoolOf[w] = None /\ covers < MaxCovers /\ covers' = covers + 1
    /\ \E b \in Books : File(b) # "absent" /\
         job' = [job EXCEPT ![w] = [pc |-> "look", book |-> b,
                                    issue |-> Issue(b), pass |-> None]]
    /\ UNCHANGED <<shelf, thumb, log, status, pass, due, faults, changes>>

(* The finally of _thumb_task; a cover request is answered.                *)
Finish(w) ==
    /\ status' = IF job[w].pass = None \/ OfCron(w) THEN status
                 ELSE [status EXCEPT !.done = @ + 1]
    /\ job' = [job EXCEPT ![w] = NoJob]

(* _thumb_task passes over an absent file, generate_thumb over a thumbnail *)
(* that exists; a file that is absent only then is an error.               *)
LookAtThumb(w) ==
    /\ Does(w, "look")
    /\ IF There(w) \/ (job[w].pass # None /\ File(job[w].book) = "absent") THEN Finish(w)
       ELSE job' = [job EXCEPT ![w].pc = "load"] /\ UNCHANGED status
    /\ UNCHANGED <<shelf, thumb, log, pass, due, faults, changes, covers>>

(* Mutant of LogThumbError: the log is opened with "w".                    *)
LogThumbErrorOver(b) == log' = {b}

LogThumbError(b) == log' = log \cup {b}

FailLoad(w) ==
    /\ Does(w, "load") /\ File(job[w].book) # "good"
    /\ LogThumbError(job[w].book)
    /\ Finish(w)
    /\ UNCHANGED <<shelf, thumb, pass, due, faults, changes, covers>>

(* im.save opens a thumbnail t for the cover of a book, and truncates it,  *)
(* whoever writes to it; and it closes it.                                 *)
Opened(t, w, row) ==
    IF t = None \/ t.writing = {}
    THEN [of |-> {row}, writing |-> {w}, torn |-> FALSE]
    ELSE [of |-> t.of \cup {row}, writing |-> t.writing \cup {w}, torn |-> t.torn]
Closed(t, w, torn) ==
    IF t = None THEN None
    ELSE [of |-> t.of, writing |-> t.writing \ {w}, torn |-> t.torn \/ torn]

(* The cover is loaded.                                                    *)
BeginSave(w) ==
    /\ Does(w, "load") /\ File(job[w].book) = "good"
    /\ thumb' = [thumb EXCEPT ![Name(w)] = Opened(@, w, <<job[w].book, job[w].issue>>)]
    /\ job' = [job EXCEPT ![w].pc = "saving"]
    /\ UNCHANGED <<shelf, log, status, pass, due, faults, changes, covers>>

EndSave(w) ==
    /\ Does(w, "saving")
    /\ thumb' = [thumb EXCEPT ![Name(w)] = Closed(@, w, FALSE)]
    /\ Finish(w)
    /\ UNCHANGED <<shelf, log, pass, due, faults, changes, covers>>

(* Mutant of FailSave: the error path leaves the file open.                *)
FailSaveOpen(w) ==
    /\ Does(w, "saving") /\ changes + faults < MaxTroubles /\ faults' = faults + 1
    /\ LogThumbError(job[w].book)
    /\ Finish(w)
    /\ UNCHANGED <<shelf, thumb, pass, due, changes, covers>>

(* The save raises: its file is removed, or left as it is.                 *)
FailSave(w) ==
    /\ Does(w, "saving") /\ changes + faults < MaxTroubles /\ faults' = faults + 1
    /\ \/ thumb' = [thumb EXCEPT ![Name(w)] = None]
       \/ There(w) /\ thumb' = [thumb EXCEPT ![Name(w)] = Closed(@, w, TRUE)]
    /\ LogThumbError(job[w].book)
    /\ Finish(w)
    /\ UNCHANGED <<shelf, pass, due, changes, covers>>

-------------------------------------------------------------------------------
StepOfJob(w) == LookAtThumb(w) \/ FailLoad(w) \/ BeginSave(w) \/ EndSave(w)
PassRuns(p) ==
    \/ BeginPass(p) /\ p \notin ScanPasses
    \/ ClearLog(p) \/ Collect(p) \/ EndPass(p)
    \/ \E w \in Workers : TakeTask(w, p)

Next ==
    \/ Crash \/ ClearErrors
    \/ \E b \in Books : ChangeFile(b) \/ ChangeIssue(b)
    \/ \E p \in Passes : CrashCron(p) \/ Launch(p) \/ BeginPass(p) \/ FailCollect(p) \/ PassRuns(p)
    \/ \E w \in Workers : AskCover(w) \/ FailSave(w) \/ StepOfJob(w)

Spec == Init /\ [][Next]_vars

(* Passes and their pools run; nothing makes the next scan or request come, *)
(* and a cover request may take for ever.                                  *)
FairSpec ==
    /\ Spec
    /\ \A p \in Passes : WF_vars(PassRuns(p))
    /\ \A w \in Workers : PoolOf[w] # None => WF_vars(StepOfJob(w))

-------------------------------------------------------------------------------
(* Properties                                                              *)

(* Type invariant of the thumbnails: a file is open for writing only as    *)
(* long as a thread is saving that thumbnail.                              *)
TypeOK ==
    /\ shelf \in Shelf
    /\ thumb \in [ThumbFiles -> Jpeg \cup {None}]
    /\ \A k \in ThumbFiles : thumb[k] # None =>
         \A w \in thumb[k].writing : Does(w, "saving") /\ Name(w) = k
    /\ log \subseteq Books /\ due \subseteq Books
    /\ status \in [running : BOOLEAN, total : {0, Cardinality(Books)}, done : Nat]
    /\ pass \in [Passes -> Pass] /\ job \in [Workers -> Job]
    /\ changes \in Nat /\ faults \in Nat /\ changes + faults <= MaxTroubles
    /\ covers \in 0..MaxCovers

(* When all passes have ended, however they overlapped and cleared the     *)
(* error log under each other, a book that one of them has seen as it is   *)
(* has a thumbnail or a line in the log (run_precache_thumbs: "precache    *)
(* retries everything").                                                   *)
Accounted ==
    faults = 0 /\ (\A p \in Passes : ~Begun(p)) =>
      \A b \in due : \/ thumb[ThumbName(b, Issue(b))] # None
                     \/ b \in log
                     \/ File(b) = "absent"

(* Two books are shown one cover only if their issues have the same safe   *)
(* characters, and some: what lies under the name of a book was made from  *)
(* that book, whatever its issue was then, or from one whose issue, as the *)
(* pass or the request had read it, is written alike ("1.5" and "15" are). *)
(* Without a failed save or a crash none is left half written.             *)
Alike(i, k) == i # None /\ k # None /\ Safe[i] = Safe[k] /\ Safe[i] # Empty
CoverSharedByName ==
    /\ \A b \in Books : LET t == thumb[ThumbName(b, Issue(b))] IN
         t # None => \A row \in t.of : row[1] = b \/ Alike(row[2], Issue(b))
    /\ \A k \in ThumbFiles : thumb[k] # None /\ thumb[k].torn => faults > 0

(* A pass of the server that no other one overlapped ends with done =      *)
(* total, whatever cover requests and the cron process do meanwhile.       *)
ProgressHonest ==
    [][\A p \in Passes :
         EndPass(p) /\ pass[p].alone => status.done = status.total]_vars

(* THUMB_STATUS does not say "running" for ever, unless a pass died of an  *)
(* error: otherwise admin_thumbs_precache would refuse every later pass.   *)
PassEnds == [](status.running => <>(~status.running \/ faults > 0))
===============================================================================
