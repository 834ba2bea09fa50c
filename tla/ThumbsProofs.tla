----------------------------- MODULE ThumbsProofs -----------------------------
(***************************************************************************)
(* Thumbs for any number of books, passes and threads: its types, what may *)
(* be written into one thumbnail, what the error log owes to the books,    *)
(* and the progress that a pass reports.                                   *)
(***************************************************************************)
EXTENDS Thumbs, FiniteSetTheorems, FunctionTheorems, TLAPS

(* A job has a book.                                                       *)
AtBook == \A w \in Workers : job[w].pc # "idle" => job[w].book \in Books

TypeInv == TypeOK /\ AtBook

(* The steps of a pass itself, and of those who change the shelf.          *)
OfPass(p) == \/ Launch(p) \/ BeginPass(p) \/ ClearLog(p)
             \/ FailCollect(p) \/ Collect(p) \/ EndPass(p)
OfShelf == \E b \in Books : ChangeFile(b) \/ ChangeIssue(b)
OfCrash == Crash \/ \E p \in Passes : CrashCron(p)

(* The actions that a step may be.                                         *)
LEMMA NextStep ==
    ASSUME Next
    PROVE  \/ OfCrash \/ ClearErrors \/ OfShelf
           \/ \E p \in Passes : OfPass(p)
           \/ \E w \in Workers : \/ AskCover(w) \/ FailSave(w) \/ LookAtThumb(w)
                                 \/ FailLoad(w) \/ BeginSave(w) \/ EndSave(w)
                                 \/ \E p \in Passes : TakeTask(w, p)
BY DEF Next, StepOfJob, PassRuns, OfPass, OfShelf, OfCrash

-------------------------------------------------------------------------------
(* Type correctness                                                        *)

LEMMA NothingType ==
    /\ NoPass \in Pass /\ NoJob \in Job
    /\ Resting \in [running : BOOLEAN, total : {0, Cardinality(Books)}, done : Nat]
    /\ NoJob.pc = "idle" /\ NoPass.pc = "idle" /\ NoJob.pass = None
    /\ None \in Issues
BY DEF NoPass, Pass, NoJob, Job, Resting, Issues

(* Every book has the name of a thumbnail, whatever its issue.             *)
LEMMA Named ==
    ASSUME NEW b \in Books, NEW i \in Issues
    PROVE  ThumbName(b, i) \in ThumbFiles
BY DEF ThumbName, ThumbFiles, Issues

LEMMA ShelfTyped ==
    ASSUME shelf \in Shelf, NEW b \in Books
    PROVE  Issue(b) \in Issues /\ File(b) \in {"good", "bad", "absent"}
BY DEF Shelf, Issue, File

LEMMA SameBook ==
    ASSUME NEW b, shelf' = shelf
    PROVE  File(b)' = File(b) /\ Issue(b)' = Issue(b)
BY DEF Issue, File

LEMMA ChangedShelf ==
    ASSUME shelf \in Shelf, NEW b \in Books, ChangeFile(b) \/ ChangeIssue(b)
    PROVE  /\ shelf' \in Shelf
           /\ \A o \in Books : o # b => File(o)' = File(o) /\ Issue(o)' = Issue(o)
<1>1. CASE ChangeFile(b)
  <2>1. FilesOf[b] \subseteq {"good", "bad", "absent"}
    BY ShelvesAssumption
  <2>2. PICK f \in {"good", "bad", "absent"} : shelf' = [shelf EXCEPT ![b].file = f]
    BY <1>1, <2>1 DEF ChangeFile
  <2> QED BY <2>2 DEF Shelf, File, Issue
<1>2. CASE ChangeIssue(b)
  <2>1. IssuesOf[b] \subseteq Issues
    BY ShelvesAssumption
  <2>2. PICK i \in Issues : shelf' = [shelf EXCEPT ![b].issue = i]
    BY <1>2, <2>1 DEF ChangeIssue
  <2> QED BY <2>2 DEF Shelf, File, Issue
<1> QED BY <1>1, <1>2

THEOREM InitTypes == Init => TypeInv
<1> SUFFICES ASSUME Init PROVE TypeInv
  OBVIOUS
<1>1. changes + faults <= MaxTroubles
  BY ThumbsAssumption DEF Init
<1> QED BY <1>1, NothingType, ShelvesAssumption, ThumbsAssumption
        DEF Init, TypeInv, TypeOK, AtBook, Does

(* A step that touches no thumbnail and lets those who save go on.         *)
LEMMA WritersKept ==
    ASSUME TypeInv, thumb' = thumb,
           \A w \in Workers : job[w].pc = "saving" => job'[w] = job[w]
    PROVE  \A k \in ThumbFiles : thumb'[k] # None =>
             \A w \in thumb'[k].writing : Does(w, "saving")' /\ Name(w)' = k
<1> SUFFICES ASSUME NEW k \in ThumbFiles, thumb'[k] # None,
                    NEW w \in thumb'[k].writing
             PROVE  Does(w, "saving")' /\ Name(w)' = k
  OBVIOUS
<1>1. w \in Workers /\ Does(w, "saving") /\ Name(w) = k
  BY DEF TypeInv, TypeOK, Jpeg
<1> QED BY <1>1 DEF Does, Name

LEMMA FinishTypes ==
    ASSUME TypeInv, NEW w \in Workers, Finish(w)
    PROVE  /\ status' \in [running : BOOLEAN, total : {0, Cardinality(Books)}, done : Nat]
           /\ job' \in [Workers -> Job] /\ job' = [job EXCEPT ![w] = NoJob]
           /\ AtBook'
<1>1. job' = [job EXCEPT ![w] = NoJob]
  BY DEF Finish
<1>2. job' \in [Workers -> Job]
  BY <1>1, NothingType DEF TypeInv, TypeOK
<1>3. AtBook'
  BY <1>1, NothingType DEF TypeInv, TypeOK, AtBook
<1>4. status' \in [running : BOOLEAN, total : {0, Cardinality(Books)}, done : Nat]
  BY DEF Finish, TypeInv, TypeOK
<1> QED BY <1>1, <1>2, <1>3, <1>4

(* A process that dies takes its threads along, and their hold on files.   *)
LEMMA KilledTypes ==
    ASSUME TypeInv, NEW threads \in SUBSET Workers, Killed(threads)
    PROVE  /\ job' \in [Workers -> Job] /\ AtBook'
           /\ thumb' \in [ThumbFiles -> Jpeg \cup {None}]
           /\ \A k \in ThumbFiles : thumb'[k] # None =>
                \A w \in thumb'[k].writing : Does(w, "saving")' /\ Name(w)' = k
           /\ changes' \in Nat /\ faults' \in Nat /\ changes' + faults' <= MaxTroubles
<1>1. /\ \A w \in threads : job'[w] = NoJob
      /\ \A w \in Workers \ threads : job'[w] = job[w]
      /\ job' \in [Workers -> Job]
  BY NothingType DEF Killed, TypeInv, TypeOK
<1>2. AtBook'
  BY <1>1, NothingType DEF TypeInv, AtBook
<1>3. /\ DOMAIN thumb' = ThumbFiles
      /\ thumb' = [k \in ThumbFiles |-> thumb'[k]]
  BY DEF Killed
<1>4. ASSUME NEW k \in ThumbFiles
      PROVE  /\ thumb'[k] \in Jpeg \cup {None}
             /\ thumb'[k] # None =>
                  \A w \in thumb'[k].writing : Does(w, "saving")' /\ Name(w)' = k
  <2>1. CASE thumb[k] = None
    BY <2>1 DEF Killed
  <2>2. CASE thumb[k] # None
    <3>1. thumb[k] \in Jpeg
      BY <2>2 DEF TypeInv, TypeOK
    <3>2. thumb'[k] = [of |-> thumb[k].of, writing |-> thumb[k].writing \ threads,
                       torn |-> thumb[k].torn \/ thumb[k].writing \cap threads # {}]
      BY <2>2 DEF Killed
    <3>3. thumb'[k] \in Jpeg
      BY <3>1, <3>2 DEF Jpeg
    <3>4. ASSUME NEW w \in thumb'[k].writing PROVE Does(w, "saving")' /\ Name(w)' = k
      <4>1. w \in thumb[k].writing /\ w \in Workers /\ w \notin threads
        BY <3>1, <3>2, <3>4 DEF Jpeg
      <4>2. Does(w, "saving") /\ Name(w) = k
        BY <2>2, <4>1 DEF TypeInv, TypeOK
      <4> QED BY <1>1, <4>1, <4>2 DEF Does, Name
    <3> QED BY <3>3, <3>4
  <2> QED BY <2>1, <2>2
<1>5. changes' \in Nat /\ faults' \in Nat /\ changes' + faults' <= MaxTroubles
  BY ThumbsAssumption DEF Killed, TypeInv, TypeOK
<1> QED BY <1>1, <1>2, <1>3, <1>4, <1>5

LEMMA CrashTypes == ASSUME TypeInv, OfCrash PROVE TypeInv'
<1>1. PICK threads \in SUBSET Workers : Killed(threads)
  BY DEF OfCrash, Crash, CrashCron
<1>2. /\ pass' \in [Passes -> Pass]
      /\ status' \in [running : BOOLEAN, total : {0, Cardinality(Books)}, done : Nat]
  BY NothingType DEF OfCrash, Crash, CrashCron, TypeInv, TypeOK
<1> QED BY <1>1, <1>2, KilledTypes DEF Killed, TypeInv, TypeOK

LEMMA ClearTypes == ASSUME TypeInv, ClearErrors PROVE TypeInv'
<1>1. changes' \in Nat /\ faults' \in Nat /\ changes' + faults' <= MaxTroubles
  BY ThumbsAssumption DEF ClearErrors, TypeInv, TypeOK
<1>2. pass' \in [Passes -> Pass]
  BY ZenonT(60) DEF ClearErrors, TypeInv, TypeOK, Pass
<1>3. \A k \in ThumbFiles : thumb'[k] # None =>
        \A w \in thumb'[k].writing : Does(w, "saving")' /\ Name(w)' = k
  BY WritersKept DEF ClearErrors
<1> QED BY <1>1, <1>2, <1>3 DEF ClearErrors, TypeInv, TypeOK, AtBook

LEMMA ChangeTypes == ASSUME TypeInv, OfShelf PROVE TypeInv'
<1>1. PICK b \in Books : ChangeFile(b) \/ ChangeIssue(b)
  BY DEF OfShelf
<1>2. /\ changes' = changes + 1 /\ due' = due \ {b} /\ changes + faults < MaxTroubles
      /\ pass' = [p \in Passes |-> [pass[p] EXCEPT !.fresh = @ \ {b}]]
      /\ UNCHANGED <<thumb, log, status, job, faults, covers>>
  BY <1>1 DEF ChangeFile, ChangeIssue
<1>3. changes' \in Nat /\ faults' \in Nat /\ changes' + faults' <= MaxTroubles
  BY <1>2, ThumbsAssumption DEF TypeInv, TypeOK
<1>4. pass' \in [Passes -> Pass]
  BY ZenonT(60), <1>2 DEF TypeInv, TypeOK, Pass
<1>5. shelf' \in Shelf
  BY <1>1, ChangedShelf DEF TypeInv, TypeOK
<1>6. \A k \in ThumbFiles : thumb'[k] # None =>
        \A w \in thumb'[k].writing : Does(w, "saving")' /\ Name(w)' = k
  BY <1>2, WritersKept
<1> QED BY <1>2, <1>3, <1>4, <1>5, <1>6 DEF TypeInv, TypeOK, AtBook

(* The steps of a pass.                                                    *)
LEMMA PassTypes ==
    ASSUME TypeInv, NEW p \in Passes, OfPass(p)
    PROVE  TypeInv'
<1>1. job' = job /\ thumb' = thumb /\ shelf' = shelf
  BY DEF OfPass, Launch, BeginPass, ClearLog, FailCollect, Collect, EndPass
<1>2. pass' \in [Passes -> Pass]
  <2>1. pass \in [Passes -> Pass]
    BY DEF TypeInv, TypeOK
  <2>2. CASE Launch(p) \/ ClearLog(p)
    BY <2>1, <2>2 DEF Launch, ClearLog, Pass
  <2>3. CASE BeginPass(p)
    <3>1. PICK cron \in BOOLEAN : Entered(p, cron)
      BY <2>3 DEF BeginPass
    <3> QED BY <2>1, <3>1 DEF Entered, Pass, NoPass
  <2>4. CASE FailCollect(p) \/ EndPass(p)
    BY <2>1, <2>4, NothingType DEF FailCollect, EndPass
  <2>5. CASE Collect(p)
    <3>1. PICK rows : rows = {<<b, Issue(b)>> : b \in Books}
      OBVIOUS
    <3>2. rows \subseteq Books \X Issues
      BY <3>1, ShelfTyped DEF TypeInv, TypeOK
    <3>3. pass' = [pass EXCEPT ![p].pc = "work", ![p].todo = rows]
      BY <2>5, <3>1 DEF Collect
    <3> QED BY <2>1, <3>2, <3>3 DEF Pass
  <2> QED BY <2>2, <2>3, <2>4, <2>5 DEF OfPass
<1>3. status' \in [running : BOOLEAN, total : {0, Cardinality(Books)}, done : Nat]
  <2>1. status \in [running : BOOLEAN, total : {0, Cardinality(Books)}, done : Nat]
    BY DEF TypeInv, TypeOK
  <2>2. CASE BeginPass(p)
    <3>1. status' = status \/ status' = [running |-> TRUE, total |-> 0, done |-> 0]
      BY <2>2 DEF BeginPass
    <3>2. CASE status' = [running |-> TRUE, total |-> 0, done |-> 0]
      BY <3>2
    <3> QED BY <2>1, <3>1, <3>2
  <2>3. CASE Launch(p) \/ FailCollect(p) \/ ClearLog(p)
    BY <2>1, <2>3 DEF Launch, FailCollect, ClearLog
  <2>4. CASE Collect(p) \/ EndPass(p)
    <3>1. \/ status' = status \/ status' = [status EXCEPT !.total = Cardinality(Books)]
          \/ status' = [status EXCEPT !.running = FALSE]
      BY Zenon, <2>4 DEF Collect, EndPass, Sets
    <3> QED BY <2>1, <3>1
  <2> QED BY <2>2, <2>3, <2>4 DEF OfPass
<1>4. changes' \in Nat /\ faults' \in Nat /\ changes' + faults' <= MaxTroubles
  <2>1. /\ changes' = changes
        /\ faults' = faults \/ (changes + faults < MaxTroubles /\ faults' = faults + 1)
    BY DEF OfPass, Launch, BeginPass, ClearLog, FailCollect, Collect, EndPass
  <2> QED BY <2>1, ThumbsAssumption DEF TypeInv, TypeOK
<1>5. log' \subseteq Books /\ due' \subseteq Books /\ covers' \in 0..MaxCovers
  <2>1. pass[p].fresh \subseteq Books
    BY DEF TypeInv, TypeOK, Pass
  <2> QED BY <2>1 DEF OfPass, Launch, BeginPass, ClearLog, FailCollect, Collect, EndPass,
                      TypeInv, TypeOK
<1>6. \A k \in ThumbFiles : thumb'[k] # None =>
        \A w \in thumb'[k].writing : Does(w, "saving")' /\ Name(w)' = k
  BY <1>1, WritersKept
<1> QED BY <1>1, <1>2, <1>3, <1>4, <1>5, <1>6 DEF TypeInv, TypeOK, AtBook

LEMMA TakeTypes ==
    ASSUME TypeInv, NEW w \in Workers, NEW p \in Passes, TakeTask(w, p) PROVE TypeInv'
<1>1. PICK row \in pass[p].todo :
        /\ pass' = [pass EXCEPT ![p].todo = @ \ {row}]
        /\ job' = [job EXCEPT ![w] = [pc |-> "look", book |-> row[1],
                                      issue |-> row[2], pass |-> p]]
  BY DEF TakeTask
<1>2. row[1] \in Books /\ row[2] \in Issues /\ pass' \in [Passes -> Pass]
  BY <1>1 DEF TypeInv, TypeOK, Pass
<1>3. job' \in [Workers -> Job] /\ AtBook'
  BY <1>1, <1>2 DEF TypeInv, TypeOK, Job, AtBook
<1>4. \A v \in Workers : job[v].pc = "saving" => job'[v] = job[v]
  BY <1>1 DEF TakeTask, Does, TypeInv, TypeOK
<1>5. \A k \in ThumbFiles : thumb'[k] # None =>
        \A v \in thumb'[k].writing : Does(v, "saving")' /\ Name(v)' = k
  BY <1>4, WritersKept DEF TakeTask
<1> QED BY <1>2, <1>3, <1>5 DEF TakeTask, TypeInv, TypeOK

LEMMA CoverTypes ==
    ASSUME TypeInv, NEW w \in Workers, AskCover(w) PROVE TypeInv'
<1>1. PICK b \in Books : job' = [job EXCEPT ![w] = [pc |-> "look", book |-> b,
                                                    issue |-> Issue(b), pass |-> None]]
  BY DEF AskCover
<1>2. Issue(b) \in Issues
  BY ShelfTyped DEF TypeInv, TypeOK
<1>3. job' \in [Workers -> Job] /\ AtBook'
  BY <1>1, <1>2 DEF TypeInv, TypeOK, Job, AtBook
<1>4. \A v \in Workers : job[v].pc = "saving" => job'[v] = job[v]
  BY <1>1 DEF AskCover, Does, TypeInv, TypeOK
<1>5. \A k \in ThumbFiles : thumb'[k] # None =>
        \A v \in thumb'[k].writing : Does(v, "saving")' /\ Name(v)' = k
  BY <1>4, WritersKept DEF AskCover
<1>6. covers' \in 0..MaxCovers
  BY ThumbsAssumption DEF AskCover, TypeInv, TypeOK
<1> QED BY <1>3, <1>5, <1>6 DEF AskCover, TypeInv, TypeOK

LEMMA LookTypes ==
    ASSUME TypeInv, NEW w \in Workers, LookAtThumb(w) \/ FailLoad(w) PROVE TypeInv'
<1>1. /\ status' \in [running : BOOLEAN, total : {0, Cardinality(Books)}, done : Nat]
      /\ job' \in [Workers -> Job] /\ AtBook'
  <2>1. CASE Finish(w)
    BY <2>1, FinishTypes
  <2>2. CASE job' = [job EXCEPT ![w].pc = "load"] /\ UNCHANGED status
                /\ job[w].pc = "look"
    BY <2>2 DEF TypeInv, TypeOK, Job, AtBook
  <2> QED BY <2>1, <2>2 DEF LookAtThumb, FailLoad, Does
<1>2. \A v \in Workers : job[v].pc = "saving" => job'[v] = job[v]
  BY DEF LookAtThumb, FailLoad, Does, Finish, TypeInv, TypeOK
<1>3. \A k \in ThumbFiles : thumb'[k] # None =>
        \A v \in thumb'[k].writing : Does(v, "saving")' /\ Name(v)' = k
  BY <1>2, WritersKept DEF LookAtThumb, FailLoad
<1>4. log' \subseteq Books
  BY DEF LookAtThumb, FailLoad, LogThumbError, TypeInv, TypeOK, AtBook, Does
<1> QED BY <1>1, <1>3, <1>4 DEF LookAtThumb, FailLoad, TypeInv, TypeOK

(* What becomes of a thumbnail that is opened and closed.                  *)
LEMMA OpenedTypes ==
    ASSUME NEW t \in Jpeg \cup {None}, NEW w \in Workers, NEW row \in Books \X Issues
    PROVE  /\ Opened(t, w, row) \in Jpeg
           /\ \A v \in Opened(t, w, row).writing :
                v = w \/ (t # None /\ v \in t.writing)
           /\ \A o \in Opened(t, w, row).of : o = row \/ (t # None /\ o \in t.of)
           /\ Opened(t, w, row).torn => t # None /\ t.torn
<1>1. CASE t = None \/ t.writing = {}
  BY <1>1 DEF Opened, Jpeg
<1>2. CASE t # None /\ t.writing # {}
  <2>1. t \in Jpeg
    BY <1>2
  <2>2. Opened(t, w, row) = [of |-> t.of \cup {row}, writing |-> t.writing \cup {w},
                             torn |-> t.torn]
    BY <1>2 DEF Opened
  <2> QED BY <1>2, <2>1, <2>2 DEF Jpeg
<1> QED BY <1>1, <1>2

LEMMA ClosedTypes ==
    ASSUME NEW t \in Jpeg \cup {None}, NEW w \in Workers, NEW torn \in BOOLEAN
    PROVE  /\ Closed(t, w, torn) \in Jpeg \cup {None}
           /\ t = None => Closed(t, w, torn) = None
           /\ Closed(t, w, torn) # None =>
                /\ t # None /\ Closed(t, w, torn).writing = t.writing \ {w}
                /\ Closed(t, w, torn).of = t.of
                /\ Closed(t, w, torn).torn => t.torn \/ torn
<1>1. CASE t = None
  BY <1>1 DEF Closed
<1>2. CASE t # None
  <2>1. t \in Jpeg
    BY <1>2
  <2>2. Closed(t, w, torn) = [of |-> t.of, writing |-> t.writing \ {w},
                              torn |-> t.torn \/ torn]
    BY <1>2 DEF Closed
  <2> QED BY <1>2, <2>1, <2>2 DEF Jpeg
<1> QED BY <1>1, <1>2

LEMMA ClosedJpeg ==
    ASSUME NEW t \in Jpeg, NEW w \in Workers, NEW torn \in BOOLEAN
    PROVE  Closed(t, w, torn) \in Jpeg
<1>1. t # None
  BY NoThumbAssumption
<1> QED BY <1>1 DEF Closed, Jpeg

(* A thread at work has a book and an issue, and so a thumbnail.           *)
LEMMA AtWork ==
    ASSUME TypeInv, NEW w \in Workers, job[w].pc # "idle"
    PROVE  /\ job[w].book \in Books /\ job[w].issue \in Issues
           /\ <<job[w].book, job[w].issue>> \in Books \X Issues
           /\ Name(w) \in ThumbFiles
           /\ job \in [Workers -> Job] /\ thumb \in [ThumbFiles -> Jpeg \cup {None}]
<1>1. job[w].book \in Books /\ job[w].issue \in Issues
  BY DEF TypeInv, TypeOK, AtBook, Job
<1> QED BY <1>1, Named DEF TypeInv, TypeOK, Name

LEMMA BeginSaveTypes ==
    ASSUME TypeInv, NEW w \in Workers, BeginSave(w) PROVE TypeInv'
<1> DEFINE k == Name(w)
<1>1. /\ job[w].pc = "load" /\ k \in ThumbFiles /\ job \in [Workers -> Job]
      /\ thumb \in [ThumbFiles -> Jpeg \cup {None}]
      /\ <<job[w].book, job[w].issue>> \in Books \X Issues
  BY AtWork DEF BeginSave, Does
<1>2. PICK new : new = Opened(thumb[k], w, <<job[w].book, job[w].issue>>)
  OBVIOUS
<1>3. /\ thumb' = [thumb EXCEPT ![k] = new]
      /\ job' = [job EXCEPT ![w].pc = "saving"]
  BY <1>2 DEF BeginSave
<1>4. /\ new \in Jpeg
      /\ \A v \in new.writing : v = w \/ (thumb[k] # None /\ v \in thumb[k].writing)
  BY <1>1, <1>2, OpenedTypes
<1>5. /\ job' \in [Workers -> Job] /\ job'[w].pc = "saving"
      /\ job'[w].book = job[w].book /\ job'[w].issue = job[w].issue
      /\ \A v \in Workers : v # w => job'[v] = job[v]
  BY <1>1, <1>3 DEF Job
<1>6. Does(w, "saving")' /\ Name(w)' = k
  BY <1>5 DEF Does, Name
<1>7. ASSUME NEW m \in ThumbFiles, thumb'[m] # None, NEW v \in thumb'[m].writing
      PROVE  Does(v, "saving")' /\ Name(v)' = m
  <2>1. CASE v = w /\ m = k
    BY <2>1, <1>6
  <2>2. CASE ~(v = w /\ m = k)
    <3>1. thumb[m] # None /\ v \in thumb[m].writing
      BY <1>1, <1>3, <1>4, <1>7, <2>2
    <3>2. v \in Workers /\ Does(v, "saving") /\ Name(v) = m
      BY <3>1 DEF TypeInv, TypeOK, Jpeg
    <3>3. v # w
      BY <3>2, <1>1 DEF Does
    <3> QED BY <3>2, <3>3, <1>5 DEF Does, Name
  <2> QED BY <2>1, <2>2
<1>8. thumb' \in [ThumbFiles -> Jpeg \cup {None}]
  BY <1>1, <1>3, <1>4
<1>9. AtBook'
  BY <1>1, <1>5 DEF TypeInv, AtBook
<1> QED BY <1>5, <1>7, <1>8, <1>9 DEF BeginSave, TypeInv, TypeOK

(* Both ends of a save: w lets go of its thumbnail, if that is still there.*)
LEMMA SaveEndTypes ==
    ASSUME TypeInv, NEW w \in Workers, Does(w, "saving"), Finish(w),
           NEW torn \in BOOLEAN,
           \/ thumb' = [thumb EXCEPT ![Name(w)] = None]
           \/ thumb' = [thumb EXCEPT ![Name(w)] = Closed(thumb[Name(w)], w, torn)]
    PROVE  /\ thumb' \in [ThumbFiles -> Jpeg \cup {None}]
           /\ \A m \in ThumbFiles : thumb'[m] # None =>
                \A v \in thumb'[m].writing : Does(v, "saving")' /\ Name(v)' = m
<1> DEFINE k == Name(w)
<1>1. /\ k \in ThumbFiles /\ thumb \in [ThumbFiles -> Jpeg \cup {None}]
      /\ job \in [Workers -> Job]
  BY AtWork DEF Does
<1>2. PICK new \in Jpeg \cup {None} :
        /\ thumb' = [thumb EXCEPT ![k] = new]
        /\ new # None => thumb[k] # None /\ new.writing = thumb[k].writing \ {w}
  BY <1>1, ClosedTypes
<1>3. \A v \in Workers : v # w => job'[v] = job[v]
  BY <1>1 DEF Finish
<1>4. ASSUME NEW m \in ThumbFiles, thumb'[m] # None, NEW v \in thumb'[m].writing
      PROVE  Does(v, "saving")' /\ Name(v)' = m
  <2>1. thumb[m] # None /\ v \in thumb[m].writing /\ (m = k => v # w)
    BY <1>1, <1>2, <1>4
  <2>2. v \in Workers /\ Does(v, "saving") /\ Name(v) = m
    BY <2>1 DEF TypeInv, TypeOK, Jpeg
  <2>3. v # w
    BY <2>1, <2>2
  <2> QED BY <2>2, <2>3, <1>3 DEF Does, Name
<1> QED BY <1>1, <1>2, <1>4

LEMMA EndSaveTypes ==
    ASSUME TypeInv, NEW w \in Workers, EndSave(w) PROVE TypeInv'
<1>1. /\ status' \in [running : BOOLEAN, total : {0, Cardinality(Books)}, done : Nat]
      /\ job' \in [Workers -> Job] /\ AtBook'
  BY FinishTypes DEF EndSave
<1>2. /\ thumb' \in [ThumbFiles -> Jpeg \cup {None}]
      /\ \A m \in ThumbFiles : thumb'[m] # None =>
           \A v \in thumb'[m].writing : Does(v, "saving")' /\ Name(v)' = m
  BY SaveEndTypes DEF EndSave
<1> QED BY <1>1, <1>2 DEF EndSave, TypeInv, TypeOK

LEMMA FailSaveTypes ==
    ASSUME TypeInv, NEW w \in Workers, FailSave(w) PROVE TypeInv'
<1>1. /\ status' \in [running : BOOLEAN, total : {0, Cardinality(Books)}, done : Nat]
      /\ job' \in [Workers -> Job] /\ AtBook'
  BY FinishTypes DEF FailSave
<1>2. /\ thumb' \in [ThumbFiles -> Jpeg \cup {None}]
      /\ \A m \in ThumbFiles : thumb'[m] # None =>
           \A v \in thumb'[m].writing : Does(v, "saving")' /\ Name(v)' = m
  BY SaveEndTypes DEF FailSave
<1>3. log' \subseteq Books
  BY DEF FailSave, LogThumbError, Does, TypeInv, TypeOK, AtBook
<1>4. changes' \in Nat /\ faults' \in Nat /\ changes' + faults' <= MaxTroubles
  BY ThumbsAssumption DEF FailSave, TypeInv, TypeOK
<1> QED BY <1>1, <1>2, <1>3, <1>4 DEF FailSave, TypeInv, TypeOK

LEMMA StepTypes == ASSUME TypeInv, [Next]_vars PROVE TypeInv'
<1>1. CASE UNCHANGED vars
  BY <1>1 DEF vars, TypeInv, TypeOK, AtBook, Does, Name
<1>2. CASE Next
  BY <1>2, NextStep, CrashTypes, ClearTypes, ChangeTypes, PassTypes, TakeTypes,
     CoverTypes, LookTypes, BeginSaveTypes, EndSaveTypes, FailSaveTypes
<1> QED BY <1>1, <1>2

LEMMA TypesAlways == Spec => []TypeInv
<1>1. TypeInv /\ [Next]_vars => TypeInv'
  BY StepTypes
<1> QED BY <1>1, InitTypes, PTL DEF Spec

(* Threads, passes and files have their types, and a thumbnail is open for *)
(* writing only as long as a thread is saving it (_save_as_jpeg).          *)
THEOREM ThumbTypes == Spec => []TypeOK
BY TypesAlways, PTL DEF TypeInv

-------------------------------------------------------------------------------
(* What is written into one thumbnail                                      *)

Filled(k) == /\ \A row \in thumb[k].of : ThumbName(row[1], row[2]) = k
             /\ thumb[k].torn => faults > 0
CoverInv == TypeInv /\ \A k \in ThumbFiles : thumb[k] # None => Filled(k)

LEMMA FaultsOnlyGrow ==
    ASSUME TypeInv, Next PROVE faults' \in Nat /\ faults \in Nat /\ faults' >= faults
<1>1. faults \in Nat
  BY DEF TypeInv, TypeOK
<1>2. faults' = faults \/ faults' = faults + 1
  BY NextStep
     DEF OfCrash, Crash, CrashCron, Killed, ClearErrors, OfShelf, ChangeFile, ChangeIssue,
         OfPass, Launch, BeginPass, ClearLog, FailCollect, Collect, EndPass,
         AskCover, FailSave, LookAtThumb, FailLoad, BeginSave, EndSave, TakeTask
<1> QED BY <1>1, <1>2

(* A thumbnail gets a book from the thread that opens it, and is torn by a *)
(* fault; no other step adds to it.                                        *)
Fills(w, k) == /\ Does(w, "load") /\ Name(w) = k
               /\ \A row \in thumb'[k].of :
                    \/ row = <<job[w].book, job[w].issue>>
                    \/ thumb[k] # None /\ row \in thumb[k].of
               /\ thumb'[k].torn => thumb[k] # None /\ thumb[k].torn
Keeps(k) == /\ thumb[k] # None /\ thumb'[k].of = thumb[k].of
            /\ thumb'[k].torn => thumb[k].torn \/ faults' > 0

LEMMA Written ==
    ASSUME TypeInv, Next, NEW k \in ThumbFiles, thumb'[k] # None
    PROVE  (\E w \in Workers : Fills(w, k)) \/ Keeps(k)
<1>1. thumb \in [ThumbFiles -> Jpeg \cup {None}] /\ faults \in Nat
  BY DEF TypeInv, TypeOK
<1>2. CASE thumb' = thumb
  BY <1>2 DEF Fills, Keeps
<1>3. CASE OfCrash
  <2>1. PICK threads : Killed(threads)
    BY <1>3 DEF OfCrash, Crash, CrashCron
  <2>2. thumb[k] # None /\ thumb[k] \in Jpeg
    BY <1>1, <2>1 DEF Killed
  <2>3. thumb'[k] = [of |-> thumb[k].of, writing |-> thumb[k].writing \ threads,
                     torn |-> thumb[k].torn \/ thumb[k].writing \cap threads # {}]
    BY <2>1, <2>2 DEF Killed
  <2>4. faults' > 0
    BY <1>1, <2>1 DEF Killed
  <2> QED BY <2>2, <2>3, <2>4 DEF Fills, Keeps
<1>4. ASSUME NEW w \in Workers, BeginSave(w) PROVE Fills(w, k) \/ Keeps(k)
  <2>1. /\ <<job[w].book, job[w].issue>> \in Books \X Issues
        /\ Does(w, "load") /\ Name(w) \in ThumbFiles
    BY <1>4, AtWork DEF BeginSave, Does
  <2>2. PICK new : new = Opened(thumb[Name(w)], w, <<job[w].book, job[w].issue>>)
    OBVIOUS
  <2>3. thumb' = [thumb EXCEPT ![Name(w)] = new]
    BY <1>4, <2>2 DEF BeginSave
  <2>4. /\ \A row \in new.of :
             \/ row = <<job[w].book, job[w].issue>>
             \/ thumb[Name(w)] # None /\ row \in thumb[Name(w)].of
        /\ new.torn => thumb[Name(w)] # None /\ thumb[Name(w)].torn
    BY <1>1, <2>1, <2>2, OpenedTypes
  <2>5. CASE Name(w) = k
    BY <1>1, <2>1, <2>3, <2>4, <2>5 DEF Fills, Keeps
  <2>6. CASE Name(w) # k
    BY <1>1, <2>1, <2>3, <2>6 DEF Fills, Keeps
  <2> QED BY <2>5, <2>6
<1>5. ASSUME NEW w \in Workers, EndSave(w) \/ FailSave(w) PROVE Fills(w, k) \/ Keeps(k)
  <2>1. Name(w) \in ThumbFiles
    BY <1>5, AtWork DEF EndSave, FailSave, Does
  <2>2. PICK torn \in BOOLEAN :
          /\ torn => faults' > 0
          /\ \/ thumb' = [thumb EXCEPT ![Name(w)] = None]
             \/ thumb' = [thumb EXCEPT ![Name(w)] = Closed(thumb[Name(w)], w, torn)]
    <3>1. CASE EndSave(w)
      BY <3>1 DEF EndSave
    <3>2. CASE FailSave(w)
      <4>1. faults' > 0
        BY <1>1, <3>2 DEF FailSave
      <4> QED BY <3>2, <4>1 DEF FailSave
    <3> QED BY <1>5, <3>1, <3>2
  <2>3. PICK new \in Jpeg \cup {None} :
          /\ thumb' = [thumb EXCEPT ![Name(w)] = new]
          /\ new # None => /\ thumb[Name(w)] # None /\ new.of = thumb[Name(w)].of
                           /\ new.torn => thumb[Name(w)].torn \/ faults' > 0
    BY <1>1, <2>1, <2>2, ClosedTypes
  <2> QED BY <1>1, <2>1, <2>3 DEF Fills, Keeps
<1>6. \/ OfCrash \/ thumb' = thumb
      \/ \E w \in Workers : BeginSave(w) \/ EndSave(w) \/ FailSave(w)
  BY NextStep
     DEF ClearErrors, OfShelf, ChangeFile, ChangeIssue, OfPass, Launch, BeginPass,
         ClearLog, FailCollect, Collect, EndPass, AskCover, LookAtThumb, FailLoad, TakeTask
<1> QED BY <1>2, <1>3, <1>4, <1>5, <1>6

LEMMA StepCovers == ASSUME CoverInv, [Next]_vars PROVE CoverInv'
<1>1. TypeInv /\ TypeInv'
  BY StepTypes DEF CoverInv
<1>2. CASE UNCHANGED vars
  BY <1>1, <1>2 DEF vars, CoverInv, Filled
<1>3. CASE Next
  <2> SUFFICES ASSUME NEW k \in ThumbFiles, thumb'[k] # None
               PROVE  /\ \A row \in thumb'[k].of : ThumbName(row[1], row[2]) = k
                      /\ thumb'[k].torn => faults' > 0
    BY <1>1 DEF CoverInv, Filled
  <2>1. faults' \in Nat /\ faults \in Nat /\ faults' >= faults
    BY <1>1, <1>3, FaultsOnlyGrow
  <2>2. thumb[k] # None => Filled(k)
    BY <1>1 DEF CoverInv
  <2>3. CASE Keeps(k)
    BY <2>1, <2>2, <2>3 DEF Keeps, Filled
  <2>4. ASSUME NEW w \in Workers, Fills(w, k)
        PROVE  /\ \A row \in thumb'[k].of : ThumbName(row[1], row[2]) = k
               /\ thumb'[k].torn => faults' > 0
    <3>1. ASSUME NEW row, row = <<job[w].book, job[w].issue>>
          PROVE  ThumbName(row[1], row[2]) = k
      <4>1. row[1] = job[w].book /\ row[2] = job[w].issue
        BY <3>1
      <4> QED BY <2>4, <4>1 DEF Fills, Name
    <3> QED BY <2>1, <2>2, <2>4, <3>1 DEF Fills, Filled
  <2> QED BY <1>1, <1>3, <2>3, <2>4, Written
<1> QED BY <1>2, <1>3

LEMMA CoversAlways == Spec => []CoverInv
<1>1. Init => CoverInv
  BY InitTypes DEF CoverInv, Init
<1>2. CoverInv /\ [Next]_vars => CoverInv'
  BY StepCovers
<1> QED BY <1>1, <1>2, PTL DEF Spec

(* A book is shown another book's cover only if their issues have the same *)
(* safe characters, however many threads save under one name at once and   *)
(* whatever fails or is indexed anew meanwhile; and only a failed save or  *)
(* a crash leaves a cover half written.                                    *)
THEOREM OnlyAlikeShare == Spec => []CoverSharedByName
<1>1. CoverInv => CoverSharedByName
  <2> SUFFICES ASSUME CoverInv PROVE CoverSharedByName
    OBVIOUS
  <2>1. ASSUME NEW b \in Books, thumb[ThumbName(b, Issue(b))] # None,
               NEW row \in thumb[ThumbName(b, Issue(b))].of
        PROVE  row[1] = b \/ Alike(row[2], Issue(b))
    <3>1. Issue(b) \in Issues /\ ThumbName(b, Issue(b)) \in ThumbFiles
      BY ShelfTyped, Named DEF CoverInv, TypeInv, TypeOK
    <3>2. row[1] \in Books /\ row[2] \in Issues
      BY <2>1, <3>1 DEF CoverInv, TypeInv, TypeOK, Jpeg
    <3>3. ThumbName(row[1], row[2]) = ThumbName(b, Issue(b))
      BY <2>1, <3>1 DEF CoverInv, Filled
    <3>4. \A i \in Issues : i # None => Safe[i] \notin Books
      BY SafeAssumption DEF Issues
    <3> QED BY <3>1, <3>2, <3>3, <3>4 DEF ThumbName, Alike
  <2>2. \A k \in ThumbFiles : thumb[k] # None /\ thumb[k].torn => faults > 0
    BY DEF CoverInv, Filled
  <2> QED BY <2>1, <2>2 DEF CoverSharedByName
<1> QED BY <1>1, CoversAlways, PTL

-------------------------------------------------------------------------------
(* What the error log owes to the books                                    *)

(* A pass that has begun, or has ended, has seen b as it is.               *)
Seen(b) == b \in due \/ \E p \in Passes : Begun(p) /\ b \in pass[p].fresh
Settled(b) == \/ thumb[ThumbName(b, Issue(b))] # None
              \/ b \in log \/ File(b) = "absent"
HasJob(p, b) == \E w \in Workers : /\ job[w].pass = p
                                   /\ job[w].book = b /\ job[w].issue = Issue(b)
Pending(p, b) ==
    \/ At(p, "clear") \/ At(p, "collect")
    \/ At(p, "work") /\ (<<b, Issue(b)>> \in pass[p].todo \/ HasJob(p, b))
Owed(b) == Seen(b) => Settled(b) \/ \E p \in Passes : Pending(p, b)

Tidy(w) == /\ Does(w, "idle") => job[w].pass = None
           /\ job[w].pass # None => At(job[w].pass, "work")
           /\ Does(w, "saving") => thumb[Name(w)] # None
LogInv == TypeInv /\ (faults = 0 => /\ \A w \in Workers : Tidy(w)
                                    /\ \A b \in Books : Owed(b))

LEMMA FirstLog == Init => LogInv
<1> SUFFICES ASSUME Init PROVE LogInv
  OBVIOUS
<1>1. \A w \in Workers : Tidy(w)
  BY DEF Init, Tidy, NoJob, Does
<1>2. \A b \in Books : Owed(b)
  BY DEF Init, Owed, Seen, Begun, NoPass
<1> QED BY <1>1, <1>2, InitTypes DEF LogInv

(* A change of a book, or of the log, takes back what was seen.            *)
LEMMA LogOfWorld ==
    ASSUME LogInv, faults' = 0, TypeInv', ClearErrors \/ OfShelf
    PROVE  LogInv'
<1>1. /\ thumb' = thumb /\ job' = job /\ faults = 0
      /\ pass \in [Passes -> Pass] /\ pass' \in [Passes -> Pass]
  BY DEF ClearErrors, OfShelf, ChangeFile, ChangeIssue, LogInv, TypeInv, TypeOK
<1>2. \A p \in Passes : pass'[p].pc = pass[p].pc /\ pass'[p].todo = pass[p].todo
  BY <1>1 DEF ClearErrors, OfShelf, ChangeFile, ChangeIssue, Pass
<1>3. \A w \in Workers : Tidy(w)'
  BY <1>1, <1>2 DEF LogInv, TypeInv, TypeOK, AtBook, Job, Tidy, Does, At, Name
<1>4. ASSUME NEW b \in Books PROVE Owed(b)'
  <2>1. CASE ClearErrors
    BY <1>1, <2>1 DEF ClearErrors, Pass, Owed, Seen
  <2>2. ASSUME NEW c \in Books, ChangeFile(c) \/ ChangeIssue(c) PROVE Owed(b)'
    <3>1. log' = log /\ (b \in due' => b \in due /\ b # c)
      BY <2>2 DEF ChangeFile, ChangeIssue
    <3>2. \A p \in Passes : b \in pass'[p].fresh => b \in pass[p].fresh /\ b # c
      BY <1>1, <2>2 DEF ChangeFile, ChangeIssue, Pass
    <3>3. Seen(b)' => Seen(b) /\ b # c
      BY <1>2, <3>1, <3>2 DEF Seen, Begun
    <3>4. b # c => File(b)' = File(b) /\ Issue(b)' = Issue(b)
      BY <2>2, ChangedShelf DEF LogInv, TypeInv, TypeOK
    <3>5. b # c /\ Settled(b) => Settled(b)'
      BY <1>1, <3>1, <3>4 DEF Settled
    <3>6. b # c => \A p \in Passes : Pending(p, b) => Pending(p, b)'
      BY <1>1, <1>2, <3>4 DEF Pending, At, HasJob
    <3> QED BY <1>1, <3>3, <3>5, <3>6 DEF LogInv, Owed
  <2> QED BY <2>1, <2>2 DEF OfShelf
<1> QED BY <1>3, <1>4 DEF LogInv

(* The steps of a pass: it clears the log before it takes all the books.   *)
LEMMA LogOfPass ==
    ASSUME LogInv, faults' = 0, TypeInv', NEW p \in Passes, OfPass(p), ~FailCollect(p)
    PROVE  LogInv'
<1>1. /\ thumb' = thumb /\ job' = job /\ shelf' = shelf /\ faults = 0
      /\ pass \in [Passes -> Pass] /\ pass' \in [Passes -> Pass]
  BY DEF OfPass, Launch, BeginPass, ClearLog, Collect, EndPass, LogInv, TypeInv, TypeOK
<1>2. \A b : Issue(b)' = Issue(b) /\ File(b)' = File(b)
  BY <1>1, SameBook
<1>3. \A q \in Passes \ {p} : /\ pass'[q].pc = pass[q].pc /\ pass'[q].todo = pass[q].todo
                              /\ pass'[q].fresh = pass[q].fresh
  <2>1. CASE BeginPass(p)
    <3> TAKE q \in Passes \ {p}
    <3>1. PICK alone : pass'[q] = [pass[q] EXCEPT !.alone = alone]
      BY <2>1 DEF BeginPass, Entered
    <3> QED BY <1>1, <3>1 DEF Pass
  <2>2. CASE ~BeginPass(p)
    BY <1>1, <2>2 DEF OfPass, Launch, ClearLog, Collect, EndPass
  <2> QED BY <2>1, <2>2
<1>4. \A w \in Workers : Tidy(w) /\ (job[w].pass = p => At(p, "work"))
  BY <1>1, ThumbsAssumption DEF LogInv, Tidy
<1>5. \A b \in Books : Owed(b)
  BY <1>1 DEF LogInv
<1>6. ASSUME NEW w \in Workers, job[w].pass = p PROVE At(p, "work")'
  <2>1. At(p, "work") /\ ~EndPass(p)
    BY <1>4, <1>6 DEF EndPass, AllDone
  <2>2. ~Launch(p) /\ ~BeginPass(p) /\ ~ClearLog(p) /\ ~Collect(p)
    BY <2>1 DEF Launch, BeginPass, Waits, ClearLog, Collect, At
  <2> QED BY <2>1, <2>2 DEF OfPass
<1>7. ASSUME NEW w \in Workers PROVE Tidy(w)'
  <2>1. job[w].pass # None => job[w].pass \in Passes /\ At(job[w].pass, "work")'
    BY <1>1, <1>3, <1>4, <1>6 DEF LogInv, TypeInv, TypeOK, Job, Tidy, At
  <2> QED BY <1>1, <1>4, <2>1 DEF Tidy, Does, Name, At
<1>8. ASSUME NEW b \in Books PROVE Owed(b)'
  <2>1. \A q \in Passes \ {p} : Pending(q, b) => Pending(q, b)'
    BY <1>1, <1>2, <1>3 DEF Pending, At, HasJob
  <2>2. CASE BeginPass(p) \/ ClearLog(p)
    <3>1. CASE BeginPass(p)
      BY <3>1 DEF BeginPass, Entered, NoPass, Owed, Pending, At
    <3>2. CASE ClearLog(p)
      BY <1>1, <3>2 DEF ClearLog, Pass, Owed, Pending, At
    <3> QED BY <2>2, <3>1, <3>2
  <2>3. CASE Collect(p)
    <3>1. PICK rows : rows = {<<c, Issue(c)>> : c \in Books}
      OBVIOUS
    <3>2. pass' = [pass EXCEPT ![p].pc = "work", ![p].todo = rows]
      BY <2>3, <3>1 DEF Collect
    <3>3. pass'[p].pc = "work" /\ pass'[p].todo = rows
      BY <1>1, <3>2 DEF Pass
    <3>4. <<b, Issue(b)>> \in rows
      BY <3>1
    <3> QED BY <1>2, <3>3, <3>4 DEF Owed, Pending, At
  <2>4. CASE Launch(p)
    <3>1. /\ log' = log /\ due' = due /\ pass[p].pc = "idle" /\ pass'[p].pc = "start"
      BY <1>1, <2>4 DEF Launch, At, Pass
    <3>2. Seen(b)' => Seen(b)
      BY <1>3, <3>1 DEF Seen, Begun
    <3>3. Settled(b) => Settled(b)'
      BY <1>1, <1>2, <3>1 DEF Settled
    <3>4. ~Pending(p, b)
      BY <3>1 DEF Pending, At
    <3> QED BY <1>5, <2>1, <3>2, <3>3, <3>4 DEF Owed
  <2>5. CASE EndPass(p)
    <3>1. /\ log' = log /\ due' = due \cup pass[p].fresh
          /\ pass[p].pc = "work" /\ pass'[p].pc = "idle"
      BY <1>1, <2>5 DEF EndPass, At, NoPass
    <3>2. Seen(b)' => Seen(b)
      BY <1>3, <3>1 DEF Seen, Begun
    <3>3. Settled(b) => Settled(b)'
      BY <1>1, <1>2, <3>1 DEF Settled
    <3>4. ~Pending(p, b)
      BY <2>5, <3>1 DEF Pending, At, EndPass, AllDone, HasJob
    <3> QED BY <1>5, <2>1, <3>2, <3>3, <3>4 DEF Owed
  <2> QED BY <2>2, <2>3, <2>4, <2>5 DEF OfPass
<1> QED BY <1>7, <1>8 DEF LogInv

(* Thread w goes on, or answers, and the book it had is settled then.      *)
JobMoves(w) ==
    /\ shelf' = shelf /\ pass' = pass /\ due' = due /\ log \subseteq log'
    /\ \A k \in ThumbFiles : thumb[k] # None => thumb'[k] # None
    /\ \A v \in Workers \ {w} : job'[v] = job[v]
    /\ \/ /\ job'[w] = NoJob
          /\ \A b \in Books : b = job[w].book /\ Issue(b) = job[w].issue => Settled(b)'
       \/ /\ job'[w].pass = job[w].pass /\ job'[w].book = job[w].book
          /\ job'[w].issue = job[w].issue /\ job'[w].pc # "idle"
          /\ job'[w].pc = "saving" => thumb'[Name(w)] # None

LEMMA LogOfMove ==
    ASSUME LogInv, faults' = 0, faults = 0, TypeInv', NEW w \in Workers, JobMoves(w)
    PROVE  LogInv'
<1>1. /\ \A b : Issue(b)' = Issue(b) /\ File(b)' = File(b)
      /\ \A v \in Workers : Tidy(v)
      /\ \A b \in Books : Owed(b)
  BY SameBook DEF JobMoves, LogInv
<1>2. ASSUME NEW b \in Books PROVE ThumbName(b, Issue(b)) \in ThumbFiles
  BY ShelfTyped, Named DEF LogInv, TypeInv, TypeOK
<1>3. ASSUME NEW v \in Workers PROVE Tidy(v)'
  <2>1. CASE v = w
    BY <1>1, <2>1 DEF JobMoves, Tidy, NoJob, Does, At, Name
  <2>2. CASE v # w
    <3>1. job'[v] = job[v]
      BY <2>2 DEF JobMoves
    <3>2. Does(v, "saving") => Name(v) \in ThumbFiles /\ Name(v)' = Name(v)
      BY <3>1, AtWork DEF LogInv, Does, Name
    <3> QED BY <1>1, <3>1, <3>2 DEF JobMoves, Tidy, Does, At
  <2> QED BY <2>1, <2>2
<1>4. ASSUME NEW b \in Books PROVE Owed(b)'
  <2>1. Seen(b)' => Seen(b)
    BY DEF JobMoves, Seen, Begun
  <2>2. Settled(b) => Settled(b)'
    BY <1>1, <1>2 DEF JobMoves, Settled
  <2>3. ASSUME NEW p \in Passes, Pending(p, b)
        PROVE  Settled(b)' \/ Pending(p, b)'
    <3>1. CASE At(p, "clear") \/ At(p, "collect")
      BY <3>1 DEF JobMoves, Pending, At
    <3>2. CASE At(p, "work") /\ <<b, Issue(b)>> \in pass[p].todo
      BY <1>1, <3>2 DEF JobMoves, Pending, At
    <3>3. CASE At(p, "work") /\ HasJob(p, b)
      <4>1. PICK v \in Workers :
              job[v].pass = p /\ job[v].book = b /\ job[v].issue = Issue(b)
        BY <3>3 DEF HasJob
      <4>2. CASE v = w /\ job'[w] = NoJob
        BY <4>1, <4>2, NothingType DEF JobMoves, NoJob
      <4>3. CASE job'[v].pass = p /\ job'[v].book = b /\ job'[v].issue = Issue(b)
        BY <1>1, <3>3, <4>3 DEF JobMoves, Pending, At, HasJob
      <4> QED BY <4>1, <4>2, <4>3 DEF JobMoves
    <3> QED BY <2>3, <3>1, <3>2, <3>3 DEF Pending
  <2> QED BY <1>1, <2>1, <2>2, <2>3 DEF Owed
<1> QED BY <1>3, <1>4 DEF LogInv

LEMMA MovesOfJobs ==
    ASSUME LogInv, faults = 0, NEW w \in Workers, StepOfJob(w)
    PROVE  JobMoves(w)
<1>1. /\ job[w].book \in Books /\ Name(w) \in ThumbFiles
      /\ <<job[w].book, job[w].issue>> \in Books \X Issues
      /\ thumb \in [ThumbFiles -> Jpeg \cup {None}] /\ job \in [Workers -> Job]
      /\ Tidy(w) /\ NoJob.pc = "idle"
  <2>1. job[w].pc # "idle"
    BY DEF StepOfJob, Does, LookAtThumb, FailLoad, BeginSave, EndSave
  <2> QED BY <2>1, AtWork, NothingType DEF LogInv
<1>2. /\ shelf' = shelf
      /\ \A b \in Books : b = job[w].book /\ Issue(b) = job[w].issue =>
           /\ ThumbName(b, Issue(b))' = Name(w) /\ File(b)' = File(b)
           /\ File(b) = File(job[w].book)
  BY SameBook DEF StepOfJob, LookAtThumb, FailLoad, BeginSave, EndSave, Name
<1>3. CASE LookAtThumb(w)
  <2>1. CASE Finish(w) /\ (File(job[w].book) = "absent" \/ There(w))
    BY <1>1, <1>2, <1>3, <2>1 DEF LookAtThumb, Finish, There, JobMoves, Settled
  <2>2. CASE job' = [job EXCEPT ![w].pc = "load"]
    BY <1>1, <1>2, <1>3, <2>2 DEF LookAtThumb, JobMoves, Job
  <2> QED BY <1>3, <2>1, <2>2 DEF LookAtThumb
<1>4. CASE FailLoad(w)
  BY <1>1, <1>2, <1>4 DEF FailLoad, LogThumbError, Finish, JobMoves, Settled
<1>5. CASE BeginSave(w)
  <2>1. Opened(thumb[Name(w)], w, <<job[w].book, job[w].issue>>) # None
    BY <1>1, OpenedTypes, NoThumbAssumption
  <2>2. \A k \in ThumbFiles : thumb'[k] = None => thumb[k] = None /\ k # Name(w)
    BY <1>1, <1>5, <2>1 DEF BeginSave
  <2>3. /\ job'[w].pass = job[w].pass /\ job'[w].book = job[w].book
        /\ job'[w].issue = job[w].issue
        /\ job'[w].pc = "saving" /\ \A v \in Workers \ {w} : job'[v] = job[v]
    BY <1>1, <1>5 DEF BeginSave, Job
  <2>4. Name(w)' = Name(w)
    BY <2>3 DEF Name
  <2> QED BY <1>1, <1>2, <1>5, <2>2, <2>3, <2>4 DEF BeginSave, JobMoves
<1>6. CASE EndSave(w)
  <2>1. thumb[Name(w)] # None /\ Closed(thumb[Name(w)], w, FALSE) \in Jpeg
    BY <1>1, <1>6, ClosedJpeg DEF EndSave, Tidy
  <2> QED BY <1>1, <1>2, <1>6, <2>1, NoThumbAssumption DEF EndSave, Finish, JobMoves, Settled
<1> QED BY <1>3, <1>4, <1>5, <1>6 DEF StepOfJob


(* Thread w takes a book up.                                               *)
TakesUp(w) ==
    /\ \A v \in Workers \ {w} : job'[v] = job[v]
    /\ job'[w].pc = "look" /\ job'[w].pass \in Passes \cup {None}
    /\ \A q \in Passes : /\ job'[w].pass = q => At(q, "work")
                         /\ pass'[q].pc = pass[q].pc /\ pass'[q].fresh = pass[q].fresh
                         /\ \A row \in pass[q].todo \ pass'[q].todo :
                              /\ job'[w].pass = q
                              /\ job'[w].book = row[1] /\ job'[w].issue = row[2]

LEMMA LogOfTask ==
    ASSUME LogInv, faults' = 0, TypeInv', NEW w \in Workers,
           AskCover(w) \/ \E p \in Passes : TakeTask(w, p)
    PROVE  LogInv'
<1>1. /\ thumb' = thumb /\ log' = log /\ shelf' = shelf /\ due' = due /\ faults = 0
      /\ job \in [Workers -> Job] /\ pass \in [Passes -> Pass]
      /\ \A v \in Workers : Tidy(v) /\ \A b \in Books : Owed(b)
  BY DEF AskCover, TakeTask, LogInv, TypeInv, TypeOK
<1>2. /\ \A b : Issue(b)' = Issue(b) /\ File(b)' = File(b)
      /\ job[w].pass = None /\ None \notin Passes
  BY <1>1, SameBook, ThumbsAssumption DEF AskCover, TakeTask, Tidy
<1>3. TakesUp(w)
  <2>1. CASE AskCover(w)
    <3>1. PICK b \in Books :
            job' = [job EXCEPT ![w] = [pc |-> "look", book |-> b,
                                       issue |-> Issue(b), pass |-> None]]
      BY <2>1 DEF AskCover
    <3> QED BY <1>1, <1>2, <2>1, <3>1 DEF AskCover, TakesUp
  <2>2. ASSUME NEW p \in Passes, TakeTask(w, p) PROVE TakesUp(w)
    <3>1. PICK row \in pass[p].todo :
            /\ pass' = [pass EXCEPT ![p].todo = @ \ {row}]
            /\ job' = [job EXCEPT ![w] = [pc |-> "look", book |-> row[1],
                                          issue |-> row[2], pass |-> p]]
      BY <2>2 DEF TakeTask
    <3>2. \A q \in Passes : /\ pass'[q].pc = pass[q].pc /\ pass'[q].fresh = pass[q].fresh
                            /\ pass[q].todo \ pass'[q].todo \subseteq {row}
                            /\ q # p => pass'[q] = pass[q]
      BY <1>1, <3>1 DEF Pass
    <3> QED BY <1>1, <2>2, <3>1, <3>2 DEF TakeTask, TakesUp
  <2> QED BY <2>1, <2>2
<1>4. ASSUME NEW v \in Workers PROVE Tidy(v)'
  <2>1. CASE v = w
    <3>1. job'[v].pass # None => At(job[v].pass, "work")'
      BY <1>3, <2>1 DEF TakesUp, At
    <3> QED BY <1>3, <2>1, <3>1 DEF TakesUp, Tidy, Does
  <2>2. CASE v # w
    <3>1. job'[v] = job[v] /\ job[v].pass \in Passes \cup {None} /\ Tidy(v)
      BY <1>1, <1>3, <2>2 DEF TakesUp, Job
    <3>2. job'[v].pass # None => At(job[v].pass, "work")'
      BY <1>3, <3>1 DEF TakesUp, Tidy, At
    <3>3. Name(v)' = Name(v)
      BY <3>1 DEF Name
    <3> QED BY <1>1, <3>1, <3>2, <3>3 DEF Tidy, Does
  <2> QED BY <2>1, <2>2
<1>5. ASSUME NEW b \in Books PROVE Owed(b)'
  <2>1. (Seen(b)' => Seen(b)) /\ (Settled(b) => Settled(b)')
    BY <1>1, <1>2, <1>3 DEF TakesUp, Seen, Settled, Begun
  <2>2. ASSUME NEW q \in Passes, Pending(q, b) PROVE Pending(q, b)'
    <3>1. HasJob(q, b) => HasJob(q, b)'
      BY <1>2, <1>3 DEF TakesUp, HasJob
    <3>2. ASSUME NEW row, row = <<b, Issue(b)>>, row \in pass[q].todo
          PROVE  row \in pass'[q].todo \/ HasJob(q, b)'
      <4>1. row[1] = b /\ row[2] = Issue(b)
        BY <3>2
      <4> QED BY <1>2, <1>3, <3>2, <4>1 DEF TakesUp, HasJob
    <3> QED BY <1>2, <1>3, <2>2, <3>1, <3>2 DEF TakesUp, Pending, At
  <2> QED BY <1>1, <2>1, <2>2 DEF Owed
<1> QED BY <1>4, <1>5 DEF LogInv

LEMMA StepLog == ASSUME LogInv, [Next]_vars PROVE LogInv'
<1>1. TypeInv /\ TypeInv'
  BY StepTypes DEF LogInv
<1>2. CASE UNCHANGED vars
  BY ZenonT(60), <1>1, <1>2 DEF vars, LogInv, Tidy, Owed, Seen, Settled, Pending, HasJob, At, Does,
                    Begun, Name, Issue, File
<1>3. CASE Next
  <2> SUFFICES ASSUME faults' = 0 PROVE LogInv'
    BY <1>1 DEF LogInv
  <2>1. faults = 0
    BY <1>1, <1>3, FaultsOnlyGrow
  <2>2. ~OfCrash /\ (\A p : ~FailCollect(p)) /\ \A w : ~FailSave(w)
    BY <2>1 DEF OfCrash, Crash, CrashCron, Killed, FailCollect, FailSave
  <2> QED
    BY <1>1, <1>3, <2>1, <2>2, NextStep, LogOfWorld, LogOfPass, LogOfTask, LogOfMove,
       MovesOfJobs DEF StepOfJob
<1> QED BY <1>2, <1>3

(* Whenever no pass is under way, a book that a pass saw as it is now has  *)
(* a thumbnail or a line in the error log, although every pass removes the *)
(* log of those it overlaps.                                               *)
THEOREM NoBookForgotten == Spec => []Accounted
<1>1. LogInv => Accounted
  BY DEF LogInv, Accounted, Owed, Seen, Settled, Pending, At, Begun, TypeInv, TypeOK
<1>2. LogInv /\ [Next]_vars => LogInv'
  BY StepLog
<1> QED BY <1>1, <1>2, FirstLog, PTL DEF Spec

-------------------------------------------------------------------------------
(* The progress that a pass reports                                        *)

Tasks(p) == {w \in Workers : job[w].pass = p}

(* A pass of the server that no other one of it overlaps counts every      *)
(* book: those that are done, those that no thread has taken up, and those *)
(* that one is at work on.                                                 *)
Counts(p) ==
    /\ ~pass[p].cron
    /\ \A q \in Passes \ {p} : Begun(q) => pass[q].cron
    /\ At(p, "clear") \/ At(p, "collect") => status.done = 0
    /\ At(p, "work") =>
         /\ status.total = Cardinality(Books)
         /\ status.done + Cardinality(pass[p].todo) + Cardinality(Tasks(p))
              = Cardinality(Books)

Employed(w) == /\ Does(w, "idle") => job[w].pass = None
               /\ job[w].pass # None => At(job[w].pass, "work")

CountInv == /\ TypeInv
            /\ \A w \in Workers : Employed(w)
            /\ \A p \in Passes : /\ IsFiniteSet(pass[p].todo)
                                 /\ Begun(p) /\ pass[p].alone => Counts(p)

(* A step of a thread or of the world that ends no job of a pass.          *)
LEMMA CountsKept ==
    ASSUME CountInv, TypeInv', status' = status, \A w \in Workers : Employed(w)',
           \A w \in Workers : job'[w].pass = job[w].pass,
           \A p \in Passes : /\ pass'[p].pc = pass[p].pc /\ pass'[p].todo = pass[p].todo
                             /\ pass'[p].alone = pass[p].alone
                             /\ pass'[p].cron = pass[p].cron
    PROVE  CountInv'
<1>1. \A p \in Passes : Tasks(p)' = Tasks(p)
  BY DEF Tasks
<1> QED BY <1>1 DEF CountInv, Counts, Begun, At

LEMMA FinishCounts ==
    ASSUME CountInv, TypeInv', NEW w \in Workers, ~Does(w, "idle"), Finish(w), pass' = pass
    PROVE  CountInv'
<1>1. /\ job \in [Workers -> Job] /\ job' = [job EXCEPT ![w] = NoJob]
      /\ NoJob.pc = "idle" /\ NoJob.pass = None /\ None \notin Passes
      /\ IsFiniteSet(Workers)
      /\ \A v \in Workers : Employed(v)
  BY NothingType, ThumbsAssumption DEF CountInv, TypeInv, TypeOK, Finish
<1>2. \A v \in Workers : Employed(v)'
  BY <1>1 DEF Employed, Does, At
<1>3. ASSUME NEW p \in Passes, Begun(p)', pass'[p].alone PROVE Counts(p)'
  <2>1. Counts(p)
    BY <1>3 DEF CountInv, Begun
  <2>2. ~pass'[p].cron /\ \A q \in Passes \ {p} : Begun(q)' => pass'[q].cron
    BY <2>1 DEF Counts, Begun
  <2>3. CASE job[w].pass # p
    <3>1. job[w].pass = None \/ OfCron(w)
      BY <1>1, <2>1, <2>3
         DEF Counts, Employed, Begun, At, OfCron, CountInv, TypeInv, TypeOK, Job
    <3>2. status' = status /\ Tasks(p)' = Tasks(p)
      BY <1>1, <2>3, <3>1 DEF Finish, Tasks
    <3> QED BY <2>1, <2>2, <3>2 DEF Counts, At
  <2>4. CASE job[w].pass = p
    <3>1. /\ job[w].pass # None /\ ~OfCron(w)
          /\ At(p, "work") /\ At(p, "work")'
      BY <1>1, <2>1, <2>4 DEF Counts, Employed, At, OfCron
    <3>2. w \in Tasks(p) /\ Tasks(p)' = Tasks(p) \ {w} /\ IsFiniteSet(Tasks(p))
      BY <1>1, <2>4, FS_Subset DEF Tasks
    <3>3. /\ Cardinality(Tasks(p)') = Cardinality(Tasks(p)) - 1
          /\ Cardinality(Tasks(p)) \in Nat
      BY <3>2, FS_RemoveElement, FS_CardinalityType
    <3>4. /\ status'.done = status.done + 1 /\ status'.total = status.total
          /\ status.done \in Nat
      BY <3>1 DEF Finish, CountInv, TypeInv, TypeOK
    <3>5. Cardinality(Books) \in Nat /\ Cardinality(pass[p].todo) \in Nat
      BY ThumbsAssumption, FS_CardinalityType DEF CountInv
    <3>6. /\ status.done + Cardinality(pass[p].todo) + Cardinality(Tasks(p))
               = Cardinality(Books)
          /\ status.total = Cardinality(Books)
      BY <2>1, <3>1 DEF Counts
    <3>7. status'.done + Cardinality(pass'[p].todo) + Cardinality(Tasks(p)')
            = Cardinality(Books)
      BY <3>3, <3>4, <3>5, <3>6
    <3>8. ~At(p, "clear")' /\ ~At(p, "collect")'
      BY <3>1 DEF At
    <3> QED BY <2>2, <3>4, <3>6, <3>7, <3>8 DEF Counts
  <2> QED BY <2>3, <2>4
<1> QED BY <1>2, <1>3 DEF CountInv

LEMMA TakeCounts ==
    ASSUME CountInv, TypeInv', NEW w \in Workers, NEW p \in Passes, TakeTask(w, p)
    PROVE  CountInv'
<1>1. PICK row \in pass[p].todo :
        /\ pass' = [pass EXCEPT ![p].todo = @ \ {row}]
        /\ job' = [job EXCEPT ![w] = [pc |-> "look", book |-> row[1],
                                      issue |-> row[2], pass |-> p]]
  BY DEF TakeTask
<1>2. /\ job \in [Workers -> Job] /\ pass \in [Passes -> Pass] /\ At(p, "work")
      /\ status' = status /\ None \notin Passes /\ job[w].pass = None
      /\ \A v \in Workers : Employed(v)
      /\ IsFiniteSet(Workers) /\ \A q \in Passes : IsFiniteSet(pass[q].todo)
  BY ThumbsAssumption DEF CountInv, TypeInv, TypeOK, TakeTask, Employed
<1>3. /\ \A q \in Passes : /\ pass'[q].pc = pass[q].pc /\ pass'[q].alone = pass[q].alone
                           /\ pass'[q].cron = pass[q].cron
                           /\ q # p => pass'[q] = pass[q]
      /\ pass'[p].todo = pass[p].todo \ {row}
  BY <1>1, <1>2 DEF Pass
<1>4. \A v \in Workers : Employed(v)'
  BY <1>1, <1>2, <1>3 DEF Employed, Does, At, CountInv, TypeInv, TypeOK, Job
<1>5. \A q \in Passes : IsFiniteSet(pass'[q].todo)
  BY <1>2, <1>3, FS_RemoveElement
<1>6. ASSUME NEW q \in Passes, Begun(q)', pass'[q].alone PROVE Counts(q)'
  <2>1. /\ Counts(q) /\ ~pass'[q].cron
        /\ \A o \in Passes \ {q} : Begun(o)' => pass'[o].cron
    BY <1>3, <1>6 DEF CountInv, Counts, Begun
  <2>2. CASE q = p
    <3>1. w \notin Tasks(p) /\ Tasks(p)' = Tasks(p) \cup {w} /\ IsFiniteSet(Tasks(p))
      BY <1>1, <1>2, FS_Subset DEF Tasks
    <3>2. /\ Cardinality(Tasks(p)') = Cardinality(Tasks(p)) + 1
          /\ Cardinality(Tasks(p)) \in Nat
      BY <3>1, FS_AddElement, FS_CardinalityType
    <3>3. /\ Cardinality(pass'[p].todo) = Cardinality(pass[p].todo) - 1
          /\ Cardinality(pass[p].todo) \in Nat
      <4>1. IsFiniteSet(pass[p].todo)
        BY <1>2
      <4> QED BY <1>3, <4>1, FS_RemoveElement, FS_CardinalityType
    <3>4. status.done \in Nat
      BY DEF CountInv, TypeInv, TypeOK
    <3>5. /\ status.done + Cardinality(pass[p].todo) + Cardinality(Tasks(p))
               = Cardinality(Books)
          /\ status.total = Cardinality(Books)
      BY <1>2, <2>1, <2>2 DEF Counts
    <3>6. status'.done + Cardinality(pass'[p].todo) + Cardinality(Tasks(p)')
            = Cardinality(Books)
      BY <1>2, <3>2, <3>3, <3>4, <3>5
    <3>7. ~At(p, "clear")' /\ ~At(p, "collect")'
      BY <1>2, <1>3 DEF At
    <3> QED BY <1>2, <2>1, <2>2, <3>5, <3>6, <3>7 DEF Counts
  <2>3. CASE q # p
    <3>1. Tasks(q)' = Tasks(q) /\ pass'[q] = pass[q]
      BY <1>1, <1>2, <1>3, <2>3 DEF Tasks
    <3> QED BY <1>2, <2>1, <3>1 DEF Counts, At
  <2> QED BY <2>2, <2>3
<1> QED BY <1>4, <1>5, <1>6 DEF CountInv

(* There are as many rows as books.                                        *)
LEMMA RowsOfBooks ==
    ASSUME NEW rows, rows = {<<b, Issue(b)>> : b \in Books}
    PROVE  IsFiniteSet(rows) /\ Cardinality(rows) = Cardinality(Books)
<1> DEFINE f == [b \in Books |-> <<b, Issue(b)>>]
<1>1. f \in Bijection(Books, rows)
  <2>1. f \in [Books -> rows]
    OBVIOUS
  <2>2. ASSUME NEW a \in Books, NEW b \in Books, f[a] = f[b] PROVE a = b
    BY <2>2
  <2>3. ASSUME NEW row \in rows PROVE \E b \in Books : f[b] = row
    OBVIOUS
  <2> HIDE DEF f
  <2> QED BY <2>1, <2>2, <2>3, Fun_IsBij
<1>2. ExistsBijection(Books, rows)
  BY <1>1 DEF ExistsBijection
<1> QED BY <1>2, ThumbsAssumption, FS_Bijection

LEMMA PassCounts ==
    ASSUME CountInv, TypeInv', NEW p \in Passes, OfPass(p)
    PROVE  CountInv'
<1>1. /\ job' = job /\ job \in [Workers -> Job] /\ pass \in [Passes -> Pass]
      /\ None \notin Passes /\ \A w \in Workers : Employed(w)
      /\ \A q \in Passes : IsFiniteSet(pass[q].todo)
  BY ThumbsAssumption
     DEF CountInv, TypeInv, TypeOK, OfPass, Launch, BeginPass, ClearLog, FailCollect,
         Collect, EndPass
<1>2. \A q \in Passes \ {p} :
        /\ pass'[q].pc = pass[q].pc /\ pass'[q].todo = pass[q].todo
        /\ pass'[q].cron = pass[q].cron
        /\ pass'[q].alone => pass[q].alone
        /\ BeginPass(p) /\ Begun(q) /\ pass'[q].alone =>
             pass'[p].cron /\ status' = status
  <2> TAKE q \in Passes \ {p}
  <2>1. CASE BeginPass(p)
    <3>1. PICK cron \in BOOLEAN : Entered(p, cron) /\ (cron => status' = status)
      BY <2>1 DEF BeginPass
    <3>2. pass'[q] = [pass[q] EXCEPT !.alone = pass[q].alone /\ (Begun(q) => cron)]
      BY <3>1 DEF Entered
    <3>3. pass'[p].cron = cron
      BY <3>1 DEF Entered, NoPass
    <3> QED BY <1>1, <3>1, <3>2, <3>3 DEF Pass
  <2>2. CASE ~BeginPass(p)
    BY <1>1, <2>2 DEF OfPass, Launch, ClearLog, FailCollect, Collect, EndPass
  <2> QED BY <2>1, <2>2
<1>3. ASSUME NEW w \in Workers, job[w].pass = p PROVE At(p, "work") /\ At(p, "work")'
  <2>1. At(p, "work") /\ ~EndPass(p)
    BY <1>1, <1>3 DEF Employed, EndPass, AllDone
  <2> QED BY <2>1 DEF OfPass, Launch, BeginPass, Waits, ClearLog, FailCollect, Collect, At
<1>4. \A w \in Workers : Employed(w)'
  BY <1>1, <1>2, <1>3 DEF Employed, Does, At, CountInv, TypeInv, TypeOK, Job
<1>5. IsFiniteSet(pass'[p].todo)
  <2>1. CASE Collect(p)
    <3>1. PICK rows : rows = {<<b, Issue(b)>> : b \in Books}
      OBVIOUS
    <3>2. pass' = [pass EXCEPT ![p].pc = "work", ![p].todo = rows]
      BY <2>1, <3>1 DEF Collect
    <3>3. pass'[p].todo = rows
      BY <1>1, <3>2 DEF Pass
    <3> QED BY <3>1, <3>3, RowsOfBooks
  <2>2. CASE ~Collect(p)
    <3>1. pass'[p].todo = {} \/ pass'[p].todo = pass[p].todo
      <4>1. CASE BeginPass(p)
        BY <4>1 DEF BeginPass, Entered, NoPass
      <4>2. CASE Launch(p) \/ ClearLog(p)
        BY <1>1, <4>2 DEF Launch, ClearLog, Pass
      <4>3. CASE FailCollect(p) \/ EndPass(p)
        BY <1>1, <4>3 DEF FailCollect, EndPass, NoPass
      <4> QED BY <2>2, <4>1, <4>2, <4>3 DEF OfPass
    <3> QED BY <1>1, <3>1, FS_EmptySet
  <2> QED BY <2>1, <2>2
<1>6. ASSUME NEW q \in Passes \ {p}, Begun(q)', pass'[q].alone PROVE Counts(q)'
  <2>1. Counts(q) /\ Begun(q) /\ (Begun(p) => pass[p].cron)
    BY <1>2, <1>6 DEF CountInv, Counts, Begun
  <2>2. status' = status /\ (Begun(p)' => pass'[p].cron)
    <3>1. CASE BeginPass(p)
      BY <1>2, <1>6, <2>1, <3>1
    <3>2. CASE Launch(p)
      BY <1>1, <3>2 DEF Launch, Begun, Pass
    <3>3. CASE ClearLog(p) \/ FailCollect(p) \/ Collect(p) \/ EndPass(p)
      <4>1. pass[p].cron
        BY <2>1, <3>3 DEF ClearLog, FailCollect, Collect, EndPass, At, Begun
      <4>2. status' = status
        BY <3>3, <4>1 DEF ClearLog, FailCollect, Collect, EndPass, Sets
      <4>3. pass'[p].cron = pass[p].cron \/ ~Begun(p)'
        BY <1>1, <3>3 DEF ClearLog, FailCollect, Collect, EndPass, Begun, NoPass, Pass
      <4> QED BY <4>1, <4>2, <4>3
    <3> QED BY <3>1, <3>2, <3>3 DEF OfPass
  <2>3. /\ ~pass'[q].cron
        /\ \A o \in Passes \ {q} : Begun(o)' => pass'[o].cron
    BY <1>2, <2>1, <2>2 DEF Counts, Begun
  <2>4. Tasks(q)' = Tasks(q)
    BY <1>1 DEF Tasks
  <2> QED BY <1>2, <2>1, <2>2, <2>3, <2>4 DEF Counts, At
<1>7. ASSUME Begun(p)', pass'[p].alone PROVE Counts(p)'
  <2>1. CASE BeginPass(p)
    <3>1. PICK cron \in BOOLEAN :
            /\ Entered(p, cron)
            /\ cron \/ status' = [running |-> TRUE, total |-> 0, done |-> 0]
      BY <2>1 DEF BeginPass
    <3>2. /\ pass'[p].pc = "clear" /\ pass'[p].cron = cron
          /\ pass'[p].alone =
               (~cron /\ \A o \in Passes \ {p} : Begun(o) => pass[o].cron)
      BY <3>1 DEF Entered, NoPass
    <3>3. \A o \in Passes \ {p} : Begun(o)' => pass'[o].cron
      BY <1>2, <1>7, <3>2 DEF Begun
    <3>4. ~cron
      BY <1>7, <3>2
    <3>5. ~pass'[p].cron /\ status'.done = 0
      BY <3>1, <3>2, <3>4
    <3>6. ~At(p, "work")'
      BY <3>2 DEF At
    <3> QED BY <3>3, <3>5, <3>6 DEF Counts
  <2>2. CASE ClearLog(p) \/ Collect(p)
    <3>1. /\ pass'[p].alone = pass[p].alone /\ pass'[p].cron = pass[p].cron /\ Begun(p)
          /\ At(p, "clear") \/ At(p, "collect")
      BY <1>1, <2>2 DEF ClearLog, Collect, Pass, Begun, At
    <3>2. Counts(p) /\ status.done = 0 /\ ~pass[p].cron
      BY <1>7, <3>1 DEF CountInv, Counts
    <3>3. ~pass'[p].cron /\ \A o \in Passes \ {p} : Begun(o)' => pass'[o].cron
      BY <1>2, <3>1, <3>2 DEF Counts, Begun
    <3>4. CASE ClearLog(p)
      <4>1. pass'[p].pc = "collect" /\ status' = status
        BY <1>1, <3>4 DEF ClearLog, Pass
      <4> QED BY <3>2, <3>3, <4>1 DEF Counts, At
    <3>5. CASE Collect(p)
      <4>1. PICK rows : rows = {<<b, Issue(b)>> : b \in Books}
        OBVIOUS
      <4>2. pass' = [pass EXCEPT ![p].pc = "work", ![p].todo = rows]
        BY <3>5, <4>1 DEF Collect
      <4>3. pass'[p].pc = "work" /\ pass'[p].todo = rows
        BY <1>1, <4>2 DEF Pass
      <4>4. status'.done = 0 /\ status'.total = Cardinality(Books)
        BY <3>2, <3>5 DEF Collect, Sets, CountInv, TypeInv, TypeOK
      <4>5. Cardinality(Tasks(p)') = 0
        <5>1. Tasks(p)' = {}
          BY <1>1, <1>3, <3>1 DEF Tasks, At
        <5> QED BY <5>1, FS_EmptySet
      <4>6. Cardinality(pass'[p].todo) = Cardinality(Books) /\ Cardinality(Books) \in Nat
        BY <4>1, <4>3, RowsOfBooks, ThumbsAssumption, FS_CardinalityType
      <4>7. status'.done + Cardinality(pass'[p].todo) + Cardinality(Tasks(p)')
              = Cardinality(Books)
        BY <4>4, <4>5, <4>6
      <4>8. ~At(p, "clear")' /\ ~At(p, "collect")'
        BY <4>3 DEF At
      <4> QED BY <3>3, <4>4, <4>7, <4>8 DEF Counts
    <3> QED BY <2>2, <3>4, <3>5
  <2>3. CASE Launch(p) \/ FailCollect(p) \/ EndPass(p)
    BY <1>1, <1>7, <2>3 DEF Launch, FailCollect, EndPass, NoPass, Begun, Pass
  <2> QED BY <2>1, <2>2, <2>3 DEF OfPass
<1> QED BY <1>1, <1>2, <1>4, <1>5, <1>6, <1>7 DEF CountInv

(* A process that dies takes with it the passes that it ran, all of the    *)
(* server's or one of cron's, and their threads.                           *)
LEMMA CrashCounts == ASSUME CountInv, TypeInv', OfCrash PROVE CountInv'
<1>1. /\ \A w \in Workers : Employed(w)
      /\ job \in [Workers -> Job] /\ pass \in [Passes -> Pass] /\ None \notin Passes
      /\ NoPass.pc = "idle" /\ NoPass.todo = {} /\ NoJob.pc = "idle" /\ NoJob.pass = None
  BY ThumbsAssumption, NothingType DEF CountInv, TypeInv, TypeOK, NoPass
<1>2. CASE Crash
  <2>1. \A w \in Workers : job'[w] = NoJob \/ (job'[w] = job[w] /\ OfCron(w))
    BY <1>2 DEF Crash, Killed
  <2>2. \A p \in Passes : pass'[p] = NoPass \/ (pass'[p] = pass[p] /\ pass[p].cron)
    BY <1>2 DEF Crash
  <2>3. \A w \in Workers : Employed(w)'
    <3> TAKE w \in Workers
    <3>1. CASE job'[w] = NoJob
      BY <1>1, <3>1 DEF Employed
    <3>2. CASE job'[w] = job[w] /\ OfCron(w)
      <4>1. job[w].pass \in Passes /\ pass[job[w].pass].cron
        BY <1>1, <3>2 DEF OfCron, Job
      <4>2. pass'[job[w].pass] = pass[job[w].pass]
        BY <1>2, <4>1 DEF Crash
      <4> QED BY <1>1, <3>2, <4>2 DEF Employed, Does, At
    <3> QED BY <2>1, <3>1, <3>2
  <2>4. \A p \in Passes : IsFiniteSet(pass'[p].todo)
    BY <1>1, <2>2, FS_EmptySet DEF CountInv
  <2>5. \A p \in Passes : ~(Begun(p)' /\ pass'[p].alone)
    BY <1>1, <2>2 DEF Begun, CountInv, Counts
  <2> QED BY <2>3, <2>4, <2>5 DEF CountInv
<1>3. ASSUME NEW c \in Passes, CrashCron(c) PROVE CountInv'
  <2>1. /\ \A w \in Workers : IF job[w].pass = c THEN job'[w] = NoJob ELSE job'[w] = job[w]
        /\ status' = status /\ pass[c].cron
    BY <1>3 DEF CrashCron, Killed
  <2>2. pass'[c] = NoPass /\ \A p \in Passes \ {c} : pass'[p] = pass[p]
    BY <1>1, <1>3 DEF CrashCron
  <2>3. \A w \in Workers : Employed(w)'
    <3> TAKE w \in Workers
    <3>1. CASE job[w].pass = c
      BY <1>1, <2>1, <3>1 DEF Employed
    <3>2. CASE job[w].pass # c
      BY <1>1, <2>1, <2>2, <3>2 DEF Employed, Does, At, Job
    <3> QED BY <3>1, <3>2
  <2>4. \A p \in Passes : IsFiniteSet(pass'[p].todo)
    BY <1>1, <2>2, FS_EmptySet DEF CountInv
  <2>5. ASSUME NEW p \in Passes, Begun(p)', pass'[p].alone PROVE Counts(p)'
    <3>1. p # c /\ pass'[p] = pass[p]
      BY <1>1, <2>2, <2>5 DEF Begun
    <3>2. Counts(p)
      BY <2>5, <3>1 DEF CountInv, Begun
    <3>3. Tasks(p)' = Tasks(p)
      BY <1>1, <2>1, <3>1 DEF Tasks
    <3>4. \A q \in Passes \ {p} : Begun(q)' => pass'[q].cron
      BY <1>1, <2>2, <3>2 DEF Counts, Begun
    <3> QED BY <2>1, <3>1, <3>2, <3>3, <3>4 DEF Counts, At
  <2> QED BY <2>3, <2>4, <2>5 DEF CountInv
<1> QED BY <1>2, <1>3 DEF OfCrash

LEMMA StepCounts == ASSUME CountInv, [Next]_vars PROVE CountInv'
<1>1. TypeInv /\ TypeInv'
  BY StepTypes DEF CountInv
<1>2. CASE UNCHANGED vars
  BY <1>1, <1>2, CountsKept DEF vars, CountInv, Employed, Does, At
<1>3. CASE OfCrash
  BY <1>1, <1>3, CrashCounts
<1>4. CASE ClearErrors \/ OfShelf
  <2>1. status' = status /\ job' = job /\ pass \in [Passes -> Pass]
    BY <1>1, <1>4 DEF ClearErrors, OfShelf, ChangeFile, ChangeIssue, TypeInv, TypeOK
  <2>2. \A p \in Passes : /\ pass'[p].pc = pass[p].pc /\ pass'[p].todo = pass[p].todo
                          /\ pass'[p].alone = pass[p].alone
                          /\ pass'[p].cron = pass[p].cron
    BY <1>4, <2>1 DEF ClearErrors, OfShelf, ChangeFile, ChangeIssue, Pass
  <2>3. \A w \in Workers : Employed(w)'
    BY <1>1, <2>1, <2>2 DEF CountInv, Employed, Does, At, TypeInv, TypeOK, Job
  <2> QED BY <1>1, <2>1, <2>2, <2>3, CountsKept
<1>5. ASSUME NEW p \in Passes, OfPass(p) PROVE CountInv'
  BY <1>1, <1>5, PassCounts
<1>6. ASSUME NEW w \in Workers, NEW p \in Passes, TakeTask(w, p) PROVE CountInv'
  BY <1>1, <1>6, TakeCounts
<1>7. ASSUME NEW w \in Workers,
             AskCover(w) \/ BeginSave(w) \/ (LookAtThumb(w) /\ ~Finish(w))
      PROVE  CountInv'
  <2>1. /\ status' = status /\ pass' = pass /\ job \in [Workers -> Job]
        /\ \A v \in Workers : Employed(v)
    BY <1>1, <1>7 DEF AskCover, BeginSave, LookAtThumb, CountInv, TypeInv, TypeOK
  <2>2. \A v \in Workers : job'[v].pass = job[v].pass /\ (Does(v, "idle")' => Does(v, "idle"))
    <3>1. CASE AskCover(w)
      BY <2>1, <3>1 DEF AskCover, Employed, Does
    <3>2. CASE BeginSave(w) \/ (LookAtThumb(w) /\ ~Finish(w))
      BY <2>1, <3>2 DEF BeginSave, LookAtThumb, Does, Job
    <3> QED BY <1>7, <3>1, <3>2
  <2>3. \A v \in Workers : Employed(v)'
    BY <2>1, <2>2 DEF Employed, At, Does
  <2> QED BY <1>1, <2>1, <2>2, <2>3, CountsKept
<1>8. ASSUME NEW w \in Workers,
             \/ EndSave(w) \/ FailSave(w) \/ FailLoad(w)
             \/ LookAtThumb(w) /\ Finish(w)
      PROVE  CountInv'
  <2>1. ~Does(w, "idle") /\ Finish(w) /\ pass' = pass
    BY <1>8 DEF EndSave, FailSave, FailLoad, LookAtThumb, Does
  <2> QED BY <1>1, <2>1, FinishCounts
<1> QED
  BY <1>2, <1>3, <1>4, <1>5, <1>6, <1>7, <1>8, NextStep

LEMMA CountsAlways == Spec => []CountInv
<1>1. Init => CountInv
  <2>1. ASSUME Init PROVE (\A w \in Workers : Employed(w)) /\ \A p \in Passes : ~Begun(p)
    BY <2>1, NothingType DEF Init, Employed, Does, Begun
  <2>2. Init => \A p \in Passes : IsFiniteSet(pass[p].todo)
    <3>1. Init => \A p \in Passes : pass[p].todo = {}
      BY DEF Init, NoPass
    <3> QED BY <3>1, FS_EmptySet
  <2> QED BY <2>1, <2>2, InitTypes DEF CountInv
<1>2. CountInv /\ [Next]_vars => CountInv'
  BY StepCounts
<1> QED BY <1>1, <1>2, PTL DEF Spec

(* What /admin shows at the end of a pass is true of that pass, as long as *)
(* no other ran at any moment of it: every book is counted, whether its    *)
(* thumbnail was there, was made, or failed.                               *)
THEOREM PassCountsAllBooks == Spec => ProgressHonest
<1>1. CountInv => \A p \in Passes :
        EndPass(p) /\ pass[p].alone => status.done = status.total
  <2> SUFFICES ASSUME CountInv, NEW p \in Passes, EndPass(p), pass[p].alone
               PROVE  status.done = status.total
    OBVIOUS
  <2>1. Counts(p) /\ At(p, "work") /\ pass[p].todo = {} /\ Tasks(p) = {}
    BY DEF CountInv, EndPass, Begun, At, AllDone, Tasks
  <2>2. /\ status.total = Cardinality(Books) /\ status.done \in Nat
        /\ status.done + Cardinality({}) + Cardinality({}) = Cardinality(Books)
    BY <2>1 DEF Counts, CountInv, TypeInv, TypeOK
  <2>3. Cardinality({}) = 0
    BY FS_EmptySet
  <2> QED BY <2>2, <2>3
<1> QED BY <1>1, CountsAlways, PTL DEF ProgressHonest
===============================================================================
