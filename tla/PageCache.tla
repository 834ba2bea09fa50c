------------------------------ MODULE PageCache -------------------------------
(***************************************************************************)
(* Pages of comics: app/page_cache.py, the page handlers of                *)
(* app/routes_opds.py (pse_page, book_page) and the cleaners (autoclean_   *)
(* loop, admin_pages_cleanup).                                             *)
(*                                                                         *)
(* A page is known by the name of its entry in the zip.  A cached JPEG is  *)
(* known by the version of the book and the entry it was made from;        *)
(* Pillow's save() truncates it first and fills it later.  A directory of  *)
(* the cache holds the pages of one book and the heartbeat .last; times    *)
(* are ages in ticks, and Idle is any age beyond the TTL.                  *)
(***************************************************************************)
EXTENDS Integers, Sequences, FiniteSets

CONSTANTS Books, Readers, Cleaners,
          Versions,     \* contents a book may have
          PagesOf,      \* the image entries of a version, in natural order
          Mixed,        \* a JPEG two versions were saved into
          FirstDisk,    \* the version of each book at the start
          MinPage,      \* page numbers asked for are MinPage or more,
          MaxPage,      \* and below MaxPage
          MaxBytes,     \* PAGE_CACHE_MAX_BYTES, in pages
          Idle,         \* ages from here on are beyond PAGE_CACHE_TTL_DAYS
          MaxRequests,
          MaxTroubles,  \* replaced books, failed saves and crashes, together
          None

ASSUME CacheAssumption ==
    /\ MinPage \in Int /\ MinPage <= 0
    /\ MaxPage \in Nat \ {0} /\ MaxBytes \in Nat \ {0} /\ Idle \in Nat \ {0}
    /\ MaxRequests \in Nat /\ MaxTroubles \in Nat
ASSUME RolesAssumption ==
    /\ FirstDisk \in [Books -> Versions \cup {None}]
    /\ Readers \cap Cleaners = {} /\ IsFiniteSet(Books)
    /\ None \notin Books \cup Versions \cup {Mixed} /\ Mixed \notin Versions

VARIABLES disk,      \* the version of each book, None when it is not there
          cache,     \* the directory of each book, None when it is not there
          reader,    \* the page request each reader thread is answering
          cleaner,   \* the pass each cleaner is making
          changes, requests, faults

vars == <<disk, cache, reader, cleaner, changes, requests, faults>>
bounds == <<changes, requests, faults>>

Numbers == MinPage..(MaxPage - 1)
Slots == Books \X Numbers
Ages == 0..Idle
Names == UNION {{PagesOf[v][i] : i \in DOMAIN PagesOf[v]} : v \in Versions}
ASSUME PagesAssumption == PagesOf \in [Versions -> Seq(Names)]
Sources == [version : Versions \cup {Mixed}, name : Names]

(* age: since .last was touched, or, while there is no .last (beat is       *)
(* FALSE), since an entry of the directory came or went.                   *)
(* writing: the readers that hold the file open; torn: it was abandoned.   *)
Jpeg == [source : Sources, writing : SUBSET Readers, torn : BOOLEAN]
Directory == [beat : BOOLEAN, age : Ages,
              pages : [Numbers -> Jpeg \cup {None}]]
ASSUME NothingAssumption == None \notin Ages /\ None \notin Jpeg \cup Directory
EmptyDirectory == [beat |-> FALSE, age |-> 0,
                   pages |-> [n \in Numbers |-> None]]

(* name: the entry to extract; version: of the zip it came out of.          *)
(* lost: a cleaner unlinked a page of this book since the request began.   *)
PageRequest == [pc : {"idle", "look", "extract", "save", "saving", "touch", "serve"},
                book : Books \cup {None}, number : Numbers,
                name : Names \cup {None}, version : Versions \cup {None},
                lost : BOOLEAN]
NoPage == [pc |-> "idle", book |-> None, number |-> 0, name |-> None,
           version |-> None, lost |-> FALSE]

(* left: the directories that iterdir() named and that are still to look   *)
(* at; todo, found and age: what _book_cache_entries makes of the others,  *)
(* a size as the pages it counts.  late: the pages that were being saved   *)
(* when their directory was looked at, or that were opened since: their    *)
(* size may count as nothing, or in part.                                  *)
Pass == [pc : {"idle", "expired", "evict"},
         left : SUBSET Books, todo : SUBSET Books, emptied : Books \cup {None},
         found : SUBSET Slots, age : [Books -> Ages], total : Nat,
         late : SUBSET Slots]
NoPass == [pc |-> "idle", left |-> {}, todo |-> {}, emptied |-> None,
           found |-> {}, age |-> [b \in Books |-> 0], total |-> 0,
           late |-> {}]

Init ==
    /\ disk = FirstDisk
    /\ cache = [b \in Books |-> None]
    /\ reader = [r \in Readers |-> NoPage]
    /\ cleaner = [c \in Cleaners |-> NoPass]
    /\ changes = 0 /\ requests = 0 /\ faults = 0

-------------------------------------------------------------------------------
(* The world                                                               *)

(* The owner of the library replaces or removes a book.                    *)
ChangeBook ==
    /\ changes + faults < MaxTroubles
    /\ \E b \in Books, v \in Versions \cup {None} :
         v # disk[b] /\ disk' = [disk EXCEPT ![b] = v]
    /\ changes' = changes + 1
    /\ UNCHANGED <<cache, reader, cleaner, requests, faults>>

Older(age) == IF age = Idle THEN Idle ELSE age + 1
Tick ==
    /\ cache' = [b \in Books |-> IF cache[b] = None THEN None ELSE
         [beat |-> cache[b].beat, age |-> Older(cache[b].age), pages |-> cache[b].pages]]
    /\ UNCHANGED <<disk, reader, cleaner, bounds>>

-------------------------------------------------------------------------------
(* A page request                                                          *)

Entry(b, n) == IF cache[b] = None THEN None ELSE cache[b].pages[n]
PageList(b) == IF disk[b] = None THEN <<>> ELSE PagesOf[disk[b]]
Made(dir) == IF dir = None THEN EmptyDirectory ELSE dir

Reading(r, pc) == reader[r].pc = pc
Onward(r, pc) == reader' = [reader EXCEPT ![r].pc = pc]
HasFile(r) == reader' = [reader EXCEPT ![r].pc = "touch", ![r].name = None,
                                       ![r].version = None]
Ended(r) == reader' = [reader EXCEPT ![r] = NoPage]

(* A list of pages is indexed as Python does it: -1 is the last page.      *)
Within(list, n) == -Len(list) <= n /\ n < Len(list)
PageAt(list, n) == list[IF n < 0 THEN Len(list) + n + 1 ELSE n + 1]

(* Mutant of AskPage: pages are counted from one.                          *)
AskPageFromOne(r) ==
    /\ Reading(r, "idle") /\ requests < MaxRequests
    /\ requests' = requests + 1
    /\ \E b \in Books, n \in Numbers :
         /\ Within(PageList(b), n + 1)
         /\ reader' = [reader EXCEPT ![r] = [NoPage EXCEPT !.pc = "look",
              !.book = b, !.number = n, !.name = PageAt(PageList(b), n + 1)]]
    /\ UNCHANGED <<disk, cache, cleaner, changes, faults>>

(* The zip is listed and the zero-based page looked up; book_page takes    *)
(* negative numbers too.  An absent book or page is answered 404 (500 far  *)
(* below zero) and leaves no trace.                                        *)
AskPage(r) ==
    /\ Reading(r, "idle") /\ requests < MaxRequests
    /\ requests' = requests + 1
    /\ \E b \in Books, n \in Numbers :
         /\ Within(PageList(b), n)
         /\ reader' = [reader EXCEPT ![r] = [NoPage EXCEPT !.pc = "look",
              !.book = b, !.number = n, !.name = PageAt(PageList(b), n)]]
    /\ UNCHANGED <<disk, cache, cleaner, changes, faults>>

(* book_cache_dir makes the directory; dest.exists() decides.              *)
LookPage(r) ==
    LET b == reader[r].book IN
    /\ Reading(r, "look")
    /\ cache' = [cache EXCEPT ![b] = Made(@)]
    /\ IF Entry(b, reader[r].number) = None THEN Onward(r, "extract") ELSE HasFile(r)
    /\ UNCHANGED <<disk, cleaner, bounds>>

(* The zip is opened a second time: it may be gone, or another one.        *)
ExtractPage(r) ==
    LET b == reader[r].book
        name == reader[r].name
    IN  /\ Reading(r, "extract")
        /\ IF \E i \in DOMAIN PageList(b) : PageList(b)[i] = name
           THEN /\ reader' = [reader EXCEPT ![r].pc = "save",
                                ![r].version = disk[b]]
                /\ cache' = [cache EXCEPT ![b] = Made(@)]
           ELSE Ended(r) /\ UNCHANGED cache
        /\ UNCHANGED <<disk, cleaner, bounds>>

(* The directory dir with an entry for page n, or without one.             *)
Filed(dir, n, page) ==
    [beat |-> dir.beat,
     age |-> IF ~dir.beat /\ (dir.pages[n] = None) # (page = None) THEN 0 ELSE dir.age,
     pages |-> [dir.pages EXCEPT ![n] = page]]

(* open(dest, "w+b"): truncated, whoever else is writing it.               *)
Opened(page, r, new) ==
    IF page = None \/ page.writing = {}
    THEN [source |-> new, writing |-> {r}, torn |-> FALSE]
    ELSE [source |-> [version |-> IF page.source = new THEN new.version ELSE Mixed,
                      name |-> new.name],
          writing |-> page.writing \cup {r}, torn |-> page.torn]

Released(page, r, torn) ==
    [source |-> page.source, writing |-> page.writing \ {r}, torn |-> page.torn \/ torn]

(* The size of the page has passed by the cleaners that have looked at its *)
(* directory already.                                                      *)
Missed(b, n) == [c \in Cleaners |->
    IF cleaner[c].pc = "evict" /\ b \notin cleaner[c].left
    THEN [cleaner[c] EXCEPT !.late = @ \cup {<<b, n>>}] ELSE cleaner[c]]

BeginSave(r) ==
    LET b == reader[r].book
        n == reader[r].number
        new == [version |-> reader[r].version, name |-> reader[r].name]
    IN  /\ Reading(r, "save")
        /\ IF cache[b] = None THEN Ended(r) /\ UNCHANGED <<cache, cleaner>>
           ELSE /\ cache' = [cache EXCEPT ![b] =
                                Filed(cache[b], n, Opened(cache[b].pages[n], r, new))]
                /\ Onward(r, "saving")
                /\ cleaner' = Missed(b, n)
        /\ UNCHANGED <<disk, bounds>>

Closed(r, torn) ==
    LET b == reader[r].book
        n == reader[r].number
    IN  cache' = IF Entry(b, n) = None THEN cache
                 ELSE IF r \notin Entry(b, n).writing THEN cache
                 ELSE [cache EXCEPT ![b] =
                         Filed(cache[b], n, Released(cache[b].pages[n], r, torn))]

EndSave(r) ==
    /\ Reading(r, "saving")
    /\ Closed(r, FALSE)
    /\ HasFile(r)
    /\ UNCHANGED <<disk, cleaner, bounds>>

(* Mutant of FailSave: the error path leaves the file open.                *)
FailSaveOpen(r) ==
    /\ Reading(r, "saving") /\ changes + faults < MaxTroubles
    /\ faults' = faults + 1
    /\ Ended(r)
    /\ UNCHANGED <<disk, cache, cleaner, changes, requests>>

(* Disk full: save() raises and removes the file if it made it; the file   *)
(* of another reader is left as it is.  The request is answered 500.       *)
FailSave(r) ==
    LET b == reader[r].book
        n == reader[r].number
    IN  /\ Reading(r, "saving") /\ changes + faults < MaxTroubles
        /\ faults' = faults + 1
        /\ \/ Closed(r, TRUE)
           \/ /\ Entry(b, n) # None
              /\ cache' = [cache EXCEPT ![b] = Filed(cache[b], n, None)]
        /\ Ended(r)
        /\ UNCHANGED <<disk, cleaner, changes, requests>>

(* (cache_dir / ".last").touch(); an error is ignored.                     *)
TouchLast(r) ==
    LET b == reader[r].book IN
    /\ Reading(r, "touch")
    /\ cache' = IF cache[b] = None THEN cache ELSE
         [cache EXCEPT ![b] = [beat |-> TRUE, age |-> 0, pages |-> cache[b].pages]]
    /\ Onward(r, "serve")
    /\ UNCHANGED <<disk, cleaner, bounds>>

(* FileResponse opens the file when the handler has returned.              *)
ServePage(r) ==
    /\ Reading(r, "serve")
    /\ Ended(r)
    /\ UNCHANGED <<disk, cache, cleaner, bounds>>

-------------------------------------------------------------------------------
(* A cleaner's pass                                                        *)

Present == {b \in Books : cache[b] # None}
Of(slots, b) == {s \in slots : s[1] = b}
Held == {s \in Slots : Entry(s[1], s[2]) # None}

(* Mutant of AgeOf: a directory without a heartbeat counts as new.         *)
AgeOfHeartbeat(b) ==
    IF cache[b] = None \/ ~cache[b].beat THEN 0 ELSE cache[b].age

AgeOf(b) == IF cache[b] = None THEN 0 ELSE cache[b].age

Passing(c, pc) == cleaner[c].pc = pc

(* clean_page_cache starts: iterdir() names the directories.               *)
BeginPass(c) ==
    /\ Passing(c, "idle")
    /\ cleaner' = [cleaner EXCEPT ![c] = [NoPass EXCEPT !.pc = "expired",
                                                       !.left = Present]]
    /\ UNCHANGED <<disk, cache, reader, bounds>>

(* What stat() says of a directory's age.  One that another cleaner has    *)
(* removed is skipped (None) or, gone only after is_dir(), the oldest of   *)
(* all; so is one whose .last goes between exists() and stat().            *)
AgesRead(c, b) ==
    IF cache[b] = None THEN {None, Idle}
    ELSE {AgeOf(b)} \cup {Idle : o \in Cleaners \ {c}}

(* Looking for the directories beyond the TTL (now is the time of the look *)
(* here, and that of the pass's beginning in the code).                    *)
ListForAge(c) ==
    /\ Passing(c, "expired")
    /\ \E b \in cleaner[c].left : \E age \in AgesRead(c, b) :
         cleaner' = [cleaner EXCEPT ![c].left = @ \ {b},
                       ![c].todo = IF age = Idle THEN @ \cup {b} ELSE @]
    /\ UNCHANGED <<disk, cache, reader, bounds>>

Lose(b) == [r \in Readers |-> IF reader[r].book = b
                              THEN [reader[r] EXCEPT !.lost = TRUE] ELSE reader[r]]

(* _remove_dir, first half: every file of the directory is unlinked.       *)
Unlink(b) ==
    /\ cache' = [cache EXCEPT ![b] =
         IF @ = None THEN None ELSE EmptyDirectory]
    /\ reader' = Lose(b)

UnlinkExpired(c) ==
    /\ Passing(c, "expired") /\ cleaner[c].left = {} /\ cleaner[c].emptied = None
    /\ \E b \in cleaner[c].todo :
         /\ Unlink(b)
         /\ cleaner' = [cleaner EXCEPT ![c].emptied = b, ![c].todo = @ \ {b}]
    /\ UNCHANGED <<disk, bounds>>

(* Mutant of RemoveDirectory: shutil.rmtree in the place of rmdir.         *)
RemoveTree(c) ==
    /\ cleaner[c].emptied # None
    /\ cache' = [cache EXCEPT ![cleaner[c].emptied] = None]
    /\ cleaner' = [cleaner EXCEPT ![c].emptied = None]
    /\ UNCHANGED <<disk, reader, bounds>>

(* _remove_dir, second half: rmdir fails if a page came meanwhile.         *)
RemoveDirectory(c) ==
    LET b == cleaner[c].emptied IN
    /\ b # None
    /\ cache' = IF cache[b] # None /\ ~cache[b].beat /\ Of(Held, b) = {}
                THEN [cache EXCEPT ![b] = None] ELSE cache
    /\ cleaner' = [cleaner EXCEPT ![c].emptied = None]
    /\ UNCHANGED <<disk, reader, bounds>>

(* The directories are listed again, for the size cap.                     *)
Relist(c) ==
    /\ Passing(c, "expired")
    /\ cleaner[c].left = {} /\ cleaner[c].todo = {} /\ cleaner[c].emptied = None
    /\ cleaner' = [cleaner EXCEPT ![c].pc = "evict", ![c].left = Present]
    /\ UNCHANGED <<disk, cache, reader, bounds>>

(* The pages of a directory whose file is open: _dir_size meets what the   *)
(* disk has of them, nothing or all.                                       *)
BeingSaved(b) == {s \in Of(Held, b) : cache[b].pages[s[2]].writing # {}}

(* The pass when b is looked at; its age None: it was skipped.              *)
Sized(pass, b, age, counted) ==
    [pass EXCEPT !.left = @ \ {b}, !.todo = IF age = None THEN @ ELSE @ \cup {b},
       !.age = IF age = None THEN @ ELSE [@ EXCEPT ![b] = age], !.found = @ \cup counted,
       !.total = @ + Cardinality(counted), !.late = @ \cup BeingSaved(b)]

(* The age and the size of one more directory.                             *)
ListForSize(c) ==
    /\ Passing(c, "evict")
    /\ \E b \in cleaner[c].left :
         \E age \in AgesRead(c, b), part \in SUBSET BeingSaved(b) :
           cleaner' = [cleaner EXCEPT ![c] =
             Sized(@, b, age, (Of(Held, b) \ BeingSaved(b)) \cup part)]
    /\ UNCHANGED <<disk, cache, reader, bounds>>

(* Mutant of Victims: the loop stops at the last directory but one.        *)
VictimsButLast(c) ==
    LET left == cleaner[c].todo IN
    {b \in left : /\ cleaner[c].total > MaxBytes /\ Cardinality(left) > 1
                  /\ \A o \in left : cleaner[c].age[o] <= cleaner[c].age[b]}

(* The longest unused first, until the known sizes fit the cap.            *)
Victims(c) ==
    LET left == cleaner[c].todo IN
    {b \in left : /\ cleaner[c].total > MaxBytes
                  /\ \A o \in left : cleaner[c].age[o] <= cleaner[c].age[b]}

EvictOldest(c) ==
    /\ Passing(c, "evict") /\ cleaner[c].left = {} /\ cleaner[c].emptied = None
    /\ \E b \in Victims(c) :
         /\ Unlink(b)
         /\ cleaner' = [cleaner EXCEPT ![c].emptied = b, ![c].todo = @ \ {b},
              ![c].total = @ - Cardinality(Of(cleaner[c].found, b))]
    /\ UNCHANGED <<disk, bounds>>

EndPass(c) ==
    /\ Passing(c, "evict") /\ cleaner[c].left = {} /\ cleaner[c].emptied = None
    /\ Victims(c) = {}
    /\ cleaner' = [cleaner EXCEPT ![c] = NoPass]
    /\ UNCHANGED <<disk, cache, reader, bounds>>

-------------------------------------------------------------------------------
(* The process dies and starts again; files half written stay so.          *)
Abandoned(page) ==
    IF page = None THEN None
    ELSE [source |-> page.source, writing |-> {}, torn |-> page.torn \/ page.writing # {}]

Crash ==
    /\ changes + faults < MaxTroubles
    /\ faults' = faults + 1
    /\ cache' = [b \in Books |-> IF cache[b] = None THEN None ELSE
         [beat |-> cache[b].beat, age |-> cache[b].age,
          pages |-> [n \in Numbers |-> Abandoned(cache[b].pages[n])]]]
    /\ reader' = [r \in Readers |-> NoPage]
    /\ cleaner' = [c \in Cleaners |-> NoPass]
    /\ UNCHANGED <<disk, changes, requests>>

StepOfReader(r) ==
    \/ LookPage(r) \/ ExtractPage(r) \/ BeginSave(r) \/ EndSave(r)
    \/ TouchLast(r) \/ ServePage(r)

StepOfCleaner(c) ==
    \/ BeginPass(c) \/ ListForAge(c) \/ UnlinkExpired(c)
    \/ RemoveDirectory(c) \/ Relist(c) \/ ListForSize(c) \/ EvictOldest(c) \/ EndPass(c)

Next ==
    \/ ChangeBook \/ Tick \/ Crash
    \/ \E r \in Readers : AskPage(r) \/ FailSave(r) \/ StepOfReader(r)
    \/ \E c \in Cleaners : StepOfCleaner(c)

Spec == Init /\ [][Next]_vars

(* Time passes, threads run, and autoclean_loop passes again and again.    *)
FairSpec ==
    /\ Spec
    /\ WF_vars(Tick)
    /\ \A r \in Readers : WF_vars(StepOfReader(r))
    /\ \A c \in Cleaners : WF_vars(StepOfCleaner(c))

-------------------------------------------------------------------------------
(* Properties                                                              *)

(* Type invariant of the page cache: a file is open for writing only as    *)
(* long as a request is saving that page (im.save closes it, error or not).*)
TypeOK ==
    /\ disk \in [Books -> Versions \cup {None}]
    /\ \A b \in Books : cache[b] # None => cache[b] \in Directory
    /\ DOMAIN cache = Books
    /\ reader \in [Readers -> PageRequest]
    /\ cleaner \in [Cleaners -> Pass]
    /\ \A b \in Books, n \in Numbers : Entry(b, n) # None =>
         \A r \in Entry(b, n).writing :
           reader[r].pc = "saving" /\ reader[r].book = b /\ reader[r].number = n
    /\ changes \in Nat /\ faults \in Nat /\ changes + faults <= MaxTroubles
    /\ requests \in 0..MaxRequests

(* As long as no book is replaced and no save fails, what the cache holds  *)
(* under a page number is that page of the book, whichever requests raced  *)
(* to save it (pse_page, ensure_page_jpeg), and it is never left half      *)
(* written.                                                                *)
CachedRight ==
    changes = 0 /\ faults = 0 =>
      \A b \in Books, n \in Numbers :
        LET page == Entry(b, n) IN
        page # None =>
          /\ page.source = [version |-> disk[b], name |-> PageAt(PagesOf[disk[b]], n)]
          /\ ~page.torn

(* A file that pse_page is about to send has not vanished unless a cleaner *)
(* unlinked it while the request ran: rmdir never takes a page that was    *)
(* saved after _remove_dir emptied the directory.                          *)
ServedUnlessCleaned ==
    \A r \in Readers :
      faults = 0 /\ Reading(r, "serve") /\ ~reader[r].lost =>
        Entry(reader[r].book, reader[r].number) # None

(* When clean_page_cache ends, whatever exceeds the cap was being saved    *)
(* when the pass looked at its directory, or was saved later: all that lay *)
(* finished in the cache then, and is still there, fits.  The sizes are    *)
(* read one directory after the other while pages are saved and other      *)
(* cleaners unlink, and the loop counts down from their sum.               *)
PassKeepsCap ==
    [][\A c \in Cleaners :
         EndPass(c) => Cardinality(Held \ cleaner[c].late) <= MaxBytes]_vars

(* Once nobody asks for pages, the cleaner forgets them all: pages of      *)
(* books that are gone or replaced, torn pages, directories without        *)
(* a heartbeat.                                                            *)
Forgotten == <>[](Present = {})
===============================================================================
