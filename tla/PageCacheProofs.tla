--------------------------- MODULE PageCacheProofs ----------------------------
(***************************************************************************)
(* PageCache for any number of books, readers and cleaners: what the cache *)
(* holds under a page number, that no file which is about to be sent       *)
(* vanishes, except by a cleaner's unlink, who may have a file open for    *)
(* writing, and what the running total of a cleaner is worth.              *)
(***************************************************************************)
EXTENDS PageCache, FiniteSetTheorems, TLAPS

(* What a request knows by the time it needs it.                           *)
Informed(r) ==
    /\ ~Reading(r, "idle") => reader[r].book \in Books
    /\ reader[r].pc \in {"look", "extract", "save"} => reader[r].name \in Names
    /\ Reading(r, "save") => reader[r].version \in Versions

TypeInv ==
    /\ disk \in [Books -> Versions \cup {None}]
    /\ cache \in [Books -> Directory \cup {None}]
    /\ reader \in [Readers -> PageRequest]
    /\ \A r \in Readers : Informed(r)
    /\ changes \in Nat /\ faults \in Nat

(* A step of a cleaner that changes nothing but what it knows.             *)
Looks(c) == \/ BeginPass(c) \/ ListForAge(c) \/ Relist(c) \/ ListForSize(c)
            \/ EndPass(c)

(* The actions that a step may be.                                         *)
LEMMA NextStep ==
    ASSUME Next
    PROVE  \/ ChangeBook \/ Tick \/ Crash
           \/ \E r \in Readers :
                \/ AskPage(r) \/ LookPage(r) \/ ExtractPage(r) \/ BeginSave(r)
                \/ EndSave(r) \/ FailSave(r) \/ TouchLast(r) \/ ServePage(r)
           \/ \E c \in Cleaners :
                Looks(c) \/ UnlinkExpired(c) \/ RemoveDirectory(c) \/ EvictOldest(c)
BY DEF Next, StepOfReader, StepOfCleaner, Looks

LEMMA OnlyLooks == ASSUME NEW c, Looks(c) PROVE UNCHANGED <<disk, cache, reader, bounds>>
BY DEF Looks, BeginPass, ListForAge, Relist, ListForSize, EndPass

(* What a step counts.                                                     *)
LEMMA StepCounts ==
    ASSUME Next
    PROVE  \/ UNCHANGED bounds
           \/ /\ \E r \in Readers : AskPage(r)
              /\ requests < MaxRequests /\ requests' = requests + 1
              /\ changes' = changes /\ faults' = faults
           \/ /\ ChangeBook
              /\ changes + faults < MaxTroubles /\ requests' = requests
              /\ changes' = changes + 1 /\ faults' = faults
           \/ /\ Crash \/ \E r \in Readers : FailSave(r)
              /\ changes + faults < MaxTroubles /\ requests' = requests
              /\ changes' = changes /\ faults' = faults + 1
<1>1. ASSUME NEW r,
             \/ LookPage(r) \/ ExtractPage(r) \/ BeginSave(r)
             \/ EndSave(r) \/ TouchLast(r) \/ ServePage(r)
      PROVE  UNCHANGED bounds
  BY <1>1 DEF LookPage, ExtractPage, BeginSave, EndSave, TouchLast, ServePage
<1>2. ASSUME NEW c,
             Looks(c) \/ UnlinkExpired(c) \/ RemoveDirectory(c) \/ EvictOldest(c)
      PROVE  UNCHANGED bounds
  BY <1>2, OnlyLooks DEF UnlinkExpired, RemoveDirectory, EvictOldest
<1>3. Tick => UNCHANGED bounds
  BY DEF Tick
<1>4. ASSUME NEW r, AskPage(r)
      PROVE  /\ requests < MaxRequests /\ requests' = requests + 1
             /\ changes' = changes /\ faults' = faults
  BY <1>4 DEF AskPage
<1>5. ASSUME NEW r, FailSave(r) \/ Crash
      PROVE  /\ changes + faults < MaxTroubles /\ requests' = requests
             /\ changes' = changes /\ faults' = faults + 1
  BY <1>5 DEF FailSave, Crash
<1>6. ChangeBook => /\ changes + faults < MaxTroubles /\ requests' = requests
                    /\ changes' = changes + 1 /\ faults' = faults
  BY DEF ChangeBook
<1> QED BY <1>1, <1>2, <1>3, <1>4, <1>5, <1>6, NextStep

-------------------------------------------------------------------------------
(* Directories and their pages                                             *)

LEMMA EmptyType ==
    /\ EmptyDirectory \in Directory /\ EmptyDirectory # None
    /\ \A n \in Numbers : EmptyDirectory.pages[n] = None
<1>1. 0 \in Ages
  BY CacheAssumption DEF Ages
<1>2. EmptyDirectory \in Directory
  BY <1>1 DEF EmptyDirectory, Directory
<1> QED BY <1>2, NothingAssumption DEF EmptyDirectory

LEMMA FiledType ==
    ASSUME NEW dir \in Directory, NEW n \in Numbers, NEW page \in Jpeg \cup {None}
    PROVE  /\ Filed(dir, n, page) \in Directory /\ Filed(dir, n, page) # None
           /\ Filed(dir, n, page).pages[n] = page
           /\ \A m \in Numbers \ {n} : Filed(dir, n, page).pages[m] = dir.pages[m]
<1>1. 0 \in Ages
  BY CacheAssumption DEF Ages
<1>2. PICK age, pages :
        /\ age \in Ages
        /\ Filed(dir, n, page) = [beat |-> dir.beat, age |-> age, pages |-> pages]
        /\ pages = [dir.pages EXCEPT ![n] = page]
  BY <1>1 DEF Filed, Directory
<1>3. dir.beat \in BOOLEAN /\ dir.pages \in [Numbers -> Jpeg \cup {None}]
  BY DEF Directory
<1>4. /\ pages \in [Numbers -> Jpeg \cup {None}] /\ pages[n] = page
      /\ \A m \in Numbers \ {n} : pages[m] = dir.pages[m]
  BY <1>2, <1>3
<1>5. Filed(dir, n, page) \in Directory
  BY <1>2, <1>3, <1>4 DEF Directory
<1> QED BY <1>2, <1>4, <1>5, NothingAssumption

LEMMA OpenedType ==
    ASSUME NEW page \in Jpeg \cup {None}, NEW r \in Readers, NEW new \in Sources
    PROVE  /\ Opened(page, r, new) \in Jpeg /\ Opened(page, r, new) # None
           /\ page = None \/ page.source = new => Opened(page, r, new).source = new
           /\ Opened(page, r, new).torn => page # None /\ page.torn
<1>1. CASE page = None \/ page.writing = {}
  <2>1. Opened(page, r, new) = [source |-> new, writing |-> {r}, torn |-> FALSE]
    BY <1>1 DEF Opened
  <2>2. Opened(page, r, new) \in Jpeg
    BY <2>1 DEF Jpeg
  <2>3. Opened(page, r, new).source = new /\ ~Opened(page, r, new).torn
    BY <2>1
  <2>4. Opened(page, r, new) # None
    BY <2>2, NothingAssumption
  <2> QED BY <2>2, <2>3, <2>4
<1>2. CASE page # None /\ page.writing # {}
  <2>1. PICK from \in Sources :
          /\ page.source = new => from = new
          /\ Opened(page, r, new) = [source |-> from, writing |-> page.writing \cup {r},
                                     torn |-> page.torn]
    BY <1>2 DEF Opened, Sources
  <2>2. page \in Jpeg
    BY <1>2
  <2>3. Opened(page, r, new) \in Jpeg
    BY <2>1, <2>2 DEF Jpeg
  <2> QED BY <1>2, <2>1, <2>3, NothingAssumption
<1> QED BY <1>1, <1>2

LEMMA ReleasedType ==
    ASSUME NEW page \in Jpeg, NEW r, NEW torn \in BOOLEAN
    PROVE  /\ Released(page, r, torn) \in Jpeg /\ Released(page, r, torn) # None
           /\ Released(page, r, torn).source = page.source
           /\ Released(page, r, torn).torn => page.torn \/ torn
BY NothingAssumption DEF Released, Jpeg
-------------------------------------------------------------------------------
(* What a step does to the entries of the cache                            *)

(* The entry stays, or stays away.                                         *)
Stays(b, n) ==
    /\ Entry(b, n) # None => Entry(b, n)' # None
    /\ Entry(b, n)' # None => Entry(b, n) # None

(* If it is there afterwards, it was there, made from the same entry.      *)
Unwritten(b, n) ==
    Entry(b, n)' # None => /\ Entry(b, n) # None
                           /\ Entry(b, n)'.source = Entry(b, n).source
                           /\ Entry(b, n)'.torn => Entry(b, n).torn

CacheType == cache' \in [Books -> Directory \cup {None}]
Harmless == CacheType /\ \A b \in Books, n \in Numbers : Stays(b, n) /\ Unwritten(b, n)

LEMMA SameCache ==
    ASSUME TypeInv, cache' = cache PROVE Harmless
BY DEF TypeInv, Harmless, CacheType, Stays, Unwritten, Entry

LEMMA TickHarmless == ASSUME TypeInv, Tick PROVE Harmless
<1>1. ASSUME NEW b \in Books
      PROVE  /\ cache'[b] \in Directory \cup {None}
             /\ cache[b] = None => cache'[b] = None
             /\ cache[b] # None => cache'[b] # None /\ cache'[b].pages = cache[b].pages
  <2>1. CASE cache[b] = None
    BY <2>1 DEF Tick
  <2>2. CASE cache[b] # None
    <3>1. cache[b] \in Directory
      BY <2>2 DEF TypeInv
    <3>2. PICK age \in Ages : age = Older(cache[b].age)
      BY <3>1, CacheAssumption DEF Directory, Ages, Older
    <3>3. cache'[b] = [beat |-> cache[b].beat, age |-> age, pages |-> cache[b].pages]
      BY <2>2, <3>2 DEF Tick
    <3>4. cache'[b] \in Directory /\ cache'[b].pages = cache[b].pages
      BY <3>1, <3>3 DEF Directory
    <3> QED BY <2>2, <3>4, NothingAssumption
  <2> QED BY <2>1, <2>2
<1>2. cache' = [b \in Books |-> cache'[b]]
  BY DEF Tick
<1>3. CacheType
  BY <1>1, <1>2 DEF CacheType
<1> QED BY <1>1, <1>3 DEF Harmless, Stays, Unwritten, Entry

(* The directory of b is replaced by one with the same entries.            *)
LEMMA DirectoryHarmless ==
    ASSUME TypeInv, NEW b \in Books, NEW dir \in Directory,
           cache' = [cache EXCEPT ![b] = dir],
           \A n \in Numbers :
             \/ dir.pages[n] = Entry(b, n)
             \/ /\ dir.pages[n] # None /\ Entry(b, n) # None
                /\ dir.pages[n].source = Entry(b, n).source
                /\ dir.pages[n].torn => Entry(b, n).torn
    PROVE  Harmless
<1>1. CacheType /\ cache'[b] = dir /\ dir # None
      /\ \A o \in Books \ {b} : cache'[o] = cache[o]
  BY NothingAssumption DEF TypeInv, CacheType
<1>2. ASSUME NEW n \in Numbers PROVE Stays(b, n) /\ Unwritten(b, n)
  <2>1. Entry(b, n)' = dir.pages[n]
    BY <1>1 DEF Entry
  <2> QED BY <2>1 DEF Stays, Unwritten
<1>3. ASSUME NEW o \in Books \ {b}, NEW n \in Numbers PROVE Stays(o, n) /\ Unwritten(o, n)
  BY <1>1 DEF Stays, Unwritten, Entry
<1> QED BY <1>1, <1>2, <1>3 DEF Harmless

LEMMA MadeHarmless ==
    ASSUME TypeInv, NEW b \in Books, cache' = [cache EXCEPT ![b] = Made(cache[b])]
    PROVE  Harmless /\ cache'[b] # None
<1>1. /\ Made(cache[b]) \in Directory
      /\ \A n \in Numbers : Made(cache[b]).pages[n] = Entry(b, n)
  <2>1. CASE cache[b] = None
    BY <2>1, EmptyType DEF Made, Entry
  <2>2. CASE cache[b] # None
    BY <2>2 DEF TypeInv, Made, Entry
  <2> QED BY <2>1, <2>2
<1>2. Harmless
  BY <1>1, DirectoryHarmless
<1>3. cache'[b] = Made(cache[b])
  BY DEF TypeInv
<1> QED BY <1>1, <1>2, <1>3, NothingAssumption

LEMMA LookHarmless ==
    ASSUME TypeInv, NEW r \in Readers, LookPage(r) \/ ExtractPage(r) PROVE Harmless
<1>1. reader[r].book \in Books
  BY DEF TypeInv, Informed, LookPage, ExtractPage, Reading
<1>2. cache' = cache \/ cache' = [cache EXCEPT ![reader[r].book] = Made(cache[reader[r].book])]
  BY DEF LookPage, ExtractPage
<1> QED BY <1>1, <1>2, SameCache, MadeHarmless

LEMMA TouchHarmless ==
    ASSUME TypeInv, NEW r \in Readers, TouchLast(r) PROVE Harmless
<1>1. PICK b \in Books : b = reader[r].book
  BY DEF TypeInv, Informed, TouchLast, Reading
<1>2. CASE cache[b] = None
  BY <1>1, <1>2, SameCache DEF TouchLast
<1>3. CASE cache[b] # None
  <2>1. cache[b] \in Directory /\ 0 \in Ages
    BY <1>3, CacheAssumption DEF TypeInv, Ages
  <2>2. PICK dir : dir = [beat |-> TRUE, age |-> 0, pages |-> cache[b].pages]
    OBVIOUS
  <2>3. cache' = [cache EXCEPT ![b] = dir]
    BY <1>1, <1>3, <2>2 DEF TouchLast
  <2>4. dir \in Directory /\ \A n \in Numbers : dir.pages[n] = Entry(b, n)
    BY <1>3, <2>1, <2>2 DEF Directory, Entry
  <2> QED BY <2>3, <2>4, DirectoryHarmless
<1> QED BY <1>2, <1>3

LEMMA EndSaveHarmless ==
    ASSUME TypeInv, NEW r \in Readers, Reading(r, "saving"), Closed(r, FALSE)
    PROVE  Harmless
<1>1. PICK b \in Books, n \in Numbers : b = reader[r].book /\ n = reader[r].number
  BY DEF TypeInv, Informed, Reading, PageRequest
<1>2. CASE cache' = cache
  BY <1>2, SameCache
<1>3. CASE cache' # cache
  <2>1. /\ Entry(b, n) # None
        /\ cache' = [cache EXCEPT ![b] =
                       Filed(cache[b], n, Released(cache[b].pages[n], r, FALSE))]
    BY <1>1, <1>3 DEF Closed
  <2>2. cache[b] # None /\ cache[b] \in Directory /\ cache[b].pages[n] = Entry(b, n)
        /\ Entry(b, n) \in Jpeg /\ \A m \in Numbers : Entry(b, m) = cache[b].pages[m]
    BY <2>1 DEF TypeInv, Entry, Directory
  <2>3. PICK page \in Jpeg : /\ page = Released(cache[b].pages[n], r, FALSE)
                             /\ page # None /\ page.source = Entry(b, n).source
                             /\ page.torn => Entry(b, n).torn
    <3>1. PICK old \in Jpeg : old = cache[b].pages[n] /\ old = Entry(b, n)
      BY <2>2
    <3>2. FALSE \in BOOLEAN
      OBVIOUS
    <3>3. /\ Released(old, r, FALSE) \in Jpeg /\ Released(old, r, FALSE) # None
          /\ Released(old, r, FALSE).source = old.source
          /\ Released(old, r, FALSE).torn => old.torn \/ FALSE
      BY <3>2, ReleasedType
    <3> QED BY <3>1, <3>3
  <2>4. PICK dir \in Directory :
          /\ dir = Filed(cache[b], n, page)
          /\ dir.pages[n] = page /\ \A m \in Numbers \ {n} : dir.pages[m] = cache[b].pages[m]
    BY <2>2, FiledType
  <2>5. cache' = [cache EXCEPT ![b] = dir]
    BY <2>1, <2>3, <2>4
  <2>6. ASSUME NEW m \in Numbers
        PROVE  \/ dir.pages[m] = Entry(b, m)
               \/ /\ dir.pages[m] # None /\ Entry(b, m) # None
                  /\ dir.pages[m].source = Entry(b, m).source
                  /\ dir.pages[m].torn => Entry(b, m).torn
    <3>1. CASE m = n
      BY <3>1, <2>1, <2>3, <2>4
    <3>2. CASE m # n
      BY <3>2, <2>2, <2>4
    <3> QED BY <3>1, <3>2
  <2> QED BY <2>5, <2>6, DirectoryHarmless
<1> QED BY <1>2, <1>3

(* rmdir takes a directory only when nothing is in it.                     *)
LEMMA RemoveHarmless ==
    ASSUME TypeInv, NEW c \in Cleaners, RemoveDirectory(c) PROVE Harmless
<1> DEFINE b == cleaner[c].emptied
<1>1. CASE cache' = cache
  BY <1>1, SameCache
<1>2. CASE cache' # cache
  <2>1. /\ cache' = [cache EXCEPT ![b] = None] /\ cache[b] # None
        /\ Of(Held, b) = {} /\ b \in Books
    BY <1>2 DEF RemoveDirectory, TypeInv
  <2>2. \A n \in Numbers : cache[b].pages[n] = None
    <3>1. SUFFICES ASSUME NEW n \in Numbers, cache[b].pages[n] # None
                   PROVE  FALSE
      OBVIOUS
    <3>2. <<b, n>> \in Slots /\ Entry(b, n) # None
      BY <2>1, <3>1 DEF Slots, Entry
    <3>3. <<b, n>> \in Of(Held, b)
      BY <3>2 DEF Of, Held
    <3> QED BY <2>1, <3>3
  <2>3. /\ cache' \in [Books -> Directory \cup {None}] /\ cache'[b] = None
        /\ \A o \in Books \ {b} : cache'[o] = cache[o]
    BY <2>1 DEF TypeInv
  <2> QED BY <2>1, <2>2, <2>3 DEF Harmless, CacheType, Stays, Unwritten, Entry
<1> QED BY <1>1, <1>2

(* A cleaner unlinks the files of b.                                       *)
LEMMA UnlinkOnly ==
    ASSUME TypeInv, NEW b, Unlink(b)
    PROVE  /\ CacheType
           /\ \A o \in Books, n \in Numbers : /\ Unwritten(o, n)
                                              /\ o # b => Stays(o, n)
<1>1. CASE b \notin Books
  <2>1. cache' = cache
    BY <1>1 DEF Unlink, TypeInv
  <2> QED BY <2>1, SameCache DEF Harmless
<1>2. CASE b \in Books
  <2>1. /\ cache' = [cache EXCEPT ![b] = IF cache[b] = None THEN None ELSE EmptyDirectory]
        /\ EmptyDirectory \in Directory /\ \A n \in Numbers : EmptyDirectory.pages[n] = None
    BY EmptyType DEF Unlink
  <2>2. /\ cache' \in [Books -> Directory \cup {None}]
        /\ \A o \in Books \ {b} : cache'[o] = cache[o]
        /\ cache'[b] \in {None, EmptyDirectory}
    BY <1>2, <2>1 DEF TypeInv
  <2> QED BY <2>1, <2>2 DEF CacheType, Stays, Unwritten, Entry
<1> QED BY <1>1, <1>2

(* A page is opened for writing: the others are left alone.                *)
LEMMA SaveOpens ==
    ASSUME TypeInv, NEW r \in Readers, BeginSave(r), cache[reader[r].book] # None,
           NEW b, b = reader[r].book, NEW n, n = reader[r].number,
           NEW new, new = [version |-> reader[r].version, name |-> reader[r].name]
    PROVE  /\ CacheType /\ Entry(b, n)' # None
           /\ \A o \in Books, m \in Numbers : o # b \/ m # n => Stays(o, m) /\ Unwritten(o, m)
           /\ Entry(b, n) = None \/ Entry(b, n).source = new => Entry(b, n)'.source = new
           /\ Entry(b, n)'.torn => Entry(b, n) # None /\ Entry(b, n).torn
<1>1. /\ b \in Books /\ n \in Numbers /\ new \in Sources
      /\ cache[b] \in Directory /\ cache[b] # None
      /\ \A m \in Numbers : Entry(b, m) = cache[b].pages[m]
      /\ cache \in [Books -> Directory \cup {None}]
  BY DEF TypeInv, Informed, BeginSave, Reading, PageRequest, Sources, Entry
<1>2. PICK old \in Jpeg \cup {None} : old = Entry(b, n) /\ old = cache[b].pages[n]
  BY <1>1 DEF Directory
<1>3. PICK page \in Jpeg :
        /\ page = Opened(old, r, new) /\ page # None
        /\ old = None \/ old.source = new => page.source = new
        /\ page.torn => old # None /\ old.torn
  BY <1>1, OpenedType
<1>4. PICK dir \in Directory :
        /\ dir = Filed(cache[b], n, page) /\ dir # None
        /\ dir.pages[n] = page /\ \A m \in Numbers \ {n} : dir.pages[m] = cache[b].pages[m]
  BY <1>1, FiledType
<1>5. cache' = [cache EXCEPT ![b] = dir]
  BY <1>2, <1>3, <1>4 DEF BeginSave
<1>6. /\ CacheType /\ cache'[b] = dir
      /\ \A o \in Books \ {b} : cache'[o] = cache[o]
  BY <1>1, <1>5 DEF CacheType
<1>7. Entry(b, n)' = page
  BY <1>4, <1>6 DEF Entry
<1>8. ASSUME NEW o \in Books, NEW m \in Numbers, o # b \/ m # n
      PROVE  Entry(o, m)' = Entry(o, m)
  <2>1. CASE o = b
    BY <1>1, <1>4, <1>6, <1>8, <2>1 DEF Entry
  <2>2. CASE o # b
    BY <1>6, <2>2 DEF Entry
  <2> QED BY <2>1, <2>2
<1> QED BY <1>2, <1>3, <1>6, <1>7, <1>8 DEF Stays, Unwritten

LEMMA FailSaveCache ==
    ASSUME TypeInv, NEW r \in Readers, FailSave(r) PROVE CacheType
<1>1. PICK b \in Books, n \in Numbers : b = reader[r].book /\ n = reader[r].number
  BY DEF TypeInv, Informed, Reading, PageRequest, FailSave
<1>2. CASE cache' = cache
  BY <1>2 DEF TypeInv, CacheType
<1>3. CASE cache' # cache
  <2>1. /\ Entry(b, n) # None
        /\ \/ cache' = [cache EXCEPT ![b] =
                          Filed(cache[b], n, Released(cache[b].pages[n], r, TRUE))]
           \/ cache' = [cache EXCEPT ![b] = Filed(cache[b], n, None)]
    BY <1>1, <1>3 DEF FailSave, Closed
  <2>2. cache[b] \in Directory /\ cache[b].pages[n] \in Jpeg
    BY <2>1 DEF TypeInv, Entry, Directory
  <2>3. TRUE \in BOOLEAN
    OBVIOUS
  <2>4. Released(cache[b].pages[n], r, TRUE) \in Jpeg
    BY <2>2, <2>3, ReleasedType
  <2>5. PICK page \in Jpeg \cup {None} : cache' = [cache EXCEPT ![b] = Filed(cache[b], n, page)]
    BY <2>1, <2>4
  <2>6. PICK dir \in Directory : cache' = [cache EXCEPT ![b] = dir]
    BY <2>2, <2>5, FiledType
  <2> QED BY <2>6 DEF TypeInv, CacheType
<1> QED BY <1>2, <1>3

LEMMA CrashCache == ASSUME TypeInv, Crash PROVE CacheType
<1>1. ASSUME NEW b \in Books PROVE cache'[b] \in Directory \cup {None}
  <2>1. CASE cache[b] = None
    BY <2>1 DEF Crash
  <2>2. CASE cache[b] # None
    <3>1. cache[b] \in Directory
      BY <2>2 DEF TypeInv
    <3>2. PICK pages : pages = [n \in Numbers |-> Abandoned(cache[b].pages[n])]
      OBVIOUS
    <3>3. ASSUME NEW n \in Numbers PROVE Abandoned(cache[b].pages[n]) \in Jpeg \cup {None}
      <4>1. cache[b].pages[n] \in Jpeg \cup {None}
        BY <3>1 DEF Directory
      <4> QED BY <4>1 DEF Abandoned, Jpeg
    <3>4. pages \in [Numbers -> Jpeg \cup {None}]
      BY <3>2, <3>3
    <3>5. cache'[b] = [beat |-> cache[b].beat, age |-> cache[b].age, pages |-> pages]
      BY <2>2, <3>2 DEF Crash
    <3> QED BY <3>1, <3>4, <3>5 DEF Directory
  <2> QED BY <2>1, <2>2
<1>2. cache' = [b \in Books |-> cache'[b]]
  BY DEF Crash
<1> QED BY <1>1, <1>2 DEF CacheType

-------------------------------------------------------------------------------
(* Types                                                                   *)

LEMMA NoPageType == NoPage \in PageRequest /\ NoPage.pc = "idle"
BY CacheAssumption DEF NoPage, PageRequest, Numbers

THEOREM FirstTypes == Init => TypeInv
<1> SUFFICES ASSUME Init PROVE TypeInv
  OBVIOUS
<1>1. cache \in [Books -> Directory \cup {None}]
  BY DEF Init
<1>2. reader \in [Readers -> PageRequest] /\ \A r \in Readers : Informed(r)
  BY NoPageType DEF Init, Informed, Reading
<1> QED BY <1>1, <1>2, RolesAssumption DEF Init, TypeInv

(* The entries of a book that is there.                                    *)
LEMMA Listed ==
    ASSUME TypeInv, NEW b \in Books, NEW n \in Numbers, Within(PageList(b), n)
    PROVE  /\ disk[b] \in Versions /\ PageAt(PageList(b), n) \in Names
           /\ PageAt(PageList(b), n) = PageAt(PagesOf[disk[b]], n)
<1>1. n \in Int
  BY CacheAssumption DEF Numbers
<1>2. CASE disk[b] = None
  BY <1>1, <1>2 DEF PageList, Within
<1>3. CASE disk[b] # None
  <2>1. disk[b] \in Versions /\ PageList(b) = PagesOf[disk[b]] /\ PagesOf[disk[b]] \in Seq(Names)
    BY <1>3, PagesAssumption DEF TypeInv, PageList
  <2>2. PICK list \in Seq(Names) : list = PageList(b)
    BY <2>1
  <2>3. PICK i : i = IF n < 0 THEN Len(list) + n + 1 ELSE n + 1
    OBVIOUS
  <2>4. i \in 1..Len(list)
    BY <1>1, <2>2, <2>3 DEF Within
  <2>5. PageAt(list, n) = list[i]
    BY <2>3 DEF PageAt
  <2> QED BY <2>1, <2>2, <2>4, <2>5
<1> QED BY <1>2, <1>3

(* Only the request of r goes on, with what it needs.                      *)
LEMMA RequestTypes ==
    ASSUME TypeInv, NEW r \in Readers,
           \/ AskPage(r) \/ LookPage(r) \/ ExtractPage(r) \/ BeginSave(r)
           \/ EndSave(r) \/ FailSave(r) \/ TouchLast(r) \/ ServePage(r)
    PROVE  /\ reader' \in [Readers -> PageRequest]
           /\ \A q \in Readers \ {r} : reader'[q] = reader[q]
           /\ Informed(r)'
<1>1. reader \in [Readers -> PageRequest] /\ Informed(r)
  BY DEF TypeInv
<1>2. CASE AskPage(r)
  <2>1. PICK b \in Books, n \in Numbers :
          /\ Within(PageList(b), n)
          /\ reader' = [reader EXCEPT ![r] = [NoPage EXCEPT !.pc = "look",
               !.book = b, !.number = n, !.name = PageAt(PageList(b), n)]]
    BY <1>2 DEF AskPage
  <2>2. PICK name \in Names : name = PageAt(PageList(b), n)
    BY <2>1, Listed
  <2>3. PICK new : new = [NoPage EXCEPT !.pc = "look", !.book = b, !.number = n, !.name = name]
    OBVIOUS
  <2>4. /\ new \in PageRequest /\ new.pc = "look" /\ new.book = b /\ new.name = name
    BY <2>3, NoPageType DEF PageRequest
  <2>5. reader' = [reader EXCEPT ![r] = new]
    BY <2>1, <2>2, <2>3
  <2> QED BY <1>1, <2>4, <2>5 DEF Informed, Reading
<1>3. CASE Ended(r)
  BY <1>1, <1>3, NoPageType DEF Ended, Informed, Reading
<1>4. CASE HasFile(r) /\ ~Reading(r, "idle")
  <2>1. PICK new : new = [reader[r] EXCEPT !.pc = "touch", !.name = None, !.version = None]
    OBVIOUS
  <2>2. new \in PageRequest /\ new.pc = "touch" /\ new.book = reader[r].book
    BY <1>1, <2>1 DEF PageRequest
  <2>3. reader' = [reader EXCEPT ![r] = new]
    BY <1>1, <1>4, <2>1 DEF HasFile, PageRequest
  <2> QED BY <1>1, <1>4, <2>2, <2>3 DEF Informed, Reading
<1>5. CASE /\ ~Reading(r, "idle")
           /\ \/ Onward(r, "extract") /\ Reading(r, "look")
              \/ Onward(r, "saving") \/ Onward(r, "serve")
  BY <1>1, <1>5 DEF Onward, Informed, Reading, PageRequest
<1>6. CASE /\ Reading(r, "extract") /\ disk[reader[r].book] \in Versions
           /\ reader' = [reader EXCEPT ![r].pc = "save", ![r].version = disk[reader[r].book]]
  <2>1. PICK v \in Versions : v = disk[reader[r].book]
    BY <1>6
  <2> QED BY ZenonT(60), <1>1, <1>6, <2>1 DEF Informed, Reading, PageRequest
<1>7. ExtractPage(r) => Ended(r) \/ disk[reader[r].book] \in Versions
  <2> SUFFICES ASSUME ExtractPage(r), ~Ended(r) PROVE disk[reader[r].book] \in Versions
    OBVIOUS
  <2>1. DOMAIN PageList(reader[r].book) # {} /\ reader[r].book \in Books
    BY <1>1 DEF ExtractPage, Informed, Reading
  <2>2. disk[reader[r].book] # None
    BY <2>1 DEF PageList
  <2> QED BY <2>1, <2>2 DEF TypeInv
<1> QED
  BY <1>1, <1>2, <1>3, <1>4, <1>5, <1>6, <1>7
     DEF LookPage, EndSave, FailSave, ServePage, TouchLast, BeginSave, ExtractPage, Reading


(* What a cleaner's unlink does to the requests.                           *)
LEMMA LoseOnly ==
    ASSUME TypeInv, NEW b, reader' = Lose(b)
    PROVE  /\ reader' \in [Readers -> PageRequest]
           /\ \A r \in Readers :
                /\ reader'[r].pc = reader[r].pc /\ reader'[r].book = reader[r].book
                /\ reader'[r].number = reader[r].number /\ reader'[r].name = reader[r].name
                /\ reader'[r].version = reader[r].version
                /\ ~reader'[r].lost => reader[r].book # b /\ ~reader[r].lost
<1>1. ASSUME NEW r \in Readers
      PROVE  /\ reader'[r] \in PageRequest
             /\ reader'[r].pc = reader[r].pc /\ reader'[r].book = reader[r].book
             /\ reader'[r].number = reader[r].number /\ reader'[r].name = reader[r].name
             /\ reader'[r].version = reader[r].version
             /\ ~reader'[r].lost => reader[r].book # b /\ ~reader[r].lost
  <2>1. reader[r] \in PageRequest
    BY DEF TypeInv
  <2>2. CASE reader[r].book = b
    <3>1. reader'[r] = [reader[r] EXCEPT !.lost = TRUE]
      BY <2>2 DEF Lose
    <3> QED BY <2>1, <3>1 DEF PageRequest
  <2>3. CASE reader[r].book # b
    <3>1. reader'[r] = reader[r]
      BY <2>3 DEF Lose
    <3> QED BY <2>1, <2>3, <3>1
  <2> QED BY <2>2, <2>3
<1>2. reader' = [r \in Readers |-> reader'[r]]
  BY DEF Lose
<1> QED BY <1>1, <1>2

LEMMA StepTypes == ASSUME TypeInv, [Next]_vars PROVE TypeInv'
<1>1. CASE UNCHANGED vars
  BY <1>1 DEF vars, TypeInv, Informed, Reading
<1>2. CASE Next
  <2>1. changes' \in Nat /\ faults' \in Nat
    <3>1. changes' \in {changes, changes + 1} /\ faults' \in {faults, faults + 1}
      BY <1>2, StepCounts DEF bounds
    <3> QED BY <3>1 DEF TypeInv
  <2>2. disk' \in [Books -> Versions \cup {None}]
    BY <1>2, NextStep, OnlyLooks
       DEF TypeInv, ChangeBook, Tick, Crash, AskPage, LookPage, ExtractPage, BeginSave,
           EndSave, FailSave, TouchLast, ServePage, UnlinkExpired, RemoveDirectory,
           EvictOldest
  <2>3. CacheType
    <3>1. CASE cache' = cache
      BY <3>1 DEF TypeInv, CacheType
    <3>2. ASSUME NEW r \in Readers, BeginSave(r), cache' # cache PROVE CacheType
      BY <3>2, SaveOpens DEF BeginSave
    <3>3. ASSUME NEW c \in Cleaners, UnlinkExpired(c) \/ EvictOldest(c) PROVE CacheType
      BY <3>3, UnlinkOnly DEF UnlinkExpired, EvictOldest
    <3>4. ASSUME NEW r \in Readers, EndSave(r) PROVE CacheType
      BY <3>4, EndSaveHarmless DEF EndSave, Harmless
    <3> QED
      BY <1>2, NextStep, <3>1, <3>2, <3>3, <3>4, TickHarmless, LookHarmless, TouchHarmless,
         RemoveHarmless, FailSaveCache, CrashCache, OnlyLooks
         DEF Harmless, ChangeBook, AskPage, ServePage
  <2>4. reader' \in [Readers -> PageRequest] /\ \A r \in Readers : Informed(r)'
    <3>1. CASE reader' = reader
      BY <3>1 DEF TypeInv, Informed, Reading
    <3>2. ASSUME NEW b, reader' = Lose(b)
          PROVE  reader' \in [Readers -> PageRequest] /\ \A r \in Readers : Informed(r)'
      BY <3>2, LoseOnly DEF TypeInv, Informed, Reading
    <3>3. CASE reader' = [r \in Readers |-> NoPage]
      BY <3>3, NoPageType DEF Informed, Reading
    <3>4. ASSUME NEW r \in Readers,
                 \/ AskPage(r) \/ LookPage(r) \/ ExtractPage(r) \/ BeginSave(r)
                 \/ EndSave(r) \/ FailSave(r) \/ TouchLast(r) \/ ServePage(r)
          PROVE  reader' \in [Readers -> PageRequest] /\ \A q \in Readers : Informed(q)'
      <4>1. /\ reader' \in [Readers -> PageRequest] /\ Informed(r)'
            /\ \A q \in Readers \ {r} : reader'[q] = reader[q]
        BY <3>4, RequestTypes
      <4> QED BY <4>1 DEF TypeInv, Informed, Reading
    <3> QED
      BY <1>2, NextStep, <3>1, <3>2, <3>3, <3>4, OnlyLooks
         DEF ChangeBook, Tick, Crash, UnlinkExpired, Unlink, RemoveDirectory, EvictOldest
  <2> QED BY <2>1, <2>2, <2>3, <2>4 DEF TypeInv, CacheType
<1> QED BY <1>1, <1>2

-------------------------------------------------------------------------------
(* A file that is about to be sent                                         *)

HasPage(r) ==
    reader[r].pc \in {"saving", "touch", "serve"} /\ ~reader[r].lost =>
      Entry(reader[r].book, reader[r].number) # None
HeldInv == TypeInv /\ (faults = 0 => \A r \in Readers : HasPage(r))

Remain == \A b \in Books, n \in Numbers : Entry(b, n) # None => Entry(b, n)' # None

(* A request that went on to a later step of these, or did nothing, still  *)
(* has its page, if no page went.                                          *)
LEMMA WaitingHasPage ==
    ASSUME TypeInv, Remain, NEW r \in Readers, ~Reading(r, "idle"),
           Entry(reader[r].book, reader[r].number) # None,
           reader'[r].book = reader[r].book, reader'[r].number = reader[r].number
    PROVE  HasPage(r)'
<1>1. PICK b \in Books, n \in Numbers : b = reader[r].book /\ n = reader[r].number
  BY DEF TypeInv, Informed, Reading, PageRequest
<1>2. Entry(b, n)' # None
  BY <1>1 DEF Remain
<1> QED BY <1>1, <1>2 DEF HasPage, Entry

LEMMA IdleHasPage ==
    ASSUME TypeInv, Remain, NEW r \in Readers, HasPage(r), reader'[r] = reader[r]
    PROVE  HasPage(r)'
<1>1. CASE reader[r].pc \in {"saving", "touch", "serve"} /\ ~reader[r].lost
  BY <1>1, WaitingHasPage DEF HasPage, Reading
<1>2. CASE ~(reader[r].pc \in {"saving", "touch", "serve"} /\ ~reader[r].lost)
  BY <1>2 DEF HasPage
<1> QED BY <1>1, <1>2

(* No page goes by a step of a request.                                    *)
LEMMA RequestsRemain ==
    ASSUME TypeInv, NEW r \in Readers,
           \/ AskPage(r) \/ LookPage(r) \/ ExtractPage(r) \/ BeginSave(r)
           \/ EndSave(r) \/ TouchLast(r) \/ ServePage(r)
    PROVE  Remain
<1>1. Harmless => Remain
  BY DEF Harmless, Remain, Stays
<1>2. CASE AskPage(r) \/ ServePage(r)
  BY <1>1, <1>2, SameCache DEF AskPage, ServePage
<1>3. CASE LookPage(r) \/ ExtractPage(r)
  BY <1>1, <1>3, LookHarmless
<1>4. CASE BeginSave(r)
  <2>1. CASE cache[reader[r].book] = None
    BY <1>1, <1>4, <2>1, SameCache DEF BeginSave
  <2>2. CASE cache[reader[r].book] # None
    BY <1>4, <2>2, SaveOpens DEF Remain, Stays
  <2> QED BY <2>1, <2>2
<1>5. CASE EndSave(r)
  BY <1>1, <1>5, EndSaveHarmless DEF EndSave
<1>6. CASE TouchLast(r)
  BY <1>1, <1>6, TouchHarmless
<1> QED BY <1>2, <1>3, <1>4, <1>5, <1>6

(* The request that makes the step.                                        *)
LEMMA RequestHasPage ==
    ASSUME TypeInv, NEW r \in Readers, HasPage(r),
           \/ AskPage(r) \/ LookPage(r) \/ ExtractPage(r) \/ BeginSave(r)
           \/ EndSave(r) \/ TouchLast(r) \/ ServePage(r)
    PROVE  HasPage(r)'
<1>1. /\ reader \in [Readers -> PageRequest] /\ Remain
      /\ ~Reading(r, "idle") => reader[r].book \in Books /\ reader[r].number \in Numbers
  BY RequestsRemain DEF TypeInv, Informed, PageRequest
<1>2. CASE AskPage(r) \/ ServePage(r) \/ ExtractPage(r)
  <2>1. reader'[r].pc \in {"idle", "look", "save"}
    <3>1. CASE Ended(r)
      BY <1>1, <3>1, NoPageType DEF Ended
    <3>2. CASE reader' = [reader EXCEPT ![r].pc = "save", ![r].version = disk[reader[r].book]]
      BY <1>1, <3>2 DEF PageRequest
    <3>3. CASE AskPage(r)
      <4>1. PICK b \in Books, n \in Numbers :
              reader' = [reader EXCEPT ![r] = [NoPage EXCEPT !.pc = "look",
                   !.book = b, !.number = n, !.name = PageAt(PageList(b), n)]]
        BY <3>3 DEF AskPage
      <4>2. reader'[r].pc = "look"
        BY <1>1, <4>1 DEF NoPage
      <4> QED BY <4>2
    <3> QED BY <1>2, <3>1, <3>2, <3>3 DEF ServePage, ExtractPage
  <2> QED BY <2>1 DEF HasPage
<1>3. CASE LookPage(r)
  <2>1. CASE Entry(reader[r].book, reader[r].number) = None
    <3>1. reader'[r].pc = "extract"
      BY <1>1, <1>3, <2>1 DEF LookPage, Onward, PageRequest
    <3> QED BY <3>1 DEF HasPage
  <2>2. CASE Entry(reader[r].book, reader[r].number) # None
    <3>1. reader'[r].book = reader[r].book /\ reader'[r].number = reader[r].number
      BY <1>1, <1>3, <2>2 DEF LookPage, HasFile, PageRequest
    <3> QED BY <1>1, <1>3, <2>2, <3>1, WaitingHasPage DEF LookPage, Reading
  <2> QED BY <2>1, <2>2
<1>4. CASE BeginSave(r)
  <2>1. CASE cache[reader[r].book] = None
    BY <1>1, <1>4, <2>1, NoPageType DEF BeginSave, Ended, HasPage
  <2>2. CASE cache[reader[r].book] # None
    <3>1. PICK b, n, new : /\ b = reader[r].book /\ n = reader[r].number
                           /\ new = [version |-> reader[r].version, name |-> reader[r].name]
      OBVIOUS
    <3>2. Entry(b, n)' # None
      BY <1>4, <2>2, <3>1, SaveOpens
    <3>3. reader'[r].book = b /\ reader'[r].number = n
      BY <1>1, <1>4, <2>2, <3>1 DEF BeginSave, Onward, PageRequest
    <3> QED BY <3>2, <3>3 DEF HasPage, Entry
  <2> QED BY <2>1, <2>2
<1>5. CASE EndSave(r) \/ TouchLast(r)
  <2>1. /\ reader'[r].book = reader[r].book /\ reader'[r].number = reader[r].number
        /\ reader'[r].lost = reader[r].lost
        /\ reader[r].pc \in {"saving", "touch"}
    <3>1. CASE EndSave(r)
      <4>1. PICK new : new = [reader[r] EXCEPT !.pc = "touch", !.name = None, !.version = None]
        OBVIOUS
      <4>2. reader'[r] = new
        BY <1>1, <3>1, <4>1 DEF EndSave, HasFile, PageRequest
      <4> QED BY <1>1, <3>1, <4>1, <4>2 DEF EndSave, Reading, PageRequest
    <3>2. CASE TouchLast(r)
      BY <1>1, <3>2 DEF TouchLast, Onward, Reading, PageRequest
    <3> QED BY <1>5, <3>1, <3>2
  <2>2. CASE reader[r].lost
    BY <2>1, <2>2 DEF HasPage
  <2>3. CASE ~reader[r].lost
    BY <1>1, <2>1, <2>3, WaitingHasPage DEF HasPage, Reading
  <2> QED BY <2>2, <2>3
<1> QED BY <1>2, <1>3, <1>4, <1>5

LEMMA StepHeld == ASSUME HeldInv, [Next]_vars PROVE HeldInv'
<1>1. TypeInv /\ TypeInv'
  BY StepTypes DEF HeldInv
<1>2. CASE UNCHANGED vars
  BY <1>1, <1>2 DEF vars, HeldInv, HasPage, Entry
<1>3. CASE Next
  <2> SUFFICES ASSUME faults' = 0, NEW q \in Readers PROVE HasPage(q)'
    BY <1>1 DEF HeldInv
  <2>1. ~Crash /\ (\A r : ~FailSave(r)) /\ faults = 0
    <3>1. \/ Crash \/ (\E r \in Readers : FailSave(r)) \/ faults' = faults
      BY <1>3, StepCounts DEF bounds
    <3>2. ~Crash /\ \A r : ~FailSave(r)
      <4>1. (Crash => faults' = faults + 1) /\ \A r : FailSave(r) => faults' = faults + 1
        BY DEF Crash, FailSave
      <4>2. faults' # faults + 1
        BY <1>1 DEF TypeInv
      <4> QED BY <4>1, <4>2
    <3> QED BY <3>1, <3>2
  <2>2. HasPage(q)
    BY <2>1 DEF HeldInv
  <2>3. Harmless => Remain
    BY DEF Harmless, Remain, Stays
  <2>4. CASE reader' = reader /\ Remain
    BY <1>1, <2>2, <2>4, IdleHasPage
  <2>5. ASSUME NEW r \in Readers,
               \/ AskPage(r) \/ LookPage(r) \/ ExtractPage(r) \/ BeginSave(r)
               \/ EndSave(r) \/ TouchLast(r) \/ ServePage(r)
        PROVE  HasPage(q)'
    BY <1>1, <2>2, <2>5, RequestsRemain, RequestHasPage, RequestTypes, IdleHasPage
  <2>6. ASSUME NEW c \in Cleaners, UnlinkExpired(c) \/ EvictOldest(c) PROVE HasPage(q)'
    <3>1. PICK b : Unlink(b)
      BY <2>6 DEF UnlinkExpired, EvictOldest
    <3> SUFFICES ASSUME reader'[q].pc \in {"saving", "touch", "serve"}, ~reader'[q].lost,
                        NEW d, NEW m, d = reader'[q].book, m = reader'[q].number
                 PROVE  Entry(d, m)' # None
      BY DEF HasPage, Entry
    <3>2. /\ reader[q].book # b /\ ~reader[q].lost /\ reader[q].pc = reader'[q].pc
          /\ reader'[q].book = reader[q].book /\ reader'[q].number = reader[q].number
      BY <1>1, <3>1, LoseOnly DEF Unlink
    <3>3. PICK o \in Books, n \in Numbers : o = reader[q].book /\ n = reader[q].number
      BY <1>1, <3>2 DEF TypeInv, Informed, Reading, PageRequest
    <3>4. Entry(o, n) # None /\ Stays(o, n)
      BY <1>1, <2>2, <3>1, <3>2, <3>3, UnlinkOnly DEF HasPage
    <3>5. Entry(o, n)' # None
      BY <3>4 DEF Stays
    <3> QED BY <3>2, <3>3, <3>5 DEF Entry
  <2>7. CASE ChangeBook \/ \E c \in Cleaners : Looks(c)
    BY <1>1, <2>3, <2>4, <2>7, SameCache, OnlyLooks DEF ChangeBook
  <2>8. CASE Tick \/ \E c \in Cleaners : RemoveDirectory(c)
    BY <1>1, <2>3, <2>4, <2>8, TickHarmless, RemoveHarmless DEF Tick, RemoveDirectory
  <2> QED BY <1>3, NextStep, <2>1, <2>5, <2>6, <2>7, <2>8
<1> QED BY <1>2, <1>3

(* rmdir never takes a page that a request saved after the directory was   *)
(* emptied, however many cleaners remove directories at once: a file that  *)
(* pse_page is about to send vanishes by an unlink during that request, or *)
(* by a fault.                                                             *)
THEOREM PagesServedUnlessCleaned == Spec => []ServedUnlessCleaned
<1>1. Init => HeldInv
  BY FirstTypes, NoPageType DEF HeldInv, HasPage, Init
<1>2. HeldInv /\ [Next]_vars => HeldInv'
  BY StepHeld
<1>3. HeldInv => ServedUnlessCleaned
  BY DEF HeldInv, HasPage, ServedUnlessCleaned, Reading
<1> QED BY <1>1, <1>2, <1>3, PTL DEF Spec

-------------------------------------------------------------------------------
(* What the cache holds under a page number                                *)

(* Nothing is replaced and nothing fails in this step, nor has before.     *)
Calm == changes = 0 /\ faults = 0

PageOf(b, n) == [version |-> disk[b], name |-> PageAt(PagesOf[disk[b]], n)]
Right(b, n) == Entry(b, n) # None =>
                 Entry(b, n).source = PageOf(b, n) /\ ~Entry(b, n).torn
AfterIt(r) ==
    LET want == PageOf(reader[r].book, reader[r].number) IN
    /\ reader[r].pc \in {"look", "extract", "save"} => reader[r].name = want.name
    /\ Reading(r, "save") => reader[r].version = want.version
CalmInv == TypeInv /\ (Calm => /\ \A b \in Books, n \in Numbers : Right(b, n)
                               /\ \A r \in Readers : AfterIt(r))

LEMMA RightKept ==
    ASSUME TypeInv, disk' = disk, NEW b \in Books, NEW n \in Numbers,
           Right(b, n), Unwritten(b, n)
    PROVE  Right(b, n)'
BY DEF Right, Unwritten, PageOf

(* The page that a request saves is the one it was asked for.              *)
LEMMA RightSaved ==
    ASSUME TypeInv, disk' = disk, NEW r \in Readers, BeginSave(r), AfterIt(r),
           \A b \in Books, n \in Numbers : Right(b, n)
    PROVE  \A b \in Books, n \in Numbers : Right(b, n)'
<1>1. PICK b, n, new :
        /\ b \in Books /\ n \in Numbers
        /\ b = reader[r].book /\ n = reader[r].number
        /\ new = [version |-> reader[r].version, name |-> reader[r].name]
  BY DEF TypeInv, Informed, BeginSave, Reading, PageRequest
<1>2. new = PageOf(b, n)
  BY <1>1 DEF AfterIt, BeginSave, Reading, PageOf
<1>3. CASE cache[b] = None
  BY <1>1, <1>3, SameCache, RightKept DEF BeginSave, Harmless
<1>4. CASE cache[b] # None
  <2>1. /\ Entry(b, n) = None \/ Entry(b, n).source = new => Entry(b, n)'.source = new
        /\ Entry(b, n)'.torn => Entry(b, n) # None /\ Entry(b, n).torn
        /\ \A o \in Books, m \in Numbers : o # b \/ m # n => Unwritten(o, m)
    BY <1>1, <1>4, SaveOpens
  <2>2. Entry(b, n)'.source = new /\ ~Entry(b, n)'.torn
    BY <1>1, <1>2, <2>1 DEF Right
  <2>3. PageOf(b, n)' = new
    BY <1>2 DEF PageOf
  <2> QED BY <1>1, <2>1, <2>2, <2>3, RightKept DEF Right
<1> QED BY <1>3, <1>4

LEMMA SameRequest ==
    ASSUME disk' = disk, NEW r \in Readers, AfterIt(r),
           reader'[r].pc = reader[r].pc, reader'[r].book = reader[r].book,
           reader'[r].number = reader[r].number, reader'[r].name = reader[r].name,
           reader'[r].version = reader[r].version
    PROVE  AfterIt(r)'
BY DEF AfterIt, Reading, PageOf

LEMMA RequestAfterIt ==
    ASSUME TypeInv, disk' = disk, NEW r \in Readers, AfterIt(r),
           \/ AskPage(r) \/ LookPage(r) \/ ExtractPage(r) \/ BeginSave(r)
           \/ EndSave(r) \/ TouchLast(r) \/ ServePage(r)
    PROVE  AfterIt(r)'
<1>1. reader \in [Readers -> PageRequest]
  BY DEF TypeInv
<1>2. CASE AskPage(r)
  <2>1. PICK b \in Books, n \in Numbers :
          /\ Within(PageList(b), n)
          /\ reader' = [reader EXCEPT ![r] = [NoPage EXCEPT !.pc = "look",
               !.book = b, !.number = n, !.name = PageAt(PageList(b), n)]]
    BY <1>2 DEF AskPage
  <2>2. PICK new : new = [NoPage EXCEPT !.pc = "look", !.book = b, !.number = n,
                                        !.name = PageAt(PageList(b), n)]
    OBVIOUS
  <2>3. reader'[r] = new
    BY <1>1, <2>1, <2>2
  <2>4. /\ new.pc = "look" /\ new.book = b /\ new.number = n
        /\ new.name = PageAt(PagesOf[disk[b]], n)
    BY <2>1, <2>2, Listed DEF NoPage
  <2> QED BY <2>3, <2>4 DEF AfterIt, Reading, PageOf
<1>3. CASE Ended(r) \/ HasFile(r) \/ Onward(r, "saving") \/ Onward(r, "serve")
  <2>1. reader'[r].pc \in {"idle", "touch", "saving", "serve"}
    <3>1. CASE Ended(r)
      BY <1>1, <3>1, NoPageType DEF Ended
    <3>2. CASE HasFile(r)
      <4>1. PICK new : new = [reader[r] EXCEPT !.pc = "touch", !.name = None, !.version = None]
        OBVIOUS
      <4>2. reader'[r] = new
        BY <1>1, <3>2, <4>1 DEF HasFile, PageRequest
      <4> QED BY <1>1, <4>1, <4>2 DEF PageRequest
    <3>3. CASE Onward(r, "saving") \/ Onward(r, "serve")
      BY <1>1, <3>3 DEF Onward, PageRequest
    <3> QED BY <1>3, <3>1, <3>2, <3>3
  <2> QED BY <2>1 DEF AfterIt, Reading
<1>4. CASE Reading(r, "look") /\ Onward(r, "extract")
  <2>1. /\ reader'[r].pc = "extract" /\ reader'[r].book = reader[r].book
        /\ reader'[r].number = reader[r].number /\ reader'[r].name = reader[r].name
    BY <1>1, <1>4 DEF Onward, PageRequest
  <2> QED BY <1>4, <2>1 DEF AfterIt, Reading, PageOf
<1>5. CASE /\ Reading(r, "extract")
           /\ reader' = [reader EXCEPT ![r].pc = "save", ![r].version = disk[reader[r].book]]
  <2>1. PICK v : v = disk[reader[r].book]
    OBVIOUS
  <2>2. /\ reader'[r].pc = "save" /\ reader'[r].book = reader[r].book
        /\ reader'[r].number = reader[r].number /\ reader'[r].name = reader[r].name
        /\ reader'[r].version = v
    BY <1>1, <1>5, <2>1 DEF PageRequest
  <2> QED BY <1>5, <2>1, <2>2 DEF AfterIt, Reading, PageOf
<1> QED
  BY <1>2, <1>3, <1>4, <1>5
     DEF LookPage, ExtractPage, BeginSave, EndSave, TouchLast, ServePage

LEMMA StepCalm == ASSUME CalmInv, [Next]_vars PROVE CalmInv'
<1>1. TypeInv /\ TypeInv'
  BY StepTypes DEF CalmInv
<1>2. CASE UNCHANGED vars
  BY <1>1, <1>2 DEF vars, CalmInv, Calm, Right, AfterIt, Reading, PageOf, Entry
<1>3. CASE Next
  <2> SUFFICES ASSUME Calm'
               PROVE  /\ \A b \in Books, n \in Numbers : Right(b, n)'
                      /\ \A r \in Readers : AfterIt(r)'
    BY <1>1 DEF CalmInv
  <2>1. ~Crash /\ (\A r : ~FailSave(r)) /\ ~ChangeBook /\ Calm
    <3>1. /\ Crash => faults' = faults + 1
          /\ \A r : FailSave(r) => faults' = faults + 1
          /\ ChangeBook => changes' = changes + 1
      BY DEF Crash, FailSave, ChangeBook
    <3>2. faults' # faults + 1 /\ changes' # changes + 1
      BY <1>1 DEF TypeInv, Calm
    <3>3. \/ ChangeBook \/ Crash \/ (\E r \in Readers : FailSave(r))
          \/ faults' = faults /\ changes' = changes
      BY <1>3, StepCounts DEF bounds
    <3> QED BY <3>1, <3>2, <3>3 DEF Calm
  <2>2. /\ \A b \in Books, n \in Numbers : Right(b, n)
        /\ \A r \in Readers : AfterIt(r)
    BY <2>1 DEF CalmInv
  <2>3. disk' = disk
    BY <1>3, <2>1, NextStep, OnlyLooks
       DEF Tick, AskPage, LookPage, ExtractPage, BeginSave, EndSave, TouchLast, ServePage,
           UnlinkExpired, RemoveDirectory, EvictOldest
  <2>4. \A b \in Books, n \in Numbers : Right(b, n)'
    <3>1. Harmless => \A b \in Books, n \in Numbers : Right(b, n)'
      BY <1>1, <2>2, <2>3, RightKept DEF Harmless
    <3>2. ASSUME NEW c \in Cleaners, UnlinkExpired(c) \/ EvictOldest(c)
          PROVE  \A b \in Books, n \in Numbers : Right(b, n)'
      BY <1>1, <2>2, <2>3, <3>2, UnlinkOnly, RightKept DEF UnlinkExpired, EvictOldest
    <3>3. ASSUME NEW r \in Readers, EndSave(r) PROVE Harmless
      BY <1>1, <3>3, EndSaveHarmless DEF EndSave
    <3>4. ASSUME NEW c \in Cleaners, Looks(c) PROVE Harmless
      BY <1>1, <3>4, SameCache, OnlyLooks
    <3>5. ASSUME NEW r \in Readers, AskPage(r) \/ ServePage(r) PROVE Harmless
      BY <1>1, <3>5, SameCache DEF AskPage, ServePage
    <3> QED
      BY <1>1, <1>3, <2>1, <2>2, <2>3, <3>1, <3>2, <3>3, <3>4, <3>5, NextStep, TickHarmless,
         LookHarmless, TouchHarmless, RemoveHarmless, RightSaved
  <2>5. ASSUME NEW q \in Readers PROVE AfterIt(q)'
    <3>1. CASE reader' = reader
      BY <2>2, <2>3, <3>1, SameRequest
    <3>2. ASSUME NEW r \in Readers,
                 \/ AskPage(r) \/ LookPage(r) \/ ExtractPage(r) \/ BeginSave(r)
                 \/ EndSave(r) \/ TouchLast(r) \/ ServePage(r)
          PROVE  AfterIt(q)'
      BY <1>1, <2>2, <2>3, <3>2, RequestAfterIt, RequestTypes, SameRequest
    <3>3. ASSUME NEW c \in Cleaners, UnlinkExpired(c) \/ EvictOldest(c) PROVE AfterIt(q)'
      BY <1>1, <2>2, <2>3, <3>3, LoseOnly, SameRequest DEF UnlinkExpired, EvictOldest, Unlink
    <3> QED
      BY <1>3, <2>1, NextStep, <3>1, <3>2, <3>3, OnlyLooks DEF Tick, RemoveDirectory
  <2> QED BY <2>4, <2>5
<1> QED BY <1>2, <1>3

(* Whichever requests race to save one page, what the cache holds under a  *)
(* page number is that page of the book, whole, unless a book was replaced *)
(* or a save failed.                                                       *)
THEOREM CachedPagesRight == Spec => []CachedRight
<1>1. Init => CalmInv
  BY FirstTypes, NoPageType DEF CalmInv, Right, AfterIt, Reading, Entry, Init
<1>2. CalmInv /\ [Next]_vars => CalmInv'
  BY StepCalm
<1>3. CalmInv => CachedRight
  BY DEF CalmInv, Calm, Right, PageOf, CachedRight
<1> QED BY <1>1, <1>2, <1>3, PTL DEF Spec

-------------------------------------------------------------------------------
(* Who has a file open                                                     *)

Saves(r, b, n) == Reading(r, "saving") /\ reader[r].book = b /\ reader[r].number = n
Writers(b, n) == IF Entry(b, n) = None THEN {} ELSE Entry(b, n).writing
OpenInv == \A b \in Books, n \in Numbers : \A r \in Writers(b, n) : Saves(r, b, n)

(* No file is opened in this step.                                         *)
NoneOpened == \A b \in Books, n \in Numbers : Writers(b, n)' \subseteq Writers(b, n)
(* The requests that are saving go on doing so, but for those in S.        *)
SavesOn(S) == \A r \in Readers \ S, b \in Books, n \in Numbers :
                Saves(r, b, n) => Saves(r, b, n)'

LEMMA WritersType ==
    ASSUME TypeInv, NEW b \in Books, NEW n \in Numbers
    PROVE  Writers(b, n) \subseteq Readers
BY DEF TypeInv, Writers, Entry, Directory, Jpeg

LEMMA OpenKept ==
    ASSUME TypeInv, OpenInv, NoneOpened, NEW S, SavesOn(S),
           \A r \in S, b \in Books, n \in Numbers : r \notin Writers(b, n)'
    PROVE  OpenInv'
BY WritersType DEF OpenInv, NoneOpened, SavesOn

LEMMA SameOpened == ASSUME cache' = cache PROVE NoneOpened
BY DEF NoneOpened, Writers, Entry

(* The directory of b changes, and no file in it has new writers.          *)
LEMMA DirectoryOpened ==
    ASSUME TypeInv, NEW b \in Books, NEW dir \in Directory,
           cache' = [cache EXCEPT ![b] = dir],
           \A n \in Numbers : dir.pages[n] # None =>
              Entry(b, n) # None /\ dir.pages[n].writing \subseteq Entry(b, n).writing
    PROVE  NoneOpened
<1>1. /\ cache'[b] = dir /\ dir # None
      /\ \A o \in Books \ {b} : cache'[o] = cache[o]
  BY NothingAssumption DEF TypeInv
<1>2. ASSUME NEW n \in Numbers PROVE Writers(b, n)' \subseteq Writers(b, n)
  <2>1. Entry(b, n)' = dir.pages[n]
    BY <1>1 DEF Entry
  <2> QED BY <2>1 DEF Writers
<1>3. ASSUME NEW o \in Books \ {b}, NEW n \in Numbers
      PROVE  Writers(o, n)' \subseteq Writers(o, n)
  BY <1>1 DEF Writers, Entry
<1> QED BY <1>1, <1>2, <1>3 DEF NoneOpened

LEMMA MadeOpened ==
    ASSUME TypeInv, NEW b \in Books, cache' = [cache EXCEPT ![b] = Made(cache[b])]
    PROVE  NoneOpened
<1>1. /\ Made(cache[b]) \in Directory
      /\ \A n \in Numbers : Made(cache[b]).pages[n] = Entry(b, n)
  <2>1. CASE cache[b] = None
    BY <2>1, EmptyType DEF Made, Entry
  <2>2. CASE cache[b] # None
    BY <2>2 DEF TypeInv, Made, Entry
  <2> QED BY <2>1, <2>2
<1> QED BY <1>1, DirectoryOpened

LEMMA UnlinkOpened ==
    ASSUME TypeInv, NEW b, Unlink(b) PROVE NoneOpened
<1>1. CASE b \notin Books
  <2>1. cache' = cache
    BY <1>1 DEF Unlink, TypeInv
  <2> QED BY <2>1, SameOpened
<1>2. CASE b \in Books /\ cache[b] = None
  <2>1. cache' = cache
    BY <1>2 DEF Unlink, TypeInv
  <2> QED BY <2>1, SameOpened
<1>3. CASE b \in Books /\ cache[b] # None
  <2>1. cache' = [cache EXCEPT ![b] = EmptyDirectory]
    BY <1>3 DEF Unlink
  <2> QED BY <1>3, <2>1, EmptyType, DirectoryOpened
<1> QED BY <1>1, <1>2, <1>3

LEMMA RemoveOpened ==
    ASSUME TypeInv, NEW c \in Cleaners, RemoveDirectory(c) PROVE NoneOpened
<1>1. CASE cache' = cache
  BY <1>1, SameOpened
<1>2. CASE cache' # cache
  <2>1. PICK b : cache' = [cache EXCEPT ![b] = None]
    BY <1>2 DEF RemoveDirectory
  <2>2. \A o \in Books : cache'[o] = IF o = b THEN None ELSE cache[o]
    BY <2>1 DEF TypeInv
  <2> QED BY <2>2 DEF NoneOpened, Writers, Entry
<1> QED BY <1>1, <1>2

LEMMA TickOpened == ASSUME TypeInv, Tick PROVE NoneOpened
<1>1. \A b \in Books : /\ cache[b] = None => cache'[b] = None
                       /\ cache[b] # None => cache'[b].pages = cache[b].pages
  BY DEF Tick
<1> QED BY <1>1 DEF NoneOpened, Writers, Entry

LEMMA TouchOpened ==
    ASSUME TypeInv, NEW r \in Readers, TouchLast(r) PROVE NoneOpened
<1>1. PICK b \in Books : b = reader[r].book
  BY DEF TypeInv, Informed, TouchLast, Reading
<1>2. CASE cache[b] = None
  BY <1>1, <1>2, SameOpened DEF TouchLast
<1>3. CASE cache[b] # None
  <2>1. cache[b] \in Directory /\ 0 \in Ages
    BY <1>3, CacheAssumption DEF TypeInv, Ages
  <2>2. PICK dir : dir = [beat |-> TRUE, age |-> 0, pages |-> cache[b].pages]
    OBVIOUS
  <2>3. cache' = [cache EXCEPT ![b] = dir]
    BY <1>1, <1>3, <2>2 DEF TouchLast
  <2>4. dir \in Directory /\ \A n \in Numbers : dir.pages[n] = Entry(b, n)
    BY <1>3, <2>1, <2>2 DEF Directory, Entry
  <2> QED BY <2>3, <2>4, DirectoryOpened
<1> QED BY <1>2, <1>3

(* When save() is over, r writes no file, whichever way it ended.          *)
LEMMA SaveOver ==
    ASSUME TypeInv, OpenInv, NEW r \in Readers, EndSave(r) \/ FailSave(r)
    PROVE  NoneOpened /\ \A b \in Books, n \in Numbers : r \notin Writers(b, n)'
<1>1. PICK b, n : /\ b \in Books /\ n \in Numbers
                  /\ b = reader[r].book /\ n = reader[r].number
  BY DEF TypeInv, Informed, Reading, PageRequest, EndSave, FailSave
<1>2. \A o \in Books, m \in Numbers : r \in Writers(o, m) => o = b /\ m = n
  BY <1>1 DEF OpenInv, Saves
<1>3. CASE cache' = cache /\ r \notin Writers(b, n)
  <2>1. \A o \in Books, m \in Numbers : Writers(o, m)' = Writers(o, m)
    BY <1>3 DEF Writers, Entry
  <2> QED BY <1>2, <1>3, <2>1, SameOpened
<1>4. ASSUME Entry(b, n) # None, NEW page \in Jpeg \cup {None},
             cache' = [cache EXCEPT ![b] = Filed(cache[b], n, page)],
             page # None => page.writing = Entry(b, n).writing \ {r}
      PROVE  NoneOpened /\ \A o \in Books, m \in Numbers : r \notin Writers(o, m)'
  <2>1. /\ cache[b] # None /\ cache[b] \in Directory
        /\ \A m \in Numbers : Entry(b, m) = cache[b].pages[m]
    BY <1>1, <1>4 DEF TypeInv, Entry
  <2>2. PICK dir \in Directory :
          /\ dir = Filed(cache[b], n, page) /\ dir # None
          /\ dir.pages[n] = page /\ \A m \in Numbers \ {n} : dir.pages[m] = cache[b].pages[m]
    BY <1>1, <2>1, FiledType
  <2>3. \A m \in Numbers : dir.pages[m] # None =>
           Entry(b, m) # None /\ dir.pages[m].writing \subseteq Entry(b, m).writing
    <3>1. SUFFICES ASSUME NEW m \in Numbers, dir.pages[m] # None
                   PROVE  Entry(b, m) # None /\ dir.pages[m].writing \subseteq Entry(b, m).writing
      OBVIOUS
    <3>2. CASE m = n
      BY <1>4, <2>2, <3>1, <3>2
    <3>3. CASE m # n
      BY <2>1, <2>2, <3>1, <3>3
    <3> QED BY <3>2, <3>3
  <2>4. NoneOpened
    <3>1. cache' = [cache EXCEPT ![b] = dir]
      BY <1>4, <2>2
    <3> QED BY <1>1, <2>3, <3>1, DirectoryOpened
  <2>5. r \notin Writers(b, n)'
    <3>1. cache'[b] = dir
      BY <1>1, <1>4, <2>2 DEF TypeInv
    <3>2. Entry(b, n)' = page
      BY <2>2, <3>1 DEF Entry
    <3> QED BY <1>4, <3>2 DEF Writers
  <2>6. \A o \in Books, m \in Numbers : r \in Writers(o, m)' => o = b /\ m = n
    BY <1>2, <2>4 DEF NoneOpened
  <2> QED BY <2>4, <2>5, <2>6
<1>5. ASSUME NEW torn \in BOOLEAN, Closed(r, torn)
      PROVE  NoneOpened /\ \A o \in Books, m \in Numbers : r \notin Writers(o, m)'
  <2>1. CASE cache' = cache /\ r \notin Writers(b, n)
    BY <1>3, <2>1
  <2>2. CASE ~(cache' = cache /\ r \notin Writers(b, n))
    <3>1. /\ Entry(b, n) # None
          /\ cache' = [cache EXCEPT ![b] =
                         Filed(cache[b], n, Released(cache[b].pages[n], r, torn))]
      BY <1>1, <1>5, <2>2 DEF Closed, Writers
    <3>2. PICK old \in Jpeg : old = cache[b].pages[n] /\ old = Entry(b, n)
      BY <1>1, <3>1 DEF TypeInv, Entry, Directory
    <3>3. Released(old, r, torn) \in Jpeg
      BY ReleasedType
    <3>4. Released(old, r, torn).writing = old.writing \ {r}
      BY DEF Released
    <3>5. PICK page \in Jpeg \cup {None} :
            page = Released(old, r, torn) /\ page.writing = old.writing \ {r}
      BY <3>3, <3>4
    <3>6. cache' = [cache EXCEPT ![b] = Filed(cache[b], n, page)]
      BY <3>1, <3>2, <3>5
    <3> QED BY <1>4, <3>1, <3>2, <3>5, <3>6
  <2> QED BY <2>1, <2>2
<1>6. CASE EndSave(r)
  <2>1. FALSE \in BOOLEAN /\ Closed(r, FALSE)
    BY <1>6 DEF EndSave
  <2> QED BY <1>5, <2>1
<1>7. CASE FailSave(r)
  <2>1. CASE Closed(r, TRUE)
    BY <1>5, <2>1
  <2>2. CASE Entry(b, n) # None /\ cache' = [cache EXCEPT ![b] = Filed(cache[b], n, None)]
    BY <1>4, <2>2
  <2> QED BY <1>1, <1>7, <2>1, <2>2 DEF FailSave
<1> QED BY <1>6, <1>7

(* The file that r opens is the one it saves.                              *)
LEMMA BeginOpens ==
    ASSUME TypeInv, OpenInv, NEW r \in Readers, BeginSave(r)
    PROVE  OpenInv'
<1>1. PICK b, n, new :
        /\ b \in Books /\ n \in Numbers /\ new \in Sources
        /\ b = reader[r].book /\ n = reader[r].number
        /\ new = [version |-> reader[r].version, name |-> reader[r].name]
  BY DEF TypeInv, Informed, BeginSave, Reading, PageRequest, Sources
<1>2. /\ \A q \in Readers \ {r} : reader'[q] = reader[q]
      /\ reader \in [Readers -> PageRequest] /\ Reading(r, "save")
  BY RequestTypes DEF TypeInv, BeginSave
<1>3. SavesOn({r})
  BY <1>2 DEF SavesOn, Saves, Reading
<1>4. \A o \in Books, m \in Numbers : r \notin Writers(o, m)
  BY <1>2 DEF OpenInv, Saves, Reading
<1>5. CASE cache[b] = None
  <2>1. cache' = cache
    BY <1>1, <1>5 DEF BeginSave
  <2>2. \A o \in Books, m \in Numbers : Writers(o, m)' = Writers(o, m)
    BY <2>1 DEF Writers, Entry
  <2> QED BY <1>3, <1>4, <2>1, <2>2, SameOpened, OpenKept
<1>6. CASE cache[b] # None
  <2>1. /\ cache[b] \in Directory
        /\ \A m \in Numbers : Entry(b, m) = cache[b].pages[m]
    BY <1>1, <1>6 DEF TypeInv, Entry
  <2>2. PICK old \in Jpeg \cup {None} : old = Entry(b, n) /\ old = cache[b].pages[n]
    BY <1>1, <2>1 DEF Directory
  <2>3. PICK page \in Jpeg : page = Opened(old, r, new) /\ page # None
    BY <1>1, OpenedType
  <2>4. page.writing \subseteq Writers(b, n) \cup {r}
    BY <2>2, <2>3 DEF Opened, Writers
  <2>5. PICK dir \in Directory :
          /\ dir = Filed(cache[b], n, page) /\ dir # None
          /\ dir.pages[n] = page /\ \A m \in Numbers \ {n} : dir.pages[m] = cache[b].pages[m]
    BY SMTT(30), <1>1, <2>1, <2>3, FiledType
  <2>6. cache' = [cache EXCEPT ![b] = dir] /\ Onward(r, "saving")
    BY <1>1, <1>6, <2>2, <2>3, <2>5 DEF BeginSave
  <2>7. cache'[b] = dir /\ \A o \in Books \ {b} : cache'[o] = cache[o]
    BY <1>1, <2>6 DEF TypeInv
  <2>8. Writers(b, n)' \subseteq Writers(b, n) \cup {r}
    <3>1. Entry(b, n)' = page
      BY <2>5, <2>7 DEF Entry
    <3> QED BY <2>3, <2>4, <3>1 DEF Writers
  <2>9. ASSUME NEW o \in Books, NEW m \in Numbers, o # b \/ m # n
        PROVE  Writers(o, m)' = Writers(o, m)
    <3>1. Entry(o, m)' = Entry(o, m)
      BY <2>1, <2>5, <2>7, <2>9 DEF Entry
    <3> QED BY <3>1 DEF Writers
  <2>10. Saves(r, b, n)'
    BY <1>1, <1>2, <2>6 DEF Onward, PageRequest, Saves, Reading
  <2>11. ASSUME NEW o \in Books, NEW m \in Numbers, NEW q \in Writers(o, m)', q # r
         PROVE  Saves(q, o, m)'
    <3>1. q \in Writers(o, m)
      BY <2>8, <2>9, <2>11
    <3>2. q \in Readers /\ Saves(q, o, m)
      BY <3>1, WritersType DEF OpenInv
    <3> QED BY <1>3, <2>11, <3>2 DEF SavesOn
  <2>12. ASSUME NEW o \in Books, NEW m \in Numbers, r \in Writers(o, m)'
         PROVE  o = b /\ m = n
    BY <1>4, <2>9, <2>12
  <2> QED BY <2>10, <2>11, <2>12 DEF OpenInv
<1> QED BY <1>5, <1>6

LEMMA CrashOpened ==
    ASSUME TypeInv, Crash, NEW b \in Books, NEW n \in Numbers
    PROVE  Writers(b, n)' = {}
<1>1. CASE cache[b] = None
  <2>1. cache'[b] = None
    BY <1>1 DEF Crash
  <2> QED BY <2>1 DEF Writers, Entry
<1>2. CASE cache[b] # None
  <2>1. cache'[b].pages[n] = Abandoned(cache[b].pages[n])
    BY <1>2 DEF Crash
  <2>2. Entry(b, n)' \in {None, Abandoned(cache[b].pages[n])}
    BY <2>1 DEF Entry
  <2>3. Abandoned(cache[b].pages[n]) = None \/ Abandoned(cache[b].pages[n]).writing = {}
    BY DEF Abandoned
  <2> QED BY <2>2, <2>3 DEF Writers
<1> QED BY <1>1, <1>2

(* A file is open for writing only while a request is saving that page.    *)
LEMMA StepOpen == ASSUME TypeInv, OpenInv, [Next]_vars PROVE OpenInv'
<1>1. CASE UNCHANGED vars
  BY <1>1 DEF vars, OpenInv, Writers, Saves, Reading, Entry
<1>2. ASSUME NoneOpened, SavesOn({}) PROVE OpenInv'
  BY <1>2, OpenKept
<1>3. CASE reader' = reader /\ NoneOpened
  BY <1>2, <1>3 DEF SavesOn, Saves, Reading
<1>4. ASSUME NEW r \in Readers,
             \/ AskPage(r) \/ LookPage(r) \/ ExtractPage(r) \/ BeginSave(r)
             \/ EndSave(r) \/ FailSave(r) \/ TouchLast(r) \/ ServePage(r)
      PROVE  OpenInv'
  <2>1. \A q \in Readers \ {r} : reader'[q] = reader[q]
    BY <1>4, RequestTypes
  <2>2. SavesOn({r})
    BY <2>1 DEF SavesOn, Saves, Reading
  <2>3. CASE EndSave(r) \/ FailSave(r)
    BY <2>2, <2>3, SaveOver, OpenKept
  <2>4. CASE BeginSave(r)
    BY <2>4, BeginOpens
  <2>5. CASE ~Reading(r, "saving") /\ NoneOpened
    <3>1. SavesOn({})
      BY <2>2, <2>5 DEF SavesOn, Saves
    <3> QED BY <1>2, <2>5, <3>1
  <2>6. CASE LookPage(r) \/ ExtractPage(r)
    <3>1. reader[r].book \in Books
      BY <2>6 DEF TypeInv, Informed, LookPage, ExtractPage, Reading
    <3>2. cache' = cache \/ cache' = [cache EXCEPT ![reader[r].book] = Made(cache[reader[r].book])]
      BY <2>6 DEF LookPage, ExtractPage
    <3>3. NoneOpened
      BY <3>1, <3>2, SameOpened, MadeOpened
    <3> QED BY <2>5, <2>6, <3>3 DEF LookPage, ExtractPage, Reading
  <2>7. CASE TouchLast(r)
    BY <2>5, <2>7, TouchOpened DEF TouchLast, Reading
  <2>8. CASE AskPage(r) \/ ServePage(r)
    BY <2>5, <2>8, SameOpened DEF AskPage, ServePage, Reading
  <2> QED BY <1>4, <2>3, <2>4, <2>6, <2>7, <2>8
<1>5. ASSUME NEW c \in Cleaners, UnlinkExpired(c) \/ EvictOldest(c) PROVE OpenInv'
  <2>1. PICK b : Unlink(b)
    BY <1>5 DEF UnlinkExpired, EvictOldest
  <2>2. NoneOpened
    BY <2>1, UnlinkOpened
  <2>3. SavesOn({})
    BY <2>1, LoseOnly DEF Unlink, SavesOn, Saves, Reading
  <2> QED BY <1>2, <2>2, <2>3
<1>6. CASE Crash
  BY <1>6, CrashOpened DEF OpenInv
<1>7. CASE ChangeBook \/ \E c \in Cleaners : Looks(c)
  BY <1>3, <1>7, SameOpened, OnlyLooks DEF ChangeBook
<1>8. CASE Tick \/ \E c \in Cleaners : RemoveDirectory(c)
  BY <1>3, <1>8, TickOpened, RemoveOpened DEF Tick, RemoveDirectory
<1> QED BY <1>1, <1>4, <1>5, <1>6, <1>7, <1>8, NextStep

-------------------------------------------------------------------------------
(* What a cleaner counts                                                   *)

Below == {p \in Nat \X Nat : p[1] < p[2]}
LEMMA BelowWellFounded == IsWellFoundedOn(Below, Nat)
BY NatLessThanWellFounded DEF OpToRel, Below

LEMMA LeastNumber ==
    ASSUME NEW S \in SUBSET Nat, S # {}
    PROVE  \E x \in S : \A y \in S : x <= y
<1>1. ASSUME NEW x \in Nat, NEW y \in Nat, <<y, x>> \notin Below PROVE x <= y
  <2>1. ~(y < x)
    BY <1>1 DEF Below
  <2> QED BY <2>1
<1>2. PICK x \in S : \A y \in S : <<y, x>> \notin Below
  BY BelowWellFounded, WFMin
<1>3. \A y \in S : x <= y
  BY <1>1, <1>2
<1> QED BY <1>3

(* Among some directories there is one that was unused the longest.        *)
LEMMA LongestUnused ==
    ASSUME NEW todo \in SUBSET Books, todo # {}, NEW age \in [Books -> Ages]
    PROVE  \E b \in todo : \A o \in todo : age[o] <= age[b]
<1> DEFINE Left == {Idle - age[o] : o \in todo}
<1>1. \A o \in todo : age[o] \in Nat /\ age[o] <= Idle
  BY DEF Ages
<1>2. Left \in SUBSET Nat /\ Left # {}
  BY <1>1, CacheAssumption
<1>3. PICK x \in Left : \A y \in Left : x <= y
  BY <1>2, LeastNumber
<1>4. PICK b \in todo : x = Idle - age[b]
  BY <1>3
<1>5. ASSUME NEW o \in todo PROVE age[o] <= age[b]
  <2>1. Idle - age[b] <= Idle - age[o]
    BY <1>3, <1>4
  <2> QED BY <1>1, <2>1, CacheAssumption
<1> QED BY <1>5

LEMMA SlotsFinite == IsFiniteSet(Slots)
<1>1. IsFiniteSet(Numbers)
  <2>1. MinPage \in Int /\ MaxPage - 1 \in Int
    BY CacheAssumption
  <2> QED BY <2>1, FS_Interval DEF Numbers
<1> QED BY <1>1, RolesAssumption, FS_Product DEF Slots

LEMMA Counted ==
    ASSUME NEW slots \in SUBSET Slots
    PROVE  IsFiniteSet(slots) /\ Cardinality(slots) \in Nat
BY SlotsFinite, FS_Subset, FS_CardinalityType

(* The pages counted for the directories that are left.                    *)
Due(found, todo) == {s \in found : s[1] \in todo}

LEMMA DueWithout ==
    ASSUME NEW found \in SUBSET Slots, NEW todo, NEW b \in todo
    PROVE  Cardinality(Due(found, todo \ {b}))
             = Cardinality(Due(found, todo)) - Cardinality(Of(found, b))
<1> DEFINE rest == Due(found, todo \ {b})
           own == Of(found, b)
<1>1. /\ rest \in SUBSET Slots /\ own \in SUBSET Slots
      /\ rest \cap own = {} /\ rest \cup own = Due(found, todo)
  BY DEF Due, Of
<1> HIDE DEF rest, own
<1>2. /\ IsFiniteSet(rest) /\ IsFiniteSet(own)
      /\ Cardinality(rest) \in Nat /\ Cardinality(own) \in Nat
  BY <1>1, Counted
<1>3. Cardinality(rest \cup own) = Cardinality(rest) + Cardinality(own) - Cardinality(rest \cap own)
  BY <1>2, FS_Union
<1>4. Cardinality(rest \cap own) = 0
  BY <1>1, FS_EmptySet
<1>5. Cardinality(rest \cup own) = Cardinality(Due(found, todo))
  BY Zenon, <1>1
<1>6. Cardinality(rest) = Cardinality(Due(found, todo)) - Cardinality(own)
  BY <1>2, <1>3, <1>4, <1>5
<1> QED BY <1>6 DEF rest, own

(* Evicting, a pass knows how much it has counted for the directories that *)
(* are left, and that there is nothing else but what it is still to look   *)
(* at and what was saved too late for it.                                  *)
Uncounted(left) == {s \in Slots : s[1] \in left}
Knows(pass, held) ==
    LET due == Due(pass.found, pass.todo) IN
    /\ pass.total = Cardinality(due)
    /\ held \subseteq due \cup pass.late \cup Uncounted(pass.left)
    /\ \A b \in pass.left : b \notin pass.todo /\ Of(pass.found, b) = {}
Listing(pass) == pass.pc = "expired" => pass.found = {} /\ pass.total = 0
PassInv(c) ==
    /\ cleaner[c] \in Pass /\ Listing(cleaner[c])
    /\ Passing(c, "evict") => Knows(cleaner[c], Held)
CleanInv ==
    /\ cleaner \in [Cleaners -> Pass]
    /\ \A c \in Cleaners : PassInv(c)

LEMMA HeldSlots == Held \in SUBSET Slots
BY DEF Held

(* A step after which no page is held that was not held before.            *)
LEMMA SamePass ==
    ASSUME NEW c, PassInv(c), cleaner'[c] = cleaner[c], Held' \subseteq Held
    PROVE  PassInv(c)'
BY DEF PassInv, Passing, Knows, Listing

LEMMA NoneHeldAnew ==
    ASSUME \A b \in Books, n \in Numbers : Entry(b, n)' # None => Entry(b, n) # None
    PROVE  Held' \subseteq Held
<1> SUFFICES ASSUME NEW s \in Slots, s \in Held' PROVE s \in Held
  BY DEF Held
<1>1. PICK b \in Books, n \in Numbers : s = <<b, n>>
  BY DEF Slots
<1>2. Entry(b, n)' # None
  BY <1>1 DEF Held, Entry
<1> QED BY <1>1, <1>2 DEF Held

LEMMA HarmlessHeld == ASSUME Harmless PROVE Held' \subseteq Held
BY NoneHeldAnew DEF Harmless, Stays

LEMMA FirstPass == NoPass \in Pass /\ NoPass.pc = "idle"
<1>1. 0 \in Ages /\ 0 \in Nat /\ [b \in Books |-> 0] \in [Books -> Ages]
  BY CacheAssumption DEF Ages
<1> QED BY <1>1 DEF NoPass, Pass

(* What a failed save leaves was there before.                             *)
LEMMA FailSaveHeld ==
    ASSUME TypeInv, NEW r \in Readers, FailSave(r) PROVE Held' \subseteq Held
<1>1. PICK b \in Books, n \in Numbers : b = reader[r].book /\ n = reader[r].number
  BY DEF TypeInv, Informed, Reading, PageRequest, FailSave
<1>2. CASE cache' = cache
  BY <1>2 DEF Held, Entry
<1>3. CASE cache' # cache
  <2>1. /\ Entry(b, n) # None
        /\ \/ cache' = [cache EXCEPT ![b] =
                          Filed(cache[b], n, Released(cache[b].pages[n], r, TRUE))]
           \/ cache' = [cache EXCEPT ![b] = Filed(cache[b], n, None)]
    BY <1>1, <1>3 DEF FailSave, Closed
  <2>2. cache[b] # None /\ cache[b] \in Directory /\ cache[b].pages[n] \in Jpeg
    BY <2>1 DEF TypeInv, Entry, Directory
  <2>3. TRUE \in BOOLEAN
    OBVIOUS
  <2>4. Released(cache[b].pages[n], r, TRUE) \in Jpeg
    BY <2>2, <2>3, ReleasedType
  <2>5. PICK page \in Jpeg \cup {None} : cache' = [cache EXCEPT ![b] = Filed(cache[b], n, page)]
    BY <2>1, <2>4
  <2>6. PICK dir \in Directory :
          /\ dir = Filed(cache[b], n, page)
          /\ \A m \in Numbers \ {n} : dir.pages[m] = cache[b].pages[m]
    BY <2>2, FiledType
  <2>7. \A o \in Books : cache'[o] = IF o = b THEN dir ELSE cache[o]
    BY <2>5, <2>6 DEF TypeInv
  <2>8. ASSUME NEW o \in Books, NEW m \in Numbers, Entry(o, m)' # None
        PROVE  Entry(o, m) # None
    <3>1. CASE o = b /\ m = n
      BY <2>1, <3>1
    <3>2. CASE o = b /\ m # n
      BY <2>2, <2>6, <2>7, <2>8, <3>2 DEF Entry
    <3>3. CASE o # b
      BY <2>7, <2>8, <3>3 DEF Entry
    <3> QED BY <3>1, <3>2, <3>3
  <2> QED BY <2>8, NoneHeldAnew
<1> QED BY <1>2, <1>3

(* A page that is opened is new to the passes that have looked at its       *)
(* directory, and is seen by the others when they come to it.               *)
LEMMA MissedPasses ==
    ASSUME TypeInv, CleanInv, NEW r \in Readers, BeginSave(r),
           NEW b, b = reader[r].book, NEW n, n = reader[r].number,
           cleaner' = Missed(b, n), cache[b] # None
    PROVE  CleanInv'
<1>1. /\ b \in Books /\ n \in Numbers
      /\ \A o \in Books, m \in Numbers : o # b \/ m # n => Stays(o, m) /\ Unwritten(o, m)
  BY SaveOpens DEF TypeInv, Informed, BeginSave, Reading, PageRequest
<1>2. Held' \subseteq Held \cup {<<b, n>>} /\ <<b, n>> \in Slots
  <2>1. ASSUME NEW o \in Books, NEW m \in Numbers, <<o, m>> \in Held', o # b \/ m # n
        PROVE  <<o, m>> \in Held
    <3>1. Entry(o, m)' # None
      BY <2>1 DEF Held, Entry
    <3>2. Entry(o, m) # None
      BY <1>1, <2>1, <3>1 DEF Unwritten
    <3> QED BY <3>2 DEF Held, Slots
  <2> QED BY <1>1, <2>1 DEF Held, Slots
<1>3. ASSUME NEW c \in Cleaners PROVE PassInv(c)'
  <2>1. cleaner[c] \in Pass /\ PassInv(c)
    BY <1>3 DEF CleanInv
  <2>2. CASE cleaner[c].pc = "evict" /\ b \notin cleaner[c].left
    <3>1. PICK late : late = cleaner[c].late \cup {<<b, n>>}
      OBVIOUS
    <3>2. late \in SUBSET Slots
      BY <1>2, <2>1, <3>1 DEF Pass
    <3>3. cleaner'[c] = [cleaner[c] EXCEPT !.late = late]
      BY <1>3, <2>2, <3>1 DEF Missed
    <3>4. /\ cleaner'[c] \in Pass /\ cleaner'[c].late = late
          /\ cleaner'[c].pc = cleaner[c].pc /\ cleaner'[c].todo = cleaner[c].todo
          /\ cleaner'[c].found = cleaner[c].found /\ cleaner'[c].total = cleaner[c].total
          /\ cleaner'[c].left = cleaner[c].left
      BY <2>1, <3>2, <3>3 DEF Pass
    <3> QED BY <1>2, <2>1, <2>2, <3>1, <3>4 DEF PassInv, Passing, Knows, Listing
  <2>3. CASE cleaner[c].pc = "evict" /\ b \in cleaner[c].left
    <3>1. cleaner'[c] = cleaner[c]
      BY <1>3, <2>3 DEF Missed
    <3>2. <<b, n>> \in Uncounted(cleaner[c].left)
      BY <1>2, <2>3 DEF Uncounted
    <3> QED BY <1>2, <2>1, <3>1, <3>2 DEF PassInv, Passing, Knows, Listing
  <2>4. CASE cleaner[c].pc # "evict"
    <3>1. cleaner'[c] = cleaner[c]
      BY <1>3, <2>4 DEF Missed
    <3> QED BY <2>1, <2>4, <3>1 DEF PassInv, Passing, Listing
  <2> QED BY <2>2, <2>3, <2>4
<1>4. cleaner' = [c \in Cleaners |-> cleaner'[c]]
  BY DEF Missed
<1> QED BY <1>3, <1>4 DEF CleanInv, PassInv

LEMMA SamePasses ==
    ASSUME CleanInv, cleaner' = cleaner, Held' \subseteq Held PROVE CleanInv'
BY SamePass DEF CleanInv

(* Only the pass of c goes on.                                             *)
LEMMA OnePass ==
    ASSUME CleanInv, NEW c \in Cleaners, NEW pass \in Pass,
           cleaner' = [cleaner EXCEPT ![c] = pass], Held' \subseteq Held,
           Listing(pass), pass.pc = "evict" => Knows(pass, Held')
    PROVE  CleanInv'
<1>1. cleaner' \in [Cleaners -> Pass] /\ cleaner'[c] = pass
  BY DEF CleanInv
<1>2. PassInv(c)'
  BY <1>1 DEF PassInv, Passing, Knows, Listing
<1>3. ASSUME NEW o \in Cleaners, o # c PROVE PassInv(o)'
  <2>1. cleaner'[o] = cleaner[o] /\ PassInv(o)
    BY <1>3 DEF CleanInv
  <2> QED BY <2>1, SamePass
<1> QED BY <1>1, <1>2, <1>3 DEF CleanInv

LEMMA BeginClean ==
    ASSUME TypeInv, CleanInv, NEW c \in Cleaners, BeginPass(c) PROVE CleanInv'
<1>1. PICK pass : pass = [NoPass EXCEPT !.pc = "expired", !.left = Present]
  OBVIOUS
<1>2. /\ pass \in Pass /\ pass.pc = "expired"
      /\ pass.found = {} /\ pass.total = 0
  BY <1>1, FirstPass DEF Pass, Present, NoPass
<1>3. cleaner' = [cleaner EXCEPT ![c] = pass]
  BY <1>1 DEF BeginPass
<1>4. Held' \subseteq Held
  BY SameCache, HarmlessHeld DEF BeginPass
<1> QED BY <1>2, <1>3, <1>4, OnePass DEF Listing

LEMMA AgeClean ==
    ASSUME TypeInv, CleanInv, NEW c \in Cleaners, ListForAge(c) PROVE CleanInv'
<1>1. PICK b, age :
        /\ b \in cleaner[c].left
        /\ cleaner' = [cleaner EXCEPT ![c].left = @ \ {b},
                         ![c].todo = IF age = Idle THEN @ \cup {b} ELSE @]
  BY DEF ListForAge
<1>2. cleaner[c] \in Pass /\ PassInv(c) /\ cleaner[c].pc = "expired"
  BY DEF CleanInv, ListForAge, Passing
<1>3. PICK left \in SUBSET Books, todo \in SUBSET Books :
        /\ left = cleaner[c].left \ {b}
        /\ todo = IF age = Idle THEN cleaner[c].todo \cup {b} ELSE cleaner[c].todo
  BY <1>1, <1>2 DEF Pass
<1>4. PICK pass : pass = [cleaner[c] EXCEPT !.left = left, !.todo = todo]
  OBVIOUS
<1>5. /\ pass \in Pass /\ pass.pc = "expired"
      /\ pass.found = cleaner[c].found /\ pass.total = cleaner[c].total
  BY <1>2, <1>3, <1>4 DEF Pass
<1>6. cleaner' = [cleaner EXCEPT ![c] = pass]
  BY <1>1, <1>2, <1>3, <1>4 DEF CleanInv, Pass
<1>7. Held' \subseteq Held
  BY SameCache, HarmlessHeld DEF ListForAge
<1> QED BY <1>2, <1>5, <1>6, <1>7, OnePass DEF PassInv, Listing

LEMMA RemoveClean ==
    ASSUME TypeInv, CleanInv, NEW c \in Cleaners, RemoveDirectory(c) PROVE CleanInv'
<1>1. Held' \subseteq Held
  BY RemoveHarmless, HarmlessHeld
<1>2. cleaner[c] \in Pass /\ PassInv(c)
  BY DEF CleanInv
<1>3. PICK pass : pass = [cleaner[c] EXCEPT !.emptied = None]
  OBVIOUS
<1>4. /\ pass \in Pass /\ pass.pc = cleaner[c].pc /\ pass.todo = cleaner[c].todo
      /\ pass.found = cleaner[c].found /\ pass.total = cleaner[c].total
      /\ pass.late = cleaner[c].late /\ pass.left = cleaner[c].left
  BY <1>2, <1>3 DEF Pass
<1>5. cleaner' = [cleaner EXCEPT ![c] = pass]
  BY <1>3 DEF RemoveDirectory, CleanInv
<1>6. Listing(pass) /\ (pass.pc = "evict" => Knows(pass, Held'))
  BY <1>1, <1>2, <1>4 DEF PassInv, Passing, Listing, Knows
<1> QED BY <1>1, <1>4, <1>5, <1>6, OnePass

(* At first all that is there lies in a directory still to look at.         *)
LEMMA RelistClean ==
    ASSUME TypeInv, CleanInv, NEW c \in Cleaners, Relist(c) PROVE CleanInv'
<1>1. Held' = Held
  BY DEF Relist, Held, Entry
<1>2. cleaner[c] \in Pass /\ PassInv(c) /\ Present \subseteq Books
  BY DEF CleanInv, Present
<1>3. PICK pass : pass = [cleaner[c] EXCEPT !.pc = "evict", !.left = Present]
  OBVIOUS
<1>4. /\ pass \in Pass /\ pass.pc = "evict" /\ pass.left = Present
      /\ pass.todo = {} /\ pass.found = {} /\ pass.total = 0
  BY <1>2, <1>3 DEF Pass, PassInv, Listing, Relist, Passing
<1>5. cleaner' = [cleaner EXCEPT ![c] = pass]
  BY <1>3 DEF Relist, CleanInv
<1>6. Held \subseteq Uncounted(Present)
  <2> SUFFICES ASSUME NEW s \in Held PROVE s[1] \in Present
    BY HeldSlots DEF Uncounted
  <2>1. s[1] \in Books /\ Entry(s[1], s[2]) # None
    BY DEF Held, Slots
  <2> QED BY <2>1 DEF Entry, Present
<1>7. Due({}, {}) = {} /\ \A b : Of({}, b) = {}
  BY DEF Due, Of
<1>8. Knows(pass, Held')
  BY <1>1, <1>4, <1>6, <1>7, FS_EmptySet DEF Knows
<1> QED BY <1>1, <1>4, <1>5, <1>8, OnePass DEF Listing

(* What is added is what the directory holds, but for what is being saved. *)
LEMMA SizeClean ==
    ASSUME TypeInv, CleanInv, NEW c \in Cleaners, ListForSize(c) PROVE CleanInv'
<1>1. PICK b, age, part, counted :
        /\ b \in cleaner[c].left /\ age \in AgesRead(c, b)
        /\ part \in SUBSET BeingSaved(b)
        /\ counted = (Of(Held, b) \ BeingSaved(b)) \cup part
        /\ cleaner' = [cleaner EXCEPT ![c] = Sized(cleaner[c], b, age, counted)]
  BY DEF ListForSize
<1>2. PICK left, old, found : /\ left = cleaner[c].left \ {b} /\ old = cleaner[c].todo
                              /\ found = cleaner[c].found
  OBVIOUS
<1>3. /\ cleaner[c] \in Pass /\ Knows(cleaner[c], Held) /\ cleaner[c].pc = "evict"
      /\ b \in Books /\ left \in SUBSET Books /\ old \in SUBSET Books
      /\ found \in SUBSET Slots
  BY <1>1, <1>2 DEF CleanInv, PassInv, ListForSize, Passing, Pass
<1>4. /\ BeingSaved(b) \subseteq Of(Held, b) /\ Of(Held, b) \subseteq Slots
      /\ counted \subseteq Of(Held, b) /\ counted \in SUBSET Slots
      /\ Of(Held, b) \subseteq counted \cup BeingSaved(b)
  BY <1>1, HeldSlots DEF BeingSaved, Of
<1>5. PICK todo \in SUBSET Books : todo = IF age = None THEN old ELSE old \cup {b}
  BY <1>3
<1>6. age = None => Of(Held, b) = {}
  <2> SUFFICES ASSUME age = None PROVE Of(Held, b) = {}
    OBVIOUS
  <2>1. cache[b] = None
    <3> SUFFICES ASSUME cache[b] # None PROVE FALSE
      OBVIOUS
    <3>1. AgeOf(b) \in Ages /\ Idle \in Ages
      BY <1>3, CacheAssumption DEF TypeInv, AgeOf, Directory, Ages
    <3>2. age \in Ages
      BY <1>1, <3>1 DEF AgesRead
    <3> QED BY <3>2, NothingAssumption
  <2> QED BY <2>1 DEF Of, Held, Entry
<1>7. PICK total \in Nat : total = cleaner[c].total + Cardinality(counted)
  BY <1>3, <1>4, Counted DEF Pass
<1>8. total = Cardinality(Due(found \cup counted, todo))
  <2>1. Due(found \cup counted, todo) = Due(found, old) \cup counted
    <3>1. Of(found, b) = {} /\ \A s \in counted : s[1] = b
      BY <1>1, <1>2, <1>3, <1>4 DEF Knows, Of
    <3>2. CASE age = None
      <4>1. counted = {} /\ todo = old
        BY <1>4, <1>5, <1>6, <3>2
      <4> QED BY <4>1 DEF Due
    <3>3. CASE age # None
      BY <1>5, <3>1, <3>3 DEF Due, Of
    <3> QED BY <3>2, <3>3
  <2>2. Due(found, old) \cap counted = {}
    BY <1>1, <1>2, <1>3, <1>4 DEF Knows, Due, Of
  <2>3. /\ IsFiniteSet(Due(found, old)) /\ IsFiniteSet(counted)
        /\ Cardinality(Due(found, old)) \in Nat /\ Cardinality(counted) \in Nat
    <3>1. Due(found, old) \in SUBSET Slots
      BY <1>3 DEF Due
    <3> QED BY <1>4, <3>1, Counted
  <2>4. Cardinality(Due(found, old) \cup counted)
          = Cardinality(Due(found, old)) + Cardinality(counted)
              - Cardinality(Due(found, old) \cap counted)
    BY <2>3, FS_Union
  <2>5. Cardinality(Due(found, old) \cap counted) = 0
    BY <2>2, FS_EmptySet
  <2>6. cleaner[c].total = Cardinality(Due(found, old))
    BY <1>2, <1>3 DEF Knows
  <2>7. Cardinality(Due(found \cup counted, todo)) = Cardinality(Due(found, old) \cup counted)
    BY Zenon, <2>1
  <2> QED BY <1>7, <2>3, <2>4, <2>5, <2>6, <2>7
<1>9. age # None => age \in Ages
  BY <1>1, <1>3, CacheAssumption DEF AgesRead, TypeInv, AgeOf, Directory, Ages
<1>10. cleaner[c].age \in [Books -> Ages]
  BY <1>3 DEF Pass
<1>11. PICK ages \in [Books -> Ages] :
         ages = IF age = None THEN cleaner[c].age ELSE [cleaner[c].age EXCEPT ![b] = age]
  BY <1>9, <1>10
<1>12. PICK late \in SUBSET Slots : late = cleaner[c].late \cup BeingSaved(b)
  BY <1>3, <1>4 DEF Pass
<1>13. PICK all \in SUBSET Slots : all = found \cup counted
  BY <1>3, <1>4
<1>14. PICK pass :
         /\ pass = [cleaner[c] EXCEPT !.left = left, !.todo = todo, !.age = ages,
                      !.found = all, !.total = total, !.late = late]
         /\ pass = Sized(cleaner[c], b, age, counted)
  BY <1>2, <1>5, <1>7, <1>11, <1>12, <1>13 DEF Sized
<1>15. /\ pass \in Pass /\ pass.pc = "evict" /\ pass.left = left /\ pass.todo = todo
       /\ pass.found = found \cup counted /\ pass.total = total /\ pass.late = late
  <2>1. /\ pass \in Pass /\ pass.pc = "evict" /\ pass.left = left /\ pass.todo = todo
        /\ pass.found = all /\ pass.total = total /\ pass.late = late
    BY <1>3, <1>14 DEF Pass
  <2> QED BY <1>13, <2>1
<1>16. cleaner' = [cleaner EXCEPT ![c] = pass]
  BY <1>1, <1>14
<1>17. Held' = Held
  BY DEF ListForSize, Held, Entry
<1>18. Held \subseteq Due(found \cup counted, todo) \cup late \cup Uncounted(left)
  <2> SUFFICES ASSUME NEW s \in Held
               PROVE  s \in Due(found \cup counted, todo) \cup late \cup Uncounted(left)
    OBVIOUS
  <2>1. CASE s[1] = b
    <3>1. s \in Of(Held, b) /\ age # None
      BY <1>6, <2>1 DEF Of
    <3> QED BY <1>4, <1>5, <1>12, <2>1, <3>1 DEF Due
  <2>2. CASE s[1] # b
    <3>1. s \in Due(found, old) \cup cleaner[c].late \cup Uncounted(cleaner[c].left)
      BY <1>2, <1>3 DEF Knows
    <3> QED BY <1>2, <1>5, <1>12, <2>2, <3>1 DEF Due, Uncounted
  <2> QED BY <2>1, <2>2
<1>19. ASSUME NEW o \in left PROVE o \notin todo /\ Of(found \cup counted, o) = {}
  BY <1>2, <1>3, <1>4, <1>5, <1>19 DEF Knows, Of
<1>20. Knows(pass, Held')
  BY <1>8, <1>15, <1>17, <1>18, <1>19 DEF Knows
<1> QED BY <1>15, <1>16, <1>17, <1>20, OnePass DEF Listing

LEMMA EndClean ==
    ASSUME TypeInv, CleanInv, NEW c \in Cleaners, EndPass(c) PROVE CleanInv'
<1>1. Held' \subseteq Held
  BY SameCache, HarmlessHeld DEF EndPass
<1> QED BY <1>1, FirstPass, OnePass DEF EndPass, Listing

(* A directory whose files are unlinked holds no page.                     *)
LEMMA UnlinkHeld ==
    ASSUME TypeInv, NEW b \in Books, Unlink(b)
    PROVE  Held' \subseteq Held /\ \A s \in Held' : s[1] # b
<1>1. Held' \subseteq Held
  BY UnlinkOnly, NoneHeldAnew DEF Unwritten
<1>2. cache'[b] \in {None, EmptyDirectory}
  BY DEF Unlink, TypeInv
<1>3. ASSUME NEW n \in Numbers PROVE Entry(b, n)' = None
  BY <1>2, EmptyType DEF Entry
<1>4. ASSUME NEW s \in Held' PROVE s[1] # b
  <2>1. PICK o \in Books, n \in Numbers : s = <<o, n>>
    BY HeldSlots, <1>4 DEF Held, Slots
  <2>2. Entry(o, n)' # None
    BY <1>4, <2>1 DEF Held, Entry
  <2> QED BY <1>3, <2>1, <2>2
<1> QED BY <1>1, <1>4

LEMMA ExpiredClean ==
    ASSUME TypeInv, CleanInv, NEW c \in Cleaners, UnlinkExpired(c) PROVE CleanInv'
<1>1. PICK b \in cleaner[c].todo :
        /\ Unlink(b)
        /\ cleaner' = [cleaner EXCEPT ![c].emptied = b, ![c].todo = @ \ {b}]
  BY DEF UnlinkExpired
<1>2. /\ cleaner[c] \in Pass /\ Listing(cleaner[c])
      /\ b \in Books /\ cleaner[c].pc = "expired"
  BY <1>1 DEF CleanInv, PassInv, Pass, UnlinkExpired, Passing
<1>3. PICK pass : pass = [cleaner[c] EXCEPT !.emptied = b, !.todo = @ \ {b}]
  OBVIOUS
<1>4. /\ pass \in Pass /\ pass.pc = "expired"
      /\ pass.found = cleaner[c].found /\ pass.total = cleaner[c].total
  BY <1>2, <1>3 DEF Pass
<1>5. cleaner' = [cleaner EXCEPT ![c] = pass]
  BY <1>1, <1>2, <1>3 DEF CleanInv, Pass
<1> QED BY <1>1, <1>2, <1>4, <1>5, UnlinkHeld, OnePass DEF Listing

(* What is subtracted is what was counted for the directory that goes.     *)
LEMMA EvictClean ==
    ASSUME TypeInv, CleanInv, NEW c \in Cleaners, EvictOldest(c) PROVE CleanInv'
<1>1. PICK b \in Victims(c) :
        /\ Unlink(b)
        /\ cleaner' = [cleaner EXCEPT ![c].emptied = b, ![c].todo = @ \ {b},
              ![c].total = @ - Cardinality(Of(cleaner[c].found, b))]
  BY DEF EvictOldest
<1>2. PICK found, todo, total : /\ found = cleaner[c].found /\ todo = cleaner[c].todo
                                /\ total = cleaner[c].total - Cardinality(Of(found, b))
  OBVIOUS
<1>3. /\ cleaner[c] \in Pass /\ b \in todo /\ b \in Books /\ cleaner[c].pc = "evict"
      /\ found \in SUBSET Slots /\ todo \in SUBSET Books /\ cleaner[c].left = {}
  BY <1>1, <1>2 DEF CleanInv, Pass, EvictOldest, Passing, Victims
<1>4. /\ cleaner[c].total = Cardinality(Due(found, todo))
      /\ Held \subseteq Due(found, todo) \cup cleaner[c].late
  BY <1>2, <1>3 DEF CleanInv, PassInv, Passing, Knows, Uncounted
<1>5. total = Cardinality(Due(found, todo \ {b}))
  BY <1>2, <1>3, <1>4, DueWithout
<1>6. total \in Nat
  <2>1. Due(found, todo \ {b}) \in SUBSET Slots
    BY <1>3 DEF Due
  <2> QED BY <1>5, <2>1, Counted
<1>7. PICK pass : pass = [cleaner[c] EXCEPT !.emptied = b, !.todo = todo \ {b}, !.total = total]
  OBVIOUS
<1>8. /\ pass \in Pass /\ pass.pc = "evict" /\ pass.todo = todo \ {b} /\ pass.found = found
      /\ pass.total = total /\ pass.late = cleaner[c].late /\ pass.left = {}
  BY <1>2, <1>3, <1>6, <1>7 DEF Pass
<1>9. cleaner' = [cleaner EXCEPT ![c] = pass]
  BY <1>1, <1>2, <1>3, <1>7 DEF CleanInv, Pass
<1>10. Held' \subseteq Held /\ \A s \in Held' : s[1] # b
  BY <1>1, <1>3, UnlinkHeld
<1>11. Held' \subseteq Due(found, todo \ {b}) \cup cleaner[c].late
  BY <1>4, <1>10 DEF Due
<1>12. Knows(pass, Held')
  BY <1>5, <1>8, <1>11 DEF Knows
<1> QED BY <1>8, <1>9, <1>10, <1>12, OnePass DEF Listing

LEMMA StepClean == ASSUME TypeInv, CleanInv, [Next]_vars PROVE CleanInv'
<1>1. CASE cleaner' = cleaner /\ Harmless
  BY <1>1, HarmlessHeld, SamePasses
<1>2. CASE UNCHANGED vars
  BY <1>1, <1>2, SameCache DEF vars
<1>3. ASSUME NEW r \in Readers,
             \/ AskPage(r) \/ LookPage(r) \/ ExtractPage(r) \/ BeginSave(r)
             \/ EndSave(r) \/ FailSave(r) \/ TouchLast(r) \/ ServePage(r)
      PROVE  CleanInv'
  <2>1. CASE BeginSave(r) /\ cleaner' # cleaner
    BY <2>1, MissedPasses DEF BeginSave
  <2>2. CASE FailSave(r)
    BY <2>2, FailSaveHeld, SamePasses DEF FailSave
  <2>3. CASE EndSave(r)
    BY <1>1, <2>3, EndSaveHarmless DEF EndSave
  <2>4. CASE TouchLast(r)
    BY <1>1, <2>4, TouchHarmless DEF TouchLast
  <2>5. CASE cleaner' = cleaner /\ cache' = cache
    BY <1>1, <2>5, SameCache
  <2>6. CASE LookPage(r) \/ ExtractPage(r)
    BY <1>1, <2>6, LookHarmless DEF LookPage, ExtractPage
  <2>7. CASE BeginSave(r) /\ cleaner' = cleaner
    <3>1. CASE cache[reader[r].book] = None
      BY <1>1, <2>7, <3>1, SameCache DEF BeginSave
    <3>2. CASE cache[reader[r].book] # None
      BY <2>7, <3>2, MissedPasses DEF BeginSave
    <3> QED BY <3>1, <3>2
  <2> QED BY <1>3, <2>1, <2>2, <2>3, <2>4, <2>5, <2>6, <2>7 DEF AskPage, ServePage
<1>4. CASE Crash
  <2>1. cleaner' = [c \in Cleaners |-> NoPass]
    BY <1>4 DEF Crash
  <2> QED BY <2>1, FirstPass DEF CleanInv, PassInv, Passing, Listing
<1>5. CASE ChangeBook
  BY <1>1, <1>5, SameCache DEF ChangeBook
<1>6. CASE Tick
  BY <1>1, <1>6, TickHarmless DEF Tick
<1> QED BY <1>2, <1>3, <1>4, <1>5, <1>6, NextStep, BeginClean, AgeClean, ExpiredClean,
           RemoveClean, RelistClean, SizeClean, EvictClean, EndClean
       DEF Looks

-------------------------------------------------------------------------------
(* The state as a whole                                                    *)

Bounded == changes + faults <= MaxTroubles /\ requests \in 0..MaxRequests
CacheInv == TypeInv /\ OpenInv /\ CleanInv /\ Bounded

LEMMA StepBounded == ASSUME TypeInv, Bounded, [Next]_vars PROVE Bounded'
<1>1. \/ UNCHANGED bounds
      \/ /\ changes + faults < MaxTroubles /\ requests' = requests
         /\ \/ changes' = changes + 1 /\ faults' = faults
            \/ changes' = changes /\ faults' = faults + 1
      \/ /\ requests < MaxRequests /\ requests' = requests + 1
         /\ changes' = changes /\ faults' = faults
  BY StepCounts DEF vars, bounds
<1>2. /\ changes \in Nat /\ faults \in Nat /\ requests \in 0..MaxRequests
      /\ MaxRequests \in Nat /\ MaxTroubles \in Nat /\ changes + faults <= MaxTroubles
  BY CacheAssumption DEF TypeInv, Bounded
<1>3. changes' + faults' <= MaxTroubles
  BY <1>1, <1>2 DEF bounds
<1>4. requests' \in 0..MaxRequests
  BY <1>1, <1>2 DEF bounds
<1> QED BY <1>3, <1>4 DEF Bounded

LEMMA FirstCache == ASSUME Init PROVE CacheInv
<1>1. TypeInv
  BY FirstTypes
<1>2. OpenInv
  BY DEF Init, OpenInv, Writers, Entry
<1>3. CleanInv
  BY FirstPass DEF Init, CleanInv, PassInv, Passing, Listing
<1>4. Bounded
  BY CacheAssumption DEF Init, Bounded
<1> QED BY <1>1, <1>2, <1>3, <1>4 DEF CacheInv

LEMMA StepCache == ASSUME CacheInv, [Next]_vars PROVE CacheInv'
BY StepTypes, StepOpen, StepClean, StepBounded DEF CacheInv

(* The state is well formed, and a file of the cache is open for writing   *)
(* only as long as a request is saving that page, however many requests    *)
(* save it at once and whichever of them fails.                            *)
THEOREM CacheTypes == Spec => []TypeOK
<1>1. Init => CacheInv
  BY FirstCache
<1>2. CacheInv /\ [Next]_vars => CacheInv'
  BY StepCache
<1>3. CacheInv => TypeOK
  <2> SUFFICES ASSUME CacheInv PROVE TypeOK
    OBVIOUS
  <2>1. ASSUME NEW b \in Books, NEW n \in Numbers, Entry(b, n) # None,
               NEW r \in Entry(b, n).writing
        PROVE  reader[r].pc = "saving" /\ reader[r].book = b /\ reader[r].number = n
    BY <2>1 DEF CacheInv, OpenInv, Writers, Saves, Reading
  <2> QED BY <2>1 DEF CacheInv, TypeInv, CleanInv, Bounded, TypeOK
<1> QED BY <1>1, <1>2, <1>3, PTL DEF Spec

(* A pass of clean_page_cache ends only when what is in the cache fits     *)
(* PAGE_CACHE_MAX_BYTES, but for the pages that were being saved when it    *)
(* looked at their directory and those saved later: its running total      *)
(* never falls below what it saw and has not deleted, in whichever order   *)
(* it looks at the directories and whatever the other cleaners remove.     *)
THEOREM CapKept == Spec => PassKeepsCap
<1>1. Init => CacheInv
  BY FirstCache
<1>2. CacheInv /\ [Next]_vars => CacheInv'
  BY StepCache
<1>3. ASSUME CacheInv, NEW c \in Cleaners, EndPass(c)
      PROVE  Cardinality(Held \ cleaner[c].late) <= MaxBytes
  <2>1. PICK found, todo, age, early :
          /\ found = cleaner[c].found /\ todo = cleaner[c].todo
          /\ age = cleaner[c].age /\ early = Held \ cleaner[c].late
    OBVIOUS
  <2>2. /\ cleaner[c] \in Pass /\ cleaner[c].pc = "evict"
        /\ cleaner[c].total = Cardinality(Due(found, todo))
        /\ early \subseteq Due(found, todo)
    BY <1>3, <2>1 DEF CacheInv, CleanInv, PassInv, EndPass, Passing, Knows, Uncounted
  <2>3. /\ found \in SUBSET Slots /\ todo \in SUBSET Books /\ age \in [Books -> Ages]
        /\ cleaner[c].total \in Nat
    BY <2>1, <2>2 DEF Pass
  <2>4. IsFiniteSet(Due(found, todo)) /\ Cardinality(Due(found, todo)) \in Nat
    BY <2>3, Counted DEF Due
  <2>5. Cardinality(early) \in Nat /\ Cardinality(early) <= cleaner[c].total
    <3>1. Cardinality(early) <= Cardinality(Due(found, todo))
      BY <2>2, <2>4, FS_Subset
    <3>2. early \in SUBSET Slots
      BY <2>1, HeldSlots
    <3> QED BY <2>2, <3>1, <3>2, Counted
  <2>6. CASE cleaner[c].total > MaxBytes
    <3>1. todo # {}
      <4>1. SUFFICES ASSUME todo = {} PROVE FALSE
        OBVIOUS
      <4>2. Due(found, todo) = {}
        BY <4>1 DEF Due
      <4>3. cleaner[c].total = 0
        BY <2>2, <4>2, FS_EmptySet
      <4> QED BY <2>6, <4>3, CacheAssumption
    <3>2. PICK b \in todo : \A o \in todo : age[o] <= age[b]
      BY <2>3, <3>1, LongestUnused
    <3>3. b \in Victims(c)
      BY <2>1, <2>6, <3>2 DEF Victims
    <3> QED BY <1>3, <3>3 DEF EndPass
  <2>7. CASE ~(cleaner[c].total > MaxBytes)
    BY <2>1, <2>3, <2>5, <2>7, CacheAssumption
  <2> QED BY <2>6, <2>7
<1>4. CacheInv /\ [Next]_vars =>
        [\A c \in Cleaners :
           EndPass(c) => Cardinality(Held \ cleaner[c].late) <= MaxBytes]_vars
  BY <1>3
<1> QED BY <1>1, <1>2, <1>4, PTL DEF Spec, PassKeepsCap
===============================================================================
