# ComicOPDS: formal models

ComicOPDS serves a directory of comics (`.cbz` files) over OPDS.  Several threads,
and a process started by cron, maintain an index of them in SQLite while the owner
changes the directory underneath; other threads answer browsers and readers, cut
pages and covers out of the archives and cache them in files, and keep accounts,
sessions and smart lists.  This directory holds TLA+ specifications of that
machinery, TLC models of small instances, and TLAPS proofs.

## 1. Inventory of the system

All paths are below `src/`.

| Component | State | Operations | Correct when |
|---|---|---|---|
| **Index store** `app/db.py`, `app/schema.sql` | tables `items` (rel, stamp, pages), `meta`, `fts`; SQLite's write lock (WAL: one writer, readers see the last commit) | `upsert_dir`, `upsert_file`, `upsert_meta`, `cleanup_deleted_items`, `prune_stale`, deletes issued inline | the three tables agree with each other |
| **Scanner** `app/scanning.py` (`run_scan`, `start_scan`), `app/main.py`, `entrypoint.sh` | `INDEX_STATUS` (per process), `existing_items`, `current_rels`, `_uncommitted` | startup, `/admin/reindex`, hourly cron process | it ends with what is on disk, costs no present file its row, and always resets its status |
| **Directory refresh** `refresh_directory` | `_DIR_CHECKED`, `db_children`, `fs_rels` | first step of every browse and smart-list request | same; keeps away from scans |
| **File watcher** `start_watcher` | `_pending` timers, watchdog's queue | `_schedule`, `_reindex_file`, `_delete_file` | an event updates the right row, in spite of timers that overlap |
| **Path reindex** `app/routes_admin.py` | one transaction | `/admin/reindex/path` | as for the scanner |
| **Thumbnails** `app/thumbs.py`, `run_precache_thumbs` | `THUMB_STATUS` (one for all passes of a process), files in `/data/thumbs` named by issue, error log | precache pass (after a scan, at startup, by the administrator), cover requests | every book has its thumbnail or an error line; a book shows its own cover, or that of an issue written alike; the status is honest and does not stay set |
| **Page cache** `app/page_cache.py`, page handlers of `routes_opds.py` | directories of JPEGs keyed by rel and page number, `.last` markers | `ensure_page_jpeg`, `clean_page_cache`, `autoclean_loop` | a cached page is the page asked for; the cap is kept; nothing stays for ever |
| **Authentication** `app/auth.py`, users in `db.py`/`routes_admin.py` | `_FAIL_COUNTS`, `_SESSION_STORE`, `users` | login, logout, check, user administration | the limit holds under concurrency; rights have a cause; account 1 remains |
| **Smart lists** `routes_admin.py`, `db.py`, `routes_opds.py` | `smartlists.json` | save, query, count, paginate, volume folders | the query means what the groups say; pages partition the result |
| **Feeds and search** `app/feeds.py`, `routes_opds.py` | none (ETag from `MAX(mtime)`) | browse, search, entry, PSE, DiViNa | following the links shows every row once; a 304 only for an unchanged feed |
| **Downloads** `routes_opds.py` | none | byte ranges | the bytes asked for |
| **Maintenance** `db.maintenance_loop` | none | `optimize`, `VACUUM` | does not disturb a scan |
| Configuration, templates, logging, `tools/` | none | | not protocol logic |

**Interaction.**  Scans, refreshes, timers and path reindexes each open their own
connection and meet only in the database, in the library directory, and (within
the server) in `INDEX_STATUS["running"]` and `_DIR_CHECKED`.  Cron's scan is
another process: its `INDEX_STATUS` and `_DIR_CHECKED` are its own.  Nothing else
serialises the writers; `INDEX_LOCK` is declared and never taken.  A scan ends with
a thumbnail pass, which reads the index and then only works on files.  Page
requests and cleaners meet in the cache directories alone, cover requests and
passes in `/data/thumbs` alone; neither takes a lock.  Feeds read the index in
single statements.  Every request passes `auth.py` first, which touches nothing
that the others do.  The five groups (index, thumbnails, pages, access, feeds)
therefore share no mutable state but the rows of the index and the files of the
library, and each is specified with those as its environment.

**Hard behaviours.**  Check-then-act on `running`, on `exists()` of files that
others are writing, on failure counts; decisions taken on snapshots
(`existing_items`, `current_rels`, `db_children`, the cleaner's sizes) that other
jobs make stale; `stat()`, listing and reading an archive at different moments;
files that vanish in between; writes in place that a crash or a full disk leaves
torn; "database is locked"; timers of one path that run at the same time; passes
that share one status and one log; pages of a feed, and the count that decides on
the next, read in different statements; a killed server.  `PROJECT.json` lists
every hazard at its line.

## 2. Modules

```
IndexStore          the tables and the statements on them (pure operators)
  Library           shared state, SQLite's lock, jobs, the changing directory
    Scan            run_scan, start_scan, startup, cron
    Refresh         refresh_directory
    Watcher         watchdog events, timers, _reindex_file, _delete_file
    ReindexPath     admin_reindex_path
      LibraryIndex  all of them composed; crashes; properties; invariant
        MCLibraryIndex        instances for TLC
        LibraryIndexProofs    type correctness
          LibrarySafetyProofs the inductive invariant and what follows from it
          RemovalProofs       what jobs remember: no present path loses its row

AccessPromise       what authentication promises: checked, counted, answered at once
Auth                failure lists, sessions, users; implements AccessPromise
  MCAuth            an instance
  AuthProofs        types, bound on failures, accounts
    AccessProofs    the refinement

PageCache           page requests and cleaners over one cache
  MCPageCache, PageCacheProofs

Thumbs              precache passes, cover requests, thumbnails, error log
  MCThumbs, ThumbsProofs

SmartQuery          the queries as operators on an index
  Catalog           a client that follows pages while rows and lists change
    MCCatalog, CatalogProofs
```

### The index

* `db` is the committed index.  The first writing statement of a transaction
  takes SQLite's write lock (`owner`); `view` is the index with the owner's
  uncommitted writes.  `Reads(w)` is what a SELECT of `w` sees.  `Write`,
  `Commit` and `Rollback` are the statement, `conn.commit()` and `conn.close()`.
  The `...LockedOut` actions are `sqlite3.OperationalError: database is locked`,
  which may be raised at any writing statement while another job owns the lock.
* `job[w]` holds the locals of the function a worker runs, `pc` the statement it
  is at.  A step ends where another thread could matter: at each `stat()`, each
  opening of an archive, each SELECT, each writing statement, each commit, each
  access to `running` or `_DIR_CHECKED`.  Reading ComicInfo.xml is one step with
  the `upsert_meta` that follows it: the job holds the write lock by then, so
  nobody sees the difference, and a change of the file between the two is the
  same as a change after both.
* `running` and `checked` are `INDEX_STATUS["running"]` and `_DIR_CHECKED` of the
  server; jobs in `Crons` leave them alone.  `checked` has no clock: a directory
  is in it or its interval has passed (`IntervalOver`, at any time).
* `timer[f]` is the entry of `_pending`.  Firing moves the action to a worker of
  `Timers`; from then on `_schedule` cannot cancel it, as in the code.
* `disk`, `dirs` and the actions of `LibraryChange` are the owner of the comics:
  files are written (also half-written), removed, renamed with their stamp, and
  directories are made or moved away whole.  `queue` holds what watchdog reports.

Abstractions, and why they lose nothing that a property tells apart:

* A file version stands for (mtime, size) and contents.  Two versions have two
  stamps.  `Info` and `Pages` give what `read_comicinfo` and `cbz_list_pages`
  return for it; `None` and 0 are the archive without a usable ComicInfo.xml and
  the unreadable one.  `Restores` says whether a path may show a version again.
* `fts` holds the metadata the text was made of: the text is a function of it and
  of the file name, which never changes for a `rel`.  SQLite has FTS5.
* Directory rows have no stamp: nothing compares their mtime.
* `os.walk` and `os.scandir` list one directory in one step, and the directories
  of a walk are taken in any order (the code's depth-first order is one of them).
* Counting the files before a scan only feeds the progress bar.  (In the Python
  of the Dockerfile a directory that vanishes does not make `rglob` raise.)
* The debounce delay only says when a timer fires; in the model it may at any
  time.  Thumbnails at the end of a scan do not touch the index.
* The deletions of one `cleanup_deleted_items` or of one refresh are one step:
  they hold the write lock and are committed together.

### Authentication

A worker is a thread that answers a request.  A step is one acquisition of
`_FAIL_COUNTS_LOCK` or `_SESSION_LOCK` or one statement on `users`: `ValidateSession`,
`CheckLimit`, `Verify`, `RecordFailure` or `ClearFailures`, `CreateSession`, and the
user handlers.  `need` tells the dependencies apart (`any`, `admin`, the login form).
`login_submit` is a coroutine without an `await` on its way, so while it runs the event
loop takes no further request (`LoopFree`); the other handlers run in threads of their
own.  `failures` holds ages and `sessions` the time left, so that the clock does not
grow; `Tick` ages both and drops what `_prune_failures` would drop before anyone
counts.  `Restart` forgets everything in memory and may change `OPDS_BASIC_PASS`, while
the users row keeps the password that the first start seeded.  The client's address is
an input.

`AccessPromise` has none of these steps: a worker has a grade, gained only by a
password that is right at that moment or from an open session; sessions are
opened, and accounts changed, by administrators only, and account 1 never; a
closed session is never opened again; an address has at most `Capacity` wrong
guesses to its name, each charged before it is made.  The refinement (`Access` in
`Auth`) maps `accounts` to `users`, `password` to `secret`, `open` to the tokens
that have a session, `grade[w]` to the rights of a request that has passed its
check, and `budget[ip]` to the failures recorded against `ip` together with the
attempts under way that may still record one (`Held`).

### Pages

`AskPage` lists the zip and looks the page up (`book_page` takes negative numbers, as
Python indexes them: -1 is the last page, under a file name of its own), `LookPage`
makes the directory and asks `exists()`, `ExtractPage` opens the zip a second time,
`BeginSave` opens and truncates the file, `EndSave` closes it, `TouchLast` renews the
heartbeat, `ServePage` is the moment the response opens the file.  A cached JPEG carries
the version and the entry it was made from, the requests that have it open, and whether
it was abandoned half way (`torn`); two concurrent saves of different versions give
`Mixed`.

A cleaner's pass is `BeginPass` (`iterdir` names the directories), `ListForAge` for each
of them, `_remove_dir` in two halves for each that is beyond the TTL (`UnlinkExpired`
unlinks every file, `RemoveDirectory` is the `rmdir`, which fails if a page came
meanwhile), `Relist` and `ListForSize` for the second listing, and `EvictOldest` until
the running total fits.  Each directory is looked at in a step of its own, while
requests save and other cleaners remove (`AgesRead` has the outcomes of a directory or
heartbeat that goes between two calls).  A page costs one unit of size; one that is being
saved when its directory is looked at counts as whatever the disk has of it, nothing or
all (`BeingSaved`).  `late` is history: the pages that were being saved then, or that
were opened later.  Ages are counted in ticks up to `Idle`, which stands for everything
beyond the TTL; a directory without `.last` has the age of its own mtime.

Environment: replaced and removed books, failed saves (which remove the file or leave
it torn), crashes.

### Thumbnails

`Launch` is the look at `THUMB_STATUS` by `admin_thumbs_precache` and startup,
`BeginPass` the thread (or, without a look, `run_scan`) setting it.  A pass at the end of
a scan may run in the process that cron starts: it shares the files and the log with the
server's, but its `THUMB_STATUS` is its own (`cron`, `Sets`), and it dies alone
(`CrashCron`).  `ClearLog` removes the log, `Collect` reads the rows; `TakeTask` hands a
row to a thread of the pass's pool; `LookAtThumb`, `FailLoad`, `BeginSave`, `EndSave`,
`FailSave` are `_thumb_task` and `generate_thumb`, which cover requests run as well.  A
thumbnail carries the books written into it, each with the issue that the row named.

`ThumbName` is the issue without its unsafe characters (`Safe`), or the hash of the path
when nothing is left.  Nothing is assumed of `Safe`, except that no issue looks like the
hash of a path: different issues may be written alike, as "1.5" and "15" are.  A file
may be damaged, repaired or removed (`ChangeFile`), and a scan may store another issue
for it (`ChangeIssue`).  `fresh` and `due` are history: the books that a pass saw as they
still are.

### Feeds and smart lists

`SmartQuery` translates the SQL: `Selected` has the WHERE clause with the grouping
that SQL gives it (see finding 3), three-valued comparisons with NULL, values that
`int()` refuses, skipped unknown fields; `Prefiltered` the FTS prefilter; `Dominated`
the NOT EXISTS of `distinct`; `Volumes`, `VolumeCount` and `VolumeRows` the virtual
folders; `FoundRows` and `ChildrenOf` search and browsing.

Text is known by what the queries tell apart.  A name has the terms that LIKE finds in
it, inside words or not, and the tokens that its document has at the start of a word,
which is what an FTS prefix finds (a file without metadata has no document); `TokensOf`
gives the tokens `[0-9A-Za-z]{2,}` of a term.  A summary has terms only: the prefilter
knows the field and the document leaves it out.  `Name` stands for a field that the
prefilter reads in lower case and the WHERE clause does not know.  `Operators` are the
tokens AND, OR and NOT, which FTS5 does not take as prefixes (`Unparsable`).  Of the text
operators `contains` and `equals` stand for the others, which differ only in the LIKE
pattern; ORDER BY is reduced to the three orders used, and `Ranking` is at once the order
of names and the one in which SQLite returns rows with equal keys, the same on every
page.  A row is at the place of one more than the rows `Before` it.

`Catalog` has a client that follows next links: each page loads `smartlists.json`, reads
rows and counts them in statements of their own (`browse` counts first, the others
last), with index changes, saves in place, and crashes that leave the file torn in
between.  A page is refused for a file that does not parse (404, or 500 where it ends
within a character), for a limit that is no number (500), and for a MATCH that does not
parse (`Fail`, 500).  The last is a choice: SQLite raises only if it gets to the MATCH,
which depends on its plan, on the rows and on LIMIT 0.  A negative limit is taken as the
code takes it: pages without rows, and a next link as long as there are rows to count.

## 3. Properties

| Property | Kind | Says |
|---|---|---|
| *LibraryIndex* | | |
| `TypeOK` | invariant | types |
| `StampCertifies` | invariant | a row whose stamp is the file's present one has the present page count, metadata and search text; this is what lets scans skip it |
| `MetaHasItem` | invariant | no metadata without an item |
| `SearchTextMatchesMeta` | invariant | a listed file is found by the metadata that is shown |
| `NoInnocentRemoval` | action property | a scan or refresh removes a row only if the path was absent at some moment while it ran |
| `StatusSettles` | liveness | `running ~> ~running` |
| `Converges` | liveness | a library at rest is eventually listed exactly, with its stamps, for good |
| `NoRefreshDuringScan` | refuted | no refresh owns the write lock during a scan of the server |
| `MetadataSettles` | refuted | the metadata of an up-to-date row is eventually that of the file |
| *Auth* | | |
| `TypeOK` | invariant | types |
| `FailuresBounded` | invariant | attempts in parallel exceed `_RATE_LIMIT_MAX` by fewer than the server has threads |
| `AccountsDistinct` | invariant | account 1 stays the administrator of the first start; names stay distinct |
| `LockoutEnds` | liveness | an address that is shut out is let try again, however often it was refused meanwhile |
| `AccessKept` | refinement | `Auth` implements `AccessPromise` |
| *PageCache* | | |
| `TypeOK` | invariant | types; a file is open only while a request saves that page |
| `CachedRight` | invariant | without replaced books and failed saves, the cache holds under a page number that page, whole |
| `ServedUnlessCleaned` | invariant | a file about to be sent has vanished only if a cleaner unlinked it during the request |
| `PassKeepsCap` | action property | what a pass leaves beyond the cap was being saved when the pass looked at its directory, or was saved later |
| `Forgotten` | liveness | the requests being bounded, everything cached is removed in the end |
| *Thumbs* | | |
| `TypeOK` | invariant | types; a thumbnail is open only while a thread saves it |
| `Accounted` | invariant | when all passes have ended, a book that one of them saw as it is has a thumbnail or a line in the log |
| `CoverSharedByName` | invariant | a book is shown the cover of another only if their issues have the same safe characters, and some; none is half written without a fault |
| `ProgressHonest` | action property | a pass of the server that no other of the server overlapped ends with done = total |
| `PassEnds` | liveness | "running" does not stay set, unless there was a fault |
| *Catalog* | | |
| `TypeOK` | invariant | types; a client asks for at most one page too many |
| `WalkComplete` | invariant | a client at the last page of an unchanged feed was shown every row once, in order, and no more than the limit |
| `MissedAtMostGone` | invariant | with changes, it missed at most as many rows as left or moved, or came between count and rows of a folder |
| `VolumesPartition` | invariant | the virtual folders of a list divide it, with the right numbers |
| `DistinctOfOneGroup` | invariant | a distinct list of one group has one issue per series and volume |
| `PrefilterHarmless` | invariant | the FTS prefilter excludes nothing that a group with text rules on known fields of the document accepts |
| `WalkEnds` | liveness | a walk ends, though the count of a distinct list exceeds its rows |
| `DistinctAtMostOne` | refuted | `DistinctOfOneGroup` for lists with any number of groups |

What they leave open, on purpose:

* `StampCertifies` assumes `~Restores`: if a file is put back with an mtime and size
  it had before, while a job is between its `stat()` and its reading of the archive,
  no stamp can tell.  `Converges` is checked with `Restores = TRUE`: it is about
  rows and stamps.
* `CachedRight` and `CoverSharedByName` excuse failed saves and crashes, `CachedRight`
  also replaced books: the code then does keep a torn or an old JPEG.  `Forgotten` says
  when old pages go; torn thumbnails do not go.
* No property says that a JPEG that is sent is whole: `exists()` is true of one that
  another request is still writing, and the code sends it.
* `PassKeepsCap` says nothing of pages saved while or after their directory was looked
  at: the code counts of them what is on the disk, which may be nothing.
* `CoverSharedByName` states what names give; that issues written alike share a cover
  is what the code does.  A book keeps the thumbnail of its own earlier contents.
* `AccessPromise` lets a session that has expired, but that no request has noticed yet,
  pass as an open one: the moment of the expiry is not promised.
* `PassEnds` excuses faults: `FailCollect`, the query of `run_precache_thumbs`
  raising, leaves the status set, and `admin_thumbs_precache` refuses until a scan or
  a restart.
* `DistinctOfOneGroup` counts issues with the same year, number and time as one: the
  query lists ties.  It and `VolumesPartition` are about lists of which one group at
  most has a rule on a known field, because of finding 3.
* `PrefilterHarmless` is about rows whose terms are words of their document, because
  LIKE also matches inside words and in files without a document, and about groups that
  ask for text in the name only, not in the summary or in "Name" (see the end of
  section 4).

## 4. Runs

### The index

`A` is a directory with the file `f1`, `f2` lies in the root.  A worker is one
thread or process; each may start any number of jobs, within the bounds.

| Run | Workers | Library | Bounds | Result |
|---|---|---|---|---|
| `Writers` | c1 t1 p1 | f1, versions 1, 2 | 2 changes, 1 request, 1 crash, commit every file | `TypeOK`, `StampCertifies`, `MetaHasItem`, `SearchTextMatchesMeta` hold |
| `ScanAndRefresh` | s1 r1 | A, f1, f2, version 1 | 2 changes, 2 requests, commit every 2nd file, `AUTO_INDEX_ON_START` | `NoInnocentRemoval` holds |
| `OverlappingScans` | s1 s2 | A, f1, version 1, restores | 2 changes, 2 requests, 1 crash | `StatusSettles`, `NoInnocentRemoval` hold |
| `Convergence` | s1 c1 t1 t2 | A, f1, version 1, restores | 2 changes, 1 crash | `Converges` holds |
| `BrowsingConvergence` | c1 r1 | A, f1, versions 1, 2, restores | 2 changes, 1 request | `Converges` holds |
| `RefreshDuringScan` | s1 r1 | A, f1, version 1 | 1 change, 2 requests | `NoRefreshDuringScan` violated |
| `StaleMetadata` | c1 | f1, versions 1, 3 | 1 change | `MetadataSettles` violated |

An instance without a worker of a kind leaves that kind of job out; without
`Scanners` it also leaves out the scan at startup, without `Timers` the watcher
(`ENABLE_WATCH=false`, the default).

A race on a row needs one file, one writer that
has read something, and another that changes it; a second change gives the
replacement of a replacement and the return of a file.  Version 2 has metadata but
no readable page, version 3 pages but no metadata.  A directory with a file in it
gives orphan rows and aborted walks, a second file gives two batches of a scan and
a walk that has passed one of two directories.  Requests and crashes are bounded
because each more of them repeats a job from a state the first has reached; cron's
scans are not bounded.  `Convergence` has two timers, so that a deletion and a reindex
of one path run at once and commit in either order.  Version counts beyond two are left
to the proofs, whose theorems hold for any number of them.
`Writers` leaves refreshes out to stay small; the proofs of its four properties
include them.

### The rest of the server

| Run | Instance | Bounds | States | Result |
|---|---|---|---|---|
| `Authentication` | 2 threads, 1 address, the master and one more name, 2 passwords, 1 token | limit 2, window 2 ticks, session 1 tick, 2 accounts | 511 608 | all five hold |
| `PageCaching` | 2 requests at a time, 1 cleaner; a book of 2 pages, asked for from the front (0) or from the back (-1), which may be replaced by one of 1 page, and a second one that may come | cap of 1 page, 2 requests, 1 trouble | 720 804 | all five hold |
| `Thumbnails` | a scan's pass, in the server or in cron's process, and the administrator's, with pools of one thread, and a cover request; a sound book of an issue without a safe character and a damaged one of the issue "1.5", which one change turns into two of such issues or of two written alike | 1 trouble, 1 cover request | 1 083 473 | all five hold |
| `CatalogWalks` | 4 paths, pages of 2; six lists (one and three groups, with and without tokens in them; limits of 1, 3, -1 and no number; both kinds of distinct; negation, the summary, "Name", unknown fields, an operator word); a list, a volume, a folder, a search | 2 changes | 144 138 | all seven hold |
| `DistinctTwoGroups` | the same, and a distinct list of two groups | 1 change | | `DistinctAtMostOne` violated |

*Authentication.*  A lock-out and an attempt that passed the check before it need two
threads; more threads only raise `Capacity`.  With a window of two ticks failures of
two ages lie in a list.  Tokens and accounts run out, which bounds logins and new
users; the proofs are for any number of threads, addresses, tokens and accounts.

*PageCaching.*  Two readers race on one page, on two pages of a directory, or with the
cleaner's steps; the cap of one page makes the second book, or the second page,
evict.  The instance has one cleaner.  Two at once (`autoclean_loop` and
`/admin/pages/cleanup`) are covered by the proofs, which hold for any number of cleaners.

*Thumbnails.*  One thread per pool is enough for two threads on one thumbnail, since
passes overlap.  A trouble is a changed file or issue, a cleared log, a failed query
or save, or a crash.

*CatalogWalks.*  Four paths make two full pages, and with a row that goes a last page
of one.  Two changes are two rows, or a row and a save.  The properties about queries
alone (`VolumesPartition`, `DistinctOfOneGroup`, `PrefilterHarmless`) are evaluated on
every index that two changes reach and every list.  For the prefilter there is a list
with one group that has tokens between two that have none, and one of three groups with
tokens of which the first asks for the summary too; a prefilter of the groups with tokens
alone excludes rows of the former.

### Deadlock

It is checked in `Authentication`, `PageCaching`, `Thumbnails` and the two runs of
`Catalog`.  `CHECK_DEADLOCK FALSE` is set in the runs of the library only: with its
changes and requests used up and no cron job, a library at rest has nothing to do.

### Fairness

* `LibraryIndex`: weak fairness on each worker's own steps (threads and processes are
  scheduled), on starting each cron job (hourly), on watchdog's dispatcher and on
  timers firing.  None on users, on the owner of the comics, on crashes, on the
  refresh interval, or on who gets SQLite's lock: a job may be locked out again and
  again as long as another job owns the lock.  `Converges` rests on cron (the
  container starts it unless `ACTIVATE_CRON` is off).
* `Auth`: time passes.  Nothing is assumed of threads or clients.
* `PageCache`: time passes, requests are answered, and each cleaner passes again and
  again (`autoclean_loop`).  Not that anyone asks for a page.
* `Thumbs`: passes that were launched and the threads of their pools run.  Not that a
  scan, a pass or a request starts, nor that a cover request ends.
* `Catalog`: requests are answered and links followed; not that a walk begins.

### Findings

1. `RefreshDuringScan`: `scanning.py:312` says "Don't run during a full scan".  The
   refresh looks at `running` once; a scan that begins after that look runs
   together with it.
2. `StaleMetadata`: `docs/scope.md:19` calls ComicInfo.xml the "single source of
   truth".  Metadata is stored only when the read returned some
   (`scanning.py:182`), so a file that loses its ComicInfo.xml is shown with the old
   metadata under its new stamp, and every later scan skips it.
3. `DistinctTwoGroups`: `docs/smartlists.md:107` promises "at most one comic per
   series and volume".  `build_smartlist_where` (`db.py:665`) joins the groups with OR
   and without parentheses around them, between conditions joined with AND.  What
   stands before (`is_dir = 0`) binds to the first group only, what stands after
   (prefilter, distinct, the volume of a virtual folder) to the last one only.  So
   with two groups the rows of the first are listed whatever their series has, folders
   may appear, and a volume folder shows rows of other volumes.

Seen while reading, and not stated as properties: `/pse/stream` links the pages
1 to n while `pse_page` is zero-based; the total shown for a distinct list is counted
without `distinct`; `page=0` is not clamped in `browse`; the seeded row of
account 1 keeps accepting the password of the first start after `OPDS_BASIC_PASS`
changed; ETags count whole seconds, so a second
save of `smartlists.json` within one leaves them as they were.  `_TEXT_FIELDS_FOR_FTS`
(`db.py:548`) names `summary`, and `upsert_meta` (`db.py:224`) leaves it out of the
document it writes, so that a list with "summary contains X" shows of the files with
X in their summary only those that have X elsewhere; a rule on "Name" is skipped by the
WHERE clause and still filters (`db.py:557`).  A word AND, OR or NOT in a search or in a
list makes the MATCH a syntax error, answered 500.  `smartlists_post` stores any limit:
with a negative one every page is empty and most link to a next one, with one that is no
number every page is answered 500 (`routes_opds.py:711`).  Two issues that differ in
unsafe characters only ("1.5" and "15") share a thumbnail (`thumbs.py:21`).

The mutants in `PROJECT.json` are plausible bugs (a stamp taken after the pages were
counted, a forgotten `DELETE FROM meta`, an abort that leaves the status set, an
off-by-one in the limit, `rmtree` for `rmdir`, an error path that leaves a file open,
a log opened with "w", a forgotten tie-break, a prefilter of the groups that have
tokens, ...); each breaks the property it is
listed for.

## 5. Proofs

`tlapm M.tla` checks each of the eight proof modules.  Assumptions are those named in
the modules (distinct constants, kinds of workers that do not overlap, finite sets
where members are counted, a tree of directories without cycles, rows and lists of
the right form, a ranking of all paths, the bounds); TLC evaluates them in every run.
No proof uses the sizes of the instances.

**Library.**  `LibraryIndexProofs` proves `TypeCorrect == Spec => []TypeOK`.  `TypeOK`
is not inductive: a job at a step on a file or a directory must have one (`AtPath`).  `TypeInv`
adds that.  `LibrarySafetyProofs` proves `IndexInvariant == Spec => []Inv` and from it
`CurrentStampIsRight` (under `~Restores`), `MetaOfListedOnly` and
`SearchTextCurrent`.  None of the three properties is inductive: they speak of the
committed index, and what will be committed is in `view` and in the jobs.  `Inv` says
in addition that

* the rows in `view` agree as well, except for the metadata of the one file whose
  job is between `upsert_file` and `upsert_meta` (`BetweenWrites`); that job owns
  the lock, so nobody can commit this state (`HoldsRow`);
* the stamp of a row, and the stamp in a job, were shown by the file at some time
  (`seen`), and a job whose stamp is still current has counted the present pages
  (`StampFirst`).  A library change then shows a stamp that no row and no job has.

The parts about current stamps hold under `~Restores` only and say so; the others
hold without it.  The proof has a lemma for each kind of step (a step without a
write, a transaction with good rows, a rollback, `upsert_file`, `upsert_meta`, a
library change), a lemma per job that maps each of its actions to one of those, and
the crash.

`RemovalProofs` proves the action property `InnocentStay == Spec =>
NoInnocentRemoval` with an invariant about what jobs remember, `RemovalInv`: what is
present lies in a directory that is present (`TreeOnDisk`); an open transaction has
only added rows, since each deletion is committed with the statement (`ViewKeeps`);
what a job recorded as gone includes all that is absent, with a directory all that is
below it, and the rows it is about to delete (`Remembers`).  The last of these needs,
for a refresh, that it has read rows of its own directory only (`KnowsChildren`), and
for a scan that its walk has met every path that stayed, in every directory it has
listed (`Covers`).  At the end of the walk nothing is left to list.  If a path that
stayed had not been met, nor would its directory have been, nor that one's, and these
directories would never end at the root: here the tree must have no cycle.

**Access.**  `AuthProofs` proves `AccessTypes`, `FailuresAlwaysBounded` and
`AccountsAlwaysDistinct`.  Types need two more facts: the ages in a failure list never
grow towards its end (`Ordered`), so that dropping the first entries drops the expired
ones; and a request that will record a failure has an address, a cookie is one that
was handed out (`Addressed`).  The bound is not inductive on recorded failures alone;
`HeldBounded` bounds the failures together with the attempts that passed the check
(`Held`), because a thread passes the check only below the limit and each of the other
threads adds at most one. `AccessProofs` proves `AccessImplemented == Spec =>
AccessKept`: initial states map to initial states, and each action of `Auth` to a step
of `AccessPromise` or a stutter.  The invariant that carries it (`Rights`) says that
every session belongs to an administrator, that a request about to open one or to
change an account is an administrator's, and that a request whose password is still to
be checked has one.

**Thumbnails.**  `ThumbsProofs` proves the type invariant and the three safety
properties of `Thumbs`.  `CoverSharedByName` follows from the stronger fact that whatever
was written into a thumbnail, a book and the issue its row named, has that thumbnail's
name (`CoverInv`), and from what it takes for two names to be equal.
For `Accounted`, `LogInv`
says of a book seen by a pass, finished or not, that it is settled (a thumbnail, a
line, absent) or that some pass still has it to come: as a task, in a thread, or
because the pass has not collected its books yet.  A pass that removes the log thereby
takes upon itself every book whose line it removed.  `ProgressHonest` needs that done,
the books not yet taken and the threads of a pass that is alone add up to the books
(`CountInv`).

**Pages.**  `PageCacheProofs` proves `CachedRight` from `CalmInv` (what a request is
about to save is the page it was asked for) and `ServedUnlessCleaned` from `HeldInv`
(from the moment it opens or finds its file, a request has its page in the cache,
unless a cleaner unlinked it).  `TypeOK` and `PassKeepsCap` follow from `CacheInv`: a
file is open only for requests that are saving it (`OpenInv`); the running total of a
pass is the number of pages it counted in the directories it has still to take, and
those and the pages that are late are all that the cache holds in the directories looked
at, since other cleaners only remove and a page that is opened later is late
(`CleanInv`).  That among the directories left there is one to take next, the
longest unused, rests on the library's `WFMin` for the naturals.

**Feeds and smart lists.**  `CatalogProofs` starts from the order: any two rows are in
order (`BeforeIsOrder`), so places are one-to-one (`Places`) and a listing has each
row once.  A page is the part of the listing at its places (`PageIsPart`), for limits
of any size.  From these:

* `CatalogTypes`: a client asks for at most one page too many.
* `WalksComplete`, by `CalmInv`: as long as nothing changed, the client was shown the
  first rows of the listing, as many as the pages before have places.
* `MissedOnlyGone`, by `MissedInv`: the rows that stayed, are at places the client has
  read, and were not shown (`Passed`) are no more than the rows that left or moved.  A
  row that stays moves up by at most as many places as rows left before it
  (`ShiftedPlace`), so a change takes at most as many rows that stay across the border
  between read and unread places as rows left (`MovedUp`).
* `FoldersDivide`, `DistinctHolds` and `PrefilterSound` hold of every index, whatever
  led to it: with one group the query is the conjunction it was meant to be
  (`SelectedPlain`), and a rule that accepts a row finds the tokens of its term in the
  document.

**Only model-checked.**  The liveness properties (`StatusSettles`, `Converges`,
`LockoutEnds`, `Forgotten`, `PassEnds`, `WalkEnds`): fairness and `ENABLED` are beyond
the prover.  Every other property of a passing run is a theorem.  The three refuted
properties are refuted by TLC's counterexamples.

## 6. Not modelled

* **ETags** (`feeds.py:91`): the tag is `int(MAX(mtime))` of the rows; that a deletion
  leaves it as it was is plain from the expression, and a client's cache would
  multiply the states of `CatalogWalks` for it.
* **Downloads**: range arithmetic on three integers per request, with no state kept. 
  The size is read before the file is opened and `If-Range` is not looked at, so a
  book replaced meanwhile mixes two files; the docs promise nothing about it.
* **Rowids** in `/book/{id}`: SQLite chooses them; `LibraryIndex` knows rows by `rel`.
* **Maintenance**: `optimize` and `VACUUM` change no row, and a failure is caught.
* **Text**: rendering of feeds, manifests and templates, normalisation of metadata
  text, labels, logging, configuration, the choice and scaling of a cover image.
* **`tools/`**: sequential programs outside the server.
* Permission and I/O errors other than those named above; a `LIBRARY_DIR` that
  disappears; symbolic links; SQLite without FTS5; the header that names the client
  behind a trusted proxy.
* **`DISABLE_AUTH`**, with which every request passes, and a restart with another
  `OPDS_BASIC_USER`.  The login page renews a session as `ValidateSession` does.
