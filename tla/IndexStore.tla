------------------------------ MODULE IndexStore ------------------------------
(***************************************************************************)
(* The three index tables of app/db.py (schema.sql) and the statements     *)
(* that change them, as pure operators from an index to an index.          *)
(*                                                                         *)
(* A path is a "rel" of the library.  A file version stands for everything *)
(* the program can observe of a .cbz: its (mtime, size) pair is the        *)
(* version itself, Info gives what read_comicinfo returns for it (None     *)
(* when there is no usable ComicInfo.xml) and Pages how many pages its zip *)
(* holds (0 when it cannot be read).  A search text is a function of the   *)
(* metadata and of the fixed file name, so the fts row of a file is        *)
(* represented by the metadata it was built from.                          *)
(***************************************************************************)
EXTENDS Naturals

CONSTANTS Files,      \* rels of .cbz files
          Dirs,       \* rels of the directories below the library root
          Versions,   \* contents a file may have
          Infos,      \* what a ComicInfo.xml may say
          Info,       \* the ComicInfo of a version
          Pages,      \* the page count of a version
          None        \* Python's None, SQL's NULL, no row

Paths == Files \cup Dirs

ASSUME PathAssumption == Files \cap Dirs = {}
ASSUME VersionAssumption ==
    /\ Info \in [Versions -> Infos \cup {None}]
    /\ Pages \in [Versions -> Nat]
ASSUME NoneAssumption ==
    /\ None \notin Files /\ None \notin Dirs
    /\ None \notin Versions /\ None \notin Infos

(* A row of items.  Directory rows carry no stamp: nothing compares them.  *)
Row == [stamp : Versions \cup {None}, pages : Nat]

Index == [items : [Paths -> Row \cup {None}],
          meta  : [Files -> Infos \cup {None}],
          fts   : [Files -> Infos \cup {None}]]

ASSUME RowAssumption == None \notin Row

NoRows == [p \in Paths |-> None]

EmptyIndex == [items |-> NoRows,
               meta  |-> [f \in Files |-> None],
               fts   |-> [f \in Files |-> None]]

Listed(items) == {p \in Paths : items[p] # None}

(* Mutant of Unchanged: a known file is skipped whatever its stamp.        *)
UnchangedAnyStamp(row, v) == row # None /\ row.pages > 0

(* The test that lets a scan or a refresh skip a file.                     *)
Unchanged(row, v) == row # None /\ row.stamp = v /\ row.pages > 0

UpsertDir(ix, d) ==
    [ix EXCEPT !.items = [@ EXCEPT ![d] = [stamp |-> None, pages |-> 0]]]

UpsertFile(ix, f, v, n) ==
    [ix EXCEPT !.items = [@ EXCEPT ![f] = [stamp |-> v, pages |-> n]]]

(* Mutant of UpsertMeta: the old fts row is not replaced.                  *)
UpsertMetaKeepText(ix, f, info) ==
    [items |-> ix.items,
     meta  |-> [ix.meta EXCEPT ![f] = info],
     fts   |-> [ix.fts EXCEPT ![f] = IF @ = None THEN info ELSE @]]

(* The fts row is rewritten only when items has the file.                  *)
UpsertMeta(ix, f, info) ==
    [items |-> ix.items,
     meta  |-> [ix.meta EXCEPT ![f] = info],
     fts   |-> [ix.fts EXCEPT ![f] = IF ix.items[f] # None THEN info ELSE @]]

(* What index_single_file, run_scan and refresh_directory do after         *)
(* read_comicinfo: a file without metadata leaves the old rows alone.      *)
UpsertMetaIfAny(ix, f, info) ==
    IF info = None THEN ix ELSE UpsertMeta(ix, f, info)

Without(table, S) == [p \in DOMAIN table |-> IF p \in S THEN None ELSE table[p]]

(* Mutant of DeleteRows: the metadata stays.                               *)
DeleteItemsOnly(ix, S) == [ix EXCEPT !.items = Without(@, S)]

(* DELETE FROM items and meta, as the refresh and the watcher issue it.    *)
DeleteRows(ix, S) ==
    [ix EXCEPT !.items = Without(@, S), !.meta = Without(@, S)]

(* Mutant of CleanupDeleted: the rows of directories stay.                 *)
CleanupFilesOnly(ix, S) ==
    [ix EXCEPT !.items = Without(@, S \cap Files),
               !.meta  = Without(@, S),
               !.fts   = Without(@, S)]

CleanupDeleted(ix, S) ==
    [ix EXCEPT !.items = Without(@, S),
               !.meta  = Without(@, S),
               !.fts   = Without(@, S)]

PruneStale(ix) ==
    [ix EXCEPT !.fts = Without(@, {f \in Files : ix.items[f] = None})]
===============================================================================
