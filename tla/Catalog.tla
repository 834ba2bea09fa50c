------------------------------- MODULE Catalog --------------------------------
(***************************************************************************)
(* A client that follows the next links of a paged feed (app/routes_opds.py*)
(* browse, opds_search, opds_smart_list, opds_smart_list_volume) while the *)
(* indexer changes the rows and an administrator saves smartlists.json.    *)
(*                                                                         *)
(* One page is one request.  The request loads smartlists.json, reads the  *)
(* rows of the page with LIMIT and OFFSET and counts the rows of the feed  *)
(* in a statement of its own (browse counts them first), so that the index *)
(* may change between them.                                                *)
(***************************************************************************)
EXTENDS SmartQuery

CONSTANTS RowChoices,    \* rows the indexer may write
          FirstIndexes,  \* indexes at the start
          Lists,         \* definitions the smart list may have
          Feeds,         \* feeds the client may walk
          PageSize,      \* PAGE_SIZE
          MaxChanges     \* changes of the index and of the lists

ASSUME CatalogAssumption == PageSize \in Nat \ {0} /\ MaxChanges \in Nat
ASSUME RowAssumption ==
    /\ FirstIndexes \subseteq [Rels -> RowChoices \cup {None}]
    /\ \A row \in RowChoices :
         /\ row # None /\ row.dir \in BOOLEAN /\ row.year \in Int \cup {None}
         /\ row.number \in Int /\ row.mtime \in Int
ASSUME ListAssumption ==
    \A list \in Lists : /\ list.limit \in Int \cup {Invalid}
                        /\ list.groups \in Seq(Range(list.groups))
ASSUME FeedAssumption ==
    /\ None \notin Feeds
    /\ \A feed \in Feeds : feed.kind \in {"flat", "volume", "browse", "search"}

VARIABLES index,   \* the rows
          store,   \* smartlists.json: the list in it, and how whole the file is
          walk,    \* the client
          changes

vars == <<index, store, walk, changes>>

-------------------------------------------------------------------------------
(* What a feed shows.                                                      *)

SortOf(list, feed) == CASE feed.kind \in {"flat", "volume"} -> list.sort
                        [] feed.kind = "browse" -> "folders"
                        [] feed.kind = "search" -> "name"

RowsOf(idx, list, feed) ==
    CASE feed.kind = "flat"   -> FlatRows(idx, list)
      [] feed.kind = "volume" -> VolumeRows(idx, list, feed.volume)
      [] feed.kind = "browse" -> ChildrenOf(idx, feed.parent)
      [] feed.kind = "search" -> FoundRows(idx, feed.words, feed.years)

(* smartlists_post stores any limit: a negative one, and one that int()    *)
(* refuses, with which no page is answered (LoadLists).                    *)
Limit(list, feed) ==
    IF feed.kind = "flat" /\ list.limit # Invalid THEN list.limit ELSE 0

(* os_total and what the next link is decided on.                          *)
Total(idx, list, feed) ==
    LET n == IF feed.kind = "flat" THEN FlatCount(idx, list)
             ELSE Cardinality(RowsOf(idx, list, feed))
        limit == Limit(list, feed)
    IN  IF limit > 0 /\ limit < n THEN limit ELSE n

Sorted(idx, list, feed) ==
    InOrder(idx, SortOf(list, feed), RowsOf(idx, list, feed))

(* All the rows that the feed shows, over its pages.                       *)
Listing(idx, list, feed) ==
    LET all == Sorted(idx, list, feed)
        limit == Limit(list, feed)
    IN  IF limit < 0 THEN <<>>
        ELSE IF limit > 0 /\ limit < Len(all) THEN SubSeq(all, 1, limit) ELSE all

Start(page) == (page - 1) * PageSize

(* Mutant of PageLength: a limited list has full pages.                    *)
PageLengthFull(limit, page) == PageSize

(* effective_page_size                                                     *)
PageLength(limit, page) ==
    LET left == limit - Start(page) IN
    IF limit = 0 \/ left > PageSize THEN PageSize
    ELSE IF left > 0 THEN left ELSE 0

(* LIMIT n OFFSET Start(page).                                             *)
PageOf(idx, list, feed, page) ==
    LET all == Sorted(idx, list, feed)
        to == Start(page) + PageLength(Limit(list, feed), page)
    IN  SubSeq(all, Start(page) + 1, IF to < Len(all) THEN to ELSE Len(all))

(* Mutant of HasNext: a last page of one row is not linked.                *)
HasNextBeyond(feed, page, got, total) == Start(page) + PageSize + 1 < total

(* Mutant of HasNext: the pages before this one are not counted.           *)
HasNextFromZero(feed, page, got, total) == got < total

HasNext(feed, page, got, total) ==
    IF feed.kind = "browse" THEN Start(page) + PageSize < total
    ELSE Start(page) + got < total

-------------------------------------------------------------------------------
(* The client                                                              *)

(* list: as the request at hand loaded it; rows: those of its page; total: *)
(* its count; shown: the pages before.  stay: rows listed, at their place, *)
(* since the walk began; gone: how many others left; late: how many came   *)
(* after browse had counted the rows of a page and before it read them;    *)
(* calm: nothing changed since.                                            *)
NoWalk == [pc |-> "idle", feed |-> None, list |-> None, page |-> 1, rows |-> <<>>,
           total |-> 0, shown |-> <<>>, stay |-> {}, gone |-> 0, late |-> 0,
           calm |-> TRUE]

Init ==
    /\ index \in FirstIndexes
    /\ \E list \in Lists : store = [list |-> list, file |-> "whole"]
    /\ walk = NoWalk
    /\ changes = 0

BeginWalk ==
    /\ walk.pc = "idle"
    /\ \E feed \in Feeds : walk' = [NoWalk EXCEPT !.pc = "load", !.feed = feed,
                                      !.stay = Range(Listing(index, store.list, feed))]
    /\ UNCHANGED <<index, store, changes>>

(* What the request cannot be answered with: a file that does not parse,   *)
(* or a limit that is no number.                                           *)
NoList ==
    \/ walk.feed.kind \in {"flat", "volume"} /\ store.file # "whole"
    \/ walk.feed.kind = "flat" /\ store.list.limit = Invalid

(* Mutant of LoadLists: a file that does not parse is read again.          *)
LoadListsAgain ==
    /\ walk.pc = "load"
    /\ walk' = IF NoList THEN walk
               ELSE [walk EXCEPT !.list = store.list,
                       !.pc = IF walk.feed.kind = "browse" THEN "count" ELSE "rows"]
    /\ UNCHANGED <<index, store, changes>>

(* _load_smartlists: a file that is being written, or was left torn, is no *)
(* list at all, and the slug is not found (404), or an error where it ends *)
(* within a character (500).  int(limit) fails (500).                      *)
LoadLists ==
    /\ walk.pc = "load"
    /\ walk' = IF NoList THEN [walk EXCEPT !.pc = "refused"]
               ELSE [walk EXCEPT !.list = store.list,
                       !.pc = IF walk.feed.kind = "browse" THEN "count" ELSE "rows"]
    /\ UNCHANGED <<index, store, changes>>

(* The MATCH of a statement does not parse (500).  SQLite need not get to  *)
(* it: no row may ask for it, and LIMIT 0 asks for no row.                 *)
Unmatchable(list, feed) ==
    \/ feed.kind \in {"flat", "volume"} /\ Unparsable(list.groups)
    \/ feed.kind = "search" /\ feed.words \cap Operators # {}

Fail ==
    /\ walk.pc \in {"rows", "count"} /\ Unmatchable(walk.list, walk.feed)
    /\ walk' = [walk EXCEPT !.pc = "refused"]
    /\ UNCHANGED <<index, store, changes>>

(* The page is answered and its next link followed.                        *)
Answered(w) ==
    LET more == HasNext(w.feed, w.page, Len(w.rows), w.total)
    IN  [w EXCEPT !.shown = @ \o w.rows, !.rows = <<>>, !.total = 0, !.list = None,
                  !.pc = IF more THEN "load" ELSE "done",
                  !.page = IF more THEN @ + 1 ELSE @]

ReadRows ==
    LET read == [walk EXCEPT !.rows = PageOf(index, walk.list, walk.feed, walk.page)]
    IN  /\ walk.pc = "rows"
        /\ walk' = IF walk.feed.kind = "browse" THEN Answered(read)
                   ELSE [read EXCEPT !.pc = "count"]
        /\ UNCHANGED <<index, store, changes>>

CountRows ==
    LET counted == [walk EXCEPT !.total = Total(index, walk.list, walk.feed)]
    IN  /\ walk.pc = "count"
        /\ walk' = IF walk.feed.kind = "browse" THEN [counted EXCEPT !.pc = "rows"]
                   ELSE Answered(counted)
        /\ UNCHANGED <<index, store, changes>>

EndWalk ==
    /\ walk.pc \in {"done", "refused"}
    /\ walk' = NoWalk
    /\ UNCHANGED <<index, store, changes>>

-------------------------------------------------------------------------------
(* The indexer and the administrator                                       *)

(* What leaves a listing, or takes another place in it, by a new index.    *)
Leaves(new) ==
    LET old == Range(Listing(index, store.list, walk.feed))
        now == Range(Listing(new, store.list, walk.feed))
    IN  {rel \in old : rel \notin now \/ index[rel] # new[rel]}

Counted == walk.feed.kind = "browse" /\ walk.pc = "rows"
Comes(new) == Range(Listing(new, store.list, walk.feed))
                \ Range(Listing(index, store.list, walk.feed))

(* A file is indexed, indexed anew or removed.                             *)
ChangeIndex ==
    /\ changes < MaxChanges /\ changes' = changes + 1
    /\ \E rel \in Rels, row \in RowChoices \cup {None} :
         /\ row # index[rel]
         /\ index' = [index EXCEPT ![rel] = row]
    /\ walk' = IF walk.feed = None THEN walk
               ELSE LET left == Leaves(index') IN
                    [walk EXCEPT !.calm = FALSE, !.stay = @ \ left,
                                 !.gone = @ + Cardinality(left),
                                 !.late = IF Counted THEN @ + Cardinality(Comes(index'))
                                          ELSE @]
    /\ UNCHANGED store

(* smartlists_post: write_text truncates the file, then fills it.          *)
BeginSaveLists ==
    /\ store.file # "writing" /\ changes < MaxChanges
    /\ changes' = changes + 1
    /\ store' = [store EXCEPT !.file = "writing"]
    /\ UNCHANGED <<index, walk>>

EndSaveLists ==
    /\ store.file = "writing"
    /\ \E list \in Lists : store' = [list |-> list, file |-> "whole"]
    /\ walk' = IF walk.feed = None THEN walk
               ELSE [walk EXCEPT !.calm = FALSE, !.stay = {}]
    /\ UNCHANGED <<index, changes>>

(* The process dies while it writes.  A walk under way is given up.        *)
Crash ==
    /\ store.file = "writing"
    /\ store' = [store EXCEPT !.file = "torn"]
    /\ walk' = NoWalk
    /\ UNCHANGED <<index, changes>>

Walking == LoadLists \/ Fail \/ ReadRows \/ CountRows \/ EndWalk

Next ==
    \/ BeginWalk \/ Walking
    \/ ChangeIndex \/ BeginSaveLists \/ EndSaveLists \/ Crash

Spec == Init /\ [][Next]_vars

(* Requests are answered and next links followed.                          *)
FairSpec == Spec /\ WF_vars(Walking)

-------------------------------------------------------------------------------
(* Properties                                                              *)

(* Type invariant of the catalog; a walk asks for at most one page beyond  *)
(* those that the rows could fill.                                         *)
TypeOK ==
    /\ index \in [Rels -> RowChoices \cup {None}]
    /\ store \in [list : Lists, file : {"whole", "writing", "torn"}]
    /\ walk \in [pc : {"idle", "load", "rows", "count", "done", "refused"},
                 feed : Feeds \cup {None}, list : Lists \cup {None},
                 page : Nat \ {0}, rows : Seq(Rels), total : 0..Cardinality(Rels),
                 shown : Seq(Rels), stay : SUBSET Rels, gone : Nat, late : Nat,
                 calm : BOOLEAN]
    /\ Start(walk.page) < Cardinality(Rels) + PageSize
    /\ changes \in 0..MaxChanges

(* A client that reaches the last page of a feed that did not change has   *)
(* been shown its rows once each, in order, and no more than the limit.    *)
WalkComplete ==
    walk.pc = "done" /\ walk.calm => walk.shown = Listing(index, store.list, walk.feed)

(* Whatever the indexer does between the pages, and between the rows and   *)
(* the count of a page, a walk passes over at most as many of the rows     *)
(* that stayed listed as there were rows that left or moved, and in a      *)
(* folder, which is counted before it is read, rows that came in between.  *)
MissedAtMostGone ==
    walk.pc = "done" =>
      Cardinality(walk.stay \ Range(walk.shown)) <= walk.gone + walk.late

(* A walk ends, though the count of a distinct list is larger than it.     *)
WalkEnds == [](walk.pc = "load" => <>(walk.pc = "idle"))

(* The lists whose groups the query does not tear apart.                   *)
Plain(list) == \A i, j \in Parts(list.groups) : i = j

(* The virtual folders of a list (of one group) divide it: every row is in *)
(* one of them, and the number shown with a folder is the number of rows.  *)
VolumesPartition ==
    \A list \in Lists : Plain(list) /\ list.distinct = None =>
      /\ FlatRows(index, list) =
           UNION {VolumeRows(index, list, v) : v \in Volumes(index, list)}
      /\ \A v \in Volumes(index, list) :
           VolumeCount(index, list, v) = Cardinality(VolumeRows(index, list, v))

(* docs/smartlists.md: "a smart list will return at most one comic per     *)
(* series and volume": of a series with no two issues of one year, number  *)
(* and time.                                                               *)
OnePerVolume(list) ==
    list.distinct # None =>
      \A a, b \in FlatRows(index, list) :
        a # b /\ OneSeries(index[a], index[b]) /\ index[a].series # Blank =>
          Issued(index[a]) = Issued(index[b])

(* It holds of lists of one group.                                         *)
DistinctOfOneGroup == \A list \in Lists : Plain(list) => OnePerVolume(list)

(* It should hold of every list.                                           *)
DistinctAtMostOne == \A list \in Lists : OnePerVolume(list)

(* "skip FTS to avoid excluding valid rows" (db.py): the prefilter takes   *)
(* no row that one of the groups accepts, as long as the terms of its name *)
(* are words of a document, and the group asks for text in the name only,  *)
(* in the spelling that the query knows.                                   *)
PrefilterHarmless ==
    \A list \in Lists, rel \in Rows(index) :
      LET row == index[rel] IN
      /\ ~Unparsable(list.groups)
      /\ \A term \in row.inside : TokensOf[term] \subseteq row.starts
      /\ \E i \in DOMAIN list.groups :
           /\ \A r \in TokenRules(list.groups[i]) : r.field = "name"
           /\ \A r \in Rules(list.groups[i]) : Holds(r, row)
      => Prefiltered(list.groups, row)
===============================================================================
