---------------------------- MODULE CatalogProofs -----------------------------
(***************************************************************************)
(* Proofs about the queries of SmartQuery and the walks of Catalog: what a *)
(* list selects, that the rows of a feed stand at their places, and what a *)
(* client that follows the next links is shown.                            *)
(***************************************************************************)
EXTENDS Catalog, FiniteSetTheorems, SequenceTheorems, TLAPS

(* An index with rows that the assumptions describe.                       *)
Indexes == [Rels -> RowChoices \cup {None}]

-------------------------------------------------------------------------------
(* The order of the rows                                                   *)

(* ORDER BY i.name gives every path a rank of its own.                     *)
LEMMA Ranks ==
    /\ \A a \in Rels : Rank[a] \in DOMAIN Ranking /\ Ranking[Rank[a]] = a
    /\ \A a \in Rels : Rank[a] \in Int
    /\ \A a, b \in Rels : Rank[a] = Rank[b] => a = b
<1>1. \A a \in Rels : \E i \in DOMAIN Ranking : Ranking[i] = a
  BY RankingAssumption DEF Range
<1>2. \A a \in Rels : Rank[a] \in DOMAIN Ranking /\ Ranking[Rank[a]] = a
  BY <1>1 DEF Rank
<1>3. DOMAIN Ranking = 1..Len(Ranking) /\ Len(Ranking) \in Nat
  BY RankingAssumption, LenProperties
<1>4. QED
  BY <1>2, <1>3

LEMMA FiniteRels == IsFiniteSet(Rels) /\ Cardinality(Rels) \in Nat
<1>1. Ranking \in Surjection(1..Len(Ranking), Rels) /\ Len(Ranking) \in Nat
  <2>1. Ranking \in [1..Len(Ranking) -> Rels] /\ Len(Ranking) \in Nat
    BY RankingAssumption, LenProperties
  <2>2. \A a \in Rels : \E i \in 1..Len(Ranking) : Ranking[i] = a
    BY <2>1, Ranks
  <2>3. QED
    BY <2>1, <2>2 DEF Surjection
<1>2. IsFiniteSet(1..Len(Ranking))
  BY <1>1, FS_Interval
<1>3. IsFiniteSet(Rels)
  BY <1>1, <1>2, FS_Surjection
<1>4. QED
  BY <1>3, FS_CardinalityType

LEMMA FiniteRows ==
    ASSUME NEW rows \in SUBSET Rels
    PROVE  /\ IsFiniteSet(rows) /\ Cardinality(rows) \in Nat
           /\ Cardinality(rows) <= Cardinality(Rels)
BY FiniteRels, FS_Subset, FS_CardinalityType

LEMMA TypedRows ==
    ASSUME NEW idx \in Indexes, NEW a \in Rows(idx)
    PROVE  /\ a \in Rels /\ idx[a] \in RowChoices /\ idx[a] # None
           /\ idx[a].dir \in BOOLEAN /\ idx[a].year \in Int \cup {None}
           /\ idx[a].number \in Int /\ idx[a].mtime \in Int
BY RowAssumption DEF Indexes, Rows

(* Two rows are always in order, and never both ways.                      *)
LEMMA BeforeIsOrder ==
    ASSUME NEW idx \in Indexes, NEW sort
    PROVE  /\ \A a \in Rows(idx) : ~Before(idx, sort, a, a)
           /\ \A a, b \in Rows(idx) :
                a # b => Before(idx, sort, a, b) \/ Before(idx, sort, b, a)
           /\ \A a, b, c \in Rows(idx) :
                Before(idx, sort, a, b) /\ Before(idx, sort, b, c)
                  => Before(idx, sort, a, c)
<1>1. \A a \in Rows(idx) : /\ a \in Rels /\ Rank[a] \in Int
                           /\ idx[a].dir \in BOOLEAN /\ idx[a].mtime \in Int
  BY TypedRows, Ranks
<1>2. \A a, b \in Rows(idx) : Rank[a] = Rank[b] => a = b
  BY <1>1, Ranks
<1>3. CASE sort = "folders"
  BY <1>1, <1>2, <1>3 DEF Before
<1>4. CASE sort = "added_desc"
  BY <1>1, <1>2, <1>4 DEF Before
<1>5. CASE sort \notin {"folders", "added_desc"}
  BY <1>1, <1>2, <1>5 DEF Before
<1>6. QED
  BY <1>3, <1>4, <1>5

(* The place of a row is one of the places there are, and the order of the *)
(* places is that of the rows.                                             *)
LEMMA Places ==
    ASSUME NEW idx \in Indexes, NEW sort, NEW rows \in SUBSET Rows(idx)
    PROVE  /\ \A a \in rows : Place(idx, sort, rows, a) \in 1..Cardinality(rows)
           /\ \A a, b \in rows :
                Before(idx, sort, a, b) <=>
                  Place(idx, sort, rows, a) < Place(idx, sort, rows, b)
           /\ \A a, b \in rows :
                Place(idx, sort, rows, a) = Place(idx, sort, rows, b) => a = b
<1> DEFINE Lower(a) == {o \in rows : Before(idx, sort, o, a)}
<1>1. rows \in SUBSET Rels
  BY DEF Rows
<1>2. IsFiniteSet(rows) /\ Cardinality(rows) \in Nat
  BY <1>1, FiniteRows
<1>3. \A a : /\ IsFiniteSet(Lower(a)) /\ Cardinality(Lower(a)) \in Nat
             /\ Lower(a) \in SUBSET rows
  BY <1>1, FiniteRows
<1>4. \A a : Place(idx, sort, rows, a) = Cardinality(Lower(a)) + 1
  BY DEF Place
<1>5. \A a, b \in rows :
        Before(idx, sort, a, b) => Cardinality(Lower(a)) < Cardinality(Lower(b))
  <2> SUFFICES ASSUME NEW a \in rows, NEW b \in rows, Before(idx, sort, a, b)
               PROVE  Cardinality(Lower(a)) < Cardinality(Lower(b))
    OBVIOUS
  <2>1. Lower(a) \in SUBSET Lower(b)
    BY BeforeIsOrder
  <2>2. Lower(a) # Lower(b)
    BY BeforeIsOrder
  <2>3. Cardinality(Lower(a)) <= Cardinality(Lower(b))
        /\ Cardinality(Lower(a)) # Cardinality(Lower(b))
    BY <1>3, <2>1, <2>2, FS_Subset
  <2>4. QED
    BY <1>3, <2>3
<1>6. \A a \in rows : Cardinality(Lower(a)) < Cardinality(rows)
  <2> SUFFICES ASSUME NEW a \in rows PROVE Cardinality(Lower(a)) < Cardinality(rows)
    OBVIOUS
  <2>1. Lower(a) # rows
    BY BeforeIsOrder
  <2>2. Cardinality(Lower(a)) <= Cardinality(rows)
        /\ Cardinality(Lower(a)) # Cardinality(rows)
    BY <1>2, <1>3, <2>1, FS_Subset
  <2>3. QED
    BY <1>2, <1>3, <2>2
<1> HIDE DEF Lower
<1>7. \A a \in rows : Place(idx, sort, rows, a) \in 1..Cardinality(rows)
  BY <1>2, <1>3, <1>4, <1>6
<1>8. \A a, b \in rows :
        a # b => Before(idx, sort, a, b) \/ Before(idx, sort, b, a)
  BY BeforeIsOrder
<1>9. \A a, b \in rows : ~(Before(idx, sort, a, b) /\ Before(idx, sort, b, a))
  BY BeforeIsOrder
<1>10. \A a, b \in rows :
         Before(idx, sort, a, b) => Place(idx, sort, rows, a) < Place(idx, sort, rows, b)
  BY <1>3, <1>4, <1>5
<1>11. \A a, b \in rows :
         Place(idx, sort, rows, a) < Place(idx, sort, rows, b) => Before(idx, sort, a, b)
  <2> SUFFICES ASSUME NEW a \in rows, NEW b \in rows,
                      Place(idx, sort, rows, a) < Place(idx, sort, rows, b)
               PROVE  Before(idx, sort, a, b)
    OBVIOUS
  <2>1. Place(idx, sort, rows, a) \in Int /\ Place(idx, sort, rows, b) \in Int
    BY <1>7
  <2>2. a # b /\ ~Before(idx, sort, b, a)
    BY <1>10, <2>1
  <2>3. QED
    BY <1>8, <2>2
<1>12. \A a, b \in rows :
         Place(idx, sort, rows, a) = Place(idx, sort, rows, b) => a = b
  BY <1>7, <1>8, <1>10
<1>13. QED
  BY <1>7, <1>10, <1>11, <1>12

(* The rows in order: each of them once, at its place.                     *)
LEMMA OrderedRows ==
    ASSUME NEW idx \in Indexes, NEW sort, NEW rows \in SUBSET Rows(idx)
    PROVE  /\ InOrder(idx, sort, rows) \in Seq(rows)
           /\ Len(InOrder(idx, sort, rows)) = Cardinality(rows)
           /\ \A i \in 1..Cardinality(rows) :
                Place(idx, sort, rows, InOrder(idx, sort, rows)[i]) = i
           /\ \A a \in rows :
                InOrder(idx, sort, rows)[Place(idx, sort, rows, a)] = a
<1> DEFINE n == Cardinality(rows)
           at == [a \in rows |-> Place(idx, sort, rows, a)]
           all == InOrder(idx, sort, rows)
<1>1. rows \in SUBSET Rels
  BY DEF Rows
<1>2. IsFiniteSet(rows) /\ n \in Nat
  BY <1>1, FiniteRows
<1>3. at \in Injection(rows, 1..n)
  BY Places DEF Injection, IsInjective
<1>4. IsFiniteSet(1..n) /\ Cardinality(1..n) = n
  BY <1>2, FS_Interval
<1>5. at \in Surjection(rows, 1..n)
  BY <1>2, <1>3, <1>4, FS_Injection
<1>6. \A i \in 1..n : \E a \in rows : Place(idx, sort, rows, a) = i
  BY <1>5 DEF Surjection
<1>7. \A i \in 1..n : all[i] \in rows /\ Place(idx, sort, rows, all[i]) = i
  BY <1>6 DEF InOrder
<1>8. all \in [1..n -> rows]
  BY <1>7 DEF InOrder
<1>9. all \in Seq(rows) /\ Len(all) = n
  BY <1>2, <1>8
<1>10. \A a \in rows : all[Place(idx, sort, rows, a)] = a
  BY <1>7, Places
<1>11. QED
  BY <1>7, <1>9, <1>10

-------------------------------------------------------------------------------
(* What a list selects                                                     *)

LEMMA GroupsDomain ==
    ASSUME NEW list \in Lists
    PROVE  /\ DOMAIN list.groups = 1..Len(list.groups) /\ Len(list.groups) \in Nat
           /\ Parts(list.groups) \subseteq Int
<1>1. list.groups \in Seq(Range(list.groups))
  BY ListAssumption
<1>2. DOMAIN list.groups = 1..Len(list.groups) /\ Len(list.groups) \in Nat
  BY <1>1, LenProperties
<1>3. QED
  BY <1>2 DEF Parts

(* What stands after the groups narrows a list.                            *)
LEMMA SelectedNarrows ==
    ASSUME NEW groups, NEW row, NEW tail, Selected(groups, row, tail)
    PROVE  Selected(groups, row, TRUE)
BY DEF Selected

(* In a plain list it belongs to every row that the list selects, and the  *)
(* list has files only.                                                    *)
LEMMA SelectedPlain ==
    ASSUME NEW list \in Lists, Plain(list), NEW row, NEW tail \in BOOLEAN
    PROVE  /\ Selected(list.groups, row, tail) <=>
                Selected(list.groups, row, TRUE) /\ tail
           /\ Selected(list.groups, row, tail) => ~row.dir
<1> DEFINE P == Parts(list.groups)
<1>1. \A i, j \in P : i = j /\ i <= j
  BY GroupsDomain DEF Plain
<1>2. Selected(list.groups, row, tail) <=>
        \/ P = {} /\ ~row.dir /\ Prefiltered(list.groups, row) /\ tail
        \/ \E i \in P : /\ \A r \in Rules(list.groups[i]) : Holds(r, row)
                        /\ ~row.dir /\ Prefiltered(list.groups, row) /\ tail
  BY <1>1 DEF Selected
<1>3. Selected(list.groups, row, TRUE) <=>
        \/ P = {} /\ ~row.dir /\ Prefiltered(list.groups, row)
        \/ \E i \in P : /\ \A r \in Rules(list.groups[i]) : Holds(r, row)
                        /\ ~row.dir /\ Prefiltered(list.groups, row)
  BY <1>1 DEF Selected
<1>4. QED
  BY <1>2, <1>3

(* The prefilter takes no row that a group accepts.                        *)
LEMMA HarmlessPrefilter ==
    ASSUME NEW list \in Lists, NEW row,
           \A term \in row.inside : TokensOf[term] \subseteq row.starts,
           NEW i \in DOMAIN list.groups,
           \A r \in TokenRules(list.groups[i]) : r.field = "name",
           \A r \in Rules(list.groups[i]) : Holds(r, row)
    PROVE  Prefiltered(list.groups, row)
<1>1. Tokens(list.groups[i]) \subseteq row.starts
  <2> SUFFICES ASSUME NEW r \in TokenRules(list.groups[i])
               PROVE  TokensOf[r.value] \subseteq row.starts
    BY DEF Tokens
  <2>1. r \in list.groups[i] /\ r.op = "contains" /\ ~r.not /\ r.field = "name"
    BY DEF TokenRules
  <2>2. Holds(r, row)
    BY <2>1 DEF Rules, Fields
  <2>3. r.value \in Terms(r.field, row)
    BY <2>1, <2>2 DEF Holds, Compares
  <2>4. QED
    BY <2>1, <2>3 DEF Terms
<1>2. QED
  BY <1>1 DEF Prefiltered

(* Two issues of one series: one of them is older, or both are issued alike. *)
LEMMA IssuesInOrder ==
    ASSUME NEW idx \in Indexes, NEW a \in Rows(idx), NEW b \in Rows(idx)
    PROVE  \/ Issued(idx[a]) = Issued(idx[b])
           \/ Precedes(Issued(idx[a]), Issued(idx[b]))
           \/ Precedes(Issued(idx[b]), Issued(idx[a]))
<1>1. \A o \in Rows(idx) :
        /\ Coalesce(idx[o].year, 0) \in Int
        /\ idx[o].number \in Int /\ idx[o].mtime \in Int
  BY TypedRows DEF Coalesce
<1>2. Issued(idx[a]) \in Int \X Int \X Int /\ Issued(idx[b]) \in Int \X Int \X Int
  BY <1>1 DEF Issued
<1>3. \A s, t \in Int \X Int \X Int : s = t \/ Precedes(s, t) \/ Precedes(t, s)
  BY DEF Precedes
<1>4. QED
  BY <1>2, <1>3

(* So a plain distinct list has one issue of a series and volume.          *)
LEMMA PlainDistinct ==
    ASSUME NEW idx \in Indexes, NEW list \in Lists, Plain(list), list.distinct # None,
           NEW a \in FlatRows(idx, list), NEW b \in FlatRows(idx, list),
           OneSeries(idx[a], idx[b]), idx[a].series # Blank
    PROVE  Issued(idx[a]) = Issued(idx[b])
<1>1. \A o \in FlatRows(idx, list) :
        /\ o \in Rows(idx) /\ Chosen(idx, list, o) /\ ~idx[o].dir
  <2> SUFFICES ASSUME NEW o \in FlatRows(idx, list)
               PROVE  o \in Rows(idx) /\ Chosen(idx, list, o) /\ ~idx[o].dir
    OBVIOUS
  <2>1. o \in Rows(idx) /\ Selected(list.groups, idx[o], Chosen(idx, list, o))
    BY DEF FlatRows
  <2>2. Chosen(idx, list, o) \in BOOLEAN
    BY DEF Chosen
  <2>3. QED
    BY <2>1, <2>2, SelectedPlain
<1>2. OneSeries(idx[b], idx[a]) /\ idx[b].series # Blank /\ idx[b].series # None
      /\ idx[a].series # None
  BY DEF OneSeries
<1>3. ~Dominated(idx, a, list.distinct) /\ ~Dominated(idx, b, list.distinct)
  BY <1>1, <1>2 DEF Chosen
<1>4. /\ ~Precedes(Issued(idx[a]), Issued(idx[b]))
      /\ ~Precedes(Issued(idx[b]), Issued(idx[a]))
  BY <1>1, <1>2, <1>3 DEF Dominated
<1>5. QED
  BY <1>1, <1>4, IssuesInOrder

-------------------------------------------------------------------------------
(* The listing of a feed and its pages                                     *)

LEMMA FeedRows ==
    ASSUME NEW idx \in Indexes, NEW list \in Lists, NEW feed \in Feeds
    PROVE  /\ RowsOf(idx, list, feed) \in SUBSET Rows(idx)
           /\ RowsOf(idx, list, feed) \in SUBSET Rels
           /\ Limit(list, feed) \in Int
<1>1. feed.kind \in {"flat", "volume", "browse", "search"}
  BY FeedAssumption
<1>2. /\ FlatRows(idx, list) \in SUBSET Rows(idx)
      /\ VolumeRows(idx, list, feed.volume) \in SUBSET Rows(idx)
      /\ ChildrenOf(idx, feed.parent) \in SUBSET Rows(idx)
      /\ FoundRows(idx, feed.words, feed.years) \in SUBSET Rows(idx)
  BY DEF FlatRows, VolumeRows, ChildrenOf, FoundRows
<1>3. RowsOf(idx, list, feed) \in SUBSET Rows(idx)
  BY <1>1, <1>2 DEF RowsOf
<1>4. Limit(list, feed) \in Int
  BY ListAssumption DEF Limit
<1>5. QED
  BY <1>3, <1>4 DEF Rows

LEMMA SortedRows ==
    ASSUME NEW idx \in Indexes, NEW list \in Lists, NEW feed \in Feeds
    PROVE  LET all == Sorted(idx, list, feed)
               rows == RowsOf(idx, list, feed)
               sort == SortOf(list, feed)
           IN  /\ all \in Seq(Rels) /\ all \in Seq(rows)
               /\ Len(all) = Cardinality(rows) /\ Len(all) \in Nat
               /\ Len(all) <= Cardinality(Rels)
               /\ \A i \in 1..Len(all) : /\ all[i] \in rows
                                         /\ Place(idx, sort, rows, all[i]) = i
               /\ \A a \in rows : /\ Place(idx, sort, rows, a) \in 1..Len(all)
                                  /\ all[Place(idx, sort, rows, a)] = a
<1> DEFINE all == Sorted(idx, list, feed)
           rows == RowsOf(idx, list, feed)
           sort == SortOf(list, feed)
<1>1. rows \in SUBSET Rows(idx) /\ rows \in SUBSET Rels
  BY FeedRows
<1>2. all = InOrder(idx, sort, rows)
  BY DEF Sorted
<1> HIDE DEF all, rows, sort
<1>3. /\ all \in Seq(rows) /\ Len(all) = Cardinality(rows)
      /\ \A i \in 1..Cardinality(rows) : Place(idx, sort, rows, all[i]) = i
      /\ \A a \in rows : all[Place(idx, sort, rows, a)] = a
  BY <1>1, <1>2, OrderedRows
<1>4. \A a \in rows : Place(idx, sort, rows, a) \in 1..Cardinality(rows)
  BY <1>1, Places
<1>5. Cardinality(rows) \in Nat /\ Cardinality(rows) <= Cardinality(Rels)
  BY <1>1, FiniteRows
<1>6. all \in Seq(Rels)
  BY <1>1, <1>3, SeqMonotonic
<1>7. \A i \in 1..Len(all) : all[i] \in rows
  BY <1>3, ElementOfSeq
<1>8. QED
  BY <1>3, <1>4, <1>5, <1>6, <1>7 DEF all, rows, sort

(* The listing is the start of the rows in order, up to the limit.         *)
LEMMA ListingIsStart ==
    ASSUME NEW idx \in Indexes, NEW list \in Lists, NEW feed \in Feeds
    PROVE  LET all == Sorted(idx, list, feed)
               limit == Limit(list, feed)
               shown == Listing(idx, list, feed)
           IN  /\ shown \in Seq(Rels) /\ Len(shown) \in Nat
               /\ Len(shown) = IF limit < 0 THEN 0
                               ELSE IF limit > 0 /\ limit < Len(all) THEN limit
                               ELSE Len(all)
               /\ Len(shown) <= Cardinality(Rels)
               /\ \A i \in 1..Len(shown) : shown[i] = all[i]
<1> DEFINE all == Sorted(idx, list, feed)
           limit == Limit(list, feed)
           shown == Listing(idx, list, feed)
<1>1. all \in Seq(Rels) /\ Len(all) \in Nat /\ Len(all) <= Cardinality(Rels)
  BY SortedRows
<1>2. limit \in Int
  BY FeedRows
<1>3. shown = IF limit < 0 THEN <<>>
              ELSE IF limit > 0 /\ limit < Len(all) THEN SubSeq(all, 1, limit) ELSE all
  BY DEF Listing
<1>4. Cardinality(Rels) \in Nat
  BY FiniteRels
<1> HIDE DEF all, limit, shown
<1>5. CASE limit > 0 /\ limit < Len(all)
  <2>1. \A i \in 1..limit : all[i] \in Rels
    BY <1>1, <1>2, <1>5, ElementOfSeq
  <2>2. /\ SubSeq(all, 1, limit) \in Seq(Rels)
        /\ Len(SubSeq(all, 1, limit)) = limit
        /\ \A i \in 1..limit : SubSeq(all, 1, limit)[i] = all[i]
    BY <1>2, <1>5, <2>1, SubSeqProperties
  <2>3. QED
    BY <1>1, <1>2, <1>3, <1>4, <1>5, <2>2 DEF all, limit, shown
<1>6. CASE limit >= 0 /\ ~(limit > 0 /\ limit < Len(all))
  BY <1>1, <1>2, <1>3, <1>6 DEF all, limit, shown
<1>7. CASE limit < 0
  <2>1. shown = <<>> /\ <<>> \in Seq(Rels) /\ Len(<<>>) = 0
    BY <1>3, <1>7
  <2>2. QED
    BY <1>4, <1>7, <2>1 DEF all, limit, shown
<1>8. QED
  BY <1>2, <1>5, <1>6, <1>7

(* What counting finds is at least as long as the listing; of a feed that  *)
(* is not flat it is the length of the listing.                            *)
LEMMA Totals ==
    ASSUME NEW idx \in Indexes, NEW list \in Lists, NEW feed \in Feeds
    PROVE  /\ Total(idx, list, feed) \in 0..Cardinality(Rels)
           /\ Len(Listing(idx, list, feed)) <= Total(idx, list, feed)
           /\ feed.kind = "browse" =>
                Total(idx, list, feed) = Len(Listing(idx, list, feed))
<1> DEFINE all == Sorted(idx, list, feed)
           rows == RowsOf(idx, list, feed)
           limit == Limit(list, feed)
           wide == {rel \in Rows(idx) : Selected(list.groups, idx[rel], TRUE)}
           n == IF feed.kind = "flat" THEN Cardinality(wide) ELSE Cardinality(rows)
           shown == Listing(idx, list, feed)
<1>1. /\ Len(all) = Cardinality(rows) /\ Len(all) \in Nat
      /\ Cardinality(rows) \in 0..Cardinality(Rels)
  BY SortedRows, FiniteRels
<1>2. IsFiniteSet(wide) /\ Cardinality(wide) \in 0..Cardinality(Rels)
  <2>1. wide \in SUBSET Rels
    BY DEF Rows
  <2> HIDE DEF wide
  <2>2. QED
    BY <2>1, FiniteRows, FiniteRels
<1>3. feed.kind = "flat" => Cardinality(rows) <= Cardinality(wide)
  <2> SUFFICES ASSUME feed.kind = "flat" PROVE Cardinality(rows) <= Cardinality(wide)
    OBVIOUS
  <2>1. rows = FlatRows(idx, list)
    BY DEF RowsOf
  <2>2. FlatRows(idx, list) \in SUBSET wide
    BY SelectedNarrows DEF FlatRows
  <2>3. QED
    BY <1>2, <2>1, <2>2, FS_Subset
<1>4. limit \in Int /\ (feed.kind = "browse" => limit = 0)
  BY FeedRows DEF Limit
<1>5. Len(shown) = IF limit < 0 THEN 0
                   ELSE IF limit > 0 /\ limit < Len(all) THEN limit ELSE Len(all)
  BY ListingIsStart
<1>6. Total(idx, list, feed) = IF limit > 0 /\ limit < n THEN limit ELSE n
  BY DEF Total, FlatCount
<1>7. Cardinality(Rels) \in Nat
  BY FiniteRels
<1> HIDE DEF all, rows, limit, wide, shown
<1>8. QED
  BY <1>1, <1>2, <1>3, <1>4, <1>5, <1>6, <1>7 DEF shown

(* Pages start one after the other.                                        *)
LEMMA Starts ==
    /\ Start(1) = 0
    /\ \A page \in Nat \ {0} :
         Start(page) \in Nat /\ Start(page + 1) = Start(page) + PageSize
BY CatalogAssumption DEF Start

(* A page is the part of the listing that starts where the pages before it *)
(* end: LIMIT and OFFSET cut it out of the rows, and never beyond the limit. *)
LEMMA PageIsPart ==
    ASSUME NEW idx \in Indexes, NEW list \in Lists, NEW feed \in Feeds,
           NEW page \in Nat \ {0}
    PROVE  LET shown == Listing(idx, list, feed)
               from == Start(page)
               to == IF from + PageSize < Len(shown) THEN from + PageSize ELSE Len(shown)
               part == PageOf(idx, list, feed, page)
           IN  /\ part = SubSeq(shown, from + 1, to)
               /\ part \in Seq(Rels)
               /\ Len(part) = IF from < to THEN to - from ELSE 0
               /\ \A i \in 1..Len(part) : part[i] = shown[from + i]
<1> DEFINE all == Sorted(idx, list, feed)
           limit == Limit(list, feed)
           shown == Listing(idx, list, feed)
           from == Start(page)
           to == IF from + PageSize < Len(shown) THEN from + PageSize ELSE Len(shown)
           end == from + PageLength(limit, page)
           stop == IF end < Len(all) THEN end ELSE Len(all)
           part == PageOf(idx, list, feed, page)
<1>1. /\ all \in Seq(Rels) /\ Len(all) \in Nat
      /\ \A i \in 1..Len(all) : all[i] \in Rels
  BY SortedRows, ElementOfSeq
<1>2. limit \in Int /\ from \in Nat /\ PageSize \in Nat \ {0}
  BY FeedRows, Starts, CatalogAssumption
<1>3. /\ shown \in Seq(Rels) /\ Len(shown) \in Nat
      /\ Len(shown) = IF limit < 0 THEN 0
                      ELSE IF limit > 0 /\ limit < Len(all) THEN limit ELSE Len(all)
      /\ \A i \in 1..Len(shown) : shown[i] = all[i]
  BY ListingIsStart
<1>4. PageLength(limit, page) =
        IF limit = 0 \/ limit - from > PageSize THEN PageSize
        ELSE IF limit - from > 0 THEN limit - from ELSE 0
  BY DEF PageLength
<1>5. part = SubSeq(all, from + 1, stop)
  BY DEF PageOf
<1> HIDE DEF all, limit, shown, from, part
<1>6. /\ stop \in Nat /\ to \in Nat /\ stop <= Len(all) /\ to <= Len(shown)
      /\ (from < to \/ from < stop) => stop = to
  BY <1>1, <1>2, <1>3, <1>4
<1> HIDE DEF to, stop
<1>7. /\ SubSeq(all, from + 1, stop) \in Seq(Rels)
      /\ Len(SubSeq(all, from + 1, stop)) =
           IF from + 1 <= stop THEN stop - (from + 1) + 1 ELSE 0
      /\ \A i \in 1..(stop - (from + 1) + 1) :
           SubSeq(all, from + 1, stop)[i] = all[(from + 1) + i - 1]
  <2>1. \A i \in (from + 1)..stop : all[i] \in Rels
    BY <1>1, <1>2, <1>6
  <2>2. from + 1 \in Int /\ stop \in Int
    BY <1>2, <1>6
  <2>3. QED
    BY <2>1, <2>2, SubSeqProperties
<1>8. /\ SubSeq(shown, from + 1, to) \in Seq(Rels)
      /\ Len(SubSeq(shown, from + 1, to)) =
           IF from + 1 <= to THEN to - (from + 1) + 1 ELSE 0
      /\ \A i \in 1..(to - (from + 1) + 1) :
           SubSeq(shown, from + 1, to)[i] = shown[(from + 1) + i - 1]
  <2>1. \A i \in (from + 1)..to : shown[i] \in Rels
    BY <1>2, <1>3, <1>6, ElementOfSeq
  <2>2. from + 1 \in Int /\ to \in Int
    BY <1>2, <1>6
  <2>3. QED
    BY <2>1, <2>2, SubSeqProperties
<1>9. Len(part) = IF from < to THEN to - from ELSE 0
  BY <1>2, <1>5, <1>6, <1>7
<1>10. Len(SubSeq(shown, from + 1, to)) = Len(part)
  BY <1>2, <1>6, <1>8, <1>9
<1>11. \A i \in 1..Len(part) : /\ part[i] = shown[from + i]
                               /\ SubSeq(shown, from + 1, to)[i] = shown[from + i]
  <2> SUFFICES ASSUME NEW i \in 1..Len(part)
               PROVE  /\ part[i] = shown[from + i]
                      /\ SubSeq(shown, from + 1, to)[i] = shown[from + i]
    OBVIOUS
  <2>1. from < to /\ stop = to /\ i \in 1..(to - from)
    BY <1>2, <1>6, <1>9
  <2>2. (from + 1) + i - 1 = from + i /\ i \in 1..(to - (from + 1) + 1)
    BY <1>2, <1>6, <2>1
  <2>3. part[i] = all[from + i]
    BY <1>5, <1>7, <2>1, <2>2
  <2>4. SubSeq(shown, from + 1, to)[i] = shown[from + i]
    BY <1>8, <2>2
  <2>5. from + i \in 1..Len(shown)
    BY <1>2, <1>3, <1>6, <2>1
  <2>6. QED
    BY <1>3, <2>3, <2>4, <2>5
<1>12. part = SubSeq(shown, from + 1, to)
  BY <1>5, <1>7, <1>8, <1>10, <1>11, SeqEqual
<1>13. QED
  BY <1>5, <1>7, <1>9, <1>11, <1>12 DEF part, shown, from, to

-------------------------------------------------------------------------------
(* Types of the catalog                                                    *)

Walks ==
    [pc : {"idle", "load", "rows", "count", "done", "refused"},
     feed : Feeds \cup {None}, list : Lists \cup {None}, page : Nat \ {0},
     rows : Seq(Rels), total : 0..Cardinality(Rels), shown : Seq(Rels),
     stay : SUBSET Rels, gone : Nat, late : Nat, calm : BOOLEAN]

(* A walk under way has a feed, a request under way a list.                *)
WalkForm ==
    /\ walk.pc = "idle" <=> walk.feed = None
    /\ walk.pc \in {"rows", "count"} => walk.list \in Lists

TypeInv == TypeOK /\ WalkForm

LEMMA TypedParts ==
    TypeInv =>
      /\ index \in Indexes /\ store.list \in Lists /\ walk \in Walks
      /\ walk.pc # "idle" => walk.feed \in Feeds
      /\ walk.page \in Nat \ {0} /\ Start(walk.page) \in Nat
BY Starts DEF TypeInv, TypeOK, WalkForm, Indexes, Walks

LEMMA IdleWalk == NoWalk \in Walks
<1>1. 0 \in 0..Cardinality(Rels) /\ <<>> \in Seq(Rels)
  BY FiniteRels
<1>2. QED
  BY <1>1 DEF NoWalk, Walks

(* What answering a page makes of a walk.                                  *)
LEMMA AnsweredWalk ==
    ASSUME NEW w \in Walks, w.feed \in Feeds, Start(w.page) < Cardinality(Rels) + PageSize
    PROVE  LET more == HasNext(w.feed, w.page, Len(w.rows), w.total)
               then == Answered(w)
           IN  /\ then \in Walks /\ Start(then.page) < Cardinality(Rels) + PageSize
               /\ then.pc = IF more THEN "load" ELSE "done"
               /\ then.page = IF more THEN w.page + 1 ELSE w.page
               /\ then.shown = w.shown \o w.rows
               /\ then.feed = w.feed /\ then.stay = w.stay /\ then.gone = w.gone
               /\ then.late = w.late /\ then.calm = w.calm
<1> DEFINE more == HasNext(w.feed, w.page, Len(w.rows), w.total)
           then == Answered(w)
<1>1. /\ then.pc = IF more THEN "load" ELSE "done"
      /\ then.page = IF more THEN w.page + 1 ELSE w.page
      /\ then.shown = w.shown \o w.rows
      /\ then.feed = w.feed /\ then.stay = w.stay /\ then.gone = w.gone
      /\ then.late = w.late /\ then.calm = w.calm
      /\ then.rows = <<>> /\ then.total = 0 /\ then.list = None
  BY DEF Walks, Answered
<1>2. w.shown \o w.rows \in Seq(Rels)
  BY ConcatProperties DEF Walks
<1>3. 0 \in 0..Cardinality(Rels) /\ <<>> \in Seq(Rels) /\ Cardinality(Rels) \in Nat
  BY FiniteRels
<1>4. then \in Walks
  <2> DEFINE all == w.shown \o w.rows
             none == <<>>
             zero == 0
             pc == IF more THEN "load" ELSE "done"
             page == IF more THEN w.page + 1 ELSE w.page
  <2>1. then = [w EXCEPT !.shown = all, !.rows = none, !.total = zero,
                         !.list = None, !.pc = pc, !.page = page]
    BY DEF Walks, Answered
  <2>2. /\ all \in Seq(Rels) /\ none \in Seq(Rels) /\ zero \in 0..Cardinality(Rels)
        /\ pc \in {"idle", "load", "rows", "count", "done", "refused"}
        /\ page \in Nat \ {0}
    BY <1>2, <1>3 DEF Walks
  <2> HIDE DEF more, then, all, none, zero, pc, page
  <2>3. QED
    BY <2>1, <2>2 DEF Walks
<1>5. Start(then.page) < Cardinality(Rels) + PageSize
  <2>1. CASE ~more
    BY <1>1, <2>1
  <2>2. CASE more
    <3>1. Start(then.page) = Start(w.page) + PageSize /\ Start(w.page) \in Nat
      BY <1>1, <2>2, Starts DEF Walks
    <3>2. w.total \in 0..Cardinality(Rels) /\ Len(w.rows) \in Nat
      BY LenProperties DEF Walks
    <3>3. PageSize \in Nat \ {0}
      BY CatalogAssumption
    <3>4. Start(w.page) < Cardinality(Rels)
      BY <1>3, <2>2, <3>1, <3>2, <3>3 DEF HasNext
    <3>5. QED
      BY <1>3, <3>1, <3>3, <3>4
  <2>3. QED
    BY <2>1, <2>2
<1>6. QED
  BY <1>1, <1>4, <1>5

LEMMA InitTypes == Init => TypeInv
<1> SUFFICES ASSUME Init PROVE TypeInv
  OBVIOUS
<1>1. index \in [Rels -> RowChoices \cup {None}] /\ changes \in 0..MaxChanges
  BY RowAssumption, CatalogAssumption DEF Init
<1>2. store \in [list : Lists, file : {"whole", "writing", "torn"}]
  BY DEF Init
<1>3. walk \in Walks /\ walk.pc = "idle" /\ walk.feed = None /\ walk.page = 1
  BY IdleWalk DEF Init, NoWalk
<1>4. Start(walk.page) < Cardinality(Rels) + PageSize
  BY <1>3, Starts, FiniteRels, CatalogAssumption
<1>5. QED
  BY <1>1, <1>2, <1>3, <1>4 DEF TypeInv, TypeOK, WalkForm, Walks

(* The request under way with its rows read, or its count taken.           *)
WithRows == [walk EXCEPT !.rows = PageOf(index, walk.list, walk.feed, walk.page)]
WithTotal == [walk EXCEPT !.total = Total(index, walk.list, walk.feed)]

LEMMA RowsRead ==
    ASSUME TypeInv, walk.pc = "rows"
    PROVE  /\ WithRows \in Walks
           /\ WithRows.rows = PageOf(index, walk.list, walk.feed, walk.page)
           /\ WithRows = [walk EXCEPT !.rows = WithRows.rows]
           /\ Start(WithRows.page) < Cardinality(Rels) + PageSize
<1>1. walk \in Walks /\ walk.feed \in Feeds /\ walk.list \in Lists /\ index \in Indexes
  BY TypedParts DEF TypeInv, WalkForm
<1>2. PageOf(index, walk.list, walk.feed, walk.page) \in Seq(Rels)
  BY <1>1, PageIsPart DEF Walks
<1>3. Start(walk.page) < Cardinality(Rels) + PageSize
  BY DEF TypeInv, TypeOK
<1>4. QED
  BY <1>1, <1>2, <1>3 DEF WithRows, Walks

LEMMA RowsCounted ==
    ASSUME TypeInv, walk.pc = "count"
    PROVE  /\ WithTotal \in Walks
           /\ WithTotal.total = Total(index, walk.list, walk.feed)
           /\ WithTotal = [walk EXCEPT !.total = WithTotal.total]
           /\ Start(WithTotal.page) < Cardinality(Rels) + PageSize
<1>1. walk \in Walks /\ walk.feed \in Feeds /\ walk.list \in Lists /\ index \in Indexes
  BY TypedParts DEF TypeInv, WalkForm
<1>2. Total(index, walk.list, walk.feed) \in 0..Cardinality(Rels)
  BY <1>1, Totals
<1>3. Start(walk.page) < Cardinality(Rels) + PageSize
  BY DEF TypeInv, TypeOK
<1>4. QED
  BY <1>1, <1>2, <1>3 DEF WithTotal, Walks

LEMMA ListingRange ==
    ASSUME NEW idx \in Indexes, NEW list \in Lists, NEW feed \in Feeds
    PROVE  /\ Range(Listing(idx, list, feed)) \in SUBSET Rels
           /\ IsFiniteSet(Range(Listing(idx, list, feed)))
<1>1. Listing(idx, list, feed) \in Seq(Rels)
  BY ListingIsStart
<1>2. Range(Listing(idx, list, feed)) \in SUBSET Rels
  BY <1>1, RangeOfSeq
<1>3. QED
  BY <1>2, FiniteRows

(* What a change of the index takes from the listing, and brings to it.    *)
LEMMA Changed ==
    ASSUME TypeInv, walk.pc # "idle", NEW new \in Indexes
    PROVE  /\ Leaves(new) \in SUBSET Range(Listing(index, store.list, walk.feed))
           /\ Leaves(new) \in SUBSET Rels /\ IsFiniteSet(Leaves(new))
           /\ Comes(new) \in SUBSET Rels /\ IsFiniteSet(Comes(new))
           /\ Cardinality(Leaves(new)) \in Nat /\ Cardinality(Comes(new)) \in Nat
<1>1. index \in Indexes /\ store.list \in Lists /\ walk.feed \in Feeds
  BY TypedParts
<1>2. /\ Range(Listing(index, store.list, walk.feed)) \in SUBSET Rels
      /\ Range(Listing(new, store.list, walk.feed)) \in SUBSET Rels
  BY <1>1, ListingRange
<1>3. /\ Leaves(new) \in SUBSET Range(Listing(index, store.list, walk.feed))
      /\ Leaves(new) \in SUBSET Rels /\ Comes(new) \in SUBSET Rels
  BY <1>2 DEF Leaves, Comes
<1>4. QED
  BY <1>3, FiniteRows

(* What loading the lists makes of a walk.                                 *)
LEMMA Loaded ==
    ASSUME walk \in Walks, store.list \in Lists, LoadLists
    PROVE  /\ walk' \in Walks /\ walk.pc = "load"
           /\ index' = index /\ store' = store /\ changes' = changes
           /\ walk'.feed = walk.feed /\ walk'.page = walk.page /\ walk'.shown = walk.shown
           /\ walk'.stay = walk.stay /\ walk'.gone = walk.gone /\ walk'.calm = walk.calm
           /\ walk'.pc \in {"refused", "count", "rows"}
           /\ walk'.pc = "count" => walk.feed.kind = "browse"
           /\ walk'.pc = "rows" => walk.feed.kind # "browse"
           /\ walk'.pc # "refused" => walk'.list = store.list
<1>1. walk.pc = "load" /\ index' = index /\ store' = store /\ changes' = changes
  BY DEF LoadLists
<1>2. CASE walk' = [walk EXCEPT !.pc = "refused"]
  BY <1>1, <1>2 DEF Walks
<1>3. CASE walk' = [walk EXCEPT !.list = store.list, !.pc = "count"]
           /\ walk.feed.kind = "browse"
  BY <1>1, <1>3 DEF Walks
<1>4. CASE walk' = [walk EXCEPT !.list = store.list, !.pc = "rows"]
           /\ walk.feed.kind # "browse"
  BY <1>1, <1>4 DEF Walks
<1>5. QED
  BY <1>2, <1>3, <1>4 DEF LoadLists

(* A statement that fails ends the request.                                *)
LEMMA Failed ==
    ASSUME walk \in Walks, Fail
    PROVE  /\ walk' \in Walks /\ walk'.pc = "refused" /\ walk.pc \in {"rows", "count"}
           /\ index' = index /\ store' = store /\ changes' = changes
           /\ walk'.feed = walk.feed /\ walk'.page = walk.page
           /\ walk'.stay = walk.stay /\ walk'.gone = walk.gone
BY DEF Fail, Walks

LEMMA NextTypes == TypeInv /\ [Next]_vars => TypeInv'
<1> SUFFICES ASSUME TypeInv, [Next]_vars PROVE TypeInv'
  OBVIOUS
<1>1. /\ index \in Indexes /\ store.list \in Lists /\ walk \in Walks
      /\ walk.pc # "idle" => walk.feed \in Feeds
      /\ store \in [list : Lists, file : {"whole", "writing", "torn"}]
      /\ Start(walk.page) < Cardinality(Rels) + PageSize
      /\ changes \in 0..MaxChanges
  BY TypedParts DEF TypeInv, TypeOK
<1> DEFINE Fits(w) == w \in Walks /\ Start(w.page) < Cardinality(Rels) + PageSize
<1>2. ASSUME index' \in Indexes, changes' \in 0..MaxChanges,
             store' \in [list : Lists, file : {"whole", "writing", "torn"}],
             Fits(walk'), walk'.pc = "idle" <=> walk'.feed = None,
             walk'.pc \in {"rows", "count"} => walk'.list \in Lists
      PROVE  TypeInv'
  BY <1>2 DEF TypeInv, TypeOK, WalkForm, Walks, Indexes
<1>3. Start(1) < Cardinality(Rels) + PageSize /\ Fits(NoWalk)
  BY Starts, FiniteRels, CatalogAssumption, IdleWalk DEF NoWalk
<1>4. CASE BeginWalk
  <2>1. PICK feed \in Feeds :
          walk' = [NoWalk EXCEPT !.pc = "load", !.feed = feed,
                     !.stay = Range(Listing(index, store.list, feed))]
    BY <1>4 DEF BeginWalk
  <2>2. Range(Listing(index, store.list, feed)) \in SUBSET Rels
    BY <1>1, ListingRange
  <2>3. walk' \in Walks /\ walk'.pc = "load" /\ walk'.feed = feed /\ walk'.page = 1
    BY <2>1, <2>2, IdleWalk DEF NoWalk, Walks
  <2>4. QED
    BY <1>1, <1>2, <1>3, <1>4, <2>3, FeedAssumption DEF BeginWalk
<1>5. CASE LoadLists
  <2>1. walk.feed \in Feeds
    BY <1>1, <1>5, Loaded
  <2>2. QED
    BY <1>1, <1>2, <1>5, <2>1, Loaded, FeedAssumption
<1>6. CASE ReadRows
  <2>1. /\ WithRows \in Walks /\ WithRows = [walk EXCEPT !.rows = WithRows.rows]
        /\ Start(WithRows.page) < Cardinality(Rels) + PageSize
    BY <1>6, RowsRead DEF ReadRows
  <2>2. /\ WithRows.feed = walk.feed /\ WithRows.list = walk.list
        /\ walk.feed \in Feeds /\ walk.list \in Lists
    BY <1>1, <1>6, <2>1 DEF ReadRows, TypeInv, WalkForm, Walks
  <2>3. CASE walk.feed.kind = "browse"
    <3>1. walk' = Answered(WithRows)
      BY <1>6, <2>3 DEF ReadRows, WithRows
    <3>2. /\ Fits(walk') /\ walk'.feed = walk.feed /\ walk'.pc \in {"load", "done"}
      BY <2>1, <2>2, <3>1, AnsweredWalk
    <3>3. QED
      BY <1>1, <1>2, <1>6, <2>2, <3>2, FeedAssumption DEF ReadRows
  <2>4. CASE walk.feed.kind # "browse"
    <3>1. walk' = [WithRows EXCEPT !.pc = "count"]
      BY <1>6, <2>4 DEF ReadRows, WithRows
    <3>2. /\ Fits(walk') /\ walk'.feed = walk.feed /\ walk'.pc = "count"
          /\ walk'.list = walk.list
      BY <2>1, <2>2, <3>1 DEF Walks
    <3>3. QED
      BY <1>1, <1>2, <1>6, <2>2, <3>2, FeedAssumption DEF ReadRows
  <2>5. QED
    BY <2>3, <2>4
<1>7. CASE CountRows
  <2>1. /\ WithTotal \in Walks /\ WithTotal = [walk EXCEPT !.total = WithTotal.total]
        /\ Start(WithTotal.page) < Cardinality(Rels) + PageSize
    BY <1>7, RowsCounted DEF CountRows
  <2>2. /\ WithTotal.feed = walk.feed /\ WithTotal.list = walk.list
        /\ walk.feed \in Feeds /\ walk.list \in Lists
    BY <1>1, <1>7, <2>1 DEF CountRows, TypeInv, WalkForm, Walks
  <2>3. CASE walk.feed.kind # "browse"
    <3>1. walk' = Answered(WithTotal)
      BY <1>7, <2>3 DEF CountRows, WithTotal
    <3>2. /\ Fits(walk') /\ walk'.feed = walk.feed /\ walk'.pc \in {"load", "done"}
      BY <2>1, <2>2, <3>1, AnsweredWalk
    <3>3. QED
      BY <1>1, <1>2, <1>7, <2>2, <3>2, FeedAssumption DEF CountRows
  <2>4. CASE walk.feed.kind = "browse"
    <3>1. walk' = [WithTotal EXCEPT !.pc = "rows"]
      BY <1>7, <2>4 DEF CountRows, WithTotal
    <3>2. /\ Fits(walk') /\ walk'.feed = walk.feed /\ walk'.pc = "rows"
          /\ walk'.list = walk.list
      BY <2>1, <2>2, <3>1 DEF Walks
    <3>3. QED
      BY <1>1, <1>2, <1>7, <2>2, <3>2, FeedAssumption DEF CountRows
  <2>5. QED
    BY <2>3, <2>4
<1>8. CASE EndWalk \/ Crash
  <2>1. /\ walk' = NoWalk /\ index' = index /\ changes' = changes
        /\ store' \in [list : Lists, file : {"whole", "writing", "torn"}]
    BY <1>1, <1>8 DEF EndWalk, Crash
  <2>2. walk'.pc = "idle" /\ walk'.feed = None
    BY <2>1 DEF NoWalk
  <2>3. QED
    BY <1>1, <1>2, <1>3, <2>1, <2>2
<1>9. CASE ChangeIndex
  <2>1. index' \in Indexes
    BY <1>1, <1>9 DEF ChangeIndex, Indexes
  <2>2. changes' \in 0..MaxChanges
    BY <1>1, <1>9, CatalogAssumption DEF ChangeIndex
  <2>3. CASE walk.feed = None
    BY <1>1, <1>2, <1>9, <2>1, <2>2, <2>3 DEF ChangeIndex, TypeInv, WalkForm
  <2>4. CASE walk.feed # None
    <3>1. walk.pc # "idle"
      BY <2>4 DEF TypeInv, WalkForm
    <3>2. /\ Cardinality(Leaves(index')) \in Nat /\ Cardinality(Comes(index')) \in Nat
      BY <2>1, <3>1, Changed
    <3> DEFINE stay == walk.stay \ Leaves(index')
               gone == walk.gone + Cardinality(Leaves(index'))
               late == IF Counted THEN walk.late + Cardinality(Comes(index')) ELSE walk.late
    <3>3. walk' = [walk EXCEPT !.calm = FALSE, !.stay = stay, !.gone = gone, !.late = late]
      BY <1>9, <2>4 DEF ChangeIndex
    <3>4. stay \in SUBSET Rels /\ gone \in Nat /\ late \in Nat
      BY <1>1, <3>2 DEF Walks
    <3> HIDE DEF stay, gone, late
    <3>5. /\ Fits(walk') /\ walk'.feed = walk.feed /\ walk'.pc = walk.pc
          /\ walk'.list = walk.list
      BY <1>1, <3>3, <3>4 DEF Walks
    <3>6. QED
      BY <1>1, <1>2, <1>9, <2>1, <2>2, <3>5 DEF ChangeIndex, TypeInv, WalkForm
  <2>5. QED
    BY <2>3, <2>4
<1>10. CASE BeginSaveLists
  BY <1>1, <1>2, <1>10, CatalogAssumption DEF BeginSaveLists, TypeInv, WalkForm
<1>11. CASE EndSaveLists
  <2>1. /\ store' \in [list : Lists, file : {"whole", "writing", "torn"}]
        /\ index' = index /\ changes' = changes
        /\ walk' = walk \/ walk' = [walk EXCEPT !.calm = FALSE, !.stay = {}]
    BY <1>11 DEF EndSaveLists
  <2>2. /\ Fits(walk') /\ walk'.feed = walk.feed /\ walk'.pc = walk.pc
        /\ walk'.list = walk.list
    <3>1. CASE walk' = walk
      BY <1>1, <3>1
    <3>2. CASE walk' = [walk EXCEPT !.calm = FALSE, !.stay = {}]
      BY <1>1, <3>2 DEF Walks
    <3>3. QED
      BY <2>1, <3>1, <3>2
  <2>3. QED
    BY <1>1, <1>2, <2>1, <2>2 DEF TypeInv, WalkForm
<1>12. CASE UNCHANGED vars
  BY <1>1, <1>2, <1>12 DEF vars, TypeInv, WalkForm
<1>13. CASE Fail
  <2>1. walk.feed \in Feeds
    BY <1>1, <1>13, Failed
  <2>2. QED
    BY <1>1, <1>2, <1>13, <2>1, Failed, FeedAssumption
<1>14. QED
  BY <1>4, <1>5, <1>6, <1>7, <1>8, <1>9, <1>10, <1>11, <1>12, <1>13 DEF Next, Walking

(* Type correctness: the index has rows of the kind it is given, the lists *)
(* are ones that were saved, and a walk follows no link beyond the page    *)
(* after those that all the rows could fill.                               *)
THEOREM CatalogTypes == Spec => []TypeOK
<1>1. TypeInv => TypeOK
  BY DEF TypeInv
<1>2. QED
  BY <1>1, InitTypes, NextTypes, PTL DEF Spec

-------------------------------------------------------------------------------
(* Of a feed that does not change, a walk shows all                        *)

FirstOf(seq, n) == SubSeq(seq, 1, IF n < Len(seq) THEN n ELSE Len(seq))

LEMMA AllOfSeq ==
    ASSUME NEW seq \in Seq(Rels), NEW n \in Nat
    PROVE  /\ FirstOf(seq, 0) = <<>>
           /\ Len(seq) <= n => FirstOf(seq, n) = seq
<1>1. Len(seq) \in Nat
  BY LenProperties
<1>2. FirstOf(seq, 0) = SubSeq(seq, 1, 0)
  BY <1>1 DEF FirstOf
<1>3. SubSeq(seq, 1, 0) = <<>>
  BY SubSeqEmpty
<1>4. ASSUME Len(seq) <= n PROVE FirstOf(seq, n) = SubSeq(seq, 1, Len(seq))
  BY <1>1, <1>4 DEF FirstOf
<1>5. QED
  BY <1>2, <1>3, <1>4, SubSeqFull

(* A page continues the pages before it.                                   *)
LEMMA PageContinues ==
    ASSUME NEW idx \in Indexes, NEW list \in Lists, NEW feed \in Feeds,
           NEW page \in Nat \ {0}
    PROVE  FirstOf(Listing(idx, list, feed), Start(page))
             \o PageOf(idx, list, feed, page)
           = FirstOf(Listing(idx, list, feed), Start(page) + PageSize)
<1> DEFINE shown == Listing(idx, list, feed)
           from == Start(page)
           to == IF from + PageSize < Len(shown) THEN from + PageSize ELSE Len(shown)
<1>1. shown \in Seq(Rels) /\ Len(shown) \in Nat /\ from \in Nat /\ PageSize \in Nat \ {0}
  BY ListingIsStart, Starts, CatalogAssumption
<1>2. PageOf(idx, list, feed, page) = SubSeq(shown, from + 1, to)
  BY PageIsPart
<1> HIDE DEF shown, from
<1>3. FirstOf(shown, from + PageSize) = SubSeq(shown, 1, to)
  BY DEF FirstOf
<1>4. CASE from <= Len(shown)
  <2>1. to \in from..Len(shown)
    BY <1>1, <1>4
  <2>2. FirstOf(shown, from) = SubSeq(shown, 1, from)
    BY <1>1, <1>4 DEF FirstOf
  <2> HIDE DEF to
  <2>3. 1 \in 1..Len(shown) + 1 /\ from \in 1 - 1..Len(shown)
    BY <1>1, <1>4
  <2>4. SubSeq(shown, 1, from) \o SubSeq(shown, from + 1, to) = SubSeq(shown, 1, to)
    BY <1>1, <2>1, <2>3, ConcatAdjacentSubSeq
  <2>5. QED
    BY <1>2, <1>3, <2>2, <2>4 DEF shown, from
<1>5. CASE from > Len(shown)
  <2>1. to = Len(shown) /\ to < from + 1
    BY <1>1, <1>5
  <2>2. FirstOf(shown, from) = SubSeq(shown, 1, Len(shown))
    BY <1>1, <1>5 DEF FirstOf
  <2>3. SubSeq(shown, from + 1, to) = <<>>
    BY <1>1, <2>1, SubSeqEmpty
  <2>4. SubSeq(shown, 1, Len(shown)) = shown
    BY <1>1, SubSeqFull
  <2>5. shown \o <<>> = shown
    BY <1>1, ConcatEmptySeq
  <2>6. QED
    BY <1>2, <1>3, <2>1, <2>2, <2>3, <2>4, <2>5 DEF shown, from
<1>6. QED
  BY <1>1, <1>4, <1>5

(* A page without a next link reaches what was counted.                    *)
LEMMA LastPage ==
    ASSUME NEW feed \in Feeds, NEW page \in Nat \ {0}, NEW got \in Nat, got <= PageSize,
           NEW total \in Nat, ~HasNext(feed, page, got, total)
    PROVE  total <= Start(page) + PageSize
BY Starts, CatalogAssumption DEF HasNext

LEMMA PageNotLonger ==
    ASSUME NEW idx \in Indexes, NEW list \in Lists, NEW feed \in Feeds,
           NEW page \in Nat \ {0}
    PROVE  /\ Len(PageOf(idx, list, feed, page)) \in Nat
           /\ Len(PageOf(idx, list, feed, page)) <= PageSize
<1>1. Len(Listing(idx, list, feed)) \in Nat /\ Start(page) \in Nat /\ PageSize \in Nat
  BY ListingIsStart, Starts, CatalogAssumption
<1> DEFINE from == Start(page)
           end == Len(Listing(idx, list, feed))
           got == Len(PageOf(idx, list, feed, page))
           to == IF from + PageSize < end THEN from + PageSize ELSE end
<1>2. got = IF from < to THEN to - from ELSE 0
  BY PageIsPart
<1> HIDE DEF from, end, got
<1>3. got \in Nat /\ got <= PageSize
  BY <1>1, <1>2 DEF from, end
<1>4. QED
  BY <1>3 DEF got

Current == Listing(index, store.list, walk.feed)

(* The rows of the page at hand are read, and not answered yet.            *)
HasRead == walk.pc = "count" /\ walk.feed.kind # "browse"

(* As long as nothing changed, the pages before this one were the first    *)
(* rows of the listing, and the page at hand continues them.               *)
CalmInv ==
    walk.calm =>
      /\ walk.pc \in {"rows", "count"} => walk.list = store.list
      /\ walk.pc \in {"load", "rows", "count"} =>
           walk.shown = FirstOf(Current, Start(walk.page))
      /\ HasRead => walk.rows = PageOf(index, store.list, walk.feed, walk.page)
      /\ walk.pc = "rows" /\ walk.feed.kind = "browse" =>
           walk.total = Total(index, store.list, walk.feed)
      /\ walk.pc = "done" => walk.shown = Current

(* Answering the page of a feed that did not change.                       *)
LEMMA CalmAnswer ==
    ASSUME TypeInv, walk.pc # "idle", NEW w \in Walks,
           w.feed = walk.feed, w.page = walk.page, w.shown = walk.shown,
           w.rows = PageOf(index, store.list, walk.feed, walk.page),
           w.total = Total(index, store.list, walk.feed),
           walk.shown = FirstOf(Current, Start(walk.page))
    PROVE  /\ Answered(w).pc = "load" =>
                Answered(w).shown = FirstOf(Current, Start(Answered(w).page))
           /\ Answered(w).pc = "done" => Answered(w).shown = Current
           /\ Answered(w).pc \in {"load", "done"} /\ Answered(w).feed = walk.feed
<1>1. /\ index \in Indexes /\ store.list \in Lists /\ walk.feed \in Feeds
      /\ walk.page \in Nat \ {0} /\ Start(walk.page) \in Nat
      /\ Start(w.page) < Cardinality(Rels) + PageSize
  BY TypedParts DEF TypeInv, TypeOK
<1> DEFINE more == HasNext(w.feed, w.page, Len(w.rows), w.total)
<1>2. /\ Answered(w).pc = IF more THEN "load" ELSE "done"
      /\ Answered(w).page = IF more THEN w.page + 1 ELSE w.page
      /\ Answered(w).shown = w.shown \o w.rows
      /\ Answered(w).feed = w.feed
  BY <1>1, AnsweredWalk
<1>3. Answered(w).shown = FirstOf(Current, Start(walk.page) + PageSize)
  <2>1. Answered(w).shown = FirstOf(Current, Start(walk.page))
                              \o PageOf(index, store.list, walk.feed, walk.page)
    BY <1>2
  <2>2. QED
    BY <1>1, <2>1, PageContinues DEF Current
<1>4. Current \in Seq(Rels) /\ Len(Current) \in Nat /\ PageSize \in Nat
  BY <1>1, ListingIsStart, CatalogAssumption DEF Current
<1>5. Len(Current) <= w.total /\ w.total \in Nat
  BY <1>1, Totals, FiniteRels DEF Current
<1>6. CASE more
  <2>1. Start(Answered(w).page) = Start(walk.page) + PageSize
    BY <1>1, <1>2, <1>6, Starts
  <2>2. QED
    BY <1>2, <1>3, <1>6, <2>1
<1>7. CASE ~more
  <2>1. Len(w.rows) \in Nat /\ Len(w.rows) <= PageSize
    BY <1>1, PageNotLonger
  <2>2. w.total <= Start(walk.page) + PageSize
    BY <1>1, <1>5, <1>7, <2>1, LastPage
  <2>3. FirstOf(Current, Start(walk.page) + PageSize) = Current
    BY <1>1, <1>4, <1>5, <2>2, AllOfSeq
  <2>4. QED
    BY <1>2, <1>3, <1>7, <2>3
<1>8. QED
  BY <1>6, <1>7

LEMMA InitCalm == Init => CalmInv
BY DEF Init, NoWalk, CalmInv, HasRead

LEMMA NextCalm == TypeInv /\ CalmInv /\ [Next]_vars => CalmInv'
<1> SUFFICES ASSUME TypeInv, CalmInv, [Next]_vars, walk'.calm PROVE CalmInv'
  BY DEF CalmInv
<1>1. /\ index \in Indexes /\ store.list \in Lists /\ walk \in Walks
      /\ walk.pc # "idle" => walk.feed \in Feeds
  BY TypedParts
<1>2. CASE BeginWalk
  <2>1. PICK feed \in Feeds :
          walk' = [NoWalk EXCEPT !.pc = "load", !.feed = feed,
                     !.stay = Range(Listing(index, store.list, feed))]
    BY <1>2 DEF BeginWalk
  <2>2. walk'.pc = "load" /\ walk'.feed = feed /\ walk'.page = 1 /\ walk'.shown = <<>>
    BY <2>1 DEF NoWalk
  <2>3. Listing(index, store.list, feed) \in Seq(Rels)
    BY <1>1, ListingIsStart
  <2>4. Current' = Listing(index, store.list, feed)
    BY <1>2, <2>2 DEF BeginWalk, Current
  <2>5. FirstOf(Current', Start(walk'.page)) = <<>>
    BY <2>2, <2>3, <2>4, Starts, AllOfSeq
  <2>6. QED
    BY <2>2, <2>5 DEF CalmInv, HasRead
<1>3. CASE LoadLists
  <2>1. /\ walk'.feed = walk.feed /\ walk'.shown = walk.shown /\ walk'.page = walk.page
        /\ walk'.calm = walk.calm /\ walk'.pc \in {"refused", "count", "rows"}
        /\ walk'.pc = "count" => walk.feed.kind = "browse"
        /\ walk'.pc = "rows" => walk.feed.kind # "browse"
        /\ walk'.pc # "refused" => walk'.list = store.list
        /\ walk.pc = "load" /\ index' = index /\ store' = store
    BY <1>1, <1>3, Loaded
  <2>2. Current' = Current
    BY <2>1 DEF Current
  <2>3. walk.shown = FirstOf(Current, Start(walk.page))
    BY <2>1 DEF CalmInv
  <2>4. QED
    BY <2>1, <2>2, <2>3 DEF CalmInv, HasRead
<1>4. CASE ReadRows
  <2>1. walk.pc = "rows" /\ index' = index /\ store' = store
    BY <1>4 DEF ReadRows
  <2>2. /\ WithRows \in Walks /\ WithRows = [walk EXCEPT !.rows = WithRows.rows]
        /\ WithRows.rows = PageOf(index, walk.list, walk.feed, walk.page)
    BY <2>1, RowsRead
  <2>3. /\ WithRows.feed = walk.feed /\ WithRows.page = walk.page
        /\ WithRows.shown = walk.shown /\ WithRows.total = walk.total
        /\ WithRows.list = walk.list /\ WithRows.calm = walk.calm
        /\ Start(WithRows.page) < Cardinality(Rels) + PageSize
    BY <1>1, <2>2 DEF Walks, TypeInv, TypeOK
  <2>4. CASE walk.feed.kind = "browse"
    <3>1. walk' = Answered(WithRows)
      BY <1>4, <2>4 DEF ReadRows, WithRows
    <3>2. walk.calm
      BY <1>1, <2>1, <2>2, <2>3, <3>1, AnsweredWalk
    <3>3. /\ walk.list = store.list /\ walk.shown = FirstOf(Current, Start(walk.page))
          /\ walk.total = Total(index, store.list, walk.feed)
      BY <2>1, <2>4, <3>2 DEF CalmInv
    <3>4. /\ walk'.pc = "load" => walk'.shown = FirstOf(Current, Start(walk'.page))
          /\ walk'.pc = "done" => walk'.shown = Current
          /\ walk'.pc \in {"load", "done"} /\ walk'.feed = walk.feed
      BY <2>1, <2>2, <2>3, <3>1, <3>3, CalmAnswer
    <3>5. Current' = Current
      BY <2>1, <3>4 DEF Current
    <3>6. QED
      BY <3>4, <3>5 DEF CalmInv, HasRead
  <2>5. CASE walk.feed.kind # "browse"
    <3>1. walk' = [WithRows EXCEPT !.pc = "count"]
      BY <1>4, <2>5 DEF ReadRows, WithRows
    <3>2. /\ walk'.pc = "count" /\ walk'.feed = walk.feed /\ walk'.page = walk.page
          /\ walk'.shown = walk.shown /\ walk'.calm = walk.calm
          /\ walk'.list = walk.list /\ walk'.rows = WithRows.rows
      BY <2>2, <2>3, <3>1 DEF Walks
    <3>3. walk.list = store.list /\ walk.shown = FirstOf(Current, Start(walk.page))
      BY <2>1, <3>2 DEF CalmInv
    <3>4. Current' = Current
      BY <2>1, <3>2 DEF Current
    <3>5. QED
      BY <2>1, <2>2, <3>2, <3>3, <3>4 DEF CalmInv, HasRead
  <2>6. QED
    BY <2>4, <2>5
<1>5. CASE CountRows
  <2>1. walk.pc = "count" /\ index' = index /\ store' = store
    BY <1>5 DEF CountRows
  <2>2. /\ WithTotal \in Walks /\ WithTotal = [walk EXCEPT !.total = WithTotal.total]
        /\ WithTotal.total = Total(index, walk.list, walk.feed)
    BY <2>1, RowsCounted
  <2>3. /\ WithTotal.feed = walk.feed /\ WithTotal.page = walk.page
        /\ WithTotal.shown = walk.shown /\ WithTotal.rows = walk.rows
        /\ WithTotal.list = walk.list /\ WithTotal.calm = walk.calm
        /\ Start(WithTotal.page) < Cardinality(Rels) + PageSize
    BY <1>1, <2>2 DEF Walks, TypeInv, TypeOK
  <2>4. CASE walk.feed.kind # "browse"
    <3>1. walk' = Answered(WithTotal)
      BY <1>5, <2>4 DEF CountRows, WithTotal
    <3>2. walk.calm
      BY <1>1, <2>1, <2>2, <2>3, <3>1, AnsweredWalk
    <3>3. /\ walk.list = store.list /\ walk.shown = FirstOf(Current, Start(walk.page))
          /\ walk.rows = PageOf(index, store.list, walk.feed, walk.page)
      BY <2>1, <2>4, <3>2 DEF CalmInv, HasRead
    <3>4. /\ walk'.pc = "load" => walk'.shown = FirstOf(Current, Start(walk'.page))
          /\ walk'.pc = "done" => walk'.shown = Current
          /\ walk'.pc \in {"load", "done"} /\ walk'.feed = walk.feed
      BY <2>1, <2>2, <2>3, <3>1, <3>3, CalmAnswer
    <3>5. Current' = Current
      BY <2>1, <3>4 DEF Current
    <3>6. QED
      BY <3>4, <3>5 DEF CalmInv, HasRead
  <2>5. CASE walk.feed.kind = "browse"
    <3>1. walk' = [WithTotal EXCEPT !.pc = "rows"]
      BY <1>5, <2>5 DEF CountRows, WithTotal
    <3>2. /\ walk'.pc = "rows" /\ walk'.feed = walk.feed /\ walk'.page = walk.page
          /\ walk'.shown = walk.shown /\ walk'.calm = walk.calm
          /\ walk'.list = walk.list /\ walk'.total = WithTotal.total
      BY <2>2, <2>3, <3>1 DEF Walks
    <3>3. walk.list = store.list /\ walk.shown = FirstOf(Current, Start(walk.page))
      BY <2>1, <3>2 DEF CalmInv
    <3>4. Current' = Current
      BY <2>1, <3>2 DEF Current
    <3>5. QED
      BY <2>1, <2>2, <3>2, <3>3, <3>4 DEF CalmInv, HasRead
  <2>6. QED
    BY <2>4, <2>5
<1>6. CASE EndWalk \/ Crash
  BY <1>6 DEF EndWalk, Crash, NoWalk, CalmInv, HasRead
<1>7. CASE ChangeIndex \/ EndSaveLists
  <2>1. walk.feed = None
    BY <1>1, <1>7 DEF ChangeIndex, EndSaveLists, Walks
  <2>2. walk' = walk /\ walk.pc = "idle"
    BY <1>7, <2>1 DEF ChangeIndex, EndSaveLists, TypeInv, WalkForm
  <2>3. QED
    BY <2>2 DEF CalmInv, HasRead
<1>8. CASE BeginSaveLists \/ UNCHANGED vars
  <2>1. walk' = walk /\ index' = index /\ store'.list = store.list
    BY <1>8 DEF BeginSaveLists, vars, TypeInv, TypeOK
  <2>2. Current' = Current
    BY <2>1 DEF Current
  <2>3. QED
    BY <2>1, <2>2 DEF CalmInv, HasRead
<1>9. CASE Fail
  BY <1>1, <1>9, Failed DEF CalmInv, HasRead
<1>10. QED
  BY <1>2, <1>3, <1>4, <1>5, <1>6, <1>7, <1>8, <1>9 DEF Next, Walking

(* A client that reaches the last page of a feed that did not change has   *)
(* been shown the rows that the feed lists, once each, in their order.     *)
THEOREM WalksComplete == Spec => []WalkComplete
<1>1. Spec => [](TypeInv /\ CalmInv)
  BY InitTypes, NextTypes, InitCalm, NextCalm, PTL DEF Spec
<1>2. CalmInv => WalkComplete
  BY DEF CalmInv, WalkComplete, Current
<1>3. QED
  BY <1>1, <1>2, PTL

-------------------------------------------------------------------------------
(* What holds of the queries in every state                                *)

(* The folders of a plain list divide it, and are counted as they are shown. *)
LEMMA VolumesDivide ==
    ASSUME NEW idx \in Indexes, NEW list \in Lists, Plain(list), list.distinct = None
    PROVE  /\ FlatRows(idx, list) =
                UNION {VolumeRows(idx, list, v) : v \in Volumes(idx, list)}
           /\ \A v \in Volumes(idx, list) :
                VolumeCount(idx, list, v) = Cardinality(VolumeRows(idx, list, v))
<1> DEFINE wide == {rel \in Rows(idx) : Selected(list.groups, idx[rel], TRUE)}
<1>1. FlatRows(idx, list) = wide
  <2>1. \A rel \in Rows(idx) : Chosen(idx, list, rel) = TRUE
    BY DEF Chosen
  <2>2. QED
    BY <2>1, Zenon DEF FlatRows
<1>2. \A v : VolumeRows(idx, list, v) = {rel \in wide : VolumeOf(idx[rel]) = v}
  <2> SUFFICES ASSUME NEW v, NEW rel \in Rows(idx)
               PROVE  Selected(list.groups, idx[rel], InVolume(idx[rel], v)) <=>
                        Selected(list.groups, idx[rel], TRUE) /\ VolumeOf(idx[rel]) = v
    BY DEF VolumeRows
  <2>1. InVolume(idx[rel], v) \in BOOLEAN
    BY DEF InVolume
  <2>2. Selected(list.groups, idx[rel], InVolume(idx[rel], v)) <=>
          Selected(list.groups, idx[rel], TRUE) /\ InVolume(idx[rel], v)
    BY <2>1, SelectedPlain
  <2>3. QED
    BY <2>2 DEF InVolume
<1>3. Volumes(idx, list) = {VolumeOf(idx[rel]) : rel \in wide}
  BY DEF Volumes
<1>4. \A v : VolumeCount(idx, list, v) = Cardinality({rel \in wide : VolumeOf(idx[rel]) = v})
  <2>1. \A v : {rel \in Rows(idx) : Selected(list.groups, idx[rel], TRUE)
                                       /\ VolumeOf(idx[rel]) = v}
              = {rel \in wide : VolumeOf(idx[rel]) = v}
    OBVIOUS
  <2>2. QED
    BY <2>1, Zenon DEF VolumeCount
<1>5. \A v : VolumeCount(idx, list, v) = Cardinality(VolumeRows(idx, list, v))
  BY <1>2, <1>4, Zenon
<1> HIDE DEF wide
<1>6. FlatRows(idx, list) = UNION {VolumeRows(idx, list, v) : v \in Volumes(idx, list)}
  <2>1. \A rel \in wide : /\ VolumeOf(idx[rel]) \in Volumes(idx, list)
                          /\ rel \in VolumeRows(idx, list, VolumeOf(idx[rel]))
    BY <1>2, <1>3
  <2>2. \A v : VolumeRows(idx, list, v) \subseteq wide
    BY <1>2
  <2>3. QED
    BY <1>1, <2>1, <2>2
<1>7. QED
  BY <1>5, <1>6

(* The virtual folders of a list of one group divide it, whatever the      *)
(* index holds, and the number shown with a folder is that of its rows.    *)
THEOREM FoldersDivide == Spec => []VolumesPartition
<1>1. TypeInv => VolumesPartition
  <2> SUFFICES ASSUME TypeInv, NEW list \in Lists, Plain(list), list.distinct = None
               PROVE  /\ FlatRows(index, list) =
                           UNION {VolumeRows(index, list, v) : v \in Volumes(index, list)}
                      /\ \A v \in Volumes(index, list) :
                           VolumeCount(index, list, v) =
                             Cardinality(VolumeRows(index, list, v))
    BY DEF VolumesPartition
  <2>1. index \in Indexes
    BY TypedParts
  <2>2. QED
    BY <2>1, VolumesDivide
<1>2. QED
  BY <1>1, InitTypes, NextTypes, PTL DEF Spec

(* A distinct list of one group has one issue of a series and volume, or   *)
(* issues that neither their year nor their number nor their time tells    *)
(* apart.                                                                  *)
THEOREM DistinctHolds == Spec => []DistinctOfOneGroup
<1>1. TypeInv => DistinctOfOneGroup
  <2> SUFFICES ASSUME TypeInv, NEW list \in Lists, Plain(list), list.distinct # None,
                      NEW a \in FlatRows(index, list), NEW b \in FlatRows(index, list),
                      OneSeries(index[a], index[b]), index[a].series # Blank
               PROVE  Issued(index[a]) = Issued(index[b])
    BY DEF DistinctOfOneGroup, OnePerVolume
  <2>1. index \in Indexes
    BY TypedParts
  <2>2. QED
    BY <2>1, PlainDistinct
<1>2. QED
  BY <1>1, InitTypes, NextTypes, PTL DEF Spec

(* The full-text prefilter takes no row from a list that one of its groups *)
(* accepts, whatever the groups are, as long as the terms of the name of   *)
(* the row are words of its document and that group asks for text in the   *)
(* name only, in the spelling that the query knows.                        *)
THEOREM PrefilterSound == Spec => []PrefilterHarmless
<1>1. PrefilterHarmless
  BY HarmlessPrefilter DEF PrefilterHarmless
<1>2. QED
  BY <1>1, PTL

-------------------------------------------------------------------------------
(* Places in a listing, and what a change of the index does to them        *)

PlaceIn(idx, list, feed, rel) ==
    Place(idx, SortOf(list, feed), RowsOf(idx, list, feed), rel)

LEMMA ListedPlaces ==
    ASSUME NEW idx \in Indexes, NEW list \in Lists, NEW feed \in Feeds
    PROVE  LET shown == Listing(idx, list, feed)
           IN  /\ \A rel : rel \in Range(shown) <=>
                             /\ rel \in RowsOf(idx, list, feed)
                             /\ PlaceIn(idx, list, feed, rel) <= Len(shown)
               /\ \A rel \in Range(shown) :
                    /\ rel \in Rels /\ PlaceIn(idx, list, feed, rel) \in 1..Len(shown)
                    /\ shown[PlaceIn(idx, list, feed, rel)] = rel
<1> DEFINE shown == Listing(idx, list, feed)
           all == Sorted(idx, list, feed)
           rows == RowsOf(idx, list, feed)
           At(rel) == PlaceIn(idx, list, feed, rel)
<1>1. /\ shown \in Seq(Rels) /\ Len(shown) \in Nat
      /\ \A i \in 1..Len(shown) : shown[i] = all[i]
      /\ Len(shown) = IF Limit(list, feed) < 0 THEN 0
                      ELSE IF Limit(list, feed) > 0 /\ Limit(list, feed) < Len(all)
                      THEN Limit(list, feed) ELSE Len(all)
  BY ListingIsStart
<1>2. /\ Len(all) \in Nat /\ rows \in SUBSET Rels /\ Limit(list, feed) \in Int
      /\ \A i \in 1..Len(all) : all[i] \in rows /\ At(all[i]) = i
      /\ \A a \in rows : At(a) \in 1..Len(all) /\ all[At(a)] = a
  BY SortedRows, FeedRows DEF PlaceIn
<1>3. Range(shown) = {shown[i] : i \in 1..Len(shown)}
  BY <1>1, RangeEquality
<1> HIDE DEF shown, all, rows, At
<1>4. Len(shown) <= Len(all)
  BY <1>1, <1>2
<1>5. \A i \in 1..Len(shown) : shown[i] \in rows /\ At(shown[i]) = i
  BY <1>1, <1>2, <1>4
<1>6. \A a \in rows : At(a) <= Len(shown) => At(a) \in 1..Len(shown) /\ shown[At(a)] = a
  BY <1>1, <1>2
<1>7. QED
  BY <1>2, <1>3, <1>5, <1>6 DEF shown, rows, At

(* What leaves the listing, or changes in it.                              *)
Lost(old, new, list, feed) ==
    {rel \in Range(Listing(old, list, feed)) :
       rel \notin Range(Listing(new, list, feed)) \/ old[rel] # new[rel]}

(* A row that stays moves forward by no more places than there are rows    *)
(* lost: those before it that stay, stay before it.                        *)
LEMMA ShiftedPlace ==
    ASSUME NEW old \in Indexes, NEW new \in Indexes, NEW list \in Lists, NEW feed \in Feeds,
           NEW rel \in Range(Listing(old, list, feed)), rel \notin Lost(old, new, list, feed)
    PROVE  /\ rel \in Range(Listing(new, list, feed))
           /\ PlaceIn(old, list, feed, rel) <=
                PlaceIn(new, list, feed, rel) + Cardinality(Lost(old, new, list, feed))
<1> DEFINE sort == SortOf(list, feed)
           before == {o \in RowsOf(old, list, feed) : Before(old, sort, o, rel)}
           after == {o \in RowsOf(new, list, feed) : Before(new, sort, o, rel)}
           lost == Lost(old, new, list, feed)
<1>1. rel \in Range(Listing(new, list, feed)) /\ old[rel] = new[rel]
  BY DEF Lost
<1>2. /\ RowsOf(old, list, feed) \in SUBSET Rows(old)
      /\ RowsOf(old, list, feed) \in SUBSET Rels
      /\ RowsOf(new, list, feed) \in SUBSET Rels
      /\ rel \in RowsOf(old, list, feed)
  BY FeedRows, ListedPlaces
<1>3. before \subseteq Range(Listing(old, list, feed))
  <2> SUFFICES ASSUME NEW o \in before PROVE o \in Range(Listing(old, list, feed))
    OBVIOUS
  <2>1. PlaceIn(old, list, feed, o) < PlaceIn(old, list, feed, rel)
    BY <1>2, Places DEF PlaceIn
  <2>2. /\ PlaceIn(old, list, feed, rel) \in 1..Len(Listing(old, list, feed))
        /\ Len(Listing(old, list, feed)) \in Nat
    BY ListedPlaces, ListingIsStart
  <2>3. PlaceIn(old, list, feed, o) \in Nat
    BY SortedRows DEF PlaceIn
  <2>4. QED
    BY <2>1, <2>2, <2>3, ListedPlaces
<1>4. before \subseteq after \cup lost
  <2> SUFFICES ASSUME NEW o \in before, o \notin lost PROVE o \in after
    OBVIOUS
  <2>1. o \in Range(Listing(new, list, feed)) /\ old[o] = new[o]
    BY <1>3 DEF Lost
  <2>2. o \in RowsOf(new, list, feed)
    BY <2>1, ListedPlaces
  <2>3. Before(new, sort, o, rel)
    BY <1>1, <2>1 DEF Before
  <2>4. QED
    BY <2>2, <2>3
<1>5. lost \in SUBSET Rels
  BY ListingRange DEF Lost
<1>6. /\ PlaceIn(old, list, feed, rel) = Cardinality(before) + 1
      /\ PlaceIn(new, list, feed, rel) = Cardinality(after) + 1
  BY DEF PlaceIn, Place
<1>7. before \in SUBSET Rels /\ after \in SUBSET Rels
  BY <1>2
<1> HIDE DEF before, after, lost
<1>8. /\ IsFiniteSet(after) /\ IsFiniteSet(lost)
      /\ Cardinality(before) \in Nat /\ Cardinality(after) \in Nat /\ Cardinality(lost) \in Nat
  BY <1>5, <1>7, FiniteRows
<1>9. /\ IsFiniteSet(after \cup lost)
      /\ Cardinality(after \cup lost) <= Cardinality(after) + Cardinality(lost)
  <2>1. Cardinality(after \cap lost) \in Nat
    BY <1>7, FiniteRows
  <2>2. /\ IsFiniteSet(after \cup lost)
        /\ Cardinality(after \cup lost) =
             Cardinality(after) + Cardinality(lost) - Cardinality(after \cap lost)
    BY <1>8, FS_Union
  <2>3. QED
    BY <1>8, <2>1, <2>2
<1>10. Cardinality(before) <= Cardinality(after \cup lost)
  BY <1>4, <1>9, FS_Subset
<1>11. Cardinality(after \cup lost) \in Nat
  BY <1>9, FS_CardinalityType
<1>12. QED
  BY <1>1, <1>6, <1>8, <1>9, <1>10, <1>11 DEF lost

(* Those of some rows that stand at the first n places.                    *)
UpTo(idx, list, feed, rels, n) == {rel \in rels : PlaceIn(idx, list, feed, rel) <= n}

(* So that no more rows come to stand at the first places than are lost.   *)
LEMMA MovedUp ==
    ASSUME NEW old \in Indexes, NEW new \in Indexes, NEW list \in Lists, NEW feed \in Feeds,
           NEW rels \in SUBSET Range(Listing(old, list, feed)),
           rels \cap Lost(old, new, list, feed) = {}, NEW n \in Nat
    PROVE  Cardinality(UpTo(new, list, feed, rels, n))
             <= Cardinality(UpTo(old, list, feed, rels, n))
                  + Cardinality(Lost(old, new, list, feed))
<1> DEFINE now == {rel \in rels : PlaceIn(new, list, feed, rel) <= n}
           then == {rel \in rels : PlaceIn(old, list, feed, rel) <= n}
           lost == Lost(old, new, list, feed)
           moved == {rel \in rels : /\ PlaceIn(old, list, feed, rel) > n
                                    /\ PlaceIn(old, list, feed, rel) <= n + Cardinality(lost)}
           at == [rel \in moved |-> PlaceIn(old, list, feed, rel)]
<1>1. Range(Listing(old, list, feed)) \in SUBSET Rels
      /\ Range(Listing(new, list, feed)) \in SUBSET Rels
  BY ListingRange
<1>2. lost \in SUBSET Rels
  BY <1>1 DEF Lost
<1>3. now \in SUBSET Rels /\ then \in SUBSET Rels /\ moved \in SUBSET Rels
  BY <1>1
<1>4. /\ Cardinality(now) \in Nat /\ Cardinality(then) \in Nat /\ Cardinality(moved) \in Nat
      /\ Cardinality(lost) \in Nat /\ IsFiniteSet(then) /\ IsFiniteSet(moved)
  <2> HIDE DEF now, then, moved, lost
  <2>1. QED
    BY <1>2, <1>3, FiniteRows
<1>5. now \subseteq then \cup moved
  <2> SUFFICES ASSUME NEW rel \in rels, PlaceIn(new, list, feed, rel) <= n,
                      ~(PlaceIn(old, list, feed, rel) <= n)
               PROVE  /\ PlaceIn(old, list, feed, rel) > n
                      /\ PlaceIn(old, list, feed, rel) <= n + Cardinality(lost)
    OBVIOUS
  <2>1. /\ rel \in Range(Listing(old, list, feed)) /\ rel \notin Lost(old, new, list, feed)
        /\ rel \in Range(Listing(new, list, feed))
        /\ PlaceIn(old, list, feed, rel) <= PlaceIn(new, list, feed, rel) + Cardinality(lost)
    BY ShiftedPlace
  <2>2. /\ PlaceIn(old, list, feed, rel) \in 1..Len(Listing(old, list, feed))
        /\ PlaceIn(new, list, feed, rel) \in 1..Len(Listing(new, list, feed))
        /\ Len(Listing(old, list, feed)) \in Nat /\ Len(Listing(new, list, feed)) \in Nat
    BY <2>1, ListedPlaces, ListingIsStart
  <2> HIDE DEF lost
  <2>3. QED
    BY <1>4, <2>1, <2>2
<1>6. at \in Injection(moved, (n + 1)..(n + Cardinality(lost)))
  <2>1. \A rel \in moved : /\ PlaceIn(old, list, feed, rel) \in Nat
                           /\ Listing(old, list, feed)[PlaceIn(old, list, feed, rel)] = rel
    BY ListedPlaces, ListingIsStart
  <2>2. \A rel \in moved : /\ PlaceIn(old, list, feed, rel) > n
                           /\ PlaceIn(old, list, feed, rel) <= n + Cardinality(lost)
    OBVIOUS
  <2> HIDE DEF moved, lost
  <2>3. at \in [moved -> (n + 1)..(n + Cardinality(lost))]
    BY <1>4, <2>1, <2>2
  <2>4. \A a, b \in moved : at[a] = at[b] => a = b
    BY <2>1
  <2>5. QED
    BY <2>3, <2>4 DEF Injection, IsInjective
<1> HIDE DEF now, then, moved, lost, at
<1>7. /\ IsFiniteSet((n + 1)..(n + Cardinality(lost)))
      /\ Cardinality((n + 1)..(n + Cardinality(lost))) = Cardinality(lost)
  <2>1. n + 1 \in Int /\ n + Cardinality(lost) \in Int
    BY <1>4
  <2>2. /\ IsFiniteSet((n + 1)..(n + Cardinality(lost)))
        /\ Cardinality((n + 1)..(n + Cardinality(lost))) =
             IF n + 1 > n + Cardinality(lost) THEN 0
             ELSE (n + Cardinality(lost)) - (n + 1) + 1
    BY <2>1, FS_Interval
  <2>3. QED
    BY <1>4, <2>2
<1>8. Cardinality(moved) <= Cardinality(lost)
  BY <1>6, <1>7, FS_Injection
<1>9. IsFiniteSet(then \cup moved)
      /\ Cardinality(then \cup moved) <= Cardinality(then) + Cardinality(moved)
  <2>1. Cardinality(then \cap moved) \in Nat
    BY <1>3, FiniteRows
  <2>2. /\ IsFiniteSet(then \cup moved)
        /\ Cardinality(then \cup moved) =
             Cardinality(then) + Cardinality(moved) - Cardinality(then \cap moved)
    BY <1>4, FS_Union
  <2>3. QED
    BY <1>4, <2>1, <2>2
<1>10. Cardinality(now) <= Cardinality(then \cup moved)
       /\ Cardinality(then \cup moved) \in Nat
  BY <1>5, <1>9, FS_Subset, FS_CardinalityType
<1>11. Cardinality(now) <= Cardinality(then) + Cardinality(lost)
  BY <1>4, <1>8, <1>9, <1>10
<1>12. QED
  BY <1>11 DEF now, then, lost, UpTo

(* A page has the rows at its places.                                      *)
LEMMA PageHasPlaces ==
    ASSUME NEW idx \in Indexes, NEW list \in Lists, NEW feed \in Feeds,
           NEW page \in Nat \ {0}, NEW rel \in Range(Listing(idx, list, feed)),
           PlaceIn(idx, list, feed, rel) > Start(page),
           PlaceIn(idx, list, feed, rel) <= Start(page) + PageSize
    PROVE  rel \in Range(PageOf(idx, list, feed, page))
<1> DEFINE shown == Listing(idx, list, feed)
           part == PageOf(idx, list, feed, page)
           from == Start(page)
           to == IF from + PageSize < Len(shown) THEN from + PageSize ELSE Len(shown)
           at == PlaceIn(idx, list, feed, rel)
<1>1. /\ at \in 1..Len(shown) /\ shown[at] = rel /\ Len(shown) \in Nat
      /\ from \in Nat /\ PageSize \in Nat
  BY ListedPlaces, ListingIsStart, Starts, CatalogAssumption
<1>2. /\ part \in Seq(Rels) /\ Len(part) = IF from < to THEN to - from ELSE 0
      /\ \A i \in 1..Len(part) : part[i] = shown[from + i]
  BY PageIsPart
<1>3. at > from /\ at <= from + PageSize
  OBVIOUS
<1> HIDE DEF shown, part, from, at
<1>4. at - from \in 1..Len(part) /\ from + (at - from) = at
  BY <1>1, <1>2, <1>3
<1>5. part[at - from] = rel
  BY <1>1, <1>2, <1>4
<1>6. Range(part) = {part[i] : i \in 1..Len(part)}
  BY <1>2, RangeEquality
<1>7. QED
  BY <1>4, <1>5, <1>6 DEF part

(* A listing has every row once.                                           *)
LEMMA ListingOnce ==
    ASSUME NEW idx \in Indexes, NEW list \in Lists, NEW feed \in Feeds
    PROVE  Cardinality(Range(Listing(idx, list, feed))) = Len(Listing(idx, list, feed))
<1> DEFINE shown == Listing(idx, list, feed)
           at == [rel \in Range(shown) |-> PlaceIn(idx, list, feed, rel)]
<1>1. /\ shown \in Seq(Rels) /\ Len(shown) \in Nat
      /\ \A rel \in Range(shown) : /\ PlaceIn(idx, list, feed, rel) \in 1..Len(shown)
                                   /\ shown[PlaceIn(idx, list, feed, rel)] = rel
  BY ListingIsStart, ListedPlaces
<1>2. at \in Injection(Range(shown), 1..Len(shown))
  BY <1>1 DEF Injection, IsInjective
<1>3. \A i \in 1..Len(shown) : PlaceIn(idx, list, feed, shown[i]) = i
                                /\ shown[i] \in Range(shown)
  <2> SUFFICES ASSUME NEW i \in 1..Len(shown)
               PROVE  PlaceIn(idx, list, feed, shown[i]) = i /\ shown[i] \in Range(shown)
    OBVIOUS
  <2>1. shown[i] = Sorted(idx, list, feed)[i] /\ i \in 1..Len(Sorted(idx, list, feed))
    BY ListingIsStart, SortedRows, FeedRows
  <2>2. PlaceIn(idx, list, feed, Sorted(idx, list, feed)[i]) = i
    BY <2>1, SortedRows DEF PlaceIn
  <2>3. QED
    BY <1>1, <2>1, <2>2, RangeEquality
<1>4. at \in Surjection(Range(shown), 1..Len(shown))
  <2>1. at \in [Range(shown) -> 1..Len(shown)]
    BY <1>1
  <2>2. \A i \in 1..Len(shown) : at[shown[i]] = i
    BY <1>3
  <2> HIDE DEF at
  <2>3. QED
    BY <1>3, <2>1, <2>2 DEF Surjection
<1> DEFINE n == Len(shown)
<1>5. /\ n \in Nat /\ at \in Injection(Range(shown), 1..n)
      /\ at \in Surjection(Range(shown), 1..n)
  BY <1>1, <1>2, <1>4
<1> HIDE DEF n, at
<1>6. IsFiniteSet(1..n) /\ Cardinality(1..n) = n
  BY <1>5, FS_Interval
<1>7. Cardinality(Range(shown)) = n
  BY <1>5, <1>6, FS_Injection
<1>8. QED
  BY <1>7 DEF n

-------------------------------------------------------------------------------
(* Of a feed that changes, a walk misses no more than what left            *)

(* How far the walk has read, what it has been given, and the rows that it *)
(* has passed over: they stayed, in a place that it has read.              *)
ReadTo == IF HasRead THEN Start(walk.page) + PageSize ELSE Start(walk.page)
Seen == Range(walk.shown) \cup (IF HasRead THEN Range(walk.rows) ELSE {})
Passed == UpTo(index, store.list, walk.feed, walk.stay \ Seen, ReadTo)

(* A row is passed over only if another one left a place before it.        *)
MissedInv ==
    walk.stay # {} =>
      /\ walk.pc # "idle"
      /\ walk.stay \subseteq Range(Current)
      /\ walk.pc \in {"rows", "count"} => walk.list = store.list
      /\ walk.pc \in {"load", "rows", "count"} => Cardinality(Passed) <= walk.gone
      /\ HasRead => Len(walk.rows) <= PageSize
      /\ walk.pc = "rows" /\ walk.feed.kind = "browse" =>
           Len(Current) <= walk.total + walk.late
      /\ MissedAtMostGone

(* Answering a page passes over no row, and the last page leaves out no    *)
(* place but those that came after the rows of a folder were counted.      *)
LEMMA AnswerMisses ==
    ASSUME TypeInv, walk.pc # "idle", walk.stay \subseteq Range(Current), NEW w \in Walks,
           w.feed = walk.feed, w.page = walk.page, w.shown = walk.shown, w.stay = walk.stay,
           w.gone = walk.gone, w.late = walk.late, Len(w.rows) <= PageSize,
           Len(Current) <= w.total + w.late,
           Cardinality(UpTo(index, store.list, walk.feed,
                            walk.stay \ (Range(walk.shown) \cup Range(w.rows)),
                            Start(walk.page) + PageSize)) <= walk.gone
    PROVE  LET then == Answered(w)
           IN  /\ then.pc = "load" =>
                    Cardinality(UpTo(index, store.list, walk.feed,
                                     walk.stay \ Range(then.shown), Start(then.page)))
                      <= walk.gone
               /\ then.pc = "done" =>
                    Cardinality(walk.stay \ Range(then.shown)) <= walk.gone + walk.late
<1> DEFINE then == Answered(w)
           more == HasNext(w.feed, w.page, Len(w.rows), w.total)
           rest == walk.stay \ Range(then.shown)
           end == Start(walk.page) + PageSize
           At(rel) == PlaceIn(index, store.list, walk.feed, rel)
<1>1. /\ index \in Indexes /\ store.list \in Lists /\ walk.feed \in Feeds
      /\ walk.page \in Nat \ {0} /\ Start(walk.page) \in Nat
      /\ Start(w.page) < Cardinality(Rels) + PageSize
      /\ walk.gone \in Nat /\ walk.late \in Nat /\ walk.stay \in SUBSET Rels
  BY TypedParts DEF TypeInv, TypeOK, Walks
<1>2. /\ then.pc = IF more THEN "load" ELSE "done"
      /\ then.page = IF more THEN w.page + 1 ELSE w.page
      /\ then.shown = w.shown \o w.rows
  BY <1>1, AnsweredWalk
<1>3. Range(then.shown) = Range(walk.shown) \cup Range(w.rows)
  BY <1>2, RangeConcatenation DEF Walks
<1>4. Cardinality(UpTo(index, store.list, walk.feed, rest, end)) <= walk.gone
  BY <1>3, Zenon
<1>5. CASE more
  BY <1>1, <1>2, <1>4, <1>5, Starts
<1>6. CASE ~more
  <2> DEFINE near == UpTo(index, store.list, walk.feed, rest, end)
             far == {rel \in rest : At(rel) > end}
             at == [rel \in far |-> At(rel)]
  <2>1. Len(w.rows) \in Nat /\ w.total \in Nat /\ PageSize \in Nat
    BY LenProperties, FiniteRels, CatalogAssumption DEF Walks
  <2>2. w.total <= end
    BY <1>1, <1>6, <2>1, LastPage
  <2>3. \A rel \in rest : /\ At(rel) \in 1..Len(Current) /\ Current[At(rel)] = rel
    BY <1>1, ListedPlaces DEF Current
  <2>4. Len(Current) \in Nat /\ Len(Current) <= end + walk.late /\ end \in Nat
    BY <1>1, <2>1, <2>2, ListingIsStart DEF Current
  <2>5. rest \in SUBSET Rels /\ near \in SUBSET Rels /\ far \in SUBSET Rels
    BY <1>1 DEF UpTo
  <2>6. rest \subseteq near \cup far
    BY <2>3, <2>4 DEF UpTo
  <2>7. at \in Injection(far, (end + 1)..(end + walk.late))
    <3>1. \A rel \in far : At(rel) \in (end + 1)..(end + walk.late)
      BY <1>1, <2>3, <2>4
    <3>2. \A a, b \in far : At(a) = At(b) => a = b
      BY <2>3
    <3> HIDE DEF far, At
    <3>3. QED
      BY <3>1, <3>2 DEF Injection, IsInjective
  <2> HIDE DEF far, near, rest, at, end
  <2>8. /\ IsFiniteSet((end + 1)..(end + walk.late))
        /\ Cardinality((end + 1)..(end + walk.late)) = walk.late
    <3>1. end + 1 \in Int /\ end + walk.late \in Int
      BY <1>1, <2>4
    <3>2. /\ IsFiniteSet((end + 1)..(end + walk.late))
          /\ Cardinality((end + 1)..(end + walk.late)) =
               IF end + 1 > end + walk.late THEN 0 ELSE (end + walk.late) - (end + 1) + 1
      BY <3>1, FS_Interval
    <3>3. QED
      BY <1>1, <2>4, <3>2
  <2>9. Cardinality(far) <= walk.late
    BY <2>7, <2>8, FS_Injection
  <2>10. /\ IsFiniteSet(near) /\ IsFiniteSet(far) /\ IsFiniteSet(rest)
         /\ Cardinality(near) \in Nat /\ Cardinality(far) \in Nat /\ Cardinality(rest) \in Nat
         /\ Cardinality(near \cap far) \in Nat
    <3>1. near \cap far \in SUBSET Rels
      BY <2>5
    <3>2. QED
      BY <2>5, <3>1, FiniteRows
  <2>11. /\ IsFiniteSet(near \cup far)
         /\ Cardinality(near \cup far) =
              Cardinality(near) + Cardinality(far) - Cardinality(near \cap far)
    BY <2>10, FS_Union
  <2>12. Cardinality(rest) <= Cardinality(near \cup far)
    BY <2>6, <2>11, FS_Subset
  <2>13. Cardinality(near) <= walk.gone
    BY <1>4 DEF near
  <2>14. Cardinality(rest) <= walk.gone + walk.late
    BY <1>1, <2>9, <2>10, <2>11, <2>12, <2>13
  <2>15. QED
    BY <1>2, <1>6, <2>14 DEF rest
<1>7. QED
  BY <1>5, <1>6

LEMMA InitMissed == Init => MissedInv
BY DEF Init, NoWalk, MissedInv

(* Fewer rows, no more of them at the first places.                        *)
LEMMA FewerUpTo ==
    ASSUME NEW idx, NEW list, NEW feed, NEW few \in SUBSET Rels, NEW rels \in SUBSET Rels,
           NEW m, NEW n, UpTo(idx, list, feed, few, m) \subseteq UpTo(idx, list, feed, rels, n)
    PROVE  /\ Cardinality(UpTo(idx, list, feed, few, m)) \in Nat
           /\ Cardinality(UpTo(idx, list, feed, rels, n)) \in Nat
           /\ Cardinality(UpTo(idx, list, feed, few, m)) <=
                Cardinality(UpTo(idx, list, feed, rels, n))
<1>1. /\ UpTo(idx, list, feed, few, m) \in SUBSET Rels
      /\ UpTo(idx, list, feed, rels, n) \in SUBSET Rels
  BY DEF UpTo
<1>2. QED
  BY <1>1, FiniteRows, FS_Subset

(* A change of the index: what leaves makes room for as many at most.      *)
LEMMA ChangeMisses ==
    ASSUME TypeInv, MissedInv, ChangeIndex, walk.feed # None, walk'.stay # {}
    PROVE  MissedInv'
<1>1. /\ index \in Indexes /\ store.list \in Lists /\ walk \in Walks /\ walk.pc # "idle"
      /\ walk.feed \in Feeds /\ walk.page \in Nat \ {0} /\ Start(walk.page) \in Nat
  BY TypedParts DEF TypeInv, WalkForm
<1>2. index' \in Indexes /\ store' = store
  BY <1>1 DEF ChangeIndex, Indexes
<1> DEFINE lost == Leaves(index')
           came == Comes(index')
           late == IF Counted THEN walk.late + Cardinality(came) ELSE walk.late
<1>3. /\ lost \in SUBSET Rels /\ IsFiniteSet(lost) /\ Cardinality(lost) \in Nat
      /\ came \in SUBSET Rels /\ IsFiniteSet(came) /\ Cardinality(came) \in Nat
  BY <1>1, <1>2, Changed
<1>4. walk' = [walk EXCEPT !.calm = FALSE, !.stay = walk.stay \ lost,
                 !.gone = walk.gone + Cardinality(lost), !.late = late]
  BY DEF ChangeIndex
<1>5. /\ walk'.pc = walk.pc /\ walk'.feed = walk.feed /\ walk'.list = walk.list
      /\ walk'.page = walk.page /\ walk'.rows = walk.rows /\ walk'.total = walk.total
      /\ walk'.shown = walk.shown /\ walk'.stay = walk.stay \ lost
      /\ walk'.gone = walk.gone + Cardinality(lost) /\ walk'.late = late
  BY <1>1, <1>4 DEF Walks
<1>6. walk.stay # {} /\ walk.stay \in SUBSET Rels /\ walk.gone \in Nat /\ walk.late \in Nat
  BY <1>1, <1>5 DEF Walks
<1>7. lost = Lost(index, index', store.list, walk.feed)
  BY DEF Leaves, Lost
<1> DEFINE now == Listing(index', store.list, walk.feed)
<1>8. Current' = now
  BY <1>2, <1>5 DEF Current
<1>9. walk.stay \subseteq Range(Current)
  BY <1>6 DEF MissedInv
<1>10. walk'.stay \subseteq Range(Current')
  BY <1>5, <1>8, <1>9 DEF Leaves, Current
<1>11. walk'.pc \in {"load", "rows", "count"} => Cardinality(Passed') <= walk'.gone
  <2> SUFFICES ASSUME walk.pc \in {"load", "rows", "count"}
               PROVE  Cardinality(Passed') <= walk'.gone
    BY <1>5
  <2> DEFINE rels == (walk.stay \ lost) \ Seen
  <2>1. ReadTo' = ReadTo /\ Seen' = Seen
    BY <1>5 DEF ReadTo, Seen, HasRead
  <2>2. Passed' = UpTo(index', store.list, walk.feed, rels, ReadTo)
    BY <1>2, <1>5, <2>1 DEF Passed
  <2>3. ReadTo \in Nat
    BY <1>1, CatalogAssumption DEF ReadTo
  <2>4. rels \in SUBSET Range(Listing(index, store.list, walk.feed))
    BY <1>9 DEF Current
  <2>5. rels \cap Lost(index, index', store.list, walk.feed) = {}
    BY <1>7
  <2> HIDE DEF rels, lost, came
  <2>6. Cardinality(UpTo(index', store.list, walk.feed, rels, ReadTo)) <=
          Cardinality(UpTo(index, store.list, walk.feed, rels, ReadTo)) + Cardinality(lost)
    BY <1>1, <1>2, <1>7, <2>3, <2>4, <2>5, MovedUp
  <2>7. rels \in SUBSET Rels /\ walk.stay \ Seen \in SUBSET Rels
        /\ rels \subseteq walk.stay \ Seen
    BY <1>6 DEF rels
  <2>8. /\ Cardinality(UpTo(index, store.list, walk.feed, rels, ReadTo)) \in Nat
        /\ Cardinality(Passed) \in Nat
        /\ Cardinality(UpTo(index, store.list, walk.feed, rels, ReadTo)) <=
             Cardinality(Passed)
    <3>1. UpTo(index, store.list, walk.feed, rels, ReadTo) \subseteq
            UpTo(index, store.list, walk.feed, walk.stay \ Seen, ReadTo)
      BY <2>7 DEF UpTo
    <3>2. QED
      BY <2>7, <3>1, FewerUpTo DEF Passed
  <2>9. Cardinality(UpTo(index', store.list, walk.feed, rels, ReadTo)) \in Nat
    BY <2>7, FewerUpTo
  <2>10. Cardinality(Passed) <= walk.gone
    BY <1>6 DEF MissedInv
  <2>11. QED
    BY <1>3, <1>5, <1>6, <2>2, <2>6, <2>8, <2>9, <2>10
<1>12. walk'.pc = "rows" /\ walk'.feed.kind = "browse" =>
         Len(Current') <= walk'.total + walk'.late
  <2> SUFFICES ASSUME walk.pc = "rows", walk.feed.kind = "browse"
               PROVE  Len(Current') <= walk.total + late
    BY <1>5
  <2>1. late = walk.late + Cardinality(came)
    BY DEF Counted
  <2>2. Len(Current) <= walk.total + walk.late
    BY <1>6 DEF MissedInv
  <2>3. /\ Cardinality(Range(now)) = Len(now) /\ Len(now) \in Nat
        /\ Cardinality(Range(Current)) = Len(Current) /\ Len(Current) \in Nat
        /\ Range(Current) \in SUBSET Rels /\ IsFiniteSet(Range(Current))
    BY <1>1, <1>2, ListingOnce, ListingIsStart, ListingRange DEF Current
  <2>4. Range(now) \subseteq Range(Current) \cup came
    BY DEF Comes, Current
  <2>5. walk.total \in Nat
    BY <1>1, FiniteRels DEF Walks
  <2> HIDE DEF came, now, late
  <2>6. /\ IsFiniteSet(Range(Current) \cup came)
        /\ Cardinality(Range(Current) \cup came) =
             Cardinality(Range(Current)) + Cardinality(came)
               - Cardinality(Range(Current) \cap came)
    BY <1>3, <2>3, FS_Union
  <2>7. Cardinality(Range(Current) \cap came) \in Nat
    <3>1. Range(Current) \cap came \in SUBSET Rels
      BY <2>3
    <3>2. QED
      BY <3>1, FiniteRows
  <2>8. Cardinality(Range(now)) <= Cardinality(Range(Current) \cup came)
    BY <2>4, <2>6, FS_Subset
  <2>9. Len(now) <= walk.total + (walk.late + Cardinality(came))
    BY <1>3, <1>6, <2>2, <2>3, <2>5, <2>6, <2>7, <2>8
  <2>10. QED
    BY <1>8, <2>1, <2>9
<1>13. MissedAtMostGone'
  <2> SUFFICES ASSUME walk.pc = "done"
               PROVE  Cardinality(walk'.stay \ Range(walk'.shown)) <= walk'.gone + walk'.late
    BY <1>5 DEF MissedAtMostGone
  <2> DEFINE was == walk.stay \ Range(walk.shown)
             is == (walk.stay \ lost) \ Range(walk.shown)
  <2>1. Cardinality(was) <= walk.gone + walk.late
    BY <1>6 DEF MissedInv, MissedAtMostGone
  <2>2. late = walk.late
    BY DEF Counted
  <2>3. was \in SUBSET Rels /\ is \in SUBSET was
    BY <1>6
  <2>4. walk'.stay \ Range(walk'.shown) = is
    BY <1>5
  <2> HIDE DEF was, is, lost, late
  <2>5. IsFiniteSet(was) /\ Cardinality(was) \in Nat
    BY <2>3, FiniteRows
  <2>6. IsFiniteSet(is) /\ Cardinality(is) <= Cardinality(was)
    BY <2>3, <2>5, FS_Subset
  <2>7. Cardinality(is) \in Nat
    BY <2>6, FS_CardinalityType
  <2>8. Cardinality(is) <= (walk.gone + Cardinality(lost)) + walk.late
    BY <1>3, <1>6, <2>1, <2>5, <2>6, <2>7
  <2>9. QED
    BY <1>5, <2>2, <2>4, <2>8
<1>14. /\ walk'.pc \in {"rows", "count"} => walk'.list = store'.list
       /\ HasRead' => Len(walk'.rows) <= PageSize
  BY <1>2, <1>5, <1>6 DEF MissedInv, HasRead
<1>15. QED
  BY <1>1, <1>5, <1>10, <1>11, <1>12, <1>13, <1>14 DEF MissedInv

LEMMA NextMissed == TypeInv /\ MissedInv /\ [Next]_vars => MissedInv'
<1> SUFFICES ASSUME TypeInv, MissedInv, [Next]_vars, walk'.stay # {} PROVE MissedInv'
  BY DEF MissedInv
<1>1. /\ index \in Indexes /\ store.list \in Lists /\ walk \in Walks
      /\ walk.pc # "idle" => walk.feed \in Feeds
      /\ walk.page \in Nat \ {0} /\ Start(walk.page) \in Nat /\ PageSize \in Nat
      /\ walk.stay \in SUBSET Rels /\ walk.gone \in Nat /\ walk.late \in Nat
      /\ Start(walk.page) < Cardinality(Rels) + PageSize
  BY TypedParts, CatalogAssumption DEF TypeInv, TypeOK, Walks
<1>2. CASE BeginWalk
  <2>1. PICK feed \in Feeds :
          walk' = [NoWalk EXCEPT !.pc = "load", !.feed = feed,
                     !.stay = Range(Listing(index, store.list, feed))]
    BY <1>2 DEF BeginWalk
  <2>2. /\ walk'.pc = "load" /\ walk'.feed = feed /\ walk'.page = 1 /\ walk'.gone = 0
        /\ walk'.shown = <<>> /\ walk'.stay = Range(Listing(index, store.list, feed))
    BY <2>1 DEF NoWalk
  <2>3. index' = index /\ store' = store
    BY <1>2 DEF BeginWalk
  <2>4. Current' = Listing(index, store.list, feed)
    BY <2>2, <2>3 DEF Current
  <2>5. ReadTo' = 0
    BY <2>2, Starts DEF ReadTo, HasRead
  <2>6. \A rel \in walk'.stay : ~(PlaceIn(index, store.list, feed, rel) <= 0)
    <3>1. Len(Listing(index, store.list, feed)) \in Nat
      BY <1>1, ListingIsStart
    <3>2. \A rel \in walk'.stay : PlaceIn(index, store.list, feed, rel)
                                    \in 1..Len(Listing(index, store.list, feed))
      BY <1>1, <2>2, ListedPlaces
    <3>3. QED
      BY <3>1, <3>2
  <2>7. Passed' = {}
    BY <2>2, <2>3, <2>5, <2>6 DEF Passed, UpTo
  <2>8. Cardinality(Passed') <= walk'.gone
    BY <2>2, <2>7, FS_EmptySet
  <2>9. QED
    BY <2>2, <2>4, <2>8 DEF MissedInv, HasRead, MissedAtMostGone
<1>3. CASE LoadLists
  <2>1. /\ walk'.feed = walk.feed /\ walk'.shown = walk.shown /\ walk'.page = walk.page
        /\ walk'.stay = walk.stay /\ walk'.gone = walk.gone
        /\ walk'.pc \in {"refused", "count", "rows"}
        /\ walk'.pc = "count" => walk.feed.kind = "browse"
        /\ walk'.pc = "rows" => walk.feed.kind # "browse"
        /\ walk'.pc # "refused" => walk'.list = store.list
        /\ walk.pc = "load" /\ index' = index /\ store' = store
    BY <1>1, <1>3, Loaded
  <2>2. Current' = Current /\ ~HasRead' /\ ~HasRead
    BY <2>1 DEF Current, HasRead
  <2>3. Passed' = Passed
    BY <2>1, <2>2 DEF Passed, Seen, ReadTo
  <2>4. walk.stay \subseteq Range(Current) /\ Cardinality(Passed) <= walk.gone
    BY <2>1 DEF MissedInv
  <2>5. QED
    BY <2>1, <2>2, <2>3, <2>4 DEF MissedInv, MissedAtMostGone
<1>4. CASE ReadRows
  <2>1. walk.pc = "rows" /\ index' = index /\ store' = store
    BY <1>4 DEF ReadRows
  <2>2. /\ WithRows \in Walks /\ WithRows = [walk EXCEPT !.rows = WithRows.rows]
        /\ WithRows.rows = PageOf(index, walk.list, walk.feed, walk.page)
    BY <2>1, RowsRead
  <2>3. /\ WithRows.feed = walk.feed /\ WithRows.page = walk.page
        /\ WithRows.shown = walk.shown /\ WithRows.total = walk.total
        /\ WithRows.list = walk.list /\ WithRows.stay = walk.stay
        /\ WithRows.gone = walk.gone /\ WithRows.late = walk.late
        /\ Start(WithRows.page) < Cardinality(Rels) + PageSize
    BY <1>1, <2>2 DEF Walks
  <2>4. walk'.stay = walk.stay /\ walk'.feed = walk.feed /\ walk'.gone = walk.gone
        /\ walk'.late = walk.late
    <3>1. CASE walk.feed.kind = "browse"
      <4>1. walk' = Answered(WithRows)
        BY <1>4, <3>1 DEF ReadRows, WithRows
      <4>2. QED
        BY <1>1, <2>1, <2>2, <2>3, <4>1, AnsweredWalk
    <3>2. CASE walk.feed.kind # "browse"
      <4>1. walk' = [WithRows EXCEPT !.pc = "count"]
        BY <1>4, <3>2 DEF ReadRows, WithRows
      <4>2. QED
        BY <2>2, <2>3, <4>1 DEF Walks
    <3>3. QED
      BY <3>1, <3>2
  <2>5. /\ walk.list = store.list /\ walk.stay \subseteq Range(Current)
        /\ Cardinality(Passed) <= walk.gone
        /\ walk.feed.kind = "browse" => Len(Current) <= walk.total + walk.late
    BY <2>1, <2>4 DEF MissedInv
  <2>6. Current' = Current
    BY <2>1, <2>4 DEF Current
  <2>7. Len(WithRows.rows) <= PageSize
    BY <1>1, <2>1, <2>2, <2>5, PageNotLonger
  <2> DEFINE rest == walk.stay \ (Range(walk.shown) \cup Range(WithRows.rows))
             near == UpTo(index, store.list, walk.feed, rest, Start(walk.page) + PageSize)
  <2>8. Cardinality(near) <= walk.gone
    <3>1. Passed = UpTo(index, store.list, walk.feed, walk.stay \ Range(walk.shown),
                        Start(walk.page))
      <4>1. Seen = Range(walk.shown) /\ ReadTo = Start(walk.page)
        BY <2>1 DEF Seen, ReadTo, HasRead
      <4>2. QED
        BY <4>1 DEF Passed
    <3>2. near \subseteq UpTo(index, store.list, walk.feed, walk.stay \ Range(walk.shown),
                             Start(walk.page))
      <4> SUFFICES ASSUME NEW rel \in rest,
                          PlaceIn(index, store.list, walk.feed, rel)
                            <= Start(walk.page) + PageSize
                   PROVE  PlaceIn(index, store.list, walk.feed, rel) <= Start(walk.page)
        BY DEF UpTo
      <4>1. rel \in Range(Listing(index, store.list, walk.feed))
        BY <2>5 DEF Current
      <4>2. /\ PlaceIn(index, store.list, walk.feed, rel)
                 \in 1..Len(Listing(index, store.list, walk.feed))
            /\ Len(Listing(index, store.list, walk.feed)) \in Nat
        BY <1>1, <2>1, <4>1, ListedPlaces, ListingIsStart
      <4>3. rel \notin Range(PageOf(index, store.list, walk.feed, walk.page))
        BY <2>2, <2>5
      <4>4. ~(PlaceIn(index, store.list, walk.feed, rel) > Start(walk.page))
        BY <1>1, <2>1, <4>1, <4>3, PageHasPlaces
      <4>5. QED
        BY <1>1, <4>2, <4>4
    <3>3. rest \in SUBSET Rels /\ walk.stay \ Range(walk.shown) \in SUBSET Rels
      BY <1>1
    <3> HIDE DEF rest
    <3>4. /\ Cardinality(near) \in Nat /\ Cardinality(Passed) \in Nat
          /\ Cardinality(near) <= Cardinality(Passed)
      BY <3>1, <3>2, <3>3, FewerUpTo
    <3>5. QED
      BY <1>1, <2>5, <3>4
  <2>9. CASE walk.feed.kind = "browse"
    <3>1. walk' = Answered(WithRows)
      BY <1>4, <2>9 DEF ReadRows, WithRows
    <3>2. walk'.pc \in {"load", "done"}
      BY <1>1, <2>1, <2>2, <2>3, <3>1, AnsweredWalk
    <3>3. /\ walk'.pc = "load" =>
               Cardinality(UpTo(index, store.list, walk.feed,
                                walk.stay \ Range(walk'.shown), Start(walk'.page)))
                 <= walk.gone
          /\ walk'.pc = "done" =>
               Cardinality(walk.stay \ Range(walk'.shown)) <= walk.gone + walk.late
      <4>1. Len(Current) <= WithRows.total + WithRows.late
        BY <2>3, <2>5, <2>9
      <4>2. QED
        BY <2>1, <2>2, <2>3, <2>5, <2>7, <2>8, <3>1, <4>1, AnswerMisses
    <3>4. walk'.pc = "load" => Cardinality(Passed') <= walk'.gone
      <4>1. ReadTo' = Start(walk'.page) /\ Seen' = Range(walk'.shown)
        BY <3>2 DEF ReadTo, Seen, HasRead
      <4>2. Passed' = UpTo(index, store.list, walk.feed,
                           walk.stay \ Range(walk'.shown), Start(walk'.page))
        BY <2>1, <2>4, <4>1 DEF Passed
      <4>3. QED
        BY <2>4, <3>3, <4>2
    <3>5. QED
      BY <2>4, <2>5, <2>6, <3>2, <3>3, <3>4 DEF MissedInv, HasRead, MissedAtMostGone
  <2>10. CASE walk.feed.kind # "browse"
    <3>1. walk' = [WithRows EXCEPT !.pc = "count"]
      BY <1>4, <2>10 DEF ReadRows, WithRows
    <3>2. /\ walk'.pc = "count" /\ walk'.page = walk.page /\ walk'.shown = walk.shown
          /\ walk'.list = walk.list /\ walk'.rows = WithRows.rows
      BY <2>2, <2>3, <3>1 DEF Walks
    <3>3. /\ ReadTo' = Start(walk.page) + PageSize
          /\ Seen' = Range(walk.shown) \cup Range(WithRows.rows)
      BY <2>4, <2>10, <3>2 DEF ReadTo, Seen, HasRead
    <3>4. Passed' = near
      BY <2>1, <2>4, <3>3 DEF Passed
    <3>5. Cardinality(Passed') <= walk'.gone
      BY <2>4, <2>8, <3>4
    <3>6. QED
      BY <2>1, <2>4, <2>5, <2>6, <2>7, <3>2, <3>5 DEF MissedInv, HasRead, MissedAtMostGone
  <2>11. QED
    BY <2>9, <2>10
<1>5. CASE CountRows
  <2>1. walk.pc = "count" /\ index' = index /\ store' = store
    BY <1>5 DEF CountRows
  <2>2. /\ WithTotal \in Walks /\ WithTotal = [walk EXCEPT !.total = WithTotal.total]
        /\ WithTotal.total = Total(index, walk.list, walk.feed)
    BY <2>1, RowsCounted
  <2>3. /\ WithTotal.feed = walk.feed /\ WithTotal.page = walk.page
        /\ WithTotal.shown = walk.shown /\ WithTotal.rows = walk.rows
        /\ WithTotal.list = walk.list /\ WithTotal.stay = walk.stay
        /\ WithTotal.gone = walk.gone /\ WithTotal.late = walk.late
        /\ Start(WithTotal.page) < Cardinality(Rels) + PageSize
    BY <1>1, <2>2 DEF Walks
  <2>4. walk'.stay = walk.stay /\ walk'.feed = walk.feed /\ walk'.gone = walk.gone
        /\ walk'.late = walk.late
    <3>1. CASE walk.feed.kind # "browse"
      <4>1. walk' = Answered(WithTotal)
        BY <1>5, <3>1 DEF CountRows, WithTotal
      <4>2. QED
        BY <1>1, <2>1, <2>2, <2>3, <4>1, AnsweredWalk
    <3>2. CASE walk.feed.kind = "browse"
      <4>1. walk' = [WithTotal EXCEPT !.pc = "rows"]
        BY <1>5, <3>2 DEF CountRows, WithTotal
      <4>2. QED
        BY <2>2, <2>3, <4>1 DEF Walks
    <3>3. QED
      BY <3>1, <3>2
  <2>5. /\ walk.list = store.list /\ walk.stay \subseteq Range(Current)
        /\ Cardinality(Passed) <= walk.gone
        /\ HasRead => Len(walk.rows) <= PageSize
    BY <2>1, <2>4 DEF MissedInv
  <2>6. Current' = Current
    BY <2>1, <2>4 DEF Current
  <2>7. /\ Len(Current) <= WithTotal.total /\ WithTotal.total \in Nat
        /\ Len(Current) \in Nat
    BY <1>1, <2>1, <2>2, <2>5, Totals, ListingIsStart, FiniteRels DEF Current
  <2>8. CASE walk.feed.kind # "browse"
    <3>1. walk' = Answered(WithTotal)
      BY <1>5, <2>8 DEF CountRows, WithTotal
    <3>2. walk'.pc \in {"load", "done"}
      BY <1>1, <2>1, <2>2, <2>3, <3>1, AnsweredWalk
    <3>3. /\ ReadTo = Start(walk.page) + PageSize
          /\ Seen = Range(walk.shown) \cup Range(WithTotal.rows)
      BY <2>1, <2>3, <2>8 DEF ReadTo, Seen, HasRead
    <3>4. Cardinality(UpTo(index, store.list, walk.feed,
                           walk.stay \ (Range(walk.shown) \cup Range(WithTotal.rows)),
                           Start(walk.page) + PageSize)) <= walk.gone
      BY <2>5, <3>3 DEF Passed
    <3>5. /\ walk'.pc = "load" =>
               Cardinality(UpTo(index, store.list, walk.feed,
                                walk.stay \ Range(walk'.shown), Start(walk'.page)))
                 <= walk.gone
          /\ walk'.pc = "done" =>
               Cardinality(walk.stay \ Range(walk'.shown)) <= walk.gone + walk.late
      <4>1. Len(Current) <= WithTotal.total + WithTotal.late
        BY <1>1, <2>3, <2>7
      <4>2. Len(WithTotal.rows) <= PageSize
        BY <2>1, <2>3, <2>5, <2>8 DEF HasRead
      <4>3. QED
        BY <2>1, <2>2, <2>3, <2>5, <3>1, <3>4, <4>1, <4>2, AnswerMisses
    <3>6. walk'.pc = "load" => Cardinality(Passed') <= walk'.gone
      <4>1. ReadTo' = Start(walk'.page) /\ Seen' = Range(walk'.shown)
        BY <3>2 DEF ReadTo, Seen, HasRead
      <4>2. Passed' = UpTo(index, store.list, walk.feed,
                           walk.stay \ Range(walk'.shown), Start(walk'.page))
        BY <2>1, <2>4, <4>1 DEF Passed
      <4>3. QED
        BY <2>4, <3>5, <4>2
    <3>7. QED
      BY <2>4, <2>5, <2>6, <3>2, <3>5, <3>6 DEF MissedInv, HasRead, MissedAtMostGone
  <2>9. CASE walk.feed.kind = "browse"
    <3>1. walk' = [WithTotal EXCEPT !.pc = "rows"]
      BY <1>5, <2>9 DEF CountRows, WithTotal
    <3>2. /\ walk'.pc = "rows" /\ walk'.page = walk.page /\ walk'.shown = walk.shown
          /\ walk'.list = walk.list /\ walk'.total = WithTotal.total
      BY <2>2, <2>3, <3>1 DEF Walks
    <3>3. ReadTo' = ReadTo /\ Seen' = Seen
      BY <2>1, <2>9, <3>2 DEF ReadTo, Seen, HasRead
    <3>4. Passed' = Passed
      BY <2>1, <2>4, <3>3 DEF Passed
    <3>5. Len(Current') <= walk'.total + walk'.late
      BY <1>1, <2>4, <2>6, <2>7, <3>2
    <3>6. QED
      BY <2>1, <2>4, <2>5, <2>6, <3>2, <3>4, <3>5 DEF MissedInv, HasRead, MissedAtMostGone
  <2>10. QED
    BY <2>8, <2>9
<1>6. CASE EndWalk \/ Crash
  BY <1>6 DEF EndWalk, Crash, NoWalk
<1>7. CASE ChangeIndex
  <2>1. CASE walk.feed = None
    BY <1>7, <2>1 DEF ChangeIndex, TypeInv, WalkForm, MissedInv
  <2>2. CASE walk.feed # None
    BY <1>7, <2>2, ChangeMisses
  <2>3. QED
    BY <2>1, <2>2
<1>8. CASE EndSaveLists
  <2>1. CASE walk.feed = None
    BY <1>8, <2>1 DEF EndSaveLists, TypeInv, WalkForm, MissedInv
  <2>2. CASE walk.feed # None
    BY <1>1, <1>8, <2>2 DEF EndSaveLists, Walks
  <2>3. QED
    BY <2>1, <2>2
<1>9. CASE BeginSaveLists \/ UNCHANGED vars
  <2>1. walk' = walk /\ index' = index /\ store'.list = store.list
    BY <1>9 DEF BeginSaveLists, vars, TypeInv, TypeOK
  <2>2. Current' = Current /\ Passed' = Passed
    BY <2>1 DEF Current, Passed, Seen, ReadTo, HasRead
  <2>3. QED
    BY <2>1, <2>2 DEF MissedInv, HasRead, MissedAtMostGone
<1>10. CASE Fail
  <2>1. /\ walk'.pc = "refused" /\ walk'.feed = walk.feed /\ walk'.stay = walk.stay
        /\ index' = index /\ store' = store
    BY <1>1, <1>10, Failed
  <2>2. walk.stay \subseteq Range(Current) /\ Current' = Current
    BY <2>1 DEF MissedInv, Current
  <2>3. QED
    BY <2>1, <2>2 DEF MissedInv, HasRead, MissedAtMostGone
<1>11. QED
  BY <1>2, <1>3, <1>4, <1>5, <1>6, <1>7, <1>8, <1>9, <1>10 DEF Next, Walking

(* Whatever the indexer does between the pages, and between the rows and   *)
(* the count of a page, a walk passes over at most as many of the rows     *)
(* that stayed listed as left or moved meanwhile or, in a folder, as came  *)
(* between the count of a page and its rows.                               *)
THEOREM MissedOnlyGone == Spec => []MissedAtMostGone
<1>1. Spec => [](TypeInv /\ MissedInv)
  BY InitTypes, NextTypes, InitMissed, NextMissed, PTL DEF Spec
<1>2. TypeInv /\ MissedInv => MissedAtMostGone
  <2> SUFFICES ASSUME TypeInv, MissedInv, walk.pc = "done"
               PROVE  Cardinality(walk.stay \ Range(walk.shown)) <= walk.gone + walk.late
    BY DEF MissedAtMostGone
  <2>1. CASE walk.stay # {}
    BY <2>1 DEF MissedInv, MissedAtMostGone
  <2>2. CASE walk.stay = {}
    <3>1. walk.gone \in Nat /\ walk.late \in Nat
      BY TypedParts DEF Walks
    <3>2. walk.stay \ Range(walk.shown) = {}
      BY <2>2
    <3>3. Cardinality(walk.stay \ Range(walk.shown)) = 0
      BY <3>2, FS_EmptySet, Zenon
    <3>4. QED
      BY <3>1, <3>3
  <2>3. QED
    BY <2>1, <2>2
<1>3. QED
  BY <1>1, <1>2, PTL
===============================================================================
