------------------------------ MODULE SmartQuery ------------------------------
(***************************************************************************)
(* What the queries of app/db.py select from the index: smart lists, their *)
(* virtual volume folders, search and the children of a folder.            *)
(*                                                                         *)
(* An index is a function from rels to rows.  The name of a row is known   *)
(* by the terms that occur in it, inside words or not (what LIKE '%term%'  *)
(* finds), and by the tokens that its document in the fts table has at the *)
(* start of a word (what an FTS5 prefix finds): a file without metadata    *)
(* has no document.  The summary is known by its terms; it stands for the  *)
(* text that is not in the document.                                       *)
(***************************************************************************)
EXTENDS Integers, Sequences, FiniteSets, Functions

CONSTANTS Rels,       \* paths that may be in the index
          Ranking,    \* all of Rels, as ORDER BY i.name has them; also the
                      \* order SQLite keeps among equal keys (added_*, title*)
          TokensOf,   \* the tokens [0-9A-Za-z]{2,} of a term
          Operators,  \* the tokens AND, OR and NOT
          Blank,      \* the empty string
          Invalid,    \* the value of a numeric rule that int() refuses
          None        \* SQL's NULL, and no row

ASSUME RankingAssumption == Ranking \in Seq(Rels) /\ Rels = Range(Ranking)

Rank == [rel \in Rels |-> CHOOSE i \in DOMAIN Ranking : Ranking[i] = rel]
Coalesce(x, default) == IF x = None THEN default ELSE x

-------------------------------------------------------------------------------
(* Rules, groups and lists.  A rule is [field, op, value, not]; a group is *)
(* a set of rules, a list has a sequence of groups.                        *)

(* A rule on an unknown field is skipped: so is one on "Name".  But the    *)
(* prefilter reads the fields in lower case.                               *)
Fields == {"name", "series", "year", "summary"}
TextFields == {"name", "Name", "summary"}
Rules(group) == {r \in group : r.field \in Fields}

Terms(field, row) == IF field = "name" THEN row.inside ELSE row[field]
Compares(r, row) ==
    CASE r.op = "contains" -> r.value \in Terms(r.field, row)
      [] r.op = "equals"   -> r.value = row[r.field]
      [] r.op = ">="       -> row[r.field] >= r.value

(* A comparison with NULL is neither true nor, negated, true; a value that *)
(* int() refuses becomes 1=0, whatever r.not says.                         *)
Holds(r, row) ==
    /\ r.value # Invalid
    /\ r.field # "name" => row[r.field] # None
    /\ IF r.not THEN ~Compares(r, row) ELSE Compares(r, row)

(* _fts_group_expr_from_rules                                              *)
TokenRules(group) ==
    {r \in group : r.field \in TextFields /\ r.op = "contains" /\ ~r.not}
Tokens(group) == UNION {TokensOf[r.value] : r \in TokenRules(group)}

(* Whether there is a prefilter: not as soon as one group has no token.    *)
Prefilters(groups) ==
    groups # <<>> /\ \A i \in DOMAIN groups : Tokens(groups[i]) # {}

(* Mutant of Prefiltered: the groups without a token are left out.         *)
PrefilteredBySome(groups, row) ==
    LET with == {i \in DOMAIN groups : Tokens(groups[i]) # {}} IN
    with # {} => \E i \in with : Tokens(groups[i]) \subseteq row.starts

(* _build_fts_prefilter                                                    *)
Prefiltered(groups, row) ==
    Prefilters(groups) =>
        \E i \in DOMAIN groups : Tokens(groups[i]) \subseteq row.starts

(* AND*, OR* and NOT* are no FTS5 expressions: fts5: syntax error.         *)
Unparsable(groups) ==
    /\ Prefilters(groups)
    /\ \E i \in DOMAIN groups : Tokens(groups[i]) \cap Operators # {}

(* i.is_dir=0 AND {where}{fts_sql} AND tail: where is (G1) OR ... OR (Gn)  *)
(* without parentheses around it, so that what stands before it belongs to *)
(* the first group only, and what stands after it to the last one only.    *)
Parts(groups) == {i \in DOMAIN groups : Rules(groups[i]) # {}}
Selected(groups, row, tail) ==
    \/ Parts(groups) = {} /\ ~row.dir /\ Prefiltered(groups, row) /\ tail
    \/ \E i \in Parts(groups) :
         /\ \A r \in Rules(groups[i]) : Holds(r, row)
         /\ (\A j \in Parts(groups) : i <= j) => ~row.dir
         /\ (\A j \in Parts(groups) : j <= i) => Prefiltered(groups, row) /\ tail

Rows(idx) == {rel \in Rels : idx[rel] # None}

-------------------------------------------------------------------------------
(* smartlist_query with distinct_by_series.                                *)

(* Year, number and time of a row, which order the issues of a series.     *)
Issued(row) == <<Coalesce(row.year, 0), row.number, row.mtime>>

Precedes(s, t) ==
    \/ s[1] < t[1]
    \/ s[1] = t[1] /\ s[2] < t[2]
    \/ s[1] = t[1] /\ s[2] = t[2] /\ s[3] < t[3]

OneSeries(row, other) ==
    /\ row.series # None /\ row.series = other.series
    /\ Coalesce(row.volume, Blank) = Coalesce(other.volume, Blank)

(* The rows that compete are all files, inside the list or not.            *)
Dominated(idx, rel, mode) ==
    \E o \in Rows(idx) :
      /\ ~idx[o].dir /\ OneSeries(idx[rel], idx[o])
      /\ IF mode = "oldest" THEN Precedes(Issued(idx[o]), Issued(idx[rel]))
         ELSE Precedes(Issued(idx[rel]), Issued(idx[o]))

(* Mutant of Chosen: the tie-break on the time is forgotten.               *)
ChosenByNumber(idx, list, rel) ==
    LET Dated(o) == [idx[o] EXCEPT !.mtime = 0] IN
    \/ list.distinct = None \/ idx[rel].series \in {None, Blank}
    \/ ~Dominated([o \in Rels |-> IF idx[o] = None THEN None ELSE Dated(o)],
                  rel, list.distinct)

Chosen(idx, list, rel) ==
    \/ list.distinct = None \/ idx[rel].series \in {None, Blank}
    \/ ~Dominated(idx, rel, list.distinct)

FlatRows(idx, list) ==
    {rel \in Rows(idx) : Selected(list.groups, idx[rel], Chosen(idx, list, rel))}

(* smartlist_count knows nothing of distinct.                              *)
FlatCount(idx, list) ==
    Cardinality({rel \in Rows(idx) : Selected(list.groups, idx[rel], TRUE)})

-------------------------------------------------------------------------------
(* Virtual volume folders.                                                 *)
VolumeOf(row) == <<Coalesce(row.series, Blank), Coalesce(row.volume, Blank)>>

(* smartlist_volumes: the folders, and the number shown with each.         *)
Volumes(idx, list) ==
    {VolumeOf(idx[rel]) : rel \in
       {o \in Rows(idx) : Selected(list.groups, idx[o], TRUE)}}

VolumeCount(idx, list, v) ==
    Cardinality({rel \in Rows(idx) :
        Selected(list.groups, idx[rel], TRUE) /\ VolumeOf(idx[rel]) = v})

(* Mutant of InVolume: m.volume = ? without COALESCE.                      *)
InVolumeExactly(row, v) == <<Coalesce(row.series, Blank), row.volume>> = v

InVolume(row, v) == VolumeOf(row) = v

VolumeRows(idx, list, v) ==
    {rel \in Rows(idx) : Selected(list.groups, idx[rel], InVolume(idx[rel], v))}

-------------------------------------------------------------------------------
(* Search (words as prefixes, years as a disjunction) and folders.         *)
FoundRows(idx, words, years) ==
    {rel \in Rows(idx) :
       /\ ~idx[rel].dir
       /\ words \subseteq idx[rel].starts
       /\ years = {} \/ idx[rel].year \in years}

ChildrenOf(idx, parent) == {rel \in Rows(idx) : idx[rel].parent = parent}

-------------------------------------------------------------------------------
(* ORDER BY: folders first when browsing, the newest first, or by name.    *)
Before(idx, sort, a, b) ==
    CASE sort = "folders" /\ idx[a].dir # idx[b].dir -> idx[a].dir
      [] sort = "added_desc" /\ idx[a].mtime # idx[b].mtime
           -> idx[a].mtime > idx[b].mtime
      [] OTHER -> Rank[a] < Rank[b]

(* The place of rel among the rows, and the rows at their places.          *)
Place(idx, sort, rows, rel) ==
    Cardinality({o \in rows : Before(idx, sort, o, rel)}) + 1

InOrder(idx, sort, rows) ==
    [i \in 1..Cardinality(rows) |->
        CHOOSE rel \in rows : Place(idx, sort, rows, rel) = i]
===============================================================================
