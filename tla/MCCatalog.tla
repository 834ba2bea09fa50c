------------------------------ MODULE MCCatalog -------------------------------
(***************************************************************************)
(* Four paths, pages of two rows; lists with one and with two groups,      *)
(* limits, distinct both ways; all four kinds of feed.                     *)
(***************************************************************************)
EXTENDS Catalog, TLC

CONSTANTS f1, f2, f3, f4, s, t, u, tu, odd, and, vol, home

MCRanking == <<f1, f2, f3, f4>>

File(series, volume, year, mtime, inside, starts) ==
    [dir |-> FALSE, parent |-> home, series |-> series, volume |-> volume,
     year |-> year, number |-> 1, mtime |-> mtime, inside |-> inside,
     starts |-> starts, summary |-> IF year = 2 THEN {t} ELSE None]

(* tu is a text of two words, odd one that the tokens leave nothing of,    *)
(* and "and" one that FTS5 takes for its operator.                         *)
MCTokensOf == t :> {t} @@ u :> {u} @@ tu :> {t, u} @@ odd :> {} @@ and :> {and}

Old == File(s, vol, 1, 1, {t}, {t})
Late == File(s, vol, 1, 2, {t, u, tu}, {t, u})
NoVolume == File(s, None, 2, 1, {odd}, {})
NoSeries == File(Blank, None, None, 1, {t}, {})
Folder == [File(None, None, None, 2, {t}, {}) EXCEPT !.dir = TRUE]

MCRowChoices == {Old, Late, NoVolume, NoSeries, Folder}
Index(a, b, c, d) == f1 :> a @@ f2 :> b @@ f3 :> c @@ f4 :> d
MCFirstIndexes == {Index(Folder, Old, NoSeries, Late)}

Named(term) == [field |-> "name", op |-> "contains", value |-> term, not |-> FALSE]
NotNamed(term) == [Named(term) EXCEPT !.not = TRUE]
Series(not) == [field |-> "series", op |-> "equals", value |-> s, not |-> not]
Since(year) == [field |-> "year", op |-> ">=", value |-> year, not |-> FALSE]
About == [Named(t) EXCEPT !.field = "summary"]
Cased(term) == [Named(term) EXCEPT !.field = "Name"]

List(groups, sort, limit, distinct) ==
    [groups |-> groups, sort |-> sort, limit |-> limit, distinct |-> distinct]

MCLists == {List(<<{Named(t)}>>, "added_desc", 1, "latest"),
            List(<<{NotNamed(t), Series(FALSE)}, {}>>, "name", 0, None),
            List(<<{Cased(u), Since(1)}>>, "name", 3, "oldest"),
            List(<<{Since(Invalid)}, {Named(t)}, {Since(2)}>>, "name", -1, None),
            List(<<{About, Series(FALSE)}, {Named(tu)}, {Named(odd), Named(t)}>>,
                 "name", 0, None),
            List(<<{Named(and)}>>, "name", Invalid, None)}

(* The same with a distinct list of two groups.                            *)
MCListsTorn == MCLists \cup {List(<<{Since(1)}, {Named(t)}>>, "name", 0, "latest")}

Feed == [kind |-> "flat", volume |-> <<Blank, Blank>>, parent |-> home,
         words |-> {}, years |-> {}]
MCFeeds == {Feed, [Feed EXCEPT !.kind = "volume", !.volume = <<s, vol>>],
            [Feed EXCEPT !.kind = "browse"],
            [Feed EXCEPT !.kind = "search", !.words = {t}, !.years = {1}]}
===============================================================================
