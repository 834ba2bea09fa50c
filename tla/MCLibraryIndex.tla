---------------------------- MODULE MCLibraryIndex ----------------------------
(***************************************************************************)
(* Small libraries and casts of jobs for TLC.                              *)
(***************************************************************************)
EXTENDS LibraryIndex, TLC

CONSTANTS f1, f2, A,       \* two files and a directory
          i1, i2,          \* two ComicInfos
          s1, s2, c1, r1, t1, t2, p1

(* f1 lies in directory A, f2 (where there is one) in the root.            *)
MCParent == [p \in Paths |-> IF p = f1 /\ A \in Dirs THEN A ELSE Root]

(* Version 2 has a ComicInfo.xml but no readable page yet, 3 has pages but *)
(* no ComicInfo.xml.                                                       *)
MCInfo  == [v \in Versions |-> CASE v = 1 -> i1 [] v = 2 -> i2 [] v = 3 -> None]
MCPages == [v \in Versions |-> CASE v = 1 -> 2 [] v = 2 -> 0 [] v = 3 -> 1]
===============================================================================
