------------------------------- MODULE MCThumbs -------------------------------
(***************************************************************************)
(* Two books, a sound one of an issue whose characters are all unsafe, and *)
(* a damaged one: after one change both may be damaged, or of such issues, *)
(* or of issues written alike ("15" and "1.5").  A pass of a scan, in the  *)
(* server or in the cron process, the administrator's, each with a pool of *)
(* one thread, and a cover request.                                        *)
(***************************************************************************)
EXTENDS Thumbs, TLC

CONSTANTS b1, b2, plain, dotted, odd, jpg, scan, admin, w1, w2, w3

MCSafe == plain :> jpg @@ dotted :> jpg @@ odd :> Empty
MCPoolOf == w1 :> scan @@ w2 :> admin @@ w3 :> None

Book(file, issue) == [file |-> file, issue |-> issue]
MCFilesOf == b1 :> {"good", "bad"} @@ b2 :> {"bad", "absent"}
MCIssuesOf == b1 :> {plain} @@ b2 :> {odd}
MCFirstShelves == {b1 :> Book("good", odd) @@ b2 :> Book("bad", dotted)}
===============================================================================
