----------------------------- MODULE MCPageCache ------------------------------
(***************************************************************************)
(* A book of two pages, and one that the owner may add beside it.  Pages   *)
(* are asked for from the front (0) and from the back (-1).                *)
(***************************************************************************)
EXTENDS PageCache, TLC

CONSTANTS b1, b2, v1, v2, cover, leaf

MCPagesOf == v1 :> <<cover, leaf>> @@ v2 :> <<leaf>>
MCMinPage == -1
MCFirstDisk == b1 :> v1 @@ b2 :> None
===============================================================================
