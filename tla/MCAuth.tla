-------------------------------- MODULE MCAuth --------------------------------
(***************************************************************************)
(* Two threads, one client address, the master and one more user.          *)
(***************************************************************************)
EXTENDS Auth, TLC

CONSTANTS w1, w2, m, u, p, q
===============================================================================
