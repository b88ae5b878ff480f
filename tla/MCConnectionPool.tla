--------------------------- MODULE MCConnectionPool ---------------------------
(***************************************************************************)
(* Values for the constants of ConnectionPool and LeaseRefinement.          *)
(***************************************************************************)
EXTENDS LeaseRefinement, TLC

CONSTANTS c1, c2, c3, t1, t2, t3, t4
===============================================================================
