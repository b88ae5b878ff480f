---------------------------- MODULE LeaseRefinement ----------------------------
(***************************************************************************)
(* The refinement mapping from the connection pool to exclusive leases: a   *)
(* connection is leased from the critical section of get_connection that    *)
(* pops it to the one of release_connection that pushes it, also while add  *)
(* has handed the conn variable to generate_id.                             *)
(***************************************************************************)
EXTENDS ConnectionPool

CONSTANT Free   \* the lessee of a connection nobody uses

ASSUME LeaseAssumption == Free \notin Threads

Holders(c) == {t \in Threads : Holds(t, c)}

LesseeAmong(T) == IF T = {} THEN Free ELSE CHOOSE t \in T : TRUE

Leases == INSTANCE ResourceLease WITH
            Resources <- Conns, Clients <- Threads,
            lessee <- [c \in Conns |-> LesseeAmong(Holders(c))]

\* The pool hands out leases: every connection has one user at a time, a
\* caller is given only what is free and puts back only what it was given.
ImplementsLeases == Leases!LSpec
===============================================================================
