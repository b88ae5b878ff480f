----------------------------- MODULE ResourceLease -----------------------------
(***************************************************************************)
(* What a pool promises: every resource has at most one user, and a user    *)
(* takes only what is free and gives back only what it has.                 *)
(***************************************************************************)
CONSTANTS Resources, Clients, Free

VARIABLE lessee   \* lessee[r]: the client that uses r, or Free

LInit == lessee = [r \in Resources |-> Free]

Lease(c, r) == lessee[r] = Free /\ lessee' = [lessee EXCEPT ![r] = c]

Return(c, r) == lessee[r] = c /\ lessee' = [lessee EXCEPT ![r] = Free]

LNext == \E c \in Clients, r \in Resources : Lease(c, r) \/ Return(c, r)

LSpec == LInit /\ [][LNext]_lessee
================================================================================
