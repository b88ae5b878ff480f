------------------------------- MODULE MCPhones -------------------------------
(***************************************************************************)
(* Values for the constants of Phones.                                      *)
(***************************************************************************)
EXTENDS Phones, TLC

CONSTANTS u1, u2, n1, n2, a1, t1, t2

\* The ids that are generated, and the one that add uses when none is.
IdsOrBad == {1, 2, -1}

SymPhones == Permutations({u1, u2}) \cup Permutations({t1, t2})
===============================================================================
