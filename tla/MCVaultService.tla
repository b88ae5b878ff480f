---------------------------- MODULE MCVaultService ----------------------------
(***************************************************************************)
(* Values for the constants of VaultService.                                *)
(***************************************************************************)
EXTENDS VaultRefinement, TLC

CONSTANTS u1, u2, n1, n2, a1, a2, k0, k1, k2, p1, p2, t1, t2

SymAccountsPwds == Permutations({a1, a2}) \cup Permutations({p1, p2})
SymAccounts == Permutations({a1, a2})

\* The statements of a key change that leave an account behind, the read of a
\* fetch, and the second statement of UpdateAccount.
FailInRotation == {"reWrite", "decrypt", "fetch", "setInfo"}
\* Everything but reading a ciphertext may fail.
FailNoPwdReads == Statements \ {"fetch", "reRead"}

For(ops, us) == ops \X us
\* One caller does everything; another deletes and renames meanwhile.
CallsOneWriter ==
  [t \in Threads |-> For(IF t = t1 THEN AllOps ELSE {"DeleteAccount", "UpdateUser"}, Users)]
\* Two users: one changes the key, the other works meanwhile, and the
\* passwords of the first are fetched.
CallsTwoUsers ==
  [t \in Threads |->
     IF t = t1
     THEN For({"CreateAccount", "ChangePassword", "UpdateAccount", "UpdateMainKey"}, {u1})
     ELSE For({"CreateAccount", "DeleteAccount"}, {u2}) \cup {<<"FetchPassword", u1>>}]
CallsRotateCreate ==
  [t \in Threads |-> For(IF t = t1 THEN {"UpdateMainKey"} ELSE {"CreateAccount"}, Users)]
CallsRotateRename ==
  [t \in Threads |-> For(IF t = t1 THEN {"UpdateMainKey"} ELSE {"UpdateUser"}, Users)]
===============================================================================
