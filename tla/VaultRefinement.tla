--------------------------- MODULE VaultRefinement ---------------------------
(***************************************************************************)
(* The refinement mapping from the handlers of VaultService to the abstract *)
(* Vault.  A key change takes effect for the user when the user row is      *)
(* written; until its re-encryption has passed an account, that account is  *)
(* read with the old key, which the rotating handler still holds.  An       *)
(* account that a reply has named stays under the key it has.               *)
(***************************************************************************)
EXTENDS VaultService

\* The value that stands for "nothing" is no key and no question.
ASSUME NothingIsNone ==
  None \notin AnyKey \cup [user : Users, id : AccountIds, key : AnyKey]

\* The key that account i is readable with, to a reader who sees the rotation.
ReadingKey(i) ==
  LET u == account[i].owner
      behind == {t \in Threads : Rotating(t, u) /\ i \notin loc[t].ok}
  IN  IF i \in reported THEN account[i].key
      ELSE IF behind # {} THEN req[CHOOSE t \in behind : TRUE].old ELSE user[u].key

AnswerOf(t) ==
  IF pc[t] = "done" /\ req[t].op = "FetchPassword" /\ reply[t].success THEN reply[t].text ELSE None

AskedOf(t) ==
  IF pc[t] = "fetch" THEN [user |-> req[t].user, id |-> req[t].id, key |-> req[t].key] ELSE None

UserKeys == [u \in Users |-> IF user[u] = None THEN None ELSE user[u].key]
Owners == [i \in AccountIds |-> IF i \in Live THEN account[i].owner ELSE None]
Readable == [i \in AccountIds |-> IF i \in Live THEN Decrypt(account[i], ReadingKey(i)) ELSE None]
Changing == {u \in Users : \E t \in Threads : Rotating(t, u)}
Asked == [t \in Threads |-> AskedOf(t)]
Answers == [t \in Threads |-> AnswerOf(t)]

V == INSTANCE Vault WITH
       Keys <- AnyKey, Absent <- None, Excuses <- {NoPwd, NotFoundText},
       vkey <- UserKeys, vowner <- Owners, vpwd <- Readable, vleft <- reported,
       vchanging <- Changing, vask <- Asked, vanswer <- Answers

\* To their clients the handlers are the abstract vault: a key change changes
\* no password, and a fetch answers the password stored last, except for the
\* accounts that a reply of UpdateMainKey has named, and except that it may
\* answer garbage while the key changes.
ImplementsVault == V!VSpec
===============================================================================
