----------------------------- MODULE VaultService -----------------------------
(***************************************************************************)
(* The user and account RPC handlers of zinpassd, from the rows they read   *)
(* and write: system_user (hashed main key, user name) and account (owner,  *)
(* encrypted password).  Every SQL statement of a handler is one action: it *)
(* runs on its own connection in autocommit mode, no handler opens a        *)
(* transaction, and the gRPC server runs handlers on several threads, so    *)
(* between two statements of a handler other handlers run, or the process   *)
(* dies.                                                                    *)
(*                                                                          *)
(* Abstractions.  hashed_pwd and salt are always written together and       *)
(* compared by recomputing the digest, so the pair is the key itself.  A    *)
(* ciphertext is the pair of the key it was made with and its plaintext;    *)
(* AES-128-CTR is not authenticated, so decrypting with any other key       *)
(* succeeds and gives Garbage.  Sessions are modelled elsewhere: a request  *)
(* of user u stands for one that passed validate_session_and_get_user_id.   *)
(***************************************************************************)
EXTENDS Naturals, FiniteSets

CONSTANTS
  Users,          \* ids of system_user rows
  Names,          \* user names
  AccountIds,     \* ids of account rows; a UUID is never used twice
  Keys,           \* main keys a client may register
  EmptyKey,       \* the empty string, which a client may send as a key
  KeyInputs,      \* the keys requests carry: some of Keys, maybe EmptyKey
  Passwords,      \* account passwords
  NoPwd,          \* the empty string as a password
  Garbage,        \* what decrypting with a wrong key gives
  NotFoundText,   \* the text retrieve_decrypted_password puts in data
  Threads,        \* handler threads
  Calls,          \* Calls[t]: the RPCs thread t may be given, and for which user
  Failable,       \* the statements that may fail (SQLITE_BUSY, I/O, OpenSSL)
  CanCrash,       \* whether the process may die and be restarted
  MaxRotations,   \* bound: key changes per user, done or in progress
  Unborn,         \* no account row has had this id yet
  Deleted,        \* the account row with this id has been deleted
  None            \* "no row", "no request", "no value"

Statements == {"validate", "insert", "setPwd", "setInfo", "fetch", "decrypt",
               "delete", "chFind", "chUpdate", "list", "reRead", "reWrite",
               "usFind", "usUpdate"}

AllOps == {"CreateAccount", "ChangePassword", "UpdateAccount", "FetchPassword",
           "DeleteAccount", "UpdateMainKey", "UpdateUser"}

VARIABLES
  user,      \* user[u]: the system_user row of u, or None
  account,   \* account[i]: the account row of i, Unborn or Deleted
  pc,        \* pc[t]: the statement thread t executes next
  req,       \* req[t]: the request thread t handles, or None
  loc,       \* loc[t]: the handler's local variables
  reply,     \* reply[t]: the response, when pc[t] = "done"
  everKey,   \* history: every main key user u has had
  intended,  \* history: the password its user last stored in account i
  reported   \* history: the accounts some reply named in failed_ids and whose
             \* password no one has set again since

vars == <<user, account, pc, req, loc, reply, everKey, intended, reported>>
-------------------------------------------------------------------------------
AnyKey == Keys \cup {EmptyKey}
Texts == Passwords \cup {NoPwd, Garbage, NotFoundText}
UserRow == [key : AnyKey, name : Names]
AccountRow == [owner : Users, key : AnyKey, pwd : Texts]

Requests ==
       [op : {"CreateAccount"}, user : Users, key : KeyInputs, pwd : Passwords \cup {NoPwd}]
  \cup [op : {"ChangePassword", "UpdateAccount"}, user : Users, key : KeyInputs,
        id : AccountIds, pwd : Passwords \cup {NoPwd}]
  \cup [op : {"FetchPassword", "DeleteAccount"}, user : Users, key : KeyInputs, id : AccountIds]
  \cup [op : {"UpdateMainKey"}, user : Users, old : KeyInputs, new : KeyInputs]
  \cup [op : {"UpdateUser"}, user : Users, name : Names]

ASSUME ConstantsOK ==
  /\ EmptyKey \notin Keys
  /\ KeyInputs \subseteq AnyKey
  /\ Calls \in [Threads -> SUBSET (AllOps \X Users)]
  /\ Failable \subseteq Statements
  /\ CanCrash \in BOOLEAN
  /\ NoPwd \notin Passwords \cup {Garbage, NotFoundText}
  /\ None \notin UserRow \cup Requests \cup AccountIds \cup Users
  /\ Unborn # Deleted /\ {Unborn, Deleted} \cap AccountRow = {}

Locals == [row : UserRow \cup {None},      \* the SystemUser object read
           listed : SUBSET AccountIds,     \* id_list
           todo : SUBSET AccountIds,       \* what the loop has left of it
           cur : AccountIds \cup {None},   \* the id of the current iteration
           plain : Texts,                  \* its plaintext_pwd
           ok : SUBSET AccountIds,         \* counted in success_count
           failed : SUBSET AccountIds]     \* failed_list

NoLocals == [row |-> None, listed |-> {}, todo |-> {}, cur |-> None,
             plain |-> NoPwd, ok |-> {}, failed |-> {}]

Live == {i \in AccountIds : account[i] \notin {Unborn, Deleted}}
Owned(u) == {i \in Live : account[i].owner = u}
CanFail(s) == s \in Failable
NameTaken(n, u) == \E v \in Users \ {u} : user[v] # None /\ user[v].name = n

\* Mutated form of Decrypt: the wrong column is returned.
DecryptWrongColumn(a, k) == IF a.key = k THEN a.key ELSE Garbage

Decrypt(a, k) == IF a.key = k THEN a.pwd ELSE Garbage

\* Mutated form of KeyMatches: the digests are not compared.
KeyAlwaysMatches(row, k) == TRUE

\* digestPassword(key, row.salt) == row.hashed_pwd
KeyMatches(row, k) == row.key = k

\* Thread t leaves its handler with this response.
Respond(t, success, text) ==
  /\ pc' = [pc EXCEPT ![t] = "done"]
  /\ reply' = [reply EXCEPT ![t] = [success |-> success, text |-> text]]

Goto(t, label) == /\ pc' = [pc EXCEPT ![t] = label]
                  /\ UNCHANGED reply
-------------------------------------------------------------------------------
Init ==
  /\ user = [u \in Users |-> None]
  /\ account = [i \in AccountIds |-> Unborn]
  /\ pc = [t \in Threads |-> "idle"]
  /\ req = [t \in Threads |-> None]
  /\ loc = [t \in Threads |-> NoLocals]
  /\ reply = [t \in Threads |-> None]
  /\ everKey = [u \in Users |-> {}]
  /\ intended = [i \in AccountIds |-> NoPwd]
  /\ reported = {}

\* CreateUser is a single INSERT: it needs no thread.  A taken name or a key
\* of illegal length is refused and changes nothing.
CreateUser(u, n, k) ==
  /\ user[u] = None
  /\ ~NameTaken(n, u)
  /\ user' = [user EXCEPT ![u] = [key |-> k, name |-> n]]
  /\ everKey' = [everKey EXCEPT ![u] = {k}]
  /\ UNCHANGED <<account, pc, req, loc, reply, intended, reported>>

\* UUIDs that no pending CreateAccount will need: the bound AccountIds puts on
\* the number of accounts.
SpareIds == Cardinality({i \in AccountIds : account[i] = Unborn})
            > Cardinality({t \in Threads : req[t] # None /\ req[t].op = "CreateAccount"})

MayRotate(u) ==
  LET changing == {t \in Threads : req[t] # None /\ req[t].op = "UpdateMainKey" /\ req[t].user = u}
  IN  Cardinality(everKey[u]) + Cardinality(changing) <= MaxRotations

\* A call is accepted: thread t handles request r, starting at this statement.
Accept(t, r, label) ==
  /\ pc[t] = "idle"
  /\ <<r.op, r.user>> \in Calls[t] /\ user[r.user] # None
  /\ req' = [req EXCEPT ![t] = r]
  /\ Goto(t, label)
  /\ UNCHANGED <<user, account, loc, everKey, intended, reported>>

CallCreateAccount(t, r) ==
  r.op = "CreateAccount" /\ SpareIds /\ Accept(t, r, "validate")

\* ChangePassword refuses an empty password at once.
CallChangePassword(t, r) ==
  /\ r.op = "ChangePassword"
  /\ \/ r.pwd # NoPwd /\ Accept(t, r, "validate")
     \/ /\ r.pwd = NoPwd
        /\ pc[t] = "idle" /\ <<r.op, r.user>> \in Calls[t] /\ user[r.user] # None
        /\ req' = [req EXCEPT ![t] = r]
        /\ Respond(t, FALSE, NoPwd)
        /\ UNCHANGED <<user, account, loc, everKey, intended, reported>>

\* UpdateAccount with an empty password changes the other columns only, and
\* does not ask for the main key.
CallUpdateAccount(t, r) ==
  /\ r.op = "UpdateAccount"
  /\ Accept(t, r, IF r.pwd = NoPwd THEN "setInfo" ELSE "validate")

CallFetchPassword(t, r) == r.op = "FetchPassword" /\ Accept(t, r, "validate")

CallDeleteAccount(t, r) == r.op = "DeleteAccount" /\ Accept(t, r, "validate")

CallUpdateMainKey(t, r) ==
  r.op = "UpdateMainKey" /\ MayRotate(r.user) /\ Accept(t, r, "chFind")

CallUpdateUser(t, r) == r.op = "UpdateUser" /\ Accept(t, r, "usFind")

Receive(t, r) ==
  \/ CallCreateAccount(t, r) \/ CallChangePassword(t, r) \/ CallUpdateAccount(t, r)
  \/ CallFetchPassword(t, r) \/ CallDeleteAccount(t, r)
  \/ CallUpdateMainKey(t, r) \/ CallUpdateUser(t, r)

AfterValidate(op) ==
  CASE op = "CreateAccount" -> "insert"
    [] op \in {"ChangePassword", "UpdateAccount"} -> "setPwd"
    [] op = "FetchPassword" -> "fetch"
    [] op = "DeleteAccount" -> "delete"

\* validate_user_by_id: one SELECT, then the digests are compared.  The
\* handler goes on with the key of the request, not with the row.
Validate(t) ==
  /\ pc[t] = "validate"
  /\ \/ /\ KeyMatches(user[req[t].user], req[t].key)
        /\ Goto(t, AfterValidate(req[t].op))
     \/ /\ CanFail("validate") \/ ~KeyMatches(user[req[t].user], req[t].key)
        /\ Respond(t, FALSE, NoPwd)
  /\ UNCHANGED <<user, account, req, loc, everKey, intended, reported>>

\* INSERT INTO account: the table with a new row i.
RowInserted(i, u, k, p) == [account EXCEPT ![i] = [owner |-> u, key |-> k, pwd |-> p]]

\* add_view_account: an empty password is refused, then one INSERT.
InsertAccount(t) ==
  /\ pc[t] = "insert"
  /\ LET r == req[t] IN
       \/ /\ r.pwd # NoPwd
          /\ \E i \in AccountIds :
               /\ account[i] = Unborn
               /\ account' = RowInserted(i, r.user, r.key, r.pwd)
               /\ intended' = [intended EXCEPT ![i] = r.pwd]
          /\ Respond(t, TRUE, NoPwd)
       \/ /\ r.pwd = NoPwd \/ CanFail("insert")
          /\ Respond(t, FALSE, NoPwd)
          /\ UNCHANGED <<account, intended>>
  /\ UNCHANGED <<user, req, loc, everKey, reported>>

\* The row with its ciphertext and initialisation vector replaced by those of
\* p under k.
Encrypted(row, k, p) == [row EXCEPT !.key = k, !.pwd = p]

\* Mutated form of PwdUpdated: the row keeps the initialisation vector and key
\* of its old ciphertext.
PwdUpdatedTextOnly(i, u, k, p) ==
  [account EXCEPT ![i] = IF i \in Owned(u) THEN [@ EXCEPT !.pwd = p] ELSE @]

\* UPDATE account SET encrypted_pwd, iv WHERE id = i AND sys_user_id = u: the
\* account table afterwards.  No matching row is no error.
PwdUpdated(i, u, k, p) ==
  [account EXCEPT ![i] = IF i \in Owned(u) THEN Encrypted(@, k, p) ELSE @]

\* update_account_password, called by ChangePassword and UpdateAccount.
SetPassword(t) ==
  /\ pc[t] = "setPwd"
  /\ LET r == req[t] IN
       \/ /\ r.key # EmptyKey
          /\ account' = PwdUpdated(r.id, r.user, r.key, r.pwd)
          /\ intended' = [intended EXCEPT ![r.id] =
                            IF r.id \in Owned(r.user) THEN r.pwd ELSE @]
          /\ reported' = reported \ ({r.id} \cap Owned(r.user))
          /\ IF r.op = "ChangePassword" THEN Respond(t, TRUE, NoPwd) ELSE Goto(t, "setInfo")
       \/ /\ r.key = EmptyKey \/ CanFail("setPwd")
          /\ Respond(t, FALSE, NoPwd)
          /\ UNCHANGED <<account, intended, reported>>
  /\ UNCHANGED <<user, req, loc, everKey>>

\* update_account_base_info: the columns it writes are not part of this model.
SetInfo(t) ==
  /\ pc[t] = "setInfo"
  /\ \/ Respond(t, TRUE, NoPwd)
     \/ CanFail("setInfo") /\ Respond(t, FALSE, NoPwd)
  /\ UNCHANGED <<user, account, req, loc, everKey, intended, reported>>

\* Mutated form of Retrieved: a failed decryption gives a text too.
RetrievedTextOnFailure(u, i, k) ==
  IF i \in Owned(u)
    THEN {Decrypt(account[i], k)} \cup (IF CanFail("decrypt") THEN {NotFoundText} ELSE {})
    ELSE {NotFoundText}

\* retrieve_decrypted_password: the SELECT may fail or find nothing, and both
\* leave ciphertext empty, so that data becomes the text of the message.
Retrieved(u, i, k) ==
  IF i \in Owned(u)
    THEN {Decrypt(account[i], k)} \cup (IF CanFail("decrypt") THEN {NoPwd} ELSE {})
    ELSE {NotFoundText}

FetchPassword(t) ==
  /\ pc[t] = "fetch"
  /\ \E p \in Retrieved(req[t].user, req[t].id, req[t].key)
                \cup (IF CanFail("fetch") THEN {NotFoundText} ELSE {}) :
       Respond(t, TRUE, p)
  /\ UNCHANGED <<user, account, req, loc, everKey, intended, reported>>

\* DELETE FROM account WHERE id = i: no matching row is no error.
RowDeleted(i) == [account EXCEPT ![i] = IF i \in Live THEN Deleted ELSE @]

DeleteAccount(t) ==
  /\ pc[t] = "delete"
  /\ \/ /\ account' = RowDeleted(req[t].id)
        /\ Respond(t, TRUE, NoPwd)
     \/ /\ CanFail("delete")
        /\ Respond(t, FALSE, NoPwd)
        /\ UNCHANGED account
  /\ UNCHANGED <<user, req, loc, everKey, intended, reported>>
-------------------------------------------------------------------------------
\* UpdateMainKey: change_passwd (a SELECT of the user row, an UPDATE of the
\* whole row), then re_encrypt_password_all (a SELECT of the ids, and for each
\* id a SELECT and an UPDATE).

ChangeFind(t) ==
  /\ pc[t] = "chFind"
  /\ \/ /\ KeyMatches(user[req[t].user], req[t].old)
        /\ loc' = [loc EXCEPT ![t].row = user[req[t].user]]
        /\ Goto(t, "chUpdate")
     \/ /\ CanFail("chFind") \/ ~KeyMatches(user[req[t].user], req[t].old)
        /\ Respond(t, FALSE, NoPwd)
        /\ UNCHANGED loc
  /\ UNCHANGED <<user, account, req, everKey, intended, reported>>

\* The row written is the one read before, under the new key; user names are
\* UNIQUE.
ChangeUpdate(t) ==
  /\ pc[t] = "chUpdate"
  /\ LET u == req[t].user
         row == [loc[t].row EXCEPT !.key = req[t].new]
     IN  \/ /\ ~NameTaken(row.name, u)
            /\ user' = [user EXCEPT ![u] = row]
            /\ everKey' = [everKey EXCEPT ![u] = @ \cup {row.key}]
            /\ Goto(t, "list")
         \/ /\ CanFail("chUpdate") \/ NameTaken(row.name, u)
            /\ Respond(t, FALSE, NoPwd)
            /\ UNCHANGED <<user, everKey>>
  /\ UNCHANGED <<account, req, loc, intended, reported>>

\* re_encrypt_password_all does nothing when a key is empty; a step of the
\* SELECT that fails ends the list early.
ListIds(t) ==
  /\ pc[t] = "list"
  /\ LET mine == Owned(req[t].user)
         refused == EmptyKey \in {req[t].old, req[t].new}
     IN  \E ids \in IF refused THEN {{}} ELSE IF CanFail("list") THEN SUBSET mine ELSE {mine} :
           loc' = [loc EXCEPT ![t].listed = ids, ![t].todo = ids]
  /\ Goto(t, "reRead")
  /\ UNCHANGED <<user, account, req, everKey, intended, reported>>

\* Mutated form of ReRead: the continue after a failed decryption is missing.
ReReadNoContinue(t) ==
  /\ pc[t] = "reRead"
  /\ \E i \in loc[t].todo : \E p \in Retrieved(req[t].user, i, req[t].old) :
       loc' = [loc EXCEPT ![t].cur = i, ![t].plain = p,
                          ![t].failed = IF p = NoPwd THEN @ \cup {i} ELSE @]
  /\ Goto(t, "reWrite")
  /\ UNCHANGED <<user, account, req, everKey, intended, reported>>

\* Mutated form of ReRead: the two keys are swapped in the call.
ReReadWithNewKey(t) ==
  /\ pc[t] = "reRead"
  /\ \E i \in loc[t].todo : \E p \in Retrieved(req[t].user, i, req[t].new) :
       loc' = [loc EXCEPT ![t].cur = i, ![t].plain = p]
  /\ Goto(t, "reWrite")
  /\ UNCHANGED <<user, account, req, everKey, intended, reported>>

\* 2.1: retrieve_decrypted_password with the old key.  Only an empty plaintext
\* counts as a failure; a failed or empty SELECT gives a text, which is not.
ReRead(t) ==
  /\ pc[t] = "reRead"
  /\ \E i \in loc[t].todo :
       \E p \in Retrieved(req[t].user, i, req[t].old)
                  \cup (IF CanFail("reRead") THEN {NotFoundText} ELSE {}) :
         IF p = NoPwd
           THEN /\ loc' = [loc EXCEPT ![t].todo = @ \ {i}, ![t].failed = @ \cup {i}]
                /\ Goto(t, "reRead")
           ELSE /\ loc' = [loc EXCEPT ![t].cur = i, ![t].plain = p]
                /\ Goto(t, "reWrite")
  /\ UNCHANGED <<user, account, req, everKey, intended, reported>>

\* Mutated form of ReWrite: ret_update is not looked at.
ReWriteUnchecked(t) ==
  /\ pc[t] = "reWrite"
  /\ LET i == loc[t].cur
     IN  loc' = [loc EXCEPT ![t] = [@ EXCEPT !.todo = @ \ {i}, !.cur = None,
                                             !.plain = NoPwd, !.ok = @ \cup {i}]]
  /\ \/ account' = PwdUpdated(loc[t].cur, req[t].user, req[t].new, loc[t].plain)
     \/ CanFail("reWrite") /\ UNCHANGED account
  /\ Goto(t, "reRead")
  /\ UNCHANGED <<user, req, everKey, intended, reported>>

\* 2.2: update_account_password with the new key.  An UPDATE that matches no
\* row is a success.
ReWrite(t) ==
  /\ pc[t] = "reWrite"
  /\ LET i == loc[t].cur
         next == [loc[t] EXCEPT !.todo = @ \ {i}, !.cur = None, !.plain = NoPwd]
     IN  \/ /\ account' = PwdUpdated(i, req[t].user, req[t].new, loc[t].plain)
            /\ loc' = [loc EXCEPT ![t] = [next EXCEPT !.ok = @ \cup {i}]]
         \/ /\ CanFail("reWrite")
            /\ loc' = [loc EXCEPT ![t] = [next EXCEPT !.failed = @ \cup {i}]]
            /\ UNCHANGED account
  /\ Goto(t, "reRead")
  /\ UNCHANGED <<user, req, everKey, intended, reported>>

RotateReply(t) ==
  /\ pc[t] = "reRead" /\ loc[t].todo = {}
  /\ Respond(t, TRUE, NoPwd)
  /\ reported' = reported \cup loc[t].failed
  /\ UNCHANGED <<user, account, req, loc, everKey, intended>>
-------------------------------------------------------------------------------
\* UpdateUser: a SELECT of the user row, an UPDATE of the whole row.

UserFind(t) ==
  /\ pc[t] = "usFind"
  /\ \/ /\ loc' = [loc EXCEPT ![t].row = user[req[t].user]]
        /\ Goto(t, "usUpdate")
     \/ /\ CanFail("usFind")
        /\ Respond(t, FALSE, NoPwd)
        /\ UNCHANGED loc
  /\ UNCHANGED <<user, account, req, everKey, intended, reported>>

UserUpdate(t) ==
  /\ pc[t] = "usUpdate"
  /\ LET u == req[t].user
         row == [loc[t].row EXCEPT !.name = req[t].name]
     IN  \/ /\ ~NameTaken(row.name, u)
            /\ user' = [user EXCEPT ![u] = row]
            /\ Respond(t, TRUE, NoPwd)
         \/ /\ CanFail("usUpdate") \/ NameTaken(row.name, u)
            /\ Respond(t, FALSE, NoPwd)
            /\ UNCHANGED user
  /\ UNCHANGED <<account, req, loc, everKey, intended, reported>>

\* The client has the response; the handler's locals are gone.
Return(t) ==
  /\ pc[t] = "done"
  /\ pc' = [pc EXCEPT ![t] = "idle"]
  /\ req' = [req EXCEPT ![t] = None]
  /\ loc' = [loc EXCEPT ![t] = NoLocals]
  /\ reply' = [reply EXCEPT ![t] = None]
  /\ UNCHANGED <<user, account, everKey, intended, reported>>

\* The process dies and is started again: the database is all that is left.
Crash ==
  /\ CanCrash
  /\ \E t \in Threads : pc[t] # "idle"
  /\ pc' = [t \in Threads |-> "idle"]
  /\ req' = [t \in Threads |-> None]
  /\ loc' = [t \in Threads |-> NoLocals]
  /\ reply' = [t \in Threads |-> None]
  /\ UNCHANGED <<user, account, everKey, intended, reported>>

Step(t) == \/ Validate(t) \/ InsertAccount(t) \/ SetPassword(t) \/ SetInfo(t)
           \/ FetchPassword(t) \/ DeleteAccount(t)
           \/ ChangeFind(t) \/ ChangeUpdate(t) \/ ListIds(t)
           \/ ReRead(t) \/ ReWrite(t) \/ RotateReply(t)
           \/ UserFind(t) \/ UserUpdate(t)
           \/ Return(t)

Next == \/ \E u \in Users, n \in Names, k \in Keys : CreateUser(u, n, k)
        \/ \E t \in Threads, r \in Requests : Receive(t, r)
        \/ \E t \in Threads : Step(t)
        \/ Crash

Spec == Init /\ [][Next]_vars

\* gRPC gives every accepted call a thread, and the scheduler runs them all.
FairSpec == Spec /\ \A t \in Threads : WF_vars(Step(t))
-------------------------------------------------------------------------------
\* Every variable keeps the shape its column or local variable has in the code.
TypeOK ==
  /\ user \in [Users -> UserRow \cup {None}]
  /\ account \in [AccountIds -> AccountRow \cup {Unborn, Deleted}]
  /\ pc \in [Threads -> (Statements \ {"decrypt"}) \cup {"idle", "done"}]
  /\ req \in [Threads -> Requests \cup {None}]
  /\ loc \in [Threads -> Locals]
  /\ reply \in [Threads -> [success : BOOLEAN, text : Texts] \cup {None}]
  /\ everKey \in [Users -> SUBSET AnyKey]
  /\ intended \in [AccountIds -> Passwords \cup {NoPwd}]
  /\ reported \in SUBSET AccountIds

\* Whatever handlers overlap, fail or are cut off by a crash, no ciphertext is
\* ever made with a key that was not once the verified main key of the owner:
\* validate_user_by_id and change_passwd come before every encryption.
KeyProvenance ==
  \A i \in Live : account[i].key \in everKey[account[i].owner]

\* The reply of UpdateMainKey accounts for every id of its id_list exactly
\* once, as a success or in failed_ids, in every interleaving.
ReplyAccounting ==
  \A t \in Threads : pc[t] = "done" =>
    /\ loc[t].ok \cup loc[t].failed = loc[t].listed
    /\ loc[t].ok \cap loc[t].failed = {}

\* A stored password differs from the one its user stored last only if a reply
\* of UpdateMainKey named the account in failed_ids (re_encrypt_password_all).
LossOnlyAfterReport ==
  \A i \in Live : account[i].pwd # intended[i] => i \in reported

Rotating(t, u) == pc[t] \in {"list", "reRead", "reWrite"} /\ req[t].user = u

\* An account is under another key than its owner's only while the rotation
\* that changed the key has yet to reach it, or after that rotation reported
\* it: the two phases of UpdateMainKey leave nothing behind in silence.
StaleOnlyIfReported ==
  \A i \in Live : account[i].key # user[account[i].owner].key =>
    \/ i \in reported
    \/ \E t \in Threads : Rotating(t, account[i].owner) /\ i \notin loc[t].ok

\* The key that thread t checked is no longer the whole truth: a key change of
\* its user goes on, or the row has been written since.
Overtaken(t) ==
  \/ req[t].key # user[req[t].user].key
  \/ \E s \in Threads : Rotating(s, req[t].user)

\* FetchPassword answers the owner of an account what was stored last, or a
\* text for what could not be read or decrypted.  It answers garbage only if a
\* key change of the same user overlaps it: the handler keeps the key of its
\* request, which validate_user_by_id compared one statement earlier.
FetchExact ==
  [][\A t \in Threads :
       (pc[t] = "fetch" /\ pc'[t] = "done" /\ req[t].id \in Owned(req[t].user) \ reported) =>
         \/ reply'[t].text \in {intended[req[t].id], NoPwd, NotFoundText}
         \/ reply'[t].text = Garbage /\ Overtaken(t)]_vars

\* The main key of a user changes only from the old_key to the new_key of an
\* UpdateMainKey of that user, never as a side effect of another write of the
\* row (change_passwd and update_user_by_id both write all of it).
KeyChangeVerified ==
  [][\A u \in Users : (user[u] # None /\ user'[u].key # user[u].key) =>
       \E t \in Threads : /\ req[t] # None /\ req[t].op = "UpdateMainKey"
                          /\ req[t].user = u /\ pc[t] = "chUpdate"
                          /\ req[t].old = user[u].key /\ req[t].new = user'[u].key]_vars

\* What is left of that when handlers of one user overlap in any way: the key
\* becomes the new_key of an UpdateMainKey whose caller has shown a key that the
\* user has had, or goes back to a key the user has had, by the write of an
\* UpdateUser that read the row before the key changed.  A key that was never
\* verified and stored is never in force.
KeysOnlyReturn ==
  [][\A u \in Users : (user[u] # None /\ user'[u].key # user[u].key) =>
       \E t \in Threads :
         /\ req[t] # None /\ req[t].user = u
         /\ \/ /\ pc[t] = "chUpdate" /\ req[t].old \in everKey[u] /\ req[t].new = user'[u].key
            \/ /\ pc[t] = "usUpdate" /\ loc[t].row.key = user'[u].key /\ user'[u].key \in everKey[u]]_vars

\* One key change destroys no password, wherever it is cut off, whichever of
\* its writes fail, and whichever deletions and renames overlap with it: the
\* plaintext is still stored, under a key its owner has had.  (What may not
\* overlap with it are the handlers that write ciphertexts of the user.)
PasswordIntact ==
  \A i \in Live : /\ account[i].pwd = intended[i]
                  /\ account[i].key \in everKey[account[i].owner]
===============================================================================
