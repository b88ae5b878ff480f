------------------------- MODULE VaultRefinementProofs -------------------------
(***************************************************************************)
(* The handlers of VaultService implement Vault, and with it no password is *)
(* lost and none is left behind in silence, for any number of users, keys,  *)
(* accounts and threads, when a key change overlaps no other handler that   *)
(* writes for the same user; fetches and deletions may overlap it.  The     *)
(* violation runs show that this condition is needed.  The last section     *)
(* proves that a single key change destroys nothing wherever a crash cuts   *)
(* it off, and whichever renames overlap it as well.                        *)
(***************************************************************************)
EXTENDS VaultRefinement, VaultServiceProofs, FiniteSetTheorems

\* The operations that write the ciphertexts of a user, and those that write
\* ciphertexts or the user row.
PwdWriters == {"CreateAccount", "ChangePassword", "UpdateAccount", "UpdateMainKey"}
Writers == PwdWriters \cup {"UpdateUser"}

\* A key change overlaps none of these operations of the same user.  All other
\* calls overlap in any way.
ChangesAlone(ops) ==
  \A u \in Users, s, t \in Threads, op \in ops :
    <<"UpdateMainKey", u>> \in Calls[s] /\ <<op, u>> \in Calls[t] => s = t

KeyChangesAlone == ChangesAlone(Writers)

\* A rotation reaches its reply, and has read every id and every ciphertext;
\* the statements that decrypt and write may fail.
RotationCompletes ==
  ~CanCrash /\ KeyInputs \subseteq Keys /\ Failable \cap {"list", "reRead"} = {}

\* Thread t handles a key change.
Changer(t) == pc[t] # "idle" /\ req[t].op = "UpdateMainKey"

Assigned == \A t \in Threads : pc[t] # "idle" => <<req[t].op, req[t].user>> \in Calls[t]

\* The key that thread t has read or compared is still there when it writes.
CurrentKey(t) ==
  LET u == req[t].user
  IN  /\ pc[t] \in {"insert", "setPwd"} => req[t].key = user[u].key
      /\ pc[t] = "chUpdate" => req[t].old = user[u].key
      /\ pc[t] = "usUpdate" => loc[t].row.key = user[u].key
      /\ pc[t] \in {"list", "reRead", "reWrite"} => req[t].new = user[u].key
      /\ pc[t] = "setPwd" => req[t].pwd # NoPwd
      /\ pc[t] = "validate" /\ req[t].op \in {"ChangePassword", "UpdateAccount"} => req[t].pwd # NoPwd

\* The accounts whose password nobody has been told to set again.
Kept(u) == Owned(u) \ reported

Contained == \A i \in Live : account[i].pwd \in Passwords \cup {Garbage}

\* A listed account may be deleted, but never becomes one of another user.
ListedInv(t) ==
  \A i \in loc[t].listed : account[i] # Unborn /\ (i \in Live => account[i].owner = req[t].user)

\* The rotation of thread t has re-encrypted the accounts it counts as a
\* success, no other, and has listed all of them.
RotationInv(t) ==
  pc[t] \in {"list", "reRead", "reWrite"} =>
    /\ \A i \in Kept(req[t].user) \ loc[t].ok : account[i].key = req[t].old
    /\ pc[t] # "list" => Kept(req[t].user) \subseteq loc[t].listed
    /\ pc[t] = "reWrite" /\ loc[t].cur \in Owned(req[t].user) =>
         /\ loc[t].plain \in Passwords \cup {Garbage}
         /\ loc[t].cur \notin reported => loc[t].plain = intended[loc[t].cur]

\* Any other account is under the key of its owner.
SettledInv ==
  \A i \in Live \ reported :
    \/ account[i].key = user[account[i].owner].key
    \/ \E t \in Threads : Rotating(t, account[i].owner) /\ i \notin loc[t].ok

SerialInv == /\ Assigned /\ Contained /\ LossOnlyAfterReport /\ SettledInv
             /\ \A t \in Threads : CurrentKey(t) /\ ListedInv(t) /\ RotationInv(t)
-------------------------------------------------------------------------------
\* What a statement of thread t may do to one account.

Untouched(i) == /\ account'[i] = account[i] /\ intended'[i] = intended[i]
                /\ i \in reported' <=> i \in reported

Inserted(t, i) ==
  /\ pc[t] = "insert" /\ req[t].pwd # NoPwd /\ account[i] = Unborn
  /\ account'[i] = [owner |-> req[t].user, key |-> req[t].key, pwd |-> req[t].pwd]
  /\ intended'[i] = req[t].pwd
  /\ i \in reported' <=> i \in reported

PasswordSet(t, i) ==
  /\ pc[t] = "setPwd" /\ i \in Owned(req[t].user)
  /\ account'[i] = Encrypted(account[i], req[t].key, req[t].pwd)
  /\ intended'[i] = req[t].pwd
  /\ i \notin reported'

Removed(t, i) == /\ pc[t] = "delete" /\ i \in Live /\ account'[i] = Deleted
                 /\ i \in reported' <=> i \in reported

Reencrypted(t, i) ==
  /\ pc[t] = "reWrite" /\ i = loc[t].cur /\ i \in Owned(req[t].user)
  /\ account'[i] = Encrypted(account[i], req[t].new, loc[t].plain)
  /\ i \in loc'[t].ok /\ intended'[i] = intended[i]
  /\ i \in reported' <=> i \in reported

Named(t, i) ==
  /\ pc[t] = "reRead" /\ loc[t].todo = {} /\ i \in loc[t].failed /\ pc'[t] = "done"
  /\ account'[i] = account[i] /\ intended'[i] = intended[i]
  /\ i \in reported'

\* The locals after a successful or a failed ReWrite.
LEMMA ReWriteLocals ==
  ASSUME TypeOK, HandlerInv, NEW t \in Threads, ReWrite(t)
  PROVE  /\ loc[t].cur \in AccountIds /\ loc'[t].todo = loc[t].todo \ {loc[t].cur}
         /\ loc'[t].listed = loc[t].listed /\ pc'[t] = "reRead"
         /\ \/ /\ account' = PwdUpdated(loc[t].cur, req[t].user, req[t].new, loc[t].plain)
               /\ loc'[t].ok = loc[t].ok \cup {loc[t].cur} /\ loc'[t].failed = loc[t].failed
            \/ /\ account' = account
               /\ loc'[t].ok = loc[t].ok /\ loc'[t].failed = loc[t].failed \cup {loc[t].cur}
<1> DEFINE i == loc[t].cur
           next == [loc[t] EXCEPT !.todo = @ \ {i}, !.cur = None, !.plain = NoPwd]
<1>1. i \in AccountIds /\ loc[t] \in Locals /\ pc'[t] = "reRead"
  BY DEF TypeOK, HandlerInv, ReWrite, Goto
<1>2. /\ next.todo = loc[t].todo \ {i} /\ next.ok = loc[t].ok /\ next.failed = loc[t].failed
      /\ next.listed = loc[t].listed
      /\ next \in [row : UserRow \cup {None}, listed : SUBSET AccountIds, todo : SUBSET AccountIds,
                   cur : {None}, plain : {NoPwd}, ok : SUBSET AccountIds, failed : SUBSET AccountIds]
  BY <1>1 DEF Locals
<1>3. \/ /\ account' = PwdUpdated(i, req[t].user, req[t].new, loc[t].plain)
         /\ loc'[t] = [next EXCEPT !.ok = @ \cup {i}]
      \/ account' = account /\ loc'[t] = [next EXCEPT !.failed = @ \cup {i}]
  BY DEF ReWrite, TypeOK
<1> HIDE DEF next
<1> QED
  BY <1>1, <1>2, <1>3

\* Every statement does one of these things to an account, and nothing else.
LEMMA Effects ==
  ASSUME TypeOK, HandlerInv, NEW t \in Threads, Step(t), NEW i \in AccountIds
  PROVE  \/ Untouched(i) \/ Inserted(t, i) \/ PasswordSet(t, i) \/ Removed(t, i)
         \/ Reencrypted(t, i) \/ Named(t, i)
<1>1. CASE InsertAccount(t)
  BY <1>1 DEF InsertAccount, RowInserted, Inserted, Untouched, TypeOK
<1>2. CASE SetPassword(t)
  <2>1. CASE /\ account' = PwdUpdated(req[t].id, req[t].user, req[t].key, req[t].pwd)
             /\ intended' = [intended EXCEPT ![req[t].id] =
                               IF req[t].id \in Owned(req[t].user) THEN req[t].pwd ELSE @]
             /\ reported' = reported \ ({req[t].id} \cap Owned(req[t].user))
    <3>1. pc[t] = "setPwd"
      BY <1>2 DEF SetPassword
    <3>2. CASE i = req[t].id /\ i \in Owned(req[t].user)
      BY <2>1, <3>1, <3>2 DEF PasswordSet, PwdUpdated, TypeOK
    <3>3. CASE ~(i = req[t].id /\ i \in Owned(req[t].user))
      BY <2>1, <3>3 DEF Untouched, PwdUpdated, TypeOK
    <3> QED BY <3>2, <3>3
  <2>2. CASE UNCHANGED <<account, intended, reported>>
    BY <2>2 DEF Untouched
  <2> QED BY <1>2, <2>1, <2>2 DEF SetPassword
<1>3. CASE DeleteAccount(t)
  BY <1>3 DEF DeleteAccount, RowDeleted, Removed, Untouched, TypeOK
<1>4. CASE ReWrite(t)
  <2>1. intended' = intended /\ reported' = reported /\ pc[t] = "reWrite"
    BY <1>4 DEF ReWrite
  <2>2. CASE /\ account' = PwdUpdated(loc[t].cur, req[t].user, req[t].new, loc[t].plain)
             /\ loc'[t].ok = loc[t].ok \cup {loc[t].cur}
             /\ i = loc[t].cur /\ i \in Owned(req[t].user)
    BY <2>1, <2>2 DEF Reencrypted, PwdUpdated, TypeOK
  <2>3. CASE /\ account' = PwdUpdated(loc[t].cur, req[t].user, req[t].new, loc[t].plain)
             /\ ~(i = loc[t].cur /\ i \in Owned(req[t].user))
    BY <2>1, <2>3 DEF Untouched, PwdUpdated, TypeOK
  <2> QED BY <1>4, <2>1, <2>2, <2>3, ReWriteLocals DEF Untouched
<1>5. CASE RotateReply(t)
  BY <1>5 DEF RotateReply, Respond, Named, Untouched, TypeOK
<1>6. CASE UNCHANGED <<account, intended, reported>>
  BY <1>6 DEF Untouched
<1> QED
  BY <1>1, <1>2, <1>3, <1>4, <1>5, <1>6
     DEF Step, Validate, SetInfo, FetchPassword, ChangeFind, ChangeUpdate, ListIds, ReRead, UserFind,
         UserUpdate, Return
-------------------------------------------------------------------------------
LEMMA BusyFacts ==
  ASSUME TypeOK, HandlerInv, NEW t \in Threads, pc[t] # "idle"
  PROVE  /\ req[t] \in Requests /\ req[t].user \in Users /\ req[t].op \in AllOps
         /\ user[req[t].user] \in UserRow /\ loc[t] \in Locals
         /\ HandlerOp(pc[t], req[t].op)
         /\ pc[t] \in {"insert", "setPwd", "setInfo"} => req[t].op \in PwdWriters
         /\ pc[t] \in {"chFind", "chUpdate", "list", "reRead", "reWrite"} => Changer(t)
         /\ pc[t] \in {"usFind", "usUpdate"} => req[t].op = "UpdateUser"
  BY RequestFields DEF TypeOK, HandlerInv, HandlerOp, PwdWriters, Changer

LEMMA ChangerAlone ==
  ASSUME NEW ops, ChangesAlone(ops), TypeOK, HandlerInv, Assigned, NEW s \in Threads, NEW t \in Threads,
         Changer(s), pc[t] # "idle", req[t].op \in ops, req[s].user = req[t].user
  PROVE  s = t
<1> DEFINE u == req[s].user
<1>1. u \in Users
  BY BusyFacts DEF Changer
<1>2. <<"UpdateMainKey", u>> \in Calls[s] /\ <<req[t].op, u>> \in Calls[t]
  BY DEF Assigned, Changer
<1> QED
  BY <1>1, <1>2 DEF ChangesAlone

\* With the user row, the ciphertexts are alone as well.
LEMMA FewerWriters == KeyChangesAlone => ChangesAlone(PwdWriters)
  BY DEF KeyChangesAlone, ChangesAlone, Writers

\* The key of a user changes only as UpdateMainKey says.
LEMMA KeyEffects ==
  ASSUME TypeOK, HandlerInv, NEW t \in Threads, CurrentKey(t), Step(t), NEW u \in Users, user[u] # None
  PROVE  \/ user'[u].key = user[u].key
         \/ /\ pc[t] = "chUpdate" /\ pc'[t] = "list" /\ u = req[t].user
            /\ req[t].old = user[u].key /\ user'[u].key = req[t].new
  BY KeyWrites DEF CurrentKey

\* Nobody changes the key of a user under a handler that writes.
LEMMA WriterKeepsKey ==
  ASSUME KeyChangesAlone, TypeOK, HandlerInv, Assigned, NEW t \in Threads, CurrentKey(t), Step(t),
         NEW v \in Threads \ {t}, pc[v] # "idle", req[v].op \in Writers
  PROVE  user'[req[v].user].key = user[req[v].user].key
<1>1. req[v].user \in Users /\ user[req[v].user] # None
  BY BusyFacts DEF HandlerInv
<1>2. pc[t] = "chUpdate" => Changer(t)
  BY BusyFacts
<1> QED
  BY <1>1, <1>2, KeyEffects, ChangerAlone DEF KeyChangesAlone

\* What a call that is accepted, a registration and a stutter leave alone.
LEMMA NoStatement ==
  ASSUME TypeOK, HandlerInv, ~Crash, [Next]_vars, \A t \in Threads : ~Step(t)
  PROVE  /\ UNCHANGED <<account, loc, intended, reported>>
         /\ \A u \in Users : user[u] # None => user'[u] = user[u]
         /\ \A t \in Threads :
              \/ pc'[t] = pc[t] /\ req'[t] = req[t]
              \/ /\ pc[t] = "idle" /\ pc'[t] \in {"validate", "setInfo", "done", "chFind", "usFind"}
                 /\ <<req'[t].op, req'[t].user>> \in Calls[t]
                 /\ pc'[t] = "validate" /\ req'[t].op \in {"ChangePassword", "UpdateAccount"} =>
                      req'[t].pwd # NoPwd
<1>1. ASSUME NEW s \in Threads, NEW r \in Requests, Receive(s, r)
      PROVE  /\ UNCHANGED <<user, account, loc, intended, reported>>
             /\ \A t \in Threads \ {s} : pc'[t] = pc[t] /\ req'[t] = req[t]
             /\ pc[s] = "idle" /\ pc'[s] \in {"validate", "setInfo", "done", "chFind", "usFind"}
             /\ <<r.op, r.user>> \in Calls[s] /\ req'[s] = r
             /\ pc'[s] = "validate" /\ r.op \in {"ChangePassword", "UpdateAccount"} => r.pwd # NoPwd
  <2>1. /\ UNCHANGED <<user, account, loc, intended, reported>>
        /\ req' = [req EXCEPT ![s] = r] /\ <<r.op, r.user>> \in Calls[s] /\ pc[s] = "idle"
    BY <1>1 DEF Receive, Accept, CallCreateAccount, CallChangePassword, CallUpdateAccount,
                CallFetchPassword, CallDeleteAccount, CallUpdateMainKey, CallUpdateUser
  <2>2. PICK label \in {"validate", "setInfo", "done", "chFind", "usFind"} :
          /\ pc' = [pc EXCEPT ![s] = label]
          /\ label = "validate" /\ r.op \in {"ChangePassword", "UpdateAccount"} => r.pwd # NoPwd
    BY <1>1 DEF Receive, Accept, CallCreateAccount, CallChangePassword, CallUpdateAccount,
                CallFetchPassword, CallDeleteAccount, CallUpdateMainKey, CallUpdateUser, Goto, Respond
  <2> QED
    BY <2>1, <2>2 DEF TypeOK
<1>2. ASSUME NEW u \in Users, NEW n \in Names, NEW k \in Keys, CreateUser(u, n, k)
      PROVE  /\ UNCHANGED <<account, pc, req, loc, intended, reported>>
             /\ \A w \in Users : user[w] # None => user'[w] = user[w]
  BY <1>2 DEF CreateUser, TypeOK
<1>3. CASE UNCHANGED vars
  BY <1>3 DEF vars
<1>4. CASE \E s \in Threads, r \in Requests : Receive(s, r)
  BY <1>1, <1>4
<1>5. CASE \E u \in Users, n \in Names, k \in Keys : CreateUser(u, n, k)
  BY <1>2, <1>5
<1> QED
  BY <1>3, <1>4, <1>5 DEF Next
-------------------------------------------------------------------------------
\* A password written in place of another keeps the owner of the row.
LEMMA EncryptedFields ==
  ASSUME NEW row \in AccountRow, NEW k, NEW p
  PROVE  /\ Encrypted(row, k, p).owner = row.owner
         /\ Encrypted(row, k, p).key = k /\ Encrypted(row, k, p).pwd = p
  BY DEF Encrypted, AccountRow

\* The accounts of a user whose key changes are not touched by another handler,
\* except that they may be deleted or named in a reply.
LEMMA ChangerKeepsAccounts ==
  ASSUME ChangesAlone(PwdWriters), TypeOK, HandlerInv, Assigned, NEW t \in Threads, Step(t),
         NEW v \in Threads \ {t}, Changer(v), NEW u, u = req[v].user, NEW i \in Owned(u)'
  PROVE  /\ i \in Owned(u) /\ account'[i] = account[i] /\ intended'[i] = intended[i]
         /\ i \in reported => i \in reported'
<1>1. i \in AccountIds /\ account'[i] \notin {Unborn, Deleted} /\ account'[i].owner = u
  BY DEF Owned, Live
<1>2. pc[t] # "idle" /\ req[t].op \in PwdWriters => req[t].user # u
  BY ChangerAlone
<1>3. pc[t] \in {"insert", "setPwd", "reWrite"} => req[t].user # u
  BY <1>2, BusyFacts DEF Changer, PwdWriters
<1>4. ~Inserted(t, i)
  BY <1>1, <1>3 DEF Inserted
<1>5. \A w : i \in Owned(w) => account[i] \in AccountRow /\ account[i].owner = w
  BY DEF TypeOK, Owned, Live
<1>6. ~PasswordSet(t, i) /\ ~Reencrypted(t, i)
  BY <1>1, <1>3, <1>5, EncryptedFields DEF PasswordSet, Reencrypted
<1>7. ~Removed(t, i)
  BY <1>1 DEF Removed
<1>8. Untouched(i) \/ Named(t, i)
  BY <1>1, <1>4, <1>6, <1>7, Effects
<1> QED
  BY <1>1, <1>8 DEF Untouched, Named, Owned, Live

LEMMA AssignedStep ==
  ASSUME TypeOK, Assigned, NEW t \in Threads, Step(t)
  PROVE  Assigned'
<1>1. pc'[t] = "idle" \/ (req'[t] = req[t] /\ pc[t] # "idle")
  BY StepFrame DEF Step, Validate, InsertAccount, SetPassword, SetInfo, FetchPassword, DeleteAccount,
                   ChangeFind, ChangeUpdate, ListIds, ReRead, ReWrite, RotateReply, UserFind, UserUpdate,
                   Return, TypeOK
<1> QED
  BY <1>1, StepFrame DEF Assigned

\* The key that a handler has read stays current until the handler writes.
LEMMA CurrentKeyOthers ==
  ASSUME KeyChangesAlone, TypeOK, HandlerInv, Assigned, NEW t \in Threads, CurrentKey(t), Step(t),
         NEW v \in Threads \ {t}, CurrentKey(v)
  PROVE  CurrentKey(v)'
<1>1. pc'[v] = pc[v] /\ req'[v] = req[v] /\ loc'[v] = loc[v]
  BY StepFrame
<1>2. CASE pc[v] # "idle" /\ req[v].op \in Writers
  BY <1>1, <1>2, WriterKeepsKey DEF CurrentKey
<1>3. CASE ~(pc[v] # "idle" /\ req[v].op \in Writers)
  <2>1. pc[v] \notin {"insert", "setPwd", "chUpdate", "usUpdate", "list", "reRead", "reWrite"}
    BY <1>3, BusyFacts DEF Changer, Writers, PwdWriters
  <2> QED BY <1>1, <2>1 DEF CurrentKey
<1> QED
  BY <1>2, <1>3

LEMMA CurrentKeyOwn ==
  ASSUME TypeOK, HandlerInv, NEW t \in Threads, CurrentKey(t), Step(t)
  PROVE  CurrentKey(t)'
<1>1. CASE pc'[t] \in {"done", "idle", "setInfo", "chFind", "usFind", "delete"}
  BY <1>1 DEF CurrentKey
<1>2. CASE Validate(t)
  <2>1. CASE Goto(t, AfterValidate(req[t].op)) /\ KeyMatches(user[req[t].user], req[t].key)
    <3>1. /\ req' = req /\ user' = user /\ user[req[t].user].key = req[t].key
          /\ pc[t] = "validate" /\ pc'[t] = AfterValidate(req[t].op)
      BY <1>2, <2>1 DEF Validate, Goto, KeyMatches, TypeOK
    <3>2. HandlerOp(pc[t], req[t].op) /\ pc[t] # "idle"
      BY <3>1, BusyFacts
    <3>3. /\ pc'[t] \in {"insert", "setPwd", "fetch", "delete"}
          /\ pc'[t] = "setPwd" => req[t].op \in {"ChangePassword", "UpdateAccount"}
      BY <3>1, <3>2 DEF AfterValidate, HandlerOp, Validated
    <3> QED BY <3>1, <3>3 DEF CurrentKey
  <2>2. CASE Respond(t, FALSE, NoPwd)
    BY <1>1, <2>2, RespondDone
  <2> QED BY <1>2, <2>1, <2>2 DEF Validate
<1>3. CASE ChangeFind(t)
  <2>1. CASE /\ KeyMatches(user[req[t].user], req[t].old)
             /\ loc' = [loc EXCEPT ![t].row = user[req[t].user]]
             /\ Goto(t, "chUpdate")
    <3>1. /\ pc'[t] = "chUpdate" /\ req' = req /\ user' = user
          /\ req[t].old = user[req[t].user].key
      BY <1>3, <2>1 DEF ChangeFind, Goto, KeyMatches, TypeOK
    <3> QED BY <3>1 DEF CurrentKey
  <2>2. CASE Respond(t, FALSE, NoPwd)
    BY <1>1, <2>2, RespondDone
  <2> QED BY <1>3, <2>1, <2>2 DEF ChangeFind
<1>4. CASE UserFind(t)
  <2>1. CASE loc' = [loc EXCEPT ![t].row = user[req[t].user]] /\ Goto(t, "usUpdate")
    <3>1. loc'[t].row = user[req[t].user] /\ pc'[t] = "usUpdate" /\ req' = req /\ user' = user
      BY <1>4, <2>1 DEF UserFind, Goto, TypeOK, Locals
    <3> QED BY <3>1 DEF CurrentKey
  <2>2. CASE Respond(t, FALSE, NoPwd)
    BY <1>1, <2>2, RespondDone
  <2> QED BY <1>4, <2>1, <2>2 DEF UserFind
<1>5. CASE ChangeUpdate(t)
  <2>1. CASE Goto(t, "list") /\ user' = [user EXCEPT ![req[t].user] = [loc[t].row EXCEPT !.key = req[t].new]]
    <3>1. pc[t] = "chUpdate" /\ pc'[t] = "list" /\ req' = req /\ req[t].user \in Users /\ user[req[t].user] \in UserRow
      BY <1>5, <2>1, BusyFacts DEF ChangeUpdate, Goto, TypeOK
    <3>2. loc[t].row \in UserRow
      BY <3>1 DEF HandlerInv, TypeOK, Locals
    <3>3. user'[req[t].user].key = req[t].new
      BY <2>1, <3>1, <3>2 DEF TypeOK, UserRow
    <3> QED BY <3>1, <3>3 DEF CurrentKey
  <2>2. CASE Respond(t, FALSE, NoPwd)
    BY <1>1, <2>2, RespondDone
  <2> QED BY <1>5, <2>1, <2>2 DEF ChangeUpdate
<1>6. CASE ListIds(t) \/ ReRead(t) \/ ReWrite(t)
  <2>1. /\ pc[t] \in {"list", "reRead", "reWrite"} /\ pc'[t] \in {"reRead", "reWrite"}
        /\ req' = req /\ user' = user
    BY <1>6 DEF ListIds, ReRead, ReWrite, Goto, TypeOK
  <2> QED BY <2>1 DEF CurrentKey
<1>7. CASE \/ InsertAccount(t) \/ SetPassword(t) \/ SetInfo(t) \/ FetchPassword(t) \/ DeleteAccount(t)
           \/ RotateReply(t) \/ UserUpdate(t) \/ Return(t)
  BY <1>1, <1>7
     DEF InsertAccount, SetPassword, SetInfo, FetchPassword, DeleteAccount, RotateReply, UserUpdate,
         Return, Respond, Goto, TypeOK
<1> QED
  BY <1>2, <1>3, <1>4, <1>5, <1>6, <1>7 DEF Step
-------------------------------------------------------------------------------
\* A listed account stays one of the same user or goes.
LEMMA ListedStep ==
  ASSUME TypeOK, HandlerInv, LoopInv, NEW t \in Threads, Step(t), NEW v \in Threads, ListedInv(v)
  PROVE  ListedInv(v)'
<1>1. \A i \in AccountIds : account[i] # Unborn =>
         /\ account'[i] # Unborn
         /\ i \in Live' => i \in Live /\ account'[i].owner = account[i].owner
  <2> SUFFICES ASSUME NEW i \in AccountIds, account[i] # Unborn
               PROVE  /\ account'[i] # Unborn
                      /\ i \in Live' => i \in Live /\ account'[i].owner = account[i].owner
    OBVIOUS
  <2>1. ~Inserted(t, i)
    BY DEF Inserted
  <2>2. ASSUME PasswordSet(t, i) \/ Reencrypted(t, i)
        PROVE  i \in Live /\ account'[i].owner = account[i].owner /\ account'[i] # Unborn
    <3>1. PICK k \in AnyKey, p \in Texts : account'[i] = Encrypted(account[i], k, p) /\ i \in Live
      BY <2>2, BusyFacts, RequestFields
         DEF PasswordSet, Reencrypted, Owned, HandlerOp, Validated, TypeOK, Locals, Texts
    <3>2. account[i] \in AccountRow
      BY <3>1 DEF TypeOK, Live
    <3>3. Encrypted(account[i], k, p) \in AccountRow
      BY <3>2 DEF Encrypted, AccountRow
    <3> QED BY <3>1, <3>2, <3>3, EncryptedFields, ConstantsOK
  <2>3. ASSUME Removed(t, i) PROVE account'[i] # Unborn /\ i \notin Live'
    BY <2>3, ConstantsOK DEF Removed, Live
  <2> QED
    BY <2>1, <2>2, <2>3, Effects DEF Untouched, Named, Live
<1>2. CASE v # t
  BY <1>1, <1>2, StepFrame DEF ListedInv, TypeOK, Locals
<1>3. CASE v = t /\ ListIds(t)
  <2>1. loc'[t].listed \subseteq Owned(req[t].user) /\ account' = account /\ req' = req
    BY <1>3 DEF ListIds, TypeOK, Locals
  <2> QED BY <1>3, <2>1, ConstantsOK DEF ListedInv, Owned, Live, TypeOK
<1>4. CASE v = t /\ Return(t)
  BY <1>4 DEF Return, ListedInv, NoLocals, TypeOK
<1>5. CASE v = t /\ ~ListIds(t) /\ ~Return(t)
  <2>1. loc'[t].listed = loc[t].listed
    <3>1. ReWrite(t) => loc'[t].listed = loc[t].listed
      BY ReWriteLocals
    <3>2. ReRead(t) => loc'[t].listed = loc[t].listed
      BY DEF ReRead, TypeOK, Locals
    <3>3. ChangeFind(t) \/ UserFind(t) => loc'[t].listed = loc[t].listed
      BY DEF ChangeFind, UserFind, TypeOK, Locals
    <3> QED
      BY <1>5, <3>1, <3>2, <3>3
         DEF Step, Validate, InsertAccount, SetPassword, SetInfo, FetchPassword, DeleteAccount,
             ChangeUpdate, RotateReply, UserUpdate
  <2>2. req'[t] = req[t]
    BY <1>5 DEF Step, Validate, InsertAccount, SetPassword, SetInfo, FetchPassword, DeleteAccount,
                ChangeFind, ChangeUpdate, ListIds, ReRead, ReWrite, RotateReply, UserFind, UserUpdate
  <2> QED BY <1>1, <1>5, <2>1, <2>2 DEF ListedInv, TypeOK, Locals
<1> QED
  BY <1>2, <1>3, <1>4, <1>5

\* What the rows hold is what their users stored last, in the words of Vault.
LEMMA ContentsStep ==
  ASSUME TypeOK, HandlerInv, NEW t \in Threads, Step(t), CurrentKey(t), RotationInv(t),
         Contained, LossOnlyAfterReport
  PROVE  Contained' /\ LossOnlyAfterReport'
<1> SUFFICES ASSUME NEW i \in Live'
             PROVE  /\ account'[i].pwd \in Passwords \cup {Garbage}
                    /\ account'[i].pwd # intended'[i] => i \in reported'
  BY DEF Contained, LossOnlyAfterReport
<1>1. i \in AccountIds /\ account'[i] \notin {Unborn, Deleted}
  BY DEF Live
<1>2. CASE Untouched(i) \/ Named(t, i)
  BY <1>1, <1>2 DEF Untouched, Named, Contained, LossOnlyAfterReport, Live
<1>3. CASE Inserted(t, i)
  <2>1. req[t].pwd \in Passwords
    BY <1>3, BusyFacts, RequestFields DEF Inserted, HandlerOp
  <2> QED BY <1>3, <2>1 DEF Inserted
<1>4. CASE PasswordSet(t, i)
  <2>1. req[t].pwd \in Passwords
    BY <1>4, BusyFacts, RequestFields DEF PasswordSet, HandlerOp, CurrentKey
  <2>2. account[i] \in AccountRow
    BY <1>4 DEF PasswordSet, Owned, Live, TypeOK
  <2> QED BY <1>4, <2>1, <2>2, EncryptedFields DEF PasswordSet
<1>5. CASE Reencrypted(t, i)
  <2>1. account[i] \in AccountRow
    BY <1>5 DEF Reencrypted, Owned, Live, TypeOK
  <2>2. account'[i].pwd = loc[t].plain
    BY <1>5, <2>1, EncryptedFields DEF Reencrypted
  <2> QED BY <1>5, <2>2 DEF Reencrypted, RotationInv
<1>6. ~Removed(t, i)
  BY <1>1 DEF Removed
<1> QED
  BY <1>1, <1>2, <1>3, <1>4, <1>5, <1>6, Effects

\* The key of a user is changed by one handler at a time.
LEMMA OneChanger ==
  ASSUME KeyChangesAlone, TypeOK, HandlerInv, Assigned, NEW s \in Threads, NEW t \in Threads,
         pc[s] \in {"chFind", "chUpdate", "list", "reRead", "reWrite"}, Rotating(t, req[s].user)
  PROVE  s = t
<1>1. Changer(s) /\ Changer(t)
  BY BusyFacts DEF Rotating
<1> QED
  BY <1>1, ChangerAlone DEF KeyChangesAlone, Changer, Writers, PwdWriters, Rotating

\* A rotation is not disturbed by the statements of other handlers, ...
LEMMA RotationOthers ==
  ASSUME KeyChangesAlone, TypeOK, HandlerInv, Assigned, NEW t \in Threads, Step(t),
         NEW v \in Threads \ {t}, RotationInv(v)
  PROVE  RotationInv(v)'
<1> SUFFICES ASSUME pc[v] \in {"list", "reRead", "reWrite"} PROVE RotationInv(v)'
  BY StepFrame DEF RotationInv
<1>1. pc'[v] = pc[v] /\ req'[v] = req[v] /\ loc'[v] = loc[v]
  BY StepFrame
<1>2. Changer(v) /\ ChangesAlone(PwdWriters)
  BY BusyFacts, FewerWriters
<1>3. PICK u \in Users : u = req[v].user
  BY BusyFacts
<1>4. \A i \in Owned(u)' :
         /\ i \in Owned(u) /\ account'[i] = account[i] /\ intended'[i] = intended[i]
         /\ i \in reported => i \in reported'
  BY <1>2, <1>3, ChangerKeepsAccounts
<1>5. Kept(u)' \subseteq Kept(u) /\ \A i \in Kept(u)' : account'[i] = account[i]
  BY <1>4 DEF Kept
<1>6. /\ \A i \in Kept(u)' \ loc'[v].ok : account'[i].key = req'[v].old
      /\ pc'[v] # "list" => Kept(u)' \subseteq loc'[v].listed
      /\ pc'[v] = "reWrite" /\ loc'[v].cur \in Owned(u)' =>
           /\ loc'[v].plain \in Passwords \cup {Garbage}
           /\ loc'[v].cur \notin reported' => loc'[v].plain = intended'[loc'[v].cur]
  BY <1>1, <1>3, <1>4, <1>5 DEF RotationInv
<1> QED
  BY <1>1, <1>3, <1>6 DEF RotationInv

\* ... and its own re-encrypt one account after the other.  Before the list is
\* read, every account of the user is under the key that was replaced.
LEMMA RotationStarts ==
  ASSUME KeyChangesAlone, TypeOK, HandlerInv, LoopInv, Assigned, SettledInv,
         NEW t \in Threads, CurrentKey(t), ChangeUpdate(t)
  PROVE  RotationInv(t)'
<1>1. PICK u \in Users : u = req[t].user
  BY BusyFacts DEF ChangeUpdate
<1>2. /\ pc[t] = "chUpdate" /\ pc'[t] \in {"list", "done"}
      /\ UNCHANGED <<account, req, reported>>
  BY DEF ChangeUpdate, Goto, Respond, TypeOK
<1>3. ASSUME NEW s \in Threads PROVE ~Rotating(s, u)
  <2>1. Rotating(s, u) => t = s
    BY <1>1, <1>2, OneChanger
  <2> QED BY <1>2, <2>1 DEF Rotating
<1>4. \A i \in Kept(u) : account[i].key = req[t].old
  BY <1>1, <1>2, <1>3 DEF SettledInv, Kept, Owned, CurrentKey
<1>5. Kept(u)' = Kept(u)
  BY <1>2 DEF Kept, Owned, Live
<1>6. \A i \in Kept(u)' : account'[i].key = req'[t].old
  BY <1>2, <1>4, <1>5
<1> QED
  BY <1>1, <1>2, <1>6 DEF RotationInv

LEMMA RotationLists ==
  ASSUME RotationCompletes, TypeOK, HandlerInv, LoopInv, NEW t \in Threads, RotationInv(t), ListIds(t)
  PROVE  RotationInv(t)'
<1>1. PICK u \in Users : u = req[t].user
  BY BusyFacts DEF ListIds
<1>2. /\ pc[t] = "list" /\ pc'[t] = "reRead" /\ UNCHANGED <<account, req, reported, intended>>
  BY DEF ListIds, Goto, TypeOK
<1>3. EmptyKey \notin {req[t].old, req[t].new}
  <2>1. req[t] \in Requests /\ req[t].op = "UpdateMainKey"
    BY <1>2, BusyFacts DEF HandlerOp
  <2>2. {req[t].old, req[t].new} \subseteq KeyInputs
    BY <2>1 DEF Requests
  <2> QED
    BY <2>2, ConstantsOK DEF RotationCompletes
<1>4. loc'[t].listed = Owned(u) /\ loc'[t].ok = loc[t].ok
  BY <1>1, <1>3 DEF ListIds, CanFail, RotationCompletes, TypeOK, Locals
<1>5. Kept(u)' = Kept(u) /\ Kept(u) \subseteq Owned(u)
  BY <1>2 DEF Kept, Owned, Live
<1>6. \A i \in Kept(u)' \ loc'[t].ok : account'[i].key = req'[t].old
  BY <1>1, <1>2, <1>4, <1>5 DEF RotationInv
<1> QED
  BY <1>1, <1>2, <1>4, <1>5, <1>6 DEF RotationInv

LEMMA RotationReads ==
  ASSUME RotationCompletes, TypeOK, HandlerInv, LoopInv, Contained, LossOnlyAfterReport,
         NEW t \in Threads, RotationInv(t), ReRead(t)
  PROVE  RotationInv(t)'
<1>1. PICK u \in Users : u = req[t].user
  BY BusyFacts DEF ReRead
<1>2. /\ pc[t] = "reRead" /\ UNCHANGED <<account, req, reported, intended>>
  BY DEF ReRead
<1>3. Owned(u)' = Owned(u) /\ Kept(u)' = Kept(u)
  BY <1>2 DEF Kept, Owned, Live
<1>4. PICK i, p :
         /\ i \in loc[t].todo /\ p \in Retrieved(u, i, req[t].old)
         /\ \/ /\ loc' = [loc EXCEPT ![t].todo = @ \ {i}, ![t].failed = @ \cup {i}]
               /\ pc'[t] = "reRead"
            \/ /\ p # NoPwd
               /\ loc' = [loc EXCEPT ![t].cur = i, ![t].plain = p]
               /\ pc'[t] = "reWrite"
  BY <1>1 DEF ReRead, CanFail, RotationCompletes, Goto, TypeOK
<1>5. /\ loc'[t].ok = loc[t].ok /\ loc'[t].listed = loc[t].listed
      /\ pc'[t] \in {"reRead", "reWrite"}
      /\ pc'[t] = "reWrite" => loc'[t].cur = i /\ loc'[t].plain = p /\ p # NoPwd
  BY <1>4 DEF TypeOK, Locals
<1>6. ASSUME i \in Owned(u), p # NoPwd
      PROVE  p \in Passwords \cup {Garbage} /\ (i \notin reported => p = intended[i])
  <2>1. p = Decrypt(account[i], req[t].old)
    BY <1>4, <1>6 DEF Retrieved
  <2>2. i \in Live /\ account[i].pwd \in Passwords \cup {Garbage}
    BY <1>6 DEF Owned, Contained
  <2>3. i \notin loc[t].ok
    BY <1>2, <1>4 DEF LoopInv, Accounted
  <2>4. i \notin reported => account[i].key = req[t].old /\ account[i].pwd = intended[i]
    BY <1>1, <1>2, <1>6, <2>2, <2>3 DEF RotationInv, Kept, LossOnlyAfterReport
  <2> QED
    BY <2>1, <2>2, <2>4 DEF Decrypt
<1>7. /\ \A j \in Kept(u)' \ loc'[t].ok : account'[j].key = req'[t].old
      /\ Kept(u)' \subseteq loc'[t].listed
  BY <1>1, <1>2, <1>3, <1>5 DEF RotationInv
<1>8. pc'[t] = "reWrite" /\ loc'[t].cur \in Owned(u)' =>
        /\ loc'[t].plain \in Passwords \cup {Garbage}
        /\ loc'[t].cur \notin reported' => loc'[t].plain = intended'[loc'[t].cur]
  BY <1>2, <1>3, <1>5, <1>6
<1> QED
  BY <1>1, <1>2, <1>5, <1>7, <1>8 DEF RotationInv

LEMMA RotationWrites ==
  ASSUME TypeOK, HandlerInv, NEW t \in Threads, RotationInv(t), ReWrite(t)
  PROVE  RotationInv(t)'
<1>1. PICK u \in Users : u = req[t].user
  BY BusyFacts DEF ReWrite
<1>2. pc[t] = "reWrite" /\ UNCHANGED <<req, reported>>
  BY DEF ReWrite
<1>3. pc'[t] = "reRead" /\ loc'[t].listed = loc[t].listed /\ loc[t].ok \subseteq loc'[t].ok
  BY ReWriteLocals
<1>4. ASSUME NEW i \in Kept(u)'
      PROVE  i \in Kept(u) /\ (i \in loc'[t].ok \/ account'[i] = account[i])
  <2>1. i \in AccountIds /\ account'[i] \notin {Unborn, Deleted} /\ account'[i].owner = u /\ i \notin reported
    BY <1>2 DEF Kept, Owned, Live
  <2>2. CASE Untouched(i)
    BY <2>1, <2>2 DEF Untouched, Kept, Owned, Live
  <2>3. CASE Reencrypted(t, i)
    BY <1>1, <2>1, <2>3 DEF Reencrypted, Kept
  <2> QED
    BY <1>2, <2>1, <2>2, <2>3, Effects DEF Step, Inserted, PasswordSet, Removed, Named
<1>5. /\ \A i \in Kept(u)' \ loc'[t].ok : account'[i].key = req'[t].old
      /\ Kept(u)' \subseteq loc'[t].listed
  BY <1>1, <1>2, <1>3, <1>4 DEF RotationInv
<1> QED
  BY <1>1, <1>2, <1>3, <1>5 DEF RotationInv

LEMMA RotationOwn ==
  ASSUME KeyChangesAlone, RotationCompletes, TypeOK, HandlerInv, LoopInv, SerialInv, NEW t \in Threads, Step(t)
  PROVE  RotationInv(t)'
<1>1. CASE \/ Validate(t) \/ InsertAccount(t) \/ SetPassword(t) \/ SetInfo(t) \/ FetchPassword(t)
           \/ DeleteAccount(t) \/ ChangeFind(t) \/ RotateReply(t) \/ UserFind(t) \/ UserUpdate(t)
           \/ Return(t)
  <2>1. pc[t] = "validate" => AfterValidate(req[t].op) \in {"insert", "setPwd", "fetch", "delete"}
    BY DEF HandlerInv, HandlerOp, Validated, AfterValidate
  <2>2. pc'[t] \notin {"list", "reRead", "reWrite"}
    BY <1>1, <2>1
       DEF Validate, InsertAccount, SetPassword, SetInfo, FetchPassword, DeleteAccount, ChangeFind,
           RotateReply, UserFind, UserUpdate, Return, Respond, Goto, TypeOK
  <2> QED BY <2>2 DEF RotationInv
<1> QED
  BY <1>1, RotationStarts, RotationLists, RotationReads, RotationWrites DEF Step, SerialInv
-------------------------------------------------------------------------------
\* An account that a statement leaves alone stays settled: the rotation that is
\* behind with it reaches it, or its reply names it.
LEMMA SettledUntouched ==
  ASSUME TypeOK, HandlerInv, LoopInv, KeyInv, SerialInv, NEW t \in Threads, Step(t),
         NEW i \in Live \ reported, Untouched(i), NEW u \in Users, u = account[i].owner
  PROVE  \/ account'[i].key = user'[u].key
         \/ \E s \in Threads : Rotating(s, u)' /\ i \notin loc'[s].ok
<1>1. /\ i \in Owned(u) /\ account'[i] = account[i] /\ i \in AccountIds
      /\ i \notin reported' /\ user[u] # None
  BY DEF Untouched, Owned, Live, KeyInv, RowKeys
<1>2. CASE account[i].key = user[u].key
  <2>1. \/ user'[u].key = user[u].key
        \/ pc[t] = "chUpdate" /\ pc'[t] = "list" /\ u = req[t].user
    BY <1>1, KeyEffects DEF SerialInv
  <2>2. ASSUME pc[t] = "chUpdate", pc'[t] = "list", u = req[t].user
        PROVE  Rotating(t, u)' /\ i \notin loc'[t].ok
    <3>1. req'[t] = req[t] /\ loc'[t] = loc[t]
      BY <2>2 DEF Step, Validate, InsertAccount, SetPassword, SetInfo, FetchPassword, DeleteAccount,
                  ChangeFind, ChangeUpdate, ListIds, ReRead, ReWrite, RotateReply, UserFind, UserUpdate,
                  Return
    <3>2. loc[t].ok = {}
      BY <2>2 DEF LoopInv, Accounted
    <3> QED BY <2>2, <3>1, <3>2 DEF Rotating
  <2> QED BY <1>1, <1>2, <2>1, <2>2
<1>3. ASSUME NEW s \in Threads, Rotating(s, u), i \notin loc[s].ok
      PROVE  \/ account'[i].key = user'[u].key
             \/ Rotating(s, u)' /\ i \notin loc'[s].ok
  <2>1. CASE s # t
    BY <1>3, <2>1, StepFrame DEF Rotating
  <2>2. CASE s = t /\ (ListIds(t) \/ ReRead(t))
    <3>1. pc'[t] \in {"reRead", "reWrite"} /\ req'[t] = req[t]
      BY <2>2 DEF ListIds, ReRead, Goto, TypeOK
    <3>2. loc'[t].ok = loc[t].ok
      <4>1. ListIds(t) => loc'[t].ok = loc[t].ok
        BY DEF ListIds, TypeOK, Locals
      <4>2. ReRead(t) => loc'[t].ok = loc[t].ok
        BY DEF ReRead, TypeOK, Locals
      <4> QED BY <2>2, <4>1, <4>2
    <3> QED BY <1>3, <2>2, <3>1, <3>2 DEF Rotating
  <2>3. CASE s = t /\ ReWrite(t)
    <3>1. req' = req /\ user' = user /\ pc'[t] = "reRead" /\ req[t].new = user[u].key /\ pc[t] = "reWrite"
      BY <1>3, <2>3, ReWriteLocals DEF ReWrite, SerialInv, CurrentKey, Rotating
    <3>2. CASE i \notin loc'[t].ok
      BY <1>3, <2>3, <3>1, <3>2 DEF Rotating
    <3>3. CASE i \in loc'[t].ok
      <4>1. /\ i = loc[t].cur
            /\ account' = PwdUpdated(loc[t].cur, req[t].user, req[t].new, loc[t].plain)
        BY <1>3, <2>3, <3>3, ReWriteLocals
      <4>2. account'[i] = Encrypted(account[i], req[t].new, loc[t].plain) /\ account[i] \in AccountRow
        BY <1>1, <1>3, <2>3, <4>1 DEF PwdUpdated, Rotating, Owned, Live, TypeOK
      <4> QED BY <3>1, <4>2, EncryptedFields
    <3> QED BY <3>2, <3>3
  <2>4. CASE s = t /\ RotateReply(t)
    <3>1. /\ pc[t] = "reRead" /\ loc[t].todo = {} /\ reported' = reported \cup loc[t].failed
      BY <2>4 DEF RotateReply
    <3>2. i \in loc[t].listed /\ loc[t].ok \cup loc[t].failed \cup loc[t].todo = loc[t].listed
      BY <1>1, <1>3, <2>4, <3>1 DEF SerialInv, RotationInv, Rotating, Kept, LoopInv, Accounted
    <3> QED BY <1>1, <1>3, <2>4, <3>1, <3>2
  <2>5. CASE s = t /\ ~(ListIds(t) \/ ReRead(t) \/ ReWrite(t) \/ RotateReply(t))
    BY <1>3, <2>5
       DEF Rotating, Step, Validate, InsertAccount, SetPassword, SetInfo, FetchPassword, DeleteAccount,
           ChangeFind, ChangeUpdate, UserFind, UserUpdate, Return
  <2> QED BY <2>1, <2>2, <2>3, <2>4, <2>5
<1> QED
  BY <1>2, <1>3 DEF SerialInv, SettledInv

LEMMA SettledStep ==
  ASSUME TypeOK, HandlerInv, LoopInv, KeyInv, SerialInv, NEW t \in Threads, Step(t)
  PROVE  SettledInv'
<1> SUFFICES ASSUME NEW i \in Live', i \notin reported', NEW u, u = account'[i].owner
             PROVE  \/ account'[i].key = user'[u].key
                    \/ \E s \in Threads : Rotating(s, u)' /\ i \notin loc'[s].ok
  BY DEF SettledInv, Rotating
<1>1. i \in AccountIds /\ account'[i] \notin {Unborn, Deleted} /\ CurrentKey(t)
  BY DEF Live, SerialInv
<1>2. CASE Untouched(i)
  <2>1. i \in Live \ reported /\ u = account[i].owner /\ u \in Users
    BY <1>1, <1>2 DEF Untouched, Live, TypeOK, AccountRow
  <2> QED BY <1>2, <2>1, SettledUntouched
<1>3. CASE Inserted(t, i) \/ PasswordSet(t, i) \/ Reencrypted(t, i)
  <2>1. req[t].user \in Users
    BY <1>3, BusyFacts DEF Inserted, PasswordSet, Reencrypted
  <2>2. u = req[t].user /\ account'[i].key = user[u].key
    <3>1. CASE Inserted(t, i)
      BY <1>1, <3>1 DEF Inserted, CurrentKey
    <3>2. CASE PasswordSet(t, i) \/ Reencrypted(t, i)
      <4>1. account[i] \in AccountRow /\ account[i].owner = req[t].user
        BY <3>2 DEF PasswordSet, Reencrypted, Owned, Live, TypeOK
      <4> QED BY <1>1, <3>2, <4>1, EncryptedFields DEF PasswordSet, Reencrypted, CurrentKey
    <3> QED BY <1>3, <3>1, <3>2
  <2>3. user'[u] = user[u]
    BY <1>3, <2>1, <2>2, UserEffects DEF Inserted, PasswordSet, Reencrypted
  <2> QED BY <2>2, <2>3
<1>4. ~Removed(t, i) /\ ~Named(t, i)
  BY <1>1 DEF Removed, Named
<1> QED
  BY <1>1, <1>2, <1>3, <1>4, Effects
-------------------------------------------------------------------------------
\* A call that is accepted starts by reading the user row.
LEMMA CurrentKeyAccepts ==
  ASSUME ~Crash, VaultInv, [Next]_vars, \A t \in Threads : ~Step(t),
         NEW v \in Threads, CurrentKey(v)
  PROVE  CurrentKey(v)'
<1> USE DEF VaultInv
<1>1. \/ pc'[v] = pc[v] /\ req'[v] = req[v]
      \/ /\ pc[v] = "idle" /\ pc'[v] \in {"validate", "setInfo", "done", "chFind", "usFind"}
         /\ pc'[v] = "validate" /\ req'[v].op \in {"ChangePassword", "UpdateAccount"} =>
              req'[v].pwd # NoPwd
  BY NoStatement
<1>2. CASE pc[v] = "idle"
  BY <1>1, <1>2 DEF CurrentKey
<1>3. CASE pc[v] # "idle"
  <2>1. user'[req[v].user] = user[req[v].user] /\ loc' = loc
    BY <1>3, NoStatement, BusyFacts DEF HandlerInv
  <2> QED BY <1>1, <1>3, <2>1 DEF CurrentKey
<1> QED
  BY <1>2, <1>3

\* A call that is accepted and a registration disturb no handler.
LEMMA SerialAccepts ==
  ASSUME ~Crash, VaultInv, SerialInv, [Next]_vars, \A t \in Threads : ~Step(t)
  PROVE  SerialInv'
<1> USE DEF VaultInv
<1>1. /\ UNCHANGED <<account, loc, intended, reported>>
      /\ Live' = Live /\ \A u : Owned(u)' = Owned(u) /\ Kept(u)' = Kept(u)
  BY NoStatement DEF Live, Owned, Kept
<1>2. \A u \in Users : user[u] # None => user'[u] = user[u]
  BY NoStatement
<1>3. ASSUME NEW t \in Threads
      PROVE  \/ pc'[t] = pc[t] /\ req'[t] = req[t]
             \/ /\ pc[t] = "idle" /\ pc'[t] \in {"validate", "setInfo", "done", "chFind", "usFind"}
                /\ <<req'[t].op, req'[t].user>> \in Calls[t]
                /\ pc'[t] = "validate" /\ req'[t].op \in {"ChangePassword", "UpdateAccount"} =>
                     req'[t].pwd # NoPwd
  BY NoStatement
<1>4. Assigned' /\ Contained' /\ LossOnlyAfterReport'
  BY <1>1, <1>3 DEF SerialInv, Assigned, Contained, LossOnlyAfterReport
<1>5. SettledInv'
  <2> SUFFICES ASSUME NEW i \in Live \ reported, NEW u, u = account[i].owner
               PROVE  \/ account[i].key = user'[u].key
                      \/ \E s \in Threads : Rotating(s, u)' /\ i \notin loc[s].ok
    BY <1>1 DEF SettledInv, Rotating
  <2>1. u \in Users /\ user'[u] = user[u]
    BY <1>2 DEF KeyInv, RowKeys, TypeOK, Live, AccountRow
  <2>2. \A s \in Threads : Rotating(s, u) => Rotating(s, u)'
    BY <1>3 DEF Rotating
  <2> QED BY <2>1, <2>2 DEF SerialInv, SettledInv
<1>6. ASSUME NEW t \in Threads PROVE CurrentKey(t)'
  BY CurrentKeyAccepts DEF SerialInv
<1>7. ASSUME NEW t \in Threads PROVE ListedInv(t)'
  <2>1. CASE pc[t] = "idle"
    BY <1>1, <2>1 DEF ListedInv, LoopInv, Accounted
  <2>2. CASE req'[t] = req[t]
    BY <1>1, <2>2 DEF SerialInv, ListedInv
  <2> QED BY <1>3, <2>1, <2>2
<1>8. ASSUME NEW t \in Threads PROVE RotationInv(t)'
  BY <1>1, <1>3 DEF SerialInv, RotationInv
<1> QED
  BY <1>4, <1>5, <1>6, <1>7, <1>8 DEF SerialInv

LEMMA SerialStep ==
  ASSUME KeyChangesAlone, RotationCompletes, VaultInv, SerialInv, [Next]_vars
  PROVE  SerialInv'
<1> USE DEF VaultInv
<1>1. ASSUME NEW t \in Threads, Step(t) PROVE SerialInv'
  <2>1. Assigned' /\ Contained' /\ LossOnlyAfterReport' /\ SettledInv'
    BY <1>1, AssignedStep, ContentsStep, SettledStep DEF SerialInv
  <2>2. ASSUME NEW v \in Threads PROVE CurrentKey(v)' /\ ListedInv(v)' /\ RotationInv(v)'
    <3>1. CASE v = t
      BY <1>1, <3>1, CurrentKeyOwn, ListedStep, RotationOwn DEF SerialInv
    <3>2. CASE v \in Threads \ {t}
      BY <1>1, <3>2, CurrentKeyOthers, ListedStep, RotationOthers DEF SerialInv
    <3> QED BY <3>1, <3>2
  <2> QED BY <2>1, <2>2 DEF SerialInv
<1>2. ~Crash
  BY DEF RotationCompletes, Crash
<1> QED
  BY <1>1, <1>2, SerialAccepts

LEMMA SerialInvariant ==
  ASSUME KeyChangesAlone, RotationCompletes
  PROVE  Spec => [](VaultInv /\ SerialInv)
<1>1. Init => SerialInv
  BY DEF Init, SerialInv, Assigned, Contained, LossOnlyAfterReport, SettledInv, CurrentKey, ListedInv,
         RotationInv, Live, NoLocals
<1>2. VaultInv /\ SerialInv /\ [Next]_vars => SerialInv'
  BY SerialStep
<1> QED
  BY <1>1, <1>2, VaultInvariant, PTL DEF Spec

\* When the handlers of a user follow one another and every rotation reaches
\* its reply, a stored password differs from the one stored last only if a
\* reply named its account (re_encrypt_password_all).
THEOREM LossOnlyAfterReportHolds ==
  ASSUME KeyChangesAlone, RotationCompletes
  PROVE  Spec => []LossOnlyAfterReport
<1>1. SerialInv => LossOnlyAfterReport
  BY DEF SerialInv
<1> QED BY <1>1, SerialInvariant, PTL

\* Under the same conditions the two phases of UpdateMainKey leave no account
\* under an old key in silence.
THEOREM StaleOnlyIfReportedHolds ==
  ASSUME KeyChangesAlone, RotationCompletes
  PROVE  Spec => []StaleOnlyIfReported
<1>1. SerialInv => StaleOnlyIfReported
  BY DEF SerialInv, SettledInv, StaleOnlyIfReported
<1> QED BY <1>1, SerialInvariant, PTL

\* Then FetchPassword answers the owner of an account what was stored last, or
\* a text for what could not be read or decrypted, whatever else of the same user
\* overlaps the fetch, and garbage only if a key change of that user is among it
\* (retrieve_decrypted_password).
THEOREM FetchExactHolds ==
  ASSUME KeyChangesAlone, RotationCompletes
  PROVE  Spec => FetchExact
<1> DEFINE Due(t) == pc[t] = "fetch" /\ pc'[t] = "done" /\ req[t].id \in Owned(req[t].user) \ reported
           Exact(t) == \/ reply'[t].text \in {intended[req[t].id], NoPwd, NotFoundText}
                       \/ reply'[t].text = Garbage /\ Overtaken(t)
           AllExact == \A t \in Threads : Due(t) => Exact(t)
           Inv == VaultInv /\ SerialInv
<1>1. Inv /\ [Next]_vars => [AllExact]_vars
  <2> SUFFICES ASSUME Inv, [Next]_vars, NEW t \in Threads, Due(t) PROVE Exact(t)
    OBVIOUS
  <2> USE DEF VaultInv
  <2>1. FetchPassword(t)
    <3>1. Step(t)
      BY StepFrame, NoStatement DEF RotationCompletes, Crash
    <3> QED BY <3>1 DEF Step, Validate, InsertAccount, SetPassword, SetInfo, DeleteAccount, ChangeFind,
                        ChangeUpdate, ListIds, ReRead, ReWrite, RotateReply, UserFind, UserUpdate, Return
  <2>2. /\ req[t].id \in Live \ reported /\ account[req[t].id].owner = req[t].user
    BY DEF Owned
  <2>3. account[req[t].id].pwd = intended[req[t].id]
    BY <2>2 DEF SerialInv, LossOnlyAfterReport
  <2>4. ~Overtaken(t) => account[req[t].id].key = req[t].key
    BY <2>2 DEF SerialInv, SettledInv, Overtaken
  <2>5. reply'[t].text \in Retrieved(req[t].user, req[t].id, req[t].key) \cup {NotFoundText}
    BY <2>1 DEF FetchPassword, Respond, TypeOK
  <2> QED
    BY <2>2, <2>3, <2>4, <2>5 DEF Retrieved, Decrypt
<1>2. Spec => []Inv
  BY SerialInvariant
<1> HIDE DEF Inv, AllExact
<1>3. Spec => [][AllExact]_vars
  BY <1>1, <1>2, PTL DEF Spec
<1> QED
  BY <1>3 DEF AllExact, FetchExact
-------------------------------------------------------------------------------
\* A reader who sees the rotation has the key of every account: of those that
\* it still has to reach, the old one.
Stored == [i \in AccountIds |-> IF i \in Live THEN account[i].pwd ELSE None]

LEMMA ReadableIsStored == VaultInv /\ SerialInv => Readable = Stored
<1> SUFFICES ASSUME VaultInv, SerialInv, NEW i \in Live PROVE account[i].key = ReadingKey(i)
  BY DEF Readable, Stored, Decrypt
<1> DEFINE u == account[i].owner
           behind == {t \in Threads : Rotating(t, u) /\ i \notin loc[t].ok}
<1>1. CASE i \in reported
  BY <1>1 DEF ReadingKey
<1>2. CASE i \notin reported /\ behind # {}
  <2>1. PICK s \in behind : s = CHOOSE t \in behind : TRUE
    BY <1>2
  <2>2. i \in Kept(req[s].user) \ loc[s].ok /\ pc[s] \in {"list", "reRead", "reWrite"}
    BY <1>2 DEF Kept, Owned, Rotating
  <2>3. account[i].key = req[s].old
    BY <2>2 DEF SerialInv, RotationInv
  <2> QED BY <1>2, <2>1, <2>3 DEF ReadingKey
<1>3. CASE i \notin reported /\ behind = {}
  BY <1>3 DEF ReadingKey, SerialInv, SettledInv
<1> QED
  BY <1>1, <1>2, <1>3

LEMMA ReadableIsStoredNext == (VaultInv /\ SerialInv)' => Readable' = Stored'
<1>1. (VaultInv /\ SerialInv => Readable = Stored)'
  BY ReadableIsStored, PTL
<1> QED
  BY <1>1

\* Only a fetch and the end of a call change what a caller has been answered.
LEMMA AnswersKept ==
  ASSUME VaultInv, NEW t \in Threads, Step(t), ~FetchPassword(t), ~Return(t)
  PROVE  Answers' = Answers
<1> USE DEF VaultInv
<1>1. pc[t] \notin {"idle", "done"} /\ req' = req
  BY DEF Step, Validate, InsertAccount, SetPassword, SetInfo, DeleteAccount, ChangeFind, ChangeUpdate,
         ListIds, ReRead, ReWrite, RotateReply, UserFind, UserUpdate
<1>2. \A v \in Threads \ {t} : reply'[v] = reply[v]
  BY DEF TypeOK, Step, Respond, Goto, Validate, InsertAccount, SetPassword, SetInfo, DeleteAccount,
         ChangeFind, ChangeUpdate, ListIds, ReRead, ReWrite, RotateReply, UserFind, UserUpdate
<1>3. req[t].op = "FetchPassword" => pc'[t] # "done" \/ ~reply'[t].success
  <2> SUFFICES ASSUME req[t].op = "FetchPassword" PROVE pc'[t] # "done" \/ ~reply'[t].success
    OBVIOUS
  <2>1. HandlerOp(pc[t], "FetchPassword")
    BY <1>1, BusyFacts
  <2>2. Validate(t)
    BY <1>1, <2>1 DEF HandlerOp, Step, InsertAccount, SetPassword, SetInfo, DeleteAccount, ChangeFind,
                      ChangeUpdate, ListIds, ReRead, ReWrite, RotateReply, UserFind, UserUpdate
  <2>3. Goto(t, "fetch") \/ Respond(t, FALSE, NoPwd)
    BY <2>2 DEF Validate, AfterValidate
  <2> QED BY <2>3 DEF TypeOK, Goto, Respond
<1>4. \A v \in Threads : AnswerOf(v)' = AnswerOf(v)
  BY <1>1, <1>2, <1>3, StepFrame DEF AnswerOf
<1> QED
  BY <1>4 DEF Answers

LEMMA AnswersTaken ==
  ASSUME VaultInv, NEW t \in Threads, Return(t)
  PROVE  Answers' = [Answers EXCEPT ![t] = None]
<1>1. \A v \in Threads : AnswerOf(v)' = IF v = t THEN None ELSE AnswerOf(v)
  BY DEF Return, AnswerOf, VaultInv, TypeOK
<1> QED
  BY <1>1 DEF Answers

\* A fetch answers what it read from the row of its user, or an excuse.
LEMMA AnswersGiven ==
  ASSUME VaultInv, NEW t \in Threads, FetchPassword(t)
  PROVE  \E x : /\ Answers' = [Answers EXCEPT ![t] = x]
                /\ \/ x \in {NoPwd, NotFoundText}
                   \/ req[t].id \in Owned(req[t].user) /\ x = Decrypt(account[req[t].id], req[t].key)
<1>1. PICK p : /\ p \in Retrieved(req[t].user, req[t].id, req[t].key) \cup {NotFoundText}
               /\ Respond(t, TRUE, p)
  BY DEF FetchPassword
<1>2. /\ pc[t] = "fetch" /\ pc'[t] = "done" /\ reply'[t].text = p /\ reply'[t].success /\ req' = req
      /\ \A v \in Threads \ {t} : pc'[v] = pc[v] /\ reply'[v] = reply[v]
  BY <1>1 DEF FetchPassword, Respond, VaultInv, TypeOK
<1>3. req[t].op = "FetchPassword"
  BY <1>2, BusyFacts DEF VaultInv, HandlerOp
<1>4. \A v \in Threads : AnswerOf(v)' = IF v = t THEN p ELSE AnswerOf(v)
  BY <1>2, <1>3 DEF AnswerOf
<1>5. Answers' = [Answers EXCEPT ![t] = p]
  BY <1>4 DEF Answers
<1>6. p \in {NoPwd, NotFoundText} \/ (req[t].id \in Owned(req[t].user) /\ p = Decrypt(account[req[t].id], req[t].key))
  BY <1>1 DEF Retrieved
<1> QED
  BY <1>5, <1>6

\* A rotation begins with the UPDATE of the user row and ends with its reply.
LEMMA ChangingKept ==
  ASSUME VaultInv, NEW t \in Threads, Step(t), ~ChangeUpdate(t), ~RotateReply(t)
  PROVE  Changing' = Changing
<1> USE DEF VaultInv
<1>1. pc[t] = "validate" => AfterValidate(req[t].op) \in {"insert", "setPwd", "fetch", "delete"}
  BY DEF HandlerInv, HandlerOp, Validated, AfterValidate
<1>2. \/ /\ pc[t] \in {"list", "reRead", "reWrite"} /\ pc'[t] \in {"list", "reRead", "reWrite"}
         /\ req' = req
      \/ pc[t] \notin {"list", "reRead", "reWrite"} /\ pc'[t] \notin {"list", "reRead", "reWrite"}
  BY <1>1 DEF TypeOK, Respond, Goto, Step, Validate, InsertAccount, SetPassword, SetInfo, FetchPassword,
              DeleteAccount, ChangeFind, ListIds, ReRead, ReWrite, UserFind, UserUpdate, Return
<1>3. \A s \in Threads, u \in Users : Rotating(s, u)' <=> Rotating(s, u)
  BY <1>2, StepFrame DEF Rotating
<1> QED
  BY <1>3 DEF Changing

LEMMA ChangingBegins ==
  ASSUME VaultInv, SerialInv, KeyChangesAlone, NEW t \in Threads, ChangeUpdate(t), pc'[t] = "list"
  PROVE  req[t].user \notin Changing /\ Changing' = Changing \cup {req[t].user}
<1> USE DEF VaultInv
<1>1. /\ pc[t] = "chUpdate" /\ pc'[t] = "list" /\ req' = req /\ req[t].user \in Users
      /\ \A s \in Threads \ {t} : pc'[s] = pc[s]
  BY BusyFacts, StepFrame DEF ChangeUpdate, Step
<1>2. \A s \in Threads : ~Rotating(s, req[t].user)
  BY <1>1, OneChanger DEF SerialInv, Rotating
<1>3. \A s \in Threads, u \in Users : Rotating(s, u)' <=> Rotating(s, u) \/ (s = t /\ u = req[t].user)
  BY <1>1 DEF Rotating
<1> QED
  BY <1>1, <1>2, <1>3 DEF Changing

LEMMA ChangingEnds ==
  ASSUME VaultInv, SerialInv, KeyChangesAlone, NEW t \in Threads, RotateReply(t)
  PROVE  req[t].user \in Changing /\ Changing' = Changing \ {req[t].user}
<1> USE DEF VaultInv
<1>1. /\ pc[t] = "reRead" /\ pc'[t] = "done" /\ req' = req /\ req[t].user \in Users
      /\ \A s \in Threads \ {t} : pc'[s] = pc[s]
  BY BusyFacts, RespondDone, StepFrame DEF RotateReply, Step
<1>2. \A s \in Threads : Rotating(s, req[t].user) <=> s = t
  BY <1>1, OneChanger DEF SerialInv, Rotating
<1>3. \A s \in Threads, u \in Users : Rotating(s, u)' <=> Rotating(s, u) /\ s # t
  BY <1>1 DEF Rotating
<1>4. Rotating(t, req[t].user) /\ \A u \in Users : Rotating(t, u) => u = req[t].user
  BY <1>1 DEF Rotating
<1>5. ASSUME NEW u \in Users PROVE u \in Changing' <=> u \in Changing /\ u # req[t].user
  BY <1>2, <1>3, <1>4 DEF Changing
<1>6. Changing \subseteq Users /\ Changing' \subseteq Users /\ req[t].user \in Changing
  BY <1>1, <1>4 DEF Changing
<1> QED
  BY <1>5, <1>6

\* A question is asked where the key is compared, and answered by the fetch.
LEMMA AskedKept ==
  ASSUME VaultInv, NEW t \in Threads, Step(t), ~Validate(t), ~FetchPassword(t)
  PROVE  Asked' = Asked
<1> USE DEF VaultInv
<1>1. pc[t] # "fetch" /\ pc'[t] # "fetch"
  BY DEF TypeOK, Respond, Goto, Step, InsertAccount, SetPassword, SetInfo, DeleteAccount, ChangeFind,
         ChangeUpdate, ListIds, ReRead, ReWrite, RotateReply, UserFind, UserUpdate, Return
<1>2. \A s \in Threads : AskedOf(s)' = AskedOf(s)
  BY <1>1, StepFrame DEF AskedOf
<1> QED
  BY <1>2 DEF Asked

-------------------------------------------------------------------------------
\* Every statement of a handler is one step of the abstract vault, or none.

\* What is the same for the statements that write no account.
LEMMA AccountsKept ==
  ASSUME VaultInv, SerialInv, VaultInv', SerialInv', account' = account
  PROVE  Owners' = Owners /\ Readable' = Readable
<1>1. Readable = Stored /\ Readable' = Stored'
  BY ReadableIsStored, ReadableIsStoredNext
<1> QED
  BY <1>1 DEF Stored, Owners, Live

\* A statement that writes account i.
LEMMA AccountWritten ==
  ASSUME VaultInv, SerialInv, VaultInv', SerialInv', NEW i \in AccountIds,
         \A j \in AccountIds \ {i} : account'[j] = account[j]
  PROVE  /\ Owners' = [Owners EXCEPT ![i] = IF i \in Live' THEN account'[i].owner ELSE None]
         /\ Readable' = [Readable EXCEPT ![i] = IF i \in Live' THEN account'[i].pwd ELSE None]
<1>1. Readable = Stored /\ Readable' = Stored'
  BY ReadableIsStored, ReadableIsStoredNext
<1>2. \A j \in AccountIds \ {i} : j \in Live' <=> j \in Live
  BY DEF Live
<1> QED
  BY <1>1, <1>2 DEF Stored, Owners

LEMMA KeysKept ==
  ASSUME user' = user
  PROVE  UserKeys' = UserKeys
  BY DEF UserKeys

\* What a statement has nothing to do with.
LEMMA OtherKept ==
  ASSUME VaultInv, NEW t \in Threads, Step(t),
         pc[t] \notin {"validate", "fetch", "chUpdate", "done"}, ~RotateReply(t)
  PROVE  Answers' = Answers /\ Changing' = Changing /\ Asked' = Asked
<1>1. ~Validate(t) /\ ~FetchPassword(t) /\ ~ChangeUpdate(t) /\ ~Return(t)
  BY DEF Validate, FetchPassword, ChangeUpdate, Return
<1> QED
  BY <1>1, AnswersKept, ChangingKept, AskedKept

LEMMA InsertMaps ==
  ASSUME VaultInv, SerialInv, VaultInv', SerialInv', NEW t \in Threads, InsertAccount(t)
  PROVE  [V!VNext]_(V!vvars)
<1>1. /\ UserKeys' = UserKeys /\ Answers' = Answers /\ reported' = reported
      /\ Changing' = Changing /\ Asked' = Asked
  BY KeysKept, OtherKept DEF InsertAccount, Step, RotateReply
<1>2. CASE account' = account
  BY <1>1, <1>2, AccountsKept DEF V!vvars, V!vtables
<1>3. ASSUME NEW i \in AccountIds, account[i] = Unborn, req[t].pwd # NoPwd,
             account' = RowInserted(i, req[t].user, req[t].key, req[t].pwd)
      PROVE  V!VNext
  <2>1. /\ req[t].user \in Users /\ req[t].key \in AnyKey /\ req[t].pwd \in Passwords
    BY <1>3, BusyFacts, RequestFields DEF InsertAccount, HandlerOp, Validated, VaultInv
  <2>2. /\ account'[i] = [owner |-> req[t].user, key |-> req[t].key, pwd |-> req[t].pwd]
        /\ \A j \in AccountIds \ {i} : account'[j] = account[j]
    BY <1>3 DEF RowInserted, VaultInv, TypeOK
  <2>3. i \in Live' /\ i \notin Live
    <3>1. account'[i] \in AccountRow
      BY <2>1, <2>2 DEF AccountRow, Texts
    <3> QED BY <1>3, <3>1, ConstantsOK DEF Live
  <2>4. Owners[i] = None /\ Owners' = [Owners EXCEPT ![i] = req[t].user]
        /\ Readable' = [Readable EXCEPT ![i] = req[t].pwd]
    BY <2>2, <2>3, AccountWritten DEF Owners
  <2> QED
    BY <1>1, <2>1, <2>4 DEF V!VNext, V!VCreate
<1> QED
  BY <1>2, <1>3 DEF InsertAccount

LEMMA SetMaps ==
  ASSUME VaultInv, SerialInv, VaultInv', SerialInv', NEW t \in Threads, SetPassword(t)
  PROVE  [V!VNext]_(V!vvars)
<1>1. UserKeys' = UserKeys /\ Answers' = Answers /\ Changing' = Changing /\ Asked' = Asked
  BY KeysKept, OtherKept DEF SetPassword, Step, RotateReply
<1>2. CASE account' = account /\ reported' = reported
  BY <1>1, <1>2, AccountsKept DEF V!vvars, V!vtables
<1>3. CASE /\ account' = PwdUpdated(req[t].id, req[t].user, req[t].key, req[t].pwd)
           /\ reported' = reported \ ({req[t].id} \cap Owned(req[t].user))
  <2> DEFINE i == req[t].id
  <2>1. CASE i \notin Owned(req[t].user)
    <3>1. account' = account /\ reported' = reported
      BY <1>3, <2>1 DEF PwdUpdated, VaultInv, TypeOK
    <3> QED BY <1>2, <3>1
  <2>2. CASE i \in Owned(req[t].user)
    <3>1. /\ i \in AccountIds /\ i \in Live /\ account[i].owner = req[t].user /\ account[i] \in AccountRow
      BY <2>2 DEF Owned, Live, VaultInv, TypeOK
    <3>2. /\ req[t].user \in Users /\ req[t].key \in AnyKey /\ req[t].pwd \in Passwords
      BY BusyFacts, RequestFields DEF SetPassword, HandlerOp, Validated, VaultInv, SerialInv, CurrentKey
    <3>3. /\ account'[i] = Encrypted(account[i], req[t].key, req[t].pwd)
          /\ \A j \in AccountIds \ {i} : account'[j] = account[j]
      BY <1>3, <2>2 DEF PwdUpdated, VaultInv, TypeOK
    <3>4. /\ account'[i].owner = req[t].user /\ account'[i].pwd = req[t].pwd /\ account'[i] \in AccountRow
      BY <3>1, <3>2, <3>3, EncryptedFields DEF Encrypted, AccountRow, Texts
    <3>5. i \in Live'
      BY <3>1, <3>4, ConstantsOK DEF Live
    <3>6. Owners[i] = req[t].user /\ Owners' = Owners
      <4>1. Owners[i] = req[t].user
        BY <3>1 DEF Owners
      <4>2. Owners' = [Owners EXCEPT ![i] = req[t].user]
        BY <3>1, <3>3, <3>4, <3>5, AccountWritten
      <4> QED BY <3>1, <4>1, <4>2 DEF Owners
    <3>7. Readable' = [Readable EXCEPT ![i] = req[t].pwd]
      BY <3>1, <3>3, <3>4, <3>5, AccountWritten
    <3>8. reported' = reported \ {i}
      BY <1>3, <2>2
    <3> QED
      BY <1>1, <3>1, <3>2, <3>6, <3>7, <3>8 DEF V!VNext, V!VChange
  <2> QED BY <2>1, <2>2
<1> QED
  BY <1>2, <1>3 DEF SetPassword

LEMMA DeleteMaps ==
  ASSUME VaultInv, SerialInv, VaultInv', SerialInv', NEW t \in Threads, DeleteAccount(t)
  PROVE  [V!VNext]_(V!vvars)
<1>1. /\ UserKeys' = UserKeys /\ Answers' = Answers /\ reported' = reported
      /\ Changing' = Changing /\ Asked' = Asked
  BY KeysKept, OtherKept DEF DeleteAccount, Step, RotateReply
<1>2. CASE account' = account
  BY <1>1, <1>2, AccountsKept DEF V!vvars, V!vtables
<1>3. CASE account' = RowDeleted(req[t].id) /\ req[t].id \in Live
  <2> DEFINE i == req[t].id
  <2>1. /\ i \in AccountIds /\ account'[i] = Deleted /\ account[i] \in AccountRow
        /\ \A j \in AccountIds \ {i} : account'[j] = account[j]
    BY <1>3 DEF RowDeleted, Live, VaultInv, TypeOK
  <2>2. i \notin Live' /\ account[i].owner # None
    BY <2>1, ConstantsOK DEF Live, AccountRow
  <2>3. Owners[i] # None /\ Owners' = [Owners EXCEPT ![i] = None] /\ Readable' = [Readable EXCEPT ![i] = None]
    BY <1>3, <2>1, <2>2, AccountWritten DEF Owners
  <2> QED
    BY <1>1, <2>1, <2>3 DEF V!VNext, V!VDelete
<1>4. CASE account' = RowDeleted(req[t].id) /\ req[t].id \notin Live
  BY <1>2, <1>4 DEF RowDeleted, VaultInv, TypeOK
<1> QED
  BY <1>2, <1>3, <1>4 DEF DeleteAccount

LEMMA FetchMaps ==
  ASSUME VaultInv, SerialInv, VaultInv', SerialInv', NEW t \in Threads, FetchPassword(t)
  PROVE  [V!VNext]_(V!vvars)
<1> DEFINE u == req[t].user
           i == req[t].id
           ask == [user |-> u, id |-> i, key |-> req[t].key]
<1>1. /\ UserKeys' = UserKeys /\ Owners' = Owners /\ Readable' = Readable /\ reported' = reported
      /\ Changing' = Changing
  BY KeysKept, AccountsKept, ChangingKept DEF FetchPassword, Step, ChangeUpdate, RotateReply
<1>2. pc[t] = "fetch" /\ u \in Users /\ ask \in [user : Users, id : AccountIds, key : AnyKey]
  BY BusyFacts, RequestFields DEF FetchPassword, VaultInv, HandlerOp, Validated
<1>3. Asked[t] = ask /\ Asked[t] # None
  BY <1>2, NothingIsNone DEF Asked, AskedOf
<1>4. Asked' = [Asked EXCEPT ![t] = None]
  <2>1. pc'[t] = "done" /\ req' = req /\ \A s \in Threads \ {t} : pc'[s] = pc[s]
    BY StepFrame DEF FetchPassword, Respond, Step, VaultInv, TypeOK
  <2>2. \A s \in Threads : AskedOf(s)' = IF s = t THEN None ELSE AskedOf(s)
    BY <2>1 DEF AskedOf
  <2> QED BY <2>2 DEF Asked
<1>5. PICK x : /\ Answers' = [Answers EXCEPT ![t] = x]
               /\ \/ x \in {NoPwd, NotFoundText}
                  \/ i \in Owned(u) /\ x = Decrypt(account[i], req[t].key)
  BY AnswersGiven
<1>6. Asked[t] # None /\ Asked[t].user = u /\ Asked[t].id = i
  BY <1>3
<1>7. CASE x \in {NoPwd, NotFoundText}
  BY <1>1, <1>3, <1>4, <1>5, <1>7 DEF V!VNext, V!VMiss, V!vtables
<1>8. CASE i \in Owned(u) /\ x = Decrypt(account[i], req[t].key)
  <2>1. /\ i \in Live /\ i \in AccountIds /\ account[i].owner = u
        /\ Owners[i] = u /\ Readable[i] = account[i].pwd
    BY <1>8, ReadableIsStored DEF Owned, Live, Owners, Stored
  <2>2. CASE i \in reported
    <3>1. x \in V!Contents
      BY <1>8, <2>1 DEF V!Contents, Decrypt, SerialInv, Contained
    <3>2. x \in IF i \in reported THEN V!Contents
                ELSE {Readable[i]} \cup IF V!Overtaken(t) THEN {Garbage} ELSE {}
      BY <2>2, <3>1
    <3> QED BY <1>1, <1>4, <1>5, <1>6, <2>1, <3>2 DEF V!VNext, V!VFetch, V!vtables
  <2>3. CASE i \notin reported
    <3>1. UserKeys[u] = user[u].key
      BY <1>2, BusyFacts, ConstantsOK DEF UserKeys, VaultInv
    <3>2. V!Overtaken(t) \/ account[i].key = req[t].key
      BY <1>2, <1>3, <2>1, <2>3, <3>1 DEF V!Overtaken, Changing, SerialInv, SettledInv
    <3>3. x \in IF i \in reported THEN V!Contents
                ELSE {Readable[i]} \cup IF V!Overtaken(t) THEN {Garbage} ELSE {}
      BY <1>8, <2>1, <2>3, <3>2 DEF Decrypt
    <3> QED BY <1>1, <1>4, <1>5, <1>6, <2>1, <3>3 DEF V!VNext, V!VFetch, V!vtables
  <2> QED BY <2>2, <2>3
<1> QED
  BY <1>5, <1>7, <1>8

\* A fetch that passes validate_user_by_id has asked with the key of its user.
LEMMA ValidateMaps ==
  ASSUME VaultInv, SerialInv, VaultInv', SerialInv', NEW t \in Threads, Validate(t)
  PROVE  [V!VNext]_(V!vvars)
<1> DEFINE u == req[t].user
<1>1. /\ UserKeys' = UserKeys /\ Owners' = Owners /\ Readable' = Readable /\ reported' = reported
      /\ Changing' = Changing /\ Answers' = Answers
  BY KeysKept, AccountsKept, ChangingKept, AnswersKept
     DEF Validate, Step, ChangeUpdate, RotateReply, FetchPassword, Return
<1>2. /\ pc[t] = "validate" /\ req' = req /\ \A s \in Threads \ {t} : pc'[s] = pc[s]
      /\ HandlerOp(pc[t], req[t].op)
  BY StepFrame, BusyFacts DEF Validate, Step, VaultInv
<1>3. CASE pc'[t] # "fetch"
  <2>1. \A s \in Threads : AskedOf(s)' = AskedOf(s)
    BY <1>2, <1>3 DEF AskedOf
  <2> QED BY <1>1, <2>1 DEF Asked, V!vvars, V!vtables
<1>4. CASE pc'[t] = "fetch"
  <2>1. user[u].key = req[t].key
    BY <1>4, RespondDone DEF Validate, KeyMatches, VaultInv
  <2>2. req[t].op = "FetchPassword"
    BY <1>4, BusyFacts, <1>2 DEF VaultInv, HandlerInv, HandlerOp
  <2>3. u \in Users /\ req[t].id \in AccountIds /\ user[u] \in UserRow
    BY <1>2, <2>2, BusyFacts, RequestFields DEF VaultInv, Validated
  <2>4. UserKeys[u] = req[t].key /\ UserKeys[u] # None
    BY <2>1, <2>3, ConstantsOK, NothingIsNone DEF UserKeys, UserRow
  <2>5. \A s \in Threads : AskedOf(s)' = IF s = t THEN [user |-> u, id |-> req[t].id, key |-> req[t].key]
                                        ELSE AskedOf(s)
    BY <1>2, <1>4 DEF AskedOf
  <2>6. /\ Asked[t] = None
        /\ Asked' = [Asked EXCEPT ![t] = [user |-> u, id |-> req[t].id, key |-> UserKeys[u]]]
    BY <1>2, <2>4, <2>5 DEF Asked, AskedOf
  <2> QED BY <1>1, <2>3, <2>4, <2>6 DEF V!VNext, V!VAsk, V!vtables
<1> QED
  BY <1>3, <1>4

LEMMA ChangeMaps ==
  ASSUME KeyChangesAlone, VaultInv, SerialInv, VaultInv', SerialInv', NEW t \in Threads, ChangeUpdate(t)
  PROVE  [V!VNext]_(V!vvars)
<1> DEFINE u == req[t].user
<1>1. /\ Owners' = Owners /\ Readable' = Readable /\ Answers' = Answers /\ reported' = reported
      /\ Asked' = Asked
  BY AccountsKept, AnswersKept, AskedKept DEF ChangeUpdate, Step, FetchPassword, Return, Validate
<1>2. CASE user' = user /\ pc'[t] = "done"
  <2>1. Changing' = Changing
    <3>1. pc[t] = "chUpdate" /\ req' = req /\ \A s \in Threads \ {t} : pc'[s] = pc[s]
      BY StepFrame DEF ChangeUpdate, Step, VaultInv
    <3>2. \A s \in Threads, w \in Users : Rotating(s, w)' <=> Rotating(s, w)
      BY <1>2, <3>1 DEF Rotating
    <3> QED BY <3>2 DEF Changing
  <2> QED BY <1>1, <1>2, <2>1, KeysKept DEF V!vvars, V!vtables
<1>3. CASE user' = [user EXCEPT ![u] = [loc[t].row EXCEPT !.key = req[t].new]] /\ pc'[t] = "list"
  <2>1. /\ u \in Users /\ req[t].op = "UpdateMainKey" /\ req[t] \in Requests
        /\ user[u] \in UserRow /\ loc[t].row \in UserRow /\ req[t].old = user[u].key
    BY BusyFacts DEF ChangeUpdate, VaultInv, HandlerInv, HandlerOp, TypeOK, Locals, SerialInv, CurrentKey
  <2>2. req[t].old \in AnyKey /\ req[t].new \in AnyKey
    BY <2>1, RequestFields
  <2>3. /\ user'[u] = [loc[t].row EXCEPT !.key = req[t].new]
        /\ \A w \in Users \ {u} : user'[w] = user[w]
    BY <1>3, <2>1 DEF VaultInv, TypeOK
  <2>4. user'[u] # None /\ user'[u].key = req[t].new /\ user[u] # None
    BY <2>1, <2>2, <2>3, ConstantsOK DEF UserRow
  <2>5. UserKeys[u] = req[t].old /\ UserKeys' = [UserKeys EXCEPT ![u] = req[t].new]
    BY <2>1, <2>3, <2>4 DEF UserKeys
  <2>6. u \notin Changing /\ Changing' = Changing \cup {u}
    BY <1>3, ChangingBegins
  <2> QED
    BY <1>1, <2>1, <2>2, <2>5, <2>6 DEF V!VNext, V!VRotate
<1>4. Goto(t, "list") => pc'[t] = "list"
  BY DEF Goto, VaultInv, TypeOK
<1> QED
  BY <1>2, <1>3, <1>4, RespondDone DEF ChangeUpdate, VaultInv

LEMMA RenameMaps ==
  ASSUME VaultInv, SerialInv, VaultInv', SerialInv', NEW t \in Threads, UserUpdate(t)
  PROVE  [V!VNext]_(V!vvars)
<1>1. /\ Owners' = Owners /\ Readable' = Readable /\ Answers' = Answers /\ reported' = reported
      /\ Changing' = Changing /\ Asked' = Asked
  BY AccountsKept, OtherKept DEF UserUpdate, Step, RotateReply
<1>2. CASE user' = user
  BY <1>1, <1>2, KeysKept DEF V!vvars, V!vtables
<1>3. CASE user' = [user EXCEPT ![req[t].user] = [loc[t].row EXCEPT !.name = req[t].name]]
  <2>1. /\ req[t].user \in Users /\ user[req[t].user] \in UserRow /\ req[t].name \in Names
        /\ loc[t].row \in UserRow /\ loc[t].row.key = user[req[t].user].key
    BY BusyFacts, RequestFields
       DEF UserUpdate, VaultInv, HandlerInv, HandlerOp, TypeOK, Locals, SerialInv, CurrentKey
  <2>2. /\ user'[req[t].user] = [loc[t].row EXCEPT !.name = req[t].name]
        /\ \A u \in Users \ {req[t].user} : user'[u] = user[u]
    BY <1>3, <2>1 DEF VaultInv, TypeOK
  <2>3. /\ user'[req[t].user] # None /\ user'[req[t].user].key = user[req[t].user].key
        /\ user[req[t].user] # None
    BY <2>1, <2>2, ConstantsOK DEF UserRow
  <2>4. UserKeys' = UserKeys
    BY <2>1, <2>2, <2>3 DEF UserKeys
  <2> QED
    BY <1>1, <2>4 DEF V!vvars, V!vtables
<1> QED
  BY <1>2, <1>3 DEF UserUpdate

LEMMA ReWriteMaps ==
  ASSUME VaultInv, SerialInv, VaultInv', SerialInv', NEW t \in Threads, ReWrite(t)
  PROVE  [V!VNext]_(V!vvars)
<1>1. /\ UserKeys' = UserKeys /\ Answers' = Answers /\ reported' = reported /\ pc[t] = "reWrite"
      /\ Changing' = Changing /\ Asked' = Asked
  BY KeysKept, OtherKept DEF ReWrite, Step, RotateReply
<1>2. CASE account' = account
  BY <1>1, <1>2, AccountsKept DEF V!vvars, V!vtables
<1>3. CASE account' = PwdUpdated(loc[t].cur, req[t].user, req[t].new, loc[t].plain)
  <2> DEFINE i == loc[t].cur
             p == loc[t].plain
  <2>1. CASE i \notin Owned(req[t].user)
    <3>1. account' = account
      BY <1>3, <2>1 DEF PwdUpdated, VaultInv, TypeOK
    <3> QED BY <1>2, <3>1
  <2>2. CASE i \in Owned(req[t].user)
    <3>1. /\ i \in AccountIds /\ i \in Live /\ account[i].owner = req[t].user /\ account[i] \in AccountRow
      BY <2>2 DEF Owned, Live, VaultInv, TypeOK
    <3>2. /\ p \in Passwords \cup {Garbage}
          /\ i \notin reported => p = account[i].pwd
      BY <1>1, <2>2, <3>1 DEF SerialInv, RotationInv, LossOnlyAfterReport
    <3>3. req[t].user \in Users /\ req[t].new \in AnyKey
      BY <1>1, BusyFacts, RequestFields DEF HandlerOp, VaultInv
    <3>4. /\ account'[i] = Encrypted(account[i], req[t].new, p)
          /\ \A j \in AccountIds \ {i} : account'[j] = account[j]
      BY <1>3, <2>2 DEF PwdUpdated, VaultInv, TypeOK
    <3>5. /\ account'[i].owner = req[t].user /\ account'[i].pwd = p /\ account'[i] \in AccountRow
      BY <3>1, <3>2, <3>3, <3>4, EncryptedFields DEF Encrypted, AccountRow, Texts
    <3>6. i \in Live'
      BY <3>1, <3>5, ConstantsOK DEF Live
    <3>7. Owners' = Owners
      <4>1. Owners[i] = req[t].user
        BY <3>1 DEF Owners
      <4>2. Owners' = [Owners EXCEPT ![i] = req[t].user]
        BY <3>1, <3>4, <3>5, <3>6, AccountWritten
      <4> QED BY <3>1, <4>1, <4>2 DEF Owners
    <3>8. Readable' = [Readable EXCEPT ![i] = p]
      BY <3>1, <3>4, <3>5, <3>6, AccountWritten
    <3>9. CASE i \in reported
      BY <1>1, <3>1, <3>2, <3>7, <3>8, <3>9 DEF V!VNext, V!VDestroy, V!Contents
    <3>10. CASE i \notin reported
      <4>1. Readable[i] = p
        BY <3>1, <3>2, <3>10, ReadableIsStored DEF Stored
      <4>2. Readable' = Readable
        BY <3>1, <3>8, <4>1 DEF Readable
      <4> QED BY <1>1, <3>7, <4>2 DEF V!vvars, V!vtables
    <3> QED BY <3>9, <3>10
  <2> QED BY <2>1, <2>2
<1> QED
  BY <1>2, <1>3 DEF ReWrite

LEMMA ReplyMaps ==
  ASSUME KeyChangesAlone, VaultInv, SerialInv, VaultInv', SerialInv', NEW t \in Threads, RotateReply(t)
  PROVE  [V!VNext]_(V!vvars)
<1>1. /\ UserKeys' = UserKeys /\ Owners' = Owners /\ Readable' = Readable /\ Answers' = Answers
      /\ reported' = reported \cup loc[t].failed /\ Asked' = Asked
  BY KeysKept, AccountsKept, AnswersKept, AskedKept DEF RotateReply, Step, FetchPassword, Return, Validate
<1>2. loc[t].failed \subseteq loc[t].listed /\ loc[t].failed \in SUBSET AccountIds /\ req[t].user \in Users
  BY BusyFacts DEF RotateReply, VaultInv, LoopInv, Accounted, TypeOK, Locals
<1>3. \A i \in loc[t].failed : Owners[i] \in {req[t].user, None}
  BY <1>2 DEF SerialInv, ListedInv, Owners
<1> QED
  BY <1>1, <1>2, <1>3, ChangingEnds DEF V!VNext, V!VLeave

LEMMA ReturnMaps ==
  ASSUME VaultInv, SerialInv, VaultInv', SerialInv', NEW t \in Threads, Return(t)
  PROVE  [V!VNext]_(V!vvars)
<1>1. /\ UserKeys' = UserKeys /\ Owners' = Owners /\ Readable' = Readable /\ reported' = reported
      /\ Answers' = [Answers EXCEPT ![t] = None] /\ Changing' = Changing /\ Asked' = Asked
  BY KeysKept, AccountsKept, AnswersTaken, ChangingKept, AskedKept
     DEF Return, Step, ChangeUpdate, RotateReply, Validate, FetchPassword
<1> QED
  BY <1>1 DEF V!VNext, V!VForget, V!vtables

\* A registration is one of the vault; a call that is accepted changes nothing.
LEMMA AcceptMaps ==
  ASSUME VaultInv, SerialInv, VaultInv', SerialInv', ~Crash, [Next]_vars, \A t \in Threads : ~Step(t)
  PROVE  [V!VNext]_(V!vvars)
<1>1. Owners' = Owners /\ Readable' = Readable /\ reported' = reported
  BY AccountsKept, NoStatement DEF VaultInv
<1>2. CASE \E t \in Threads, r \in Requests : Receive(t, r)
  <2>1. PICK t \in Threads, r \in Requests : Receive(t, r)
    BY <1>2
  <2>2. user' = user /\ pc[t] = "idle" /\ req' = [req EXCEPT ![t] = r]
    BY <2>1 DEF Receive, Accept, CallCreateAccount, CallChangePassword, CallUpdateAccount,
                CallFetchPassword, CallDeleteAccount, CallUpdateMainKey, CallUpdateUser
  <2>3. \/ Respond(t, FALSE, NoPwd)
        \/ \E label \in {"validate", "setInfo", "chFind", "usFind"} : Goto(t, label)
    BY <2>1 DEF Receive, Accept, CallCreateAccount, CallChangePassword, CallUpdateAccount,
                CallFetchPassword, CallDeleteAccount, CallUpdateMainKey, CallUpdateUser
  <2>4. /\ pc'[t] \in {"validate", "setInfo", "chFind", "usFind", "done"}
        /\ pc'[t] # "done" \/ ~reply'[t].success
        /\ \A v \in Threads \ {t} : pc'[v] = pc[v] /\ req'[v] = req[v] /\ reply'[v] = reply[v]
    BY <2>2, <2>3 DEF VaultInv, TypeOK, Respond, Goto
  <2>5. \A v \in Threads : AnswerOf(v)' = AnswerOf(v) /\ AskedOf(v)' = AskedOf(v)
    BY <2>2, <2>4 DEF AnswerOf, AskedOf
  <2>6. \A v \in Threads, u \in Users : Rotating(v, u)' <=> Rotating(v, u)
    BY <2>2, <2>4 DEF Rotating
  <2> QED BY <1>1, <2>2, <2>5, <2>6, KeysKept DEF V!vvars, V!vtables, Answers, Asked, Changing
<1>3. ASSUME NEW u \in Users, NEW n \in Names, NEW k \in Keys, CreateUser(u, n, k)
      PROVE  V!VNext
  <2>1. Answers' = Answers /\ Asked' = Asked /\ Changing' = Changing
    BY <1>3 DEF CreateUser, Answers, AnswerOf, Asked, AskedOf, Changing, Rotating
  <2>2. [key |-> k, name |-> n] # None /\ k \in AnyKey
    BY ConstantsOK DEF UserRow, AnyKey
  <2>3. UserKeys[u] = None /\ UserKeys' = [UserKeys EXCEPT ![u] = k]
    BY <1>3, <2>2 DEF CreateUser, UserKeys, VaultInv, TypeOK
  <2> QED BY <1>1, <2>1, <2>2, <2>3 DEF V!VNext, V!VRegister
<1>4. CASE UNCHANGED vars
  BY <1>1, <1>4, KeysKept DEF vars, Answers, AnswerOf, Asked, AskedOf, Changing, Rotating, V!vvars, V!vtables
<1> QED
  BY <1>2, <1>3, <1>4 DEF Next

\* To its clients zinpassd is the abstract vault, when a key change overlaps no
\* other handler that writes for the same user and reaches its reply: whichever
\* other statements fail, and whichever fetches, deletions and calls of other
\* users overlap it.
THEOREM VaultImplemented ==
  ASSUME KeyChangesAlone, RotationCompletes
  PROVE  Spec => ImplementsVault
<1> DEFINE Inv == VaultInv /\ SerialInv
<1>1. Init => V!VInit
  BY DEF Init, V!VInit, UserKeys, Owners, Readable, Answers, AnswerOf, Asked, AskedOf, Changing, Rotating, Live
<1>2. Inv /\ Inv' /\ [Next]_vars => [V!VNext]_(V!vvars)
  <2> SUFFICES ASSUME Inv, Inv', [Next]_vars PROVE [V!VNext]_(V!vvars)
    OBVIOUS
  <2>1. ASSUME NEW t \in Threads, Step(t) PROVE [V!VNext]_(V!vvars)
    <3>1. CASE SetInfo(t) \/ ChangeFind(t) \/ ListIds(t) \/ ReRead(t) \/ UserFind(t)
      <4>1. user' = user /\ account' = account /\ reported' = reported
        BY <3>1 DEF SetInfo, ChangeFind, ListIds, ReRead, UserFind
      <4>2. /\ pc[t] \notin {"validate", "fetch", "chUpdate", "done"}
            /\ ~RotateReply(t)
        <5>1. ReRead(t) => loc[t].todo # {}
          BY DEF ReRead
        <5> QED BY <3>1, <5>1 DEF SetInfo, ChangeFind, ListIds, ReRead, UserFind, RotateReply
      <4> QED
        BY <2>1, <4>1, <4>2, KeysKept, AccountsKept, OtherKept DEF V!vvars, V!vtables
    <3> QED
      BY <2>1, <3>1, ValidateMaps, InsertMaps, SetMaps, DeleteMaps, FetchMaps, ChangeMaps, RenameMaps, ReWriteMaps,
         ReplyMaps, ReturnMaps DEF Step
  <2>2. ~Crash
    BY DEF RotationCompletes, Crash
  <2> QED BY <2>1, <2>2, AcceptMaps
<1>3. Spec => []Inv
  BY SerialInvariant
<1> HIDE DEF Inv
<1> QED
  BY <1>1, <1>2, <1>3, PTL DEF Spec, ImplementsVault, V!VSpec
-------------------------------------------------------------------------------
\* One key change per user, which a crash may cut off anywhere, and any renames.
\* Until it writes the user row the user has had one key only, so that every
\* account is under that key, and what the loop has not passed yet stays under
\* it, whichever row an overlapping rename writes back.
OldKey(t) ==
  LET u == req[t].user
  IN  /\ pc[t] \in {"chFind", "chUpdate"} => \E k : everKey[u] = {k}
      /\ pc[t] \in {"list", "reRead", "reWrite"} =>
           \A i \in Owned(u) \ loc[t].ok : account[i].key = req[t].old
      /\ pc[t] = "reWrite" /\ loc[t].cur \in Owned(u) => loc[t].plain = intended[loc[t].cur]

Intact == \A i \in Live : account[i].pwd = intended[i]

IdleFree == \A t \in Threads : pc[t] = "idle" => req[t] = None

OnceInv == /\ \A u \in Users : IsFiniteSet(everKey[u])
           /\ Assigned /\ Intact /\ IdleFree
           /\ \A t \in Threads : OldKey(t)

\* A user gets a new key where the user row is written, and nowhere else.
LEMMA EverKeyEffects ==
  ASSUME VaultInv, NEW t \in Threads, Step(t), NEW u \in Users
  PROVE  \/ everKey'[u] = everKey[u]
         \/ /\ pc[t] = "chUpdate" /\ u = req[t].user
            /\ \E k : everKey'[u] = everKey[u] \cup {k}
<1>1. CASE ChangeUpdate(t)
  <2>1. pc[t] = "chUpdate" /\ everKey \in [Users -> SUBSET AnyKey]
    BY <1>1 DEF ChangeUpdate, VaultInv, TypeOK
  <2>2. \/ everKey' = everKey
        \/ \E k : everKey' = [everKey EXCEPT ![req[t].user] = @ \cup {k}]
    BY <1>1 DEF ChangeUpdate
  <2> QED BY <2>1, <2>2
<1> QED
  BY <1>1
     DEF Step, Validate, InsertAccount, SetPassword, SetInfo, FetchPassword, DeleteAccount, ChangeFind,
         ListIds, ReRead, ReWrite, RotateReply, UserFind, UserUpdate, Return

LEMMA OldKeyOthers ==
  ASSUME ChangesAlone(PwdWriters), VaultInv, Assigned, NEW t \in Threads, Step(t),
         NEW v \in Threads \ {t}, OldKey(v)
  PROVE  OldKey(v)'
<1> USE DEF VaultInv
<1>1. pc'[v] = pc[v] /\ req'[v] = req[v] /\ loc'[v] = loc[v]
  BY StepFrame
<1> SUFFICES ASSUME pc[v] \in {"chFind", "chUpdate", "list", "reRead", "reWrite"} PROVE OldKey(v)'
  BY <1>1 DEF OldKey
<1>2. Changer(v) /\ req[v].user \in Users
  BY BusyFacts DEF Changer
<1>3. PICK u \in Users : u = req[v].user
  BY <1>2
<1>4. everKey'[u] = everKey[u]
  <2>1. pc[t] = "chUpdate" => Changer(t)
    BY BusyFacts
  <2>2. pc[t] = "chUpdate" => req[t].user # u
    BY <1>2, <1>3, <2>1, ChangerAlone DEF Changer, PwdWriters
  <2> QED BY <1>3, <2>2, EverKeyEffects
<1>5. \A i \in Owned(u)' : i \in Owned(u) /\ account'[i] = account[i] /\ intended'[i] = intended[i]
  BY <1>2, <1>3, ChangerKeepsAccounts
<1>6. /\ pc'[v] \in {"chFind", "chUpdate"} => \E k : everKey'[u] = {k}
      /\ pc'[v] \in {"list", "reRead", "reWrite"} =>
           \A i \in Owned(u)' \ loc'[v].ok : account'[i].key = req'[v].old
      /\ pc'[v] = "reWrite" /\ loc'[v].cur \in Owned(u)' => loc'[v].plain = intended'[loc'[v].cur]
  BY <1>1, <1>3, <1>4, <1>5 DEF OldKey
<1> QED
  BY <1>1, <1>3, <1>6 DEF OldKey

\* The steps of the rotation itself.
LEMMA OldKeyOwn ==
  ASSUME "reRead" \notin Failable, VaultInv, OnceInv, NEW t \in Threads, Step(t)
  PROVE  OldKey(t)'
<1> USE DEF VaultInv
<1>1. CASE \/ Validate(t) \/ InsertAccount(t) \/ SetPassword(t) \/ SetInfo(t) \/ FetchPassword(t)
           \/ DeleteAccount(t) \/ RotateReply(t) \/ UserFind(t) \/ UserUpdate(t) \/ Return(t)
  <2>1. pc[t] = "validate" => AfterValidate(req[t].op) \in {"insert", "setPwd", "fetch", "delete"}
    BY DEF HandlerInv, HandlerOp, Validated, AfterValidate
  <2>2. pc'[t] \notin {"chFind", "chUpdate", "list", "reRead", "reWrite"}
    BY <1>1, <2>1
       DEF Validate, InsertAccount, SetPassword, SetInfo, FetchPassword, DeleteAccount,
           RotateReply, UserFind, UserUpdate, Return, Respond, Goto, TypeOK
  <2> QED BY <2>2 DEF OldKey
<1>2. CASE ChangeFind(t)
  <2>1. pc[t] = "chFind" /\ pc'[t] \in {"chUpdate", "done"} /\ UNCHANGED <<user, req, everKey>>
    BY <1>2 DEF ChangeFind, Goto, Respond, TypeOK
  <2> QED BY <2>1 DEF OldKey, OnceInv
<1>3. CASE ChangeUpdate(t)
  <2>1. /\ pc[t] = "chUpdate" /\ pc'[t] \in {"list", "done"} /\ UNCHANGED <<account, req>>
    BY <1>3 DEF ChangeUpdate, Goto, Respond, TypeOK
  <2>2. \A u : Owned(u)' = Owned(u)
    BY <2>1 DEF Owned, Live
  <2>3. \A i \in Owned(req[t].user) : account[i].key = req[t].old
    <3>1. PICK k : everKey[req[t].user] = {k}
      BY <2>1 DEF OnceInv, OldKey
    <3> QED BY <2>1, <3>1 DEF KeyInv, RowKeys, HandlerKeys, Owned
  <2> QED BY <2>1, <2>2, <2>3 DEF OldKey
<1>4. CASE ListIds(t)
  <2>1. pc[t] = "list" /\ pc'[t] = "reRead" /\ UNCHANGED <<account, req>> /\ loc'[t].ok = loc[t].ok
    BY <1>4 DEF ListIds, Goto, TypeOK, Locals
  <2>2. \A u : Owned(u)' = Owned(u)
    BY <2>1 DEF Owned, Live
  <2> QED BY <2>1, <2>2 DEF OnceInv, OldKey
<1>5. CASE ReRead(t)
  <2>1. pc[t] = "reRead" /\ UNCHANGED <<account, req, intended>>
    BY <1>5 DEF ReRead
  <2>2. \A u : Owned(u)' = Owned(u)
    BY <2>1 DEF Owned, Live
  <2>3. PICK i, p :
           /\ i \in loc[t].todo /\ p \in Retrieved(req[t].user, i, req[t].old)
           /\ \/ /\ loc' = [loc EXCEPT ![t].todo = @ \ {i}, ![t].failed = @ \cup {i}]
                 /\ pc'[t] = "reRead"
              \/ /\ p # NoPwd
                 /\ loc' = [loc EXCEPT ![t].cur = i, ![t].plain = p]
                 /\ pc'[t] = "reWrite"
    BY <1>5 DEF ReRead, CanFail, Goto, TypeOK
  <2>4. /\ loc'[t].ok = loc[t].ok /\ pc'[t] \in {"reRead", "reWrite"}
        /\ pc'[t] = "reWrite" => loc'[t].cur = i /\ loc'[t].plain = p /\ p # NoPwd
    BY <2>3 DEF TypeOK, Locals
  <2>5. ASSUME i \in Owned(req[t].user), p # NoPwd PROVE p = intended[i]
    <3>1. p = Decrypt(account[i], req[t].old)
      BY <2>3, <2>5 DEF Retrieved
    <3>2. i \notin loc[t].ok
      BY <2>1, <2>3 DEF LoopInv, Accounted
    <3>3. account[i].key = req[t].old /\ account[i].pwd = intended[i]
      BY <2>1, <2>5, <3>2 DEF OnceInv, OldKey, Intact, Owned
    <3> QED BY <3>1, <3>3 DEF Decrypt
  <2> QED BY <2>1, <2>2, <2>4, <2>5 DEF OnceInv, OldKey
<1>6. CASE ReWrite(t)
  <2>1. pc[t] = "reWrite" /\ pc'[t] = "reRead" /\ UNCHANGED req /\ loc[t].ok \subseteq loc'[t].ok
    BY <1>6, ReWriteLocals DEF ReWrite
  <2>2. PICK u \in Users : u = req[t].user
    BY <2>1, BusyFacts
  <2>3. ASSUME NEW i \in Owned(u)', i \notin loc'[t].ok
        PROVE  i \in Owned(u) /\ account'[i] = account[i]
    <3>1. i \in AccountIds /\ account'[i] \notin {Unborn, Deleted} /\ account'[i].owner = u
      BY DEF Owned, Live
    <3>2. Untouched(i)
      BY <2>1, <2>3, <3>1, Effects DEF Inserted, PasswordSet, Removed, Reencrypted, Named
    <3> QED BY <3>1, <3>2 DEF Untouched, Owned, Live
  <2>4. \A i \in Owned(u)' \ loc'[t].ok : account'[i].key = req'[t].old
    BY <2>1, <2>2, <2>3 DEF OnceInv, OldKey
  <2> QED BY <2>1, <2>2, <2>4 DEF OldKey
<1> QED
  BY <1>1, <1>2, <1>3, <1>4, <1>5, <1>6 DEF Step

LEMMA IntactStep ==
  ASSUME VaultInv, OnceInv, NEW t \in Threads, Step(t)
  PROVE  Intact'
<1> SUFFICES ASSUME NEW i \in Live' PROVE account'[i].pwd = intended'[i]
  BY DEF Intact
<1>1. i \in AccountIds /\ account'[i] \notin {Unborn, Deleted}
  BY DEF Live
<1>2. CASE Untouched(i) \/ Named(t, i)
  BY <1>1, <1>2 DEF Untouched, Named, OnceInv, Intact, Live
<1>3. CASE Inserted(t, i)
  BY <1>3 DEF Inserted
<1>4. CASE PasswordSet(t, i) \/ Reencrypted(t, i)
  <2>1. account[i] \in AccountRow
    BY <1>4 DEF PasswordSet, Reencrypted, Owned, Live, VaultInv, TypeOK
  <2> QED BY <1>4, <2>1, EncryptedFields DEF PasswordSet, Reencrypted, OnceInv, OldKey
<1>5. ~Removed(t, i)
  BY <1>1 DEF Removed
<1> QED
  BY <1>1, <1>2, <1>3, <1>4, <1>5, Effects DEF VaultInv

\* A change of the key is accepted while the user has had one key: MaxRotations
\* counts it with the keys.
LEMMA FirstRotation ==
  ASSUME ChangesAlone(PwdWriters), MaxRotations = 1, VaultInv, Assigned, IdleFree, NEW u \in Users,
         IsFiniteSet(everKey[u]), user[u] # None, MayRotate(u)
  PROVE  everKey[u] = {user[u].key}
<1> DEFINE changing == {t \in Threads : req[t] # None /\ req[t].op = "UpdateMainKey" /\ req[t].user = u}
<1>1. user[u].key \in everKey[u]
  BY DEF VaultInv, KeyInv, RowKeys
<1>2. IsFiniteSet(changing)
  <2>1. \A t \in changing : Changer(t) /\ t \in Threads /\ req[t].user = u
    BY DEF IdleFree, Changer
  <2>2. \A s, t \in changing : s = t
    BY <2>1, ChangerAlone DEF VaultInv, Changer, PwdWriters
  <2>3. changing = {} \/ \E s : changing = {s}
    <3>1. CASE changing # {}
      <4>1. PICK s : s \in changing
        BY <3>1
      <4>2. changing = {s}
        BY <2>2, <4>1
      <4> QED BY <4>2
    <3> QED BY <3>1
  <2> QED BY <2>3, FS_EmptySet, FS_Singleton
<1>3. Cardinality(changing) \in Nat /\ Cardinality(everKey[u]) \in Nat
  BY <1>2, FS_CardinalityType
<1>4. Cardinality(everKey[u]) <= 1
  BY <1>3 DEF MayRotate
<1>5. Cardinality({user[u].key}) = 1 /\ {user[u].key} \in SUBSET everKey[u]
  BY <1>1, FS_Singleton
<1> QED
  BY <1>3, <1>4, <1>5, FS_Subset

LEMMA OnceStatement ==
  ASSUME ChangesAlone(PwdWriters), "reRead" \notin Failable, VaultInv, OnceInv, NEW t \in Threads, Step(t)
  PROVE  OnceInv'
<1>1. Assigned' /\ Intact'
  BY AssignedStep, IntactStep DEF OnceInv, VaultInv
<1>2. IdleFree'
  <2>1. pc'[t] = "idle" => req'[t] = None
    <3>1. CASE Return(t)
      BY <3>1 DEF Return, VaultInv, TypeOK
    <3>2. CASE ~Return(t)
      <4>1. pc[t] = "validate" => AfterValidate(req[t].op) # "idle"
        BY DEF VaultInv, HandlerInv, HandlerOp, Validated, AfterValidate
      <4>2. \/ \E label : label # "idle" /\ Goto(t, label)
            \/ \E b \in BOOLEAN : \E p : Respond(t, b, p)
        BY <3>2, <4>1
           DEF Step, Validate, InsertAccount, SetPassword, SetInfo, FetchPassword, DeleteAccount, ChangeFind,
               ChangeUpdate, ListIds, ReRead, ReWrite, RotateReply, UserFind, UserUpdate
      <4> QED BY <4>2 DEF Goto, Respond, VaultInv, TypeOK
    <3> QED BY <3>1, <3>2
  <2> QED BY <2>1, StepFrame DEF OnceInv, IdleFree, VaultInv
<1>3. ASSUME NEW u \in Users PROVE IsFiniteSet(everKey'[u])
  BY EverKeyEffects, FS_AddElement DEF OnceInv
<1>4. ASSUME NEW v \in Threads PROVE OldKey(v)'
  BY OldKeyOwn, OldKeyOthers DEF OnceInv
<1> QED
  BY <1>1, <1>2, <1>3, <1>4 DEF OnceInv

LEMMA OnceAccept ==
  ASSUME ChangesAlone(PwdWriters), MaxRotations = 1, VaultInv, OnceInv, NEW t \in Threads, NEW r \in Requests, Receive(t, r)
  PROVE  \A v \in Threads : OldKey(v)'
<1> USE DEF VaultInv
<1>1. /\ UNCHANGED <<user, account, loc, everKey, intended>>
      /\ req' = [req EXCEPT ![t] = r] /\ user[r.user] # None /\ r.user \in Users
  BY RequestFields
     DEF Receive, Accept, CallCreateAccount, CallChangePassword, CallUpdateAccount,
         CallFetchPassword, CallDeleteAccount, CallUpdateMainKey, CallUpdateUser
<1>2. PICK label \in {"validate", "setInfo", "done", "chFind", "usFind"} :
        /\ pc' = [pc EXCEPT ![t] = label]
        /\ label = "chFind" => MayRotate(r.user)
  BY DEF Receive, Accept, CallCreateAccount, CallChangePassword, CallUpdateAccount,
         CallFetchPassword, CallDeleteAccount, CallUpdateMainKey, CallUpdateUser, Goto, Respond
<1>3. pc'[t] = label /\ req'[t] = r /\ \A v \in Threads \ {t} : pc'[v] = pc[v] /\ req'[v] = req[v]
  BY <1>1, <1>2 DEF TypeOK
<1>4. label = "chFind" => everKey[r.user] = {user[r.user].key}
  BY <1>1, <1>2, FirstRotation DEF OnceInv
<1>5. \A u : Owned(u)' = Owned(u)
  BY <1>1 DEF Owned, Live
<1>6. OldKey(t)'
  BY <1>1, <1>3, <1>4 DEF OldKey
<1>7. ASSUME NEW v \in Threads \ {t} PROVE OldKey(v)'
  BY <1>1, <1>3, <1>5 DEF OnceInv, OldKey
<1> QED
  BY <1>6, <1>7

LEMMA OnceRegister ==
  ASSUME VaultInv, OnceInv, NEW u \in Users, NEW n \in Names, NEW k \in Keys, CreateUser(u, n, k)
  PROVE  /\ \A w \in Users : IsFiniteSet(everKey'[w])
         /\ \A v \in Threads : OldKey(v)'
<1> USE DEF VaultInv
<1>1. /\ \A w \in Users \ {u} : user'[w] = user[w] /\ everKey'[w] = everKey[w]
      /\ everKey'[u] = {k} /\ user[u] = None /\ UNCHANGED <<account, pc, req, loc, intended>>
  BY DEF CreateUser, TypeOK
<1>2. \A w : Owned(w)' = Owned(w)
  BY <1>1 DEF Owned, Live
<1>3. ASSUME NEW v \in Threads PROVE OldKey(v)'
  <2>1. CASE pc[v] = "idle"
    BY <1>1, <2>1 DEF OldKey
  <2>2. CASE pc[v] # "idle"
    <3>1. req[v].user \in Users \ {u}
      BY <1>1, <2>2, BusyFacts DEF HandlerInv
    <3> QED BY <1>1, <1>2, <3>1 DEF OnceInv, OldKey
  <2> QED BY <2>1, <2>2
<1>4. ASSUME NEW w \in Users PROVE IsFiniteSet(everKey'[w])
  <2>1. IsFiniteSet({k})
    BY FS_Singleton
  <2> QED BY <1>1, <2>1 DEF OnceInv
<1> QED
  BY <1>3, <1>4

LEMMA OnceStep ==
  ASSUME ChangesAlone(PwdWriters), MaxRotations = 1, "reRead" \notin Failable, VaultInv, OnceInv, [Next]_vars
  PROVE  OnceInv'
<1>1. CASE \E t \in Threads : Step(t)
  BY <1>1, OnceStatement
<1>2. CASE Crash
  BY <1>2 DEF Crash, OnceInv, Assigned, IdleFree, Intact, Live, OldKey
<1>3. CASE ~Crash /\ \A t \in Threads : ~Step(t)
  <2>1. Intact' /\ Assigned'
    BY <1>3, NoStatement DEF VaultInv, OnceInv, Intact, Live, Assigned
  <2>2. CASE \E t \in Threads, r \in Requests : Receive(t, r)
    <3>1. PICK t \in Threads, r \in Requests : Receive(t, r)
      BY <2>2
    <3>2. everKey' = everKey
      BY <3>1 DEF Receive, Accept, CallCreateAccount, CallChangePassword, CallUpdateAccount,
                  CallFetchPassword, CallDeleteAccount, CallUpdateMainKey, CallUpdateUser
    <3>3. PICK label : /\ req' = [req EXCEPT ![t] = r] /\ pc' = [pc EXCEPT ![t] = label]
                       /\ label # "idle"
      BY <3>1 DEF Receive, Accept, CallCreateAccount, CallChangePassword, CallUpdateAccount,
                  CallFetchPassword, CallDeleteAccount, CallUpdateMainKey, CallUpdateUser, Goto, Respond
    <3>4. IdleFree'
      BY <3>3 DEF OnceInv, IdleFree, VaultInv, TypeOK
    <3> QED BY <2>1, <3>1, <3>2, <3>4, OnceAccept DEF OnceInv
  <2>3. CASE \E u \in Users, n \in Names, k \in Keys : CreateUser(u, n, k)
    <3>1. IdleFree'
      BY <2>3 DEF CreateUser, OnceInv, IdleFree
    <3> QED BY <2>1, <2>3, <3>1, OnceRegister DEF OnceInv
  <2>4. CASE UNCHANGED vars
    <3>1. \A t \in Threads : OldKey(t)'
      BY <2>4 DEF vars, OnceInv, OldKey, Owned, Live
    <3>2. IdleFree' /\ \A u \in Users : IsFiniteSet(everKey'[u])
      BY <2>4 DEF vars, OnceInv, IdleFree
    <3> QED BY <2>1, <3>1, <3>2 DEF OnceInv
  <2> QED BY <1>3, <2>2, <2>3, <2>4 DEF Next
<1> QED
  BY <1>1, <1>2, <1>3

\* One change of the main key destroys no password, wherever a crash cuts it
\* off, whichever of its writes fail and whichever deletions, fetches and renames
\* of the same user overlap it, with any keys and the empty one too: the text
\* that re_encrypt_password_all has not reached is still stored, and what it
\* wrote is what it decrypted.
THEOREM PasswordIntactHolds ==
  ASSUME ChangesAlone(PwdWriters), MaxRotations = 1, "reRead" \notin Failable
  PROVE  Spec => []PasswordIntact
<1>1. Init => OnceInv
  <2> SUFFICES ASSUME Init PROVE OnceInv
    OBVIOUS
  <2>1. \A u \in Users : IsFiniteSet(everKey[u])
    BY FS_EmptySet DEF Init
  <2> QED
    BY <2>1 DEF Init, OnceInv, Assigned, IdleFree, Intact, Live, OldKey
<1>2. VaultInv /\ OnceInv /\ [Next]_vars => OnceInv'
  BY OnceStep
<1>3. VaultInv /\ OnceInv => PasswordIntact
  BY DEF VaultInv, KeyInv, RowKeys, OnceInv, Intact, PasswordIntact
<1> QED
  BY <1>1, <1>2, <1>3, VaultInvariant, PTL DEF Spec
===============================================================================
