-------------------------- MODULE VaultServiceProofs --------------------------
(***************************************************************************)
(* Proofs about VaultService, for any number of users, accounts, keys and   *)
(* handler threads, any set of failing statements, with and without crashes.*)
(* HandlerInv says what a handler at each statement has read; KeyInv follows*)
(* a verified key from the statement that verified it to the one that       *)
(* encrypts with it; LoopInv follows id_list through the re-encryption.     *)
(***************************************************************************)
EXTENDS VaultService, TLAPS

Validated == {"CreateAccount", "ChangePassword", "UpdateAccount", "FetchPassword", "DeleteAccount"}

\* Which request a thread at each statement is handling.
HandlerOp(label, op) ==
  /\ label = "validate" => op \in Validated
  /\ label = "insert" => op = "CreateAccount"
  /\ label = "setPwd" => op \in {"ChangePassword", "UpdateAccount"}
  /\ label = "setInfo" => op = "UpdateAccount"
  /\ label = "fetch" => op = "FetchPassword"
  /\ label = "delete" => op = "DeleteAccount"
  /\ label \in {"chFind", "chUpdate", "list", "reRead", "reWrite"} => op = "UpdateMainKey"
  /\ label \in {"usFind", "usUpdate"} => op = "UpdateUser"

\* A busy thread handles the request of a registered user, and has read the
\* row or the id that the statement it is at needs.
HandlerInv ==
  \A t \in Threads : pc[t] # "idle" =>
    /\ req[t] # None
    /\ user[req[t].user] # None
    /\ HandlerOp(pc[t], req[t].op)
    /\ pc[t] \in {"chUpdate", "usUpdate"} => loc[t].row # None
    /\ pc[t] = "reWrite" => loc[t].cur \in AccountIds

\* The fields a request has, by its op.
LEMMA RequestFields ==
  ASSUME NEW r \in Requests
  PROVE  /\ r.user \in Users
         /\ r.op \in AllOps
         /\ r.op \in Validated => r.key \in AnyKey
         /\ r.op \in {"CreateAccount", "ChangePassword", "UpdateAccount"}
              => r.pwd \in Passwords \cup {NoPwd}
         /\ r.op \in Validated \ {"CreateAccount"} => r.id \in AccountIds
         /\ r.op = "UpdateMainKey" => r.old \in AnyKey /\ r.new \in AnyKey
         /\ r.op = "UpdateUser" => r.name \in Names
  BY ConstantsOK DEF Requests, Validated, AllOps

THEOREM InitType == Init => TypeOK /\ HandlerInv
  BY ConstantsOK DEF Init, TypeOK, HandlerInv, Locals, NoLocals, Texts

LEMMA RespondType ==
  ASSUME NEW t \in Threads, NEW b \in BOOLEAN, NEW x \in Texts, TypeOK, Respond(t, b, x)
  PROVE  /\ pc' \in [Threads -> (Statements \ {"decrypt"}) \cup {"idle", "done"}]
         /\ reply' \in [Threads -> [success : BOOLEAN, text : Texts] \cup {None}]
         /\ pc'[t] = "done"
         /\ \A v \in Threads \ {t} : pc'[v] = pc[v]
  BY DEF TypeOK, Respond

LEMMA GotoType ==
  ASSUME NEW t \in Threads, NEW label \in Statements \ {"decrypt"}, TypeOK, Goto(t, label)
  PROVE  /\ pc' \in [Threads -> (Statements \ {"decrypt"}) \cup {"idle", "done"}]
         /\ reply' \in [Threads -> [success : BOOLEAN, text : Texts] \cup {None}]
         /\ pc'[t] = label
         /\ \A v \in Threads \ {t} : pc'[v] = pc[v]
  BY DEF TypeOK, Goto

\* Writing the locals of one thread leaves those of the others.
LEMMA LocalsUpdate ==
  ASSUME NEW t \in Threads, NEW l \in Locals, TypeOK, loc' = [loc EXCEPT ![t] = l]
  PROVE  /\ loc' \in [Threads -> Locals]
         /\ loc'[t] = l
         /\ \A v \in Threads \ {t} : loc'[v] = loc[v]
  BY DEF TypeOK

\* A respond step ends the handler.
LEMMA RespondDone ==
  ASSUME NEW t \in Threads, NEW b, NEW x, TypeOK, Respond(t, b, x)
  PROVE  pc'[t] = "done"
  BY DEF TypeOK, Respond

\* An UPDATE keeps the table a table.
LEMMA PwdUpdatedType ==
  ASSUME NEW i \in AccountIds, NEW u \in Users, NEW k \in AnyKey, NEW p \in Texts, TypeOK
  PROVE  PwdUpdated(i, u, k, p) \in [AccountIds -> AccountRow \cup {Unborn, Deleted}]
<1>1. i \in Owned(u) => account[i] \in AccountRow
  BY DEF TypeOK, Owned, Live
<1>2. i \in Owned(u) => [account[i] EXCEPT !.key = k, !.pwd = p] \in AccountRow
  BY <1>1 DEF AccountRow
<1> QED BY <1>2 DEF TypeOK, PwdUpdated, Encrypted

\* What retrieve_decrypted_password puts in data is a text.
LEMMA RetrievedType ==
  ASSUME NEW i \in AccountIds, NEW u \in Users, NEW k \in AnyKey, TypeOK
  PROVE  Retrieved(u, i, k) \subseteq Texts
  BY DEF TypeOK, Retrieved, Decrypt, Texts, Owned, Live, AccountRow

LEMMA TypeStep == TypeOK /\ HandlerInv /\ [Next]_vars => TypeOK' /\ HandlerInv'
<1> SUFFICES ASSUME TypeOK, HandlerInv, [Next]_vars PROVE TypeOK' /\ HandlerInv'
  OBVIOUS
<1> USE ConstantsOK
<1>1. ASSUME NEW u \in Users, NEW n \in Names, NEW k \in Keys, CreateUser(u, n, k)
      PROVE  TypeOK' /\ HandlerInv'
  <2>1. [key |-> k, name |-> n] \in UserRow
    BY DEF UserRow, AnyKey
  <2>2. TypeOK'
    BY <1>1, <2>1 DEF TypeOK, CreateUser, AnyKey
  <2>3. HandlerInv'
    BY <1>1, <2>1, RequestFields DEF TypeOK, HandlerInv, CreateUser
  <2> QED BY <2>2, <2>3
<1>2. ASSUME NEW t \in Threads, NEW r \in Requests, Receive(t, r)
      PROVE  TypeOK' /\ HandlerInv'
  <2>1. r.op \in AllOps /\ r.user \in Users
    BY RequestFields
  <2>2. PICK label \in {"chFind", "usFind", "setInfo", "validate", "done"} :
          /\ label # "done" => HandlerOp(label, r.op) /\ Goto(t, label)
          /\ label = "done" => Respond(t, FALSE, NoPwd)
          /\ req' = [req EXCEPT ![t] = r]
          /\ user[r.user] # None
          /\ UNCHANGED <<user, account, loc, everKey, intended, reported>>
    BY <1>2 DEF Receive, Accept, CallCreateAccount, CallChangePassword, CallUpdateAccount,
                CallFetchPassword, CallDeleteAccount, CallUpdateMainKey, CallUpdateUser,
                HandlerOp, Validated
  <2>3. /\ pc' \in [Threads -> (Statements \ {"decrypt"}) \cup {"idle", "done"}]
        /\ reply' \in [Threads -> [success : BOOLEAN, text : Texts] \cup {None}]
        /\ pc'[t] = label
        /\ \A v \in Threads \ {t} : pc'[v] = pc[v]
    BY <2>2, RespondType, GotoType DEF Texts, Statements
  <2>4. TypeOK'
    BY <2>2, <2>3 DEF TypeOK
  <2>5. HandlerInv'
    BY <2>2, <2>3 DEF HandlerInv, HandlerOp, TypeOK
  <2> QED BY <2>4, <2>5
<1>3. ASSUME NEW t \in Threads, Step(t)
      PROVE  TypeOK' /\ HandlerInv'
  <2>1. pc[t] # "idle" => req[t] \in Requests /\ req[t].user \in Users
                          /\ user[req[t].user] \in UserRow
                          /\ HandlerOp(pc[t], req[t].op)
    BY RequestFields DEF TypeOK, HandlerInv
  <2>2. NoPwd \in Texts /\ NotFoundText \in Texts /\ Garbage \in Texts
    BY DEF Texts
  <2>3. loc[t] \in Locals
    BY DEF TypeOK
  <2>4. CASE Validate(t)
    <3>1. AfterValidate(req[t].op) \in {"insert", "setPwd", "fetch", "delete"}
          /\ HandlerOp(AfterValidate(req[t].op), req[t].op)
      BY <2>1, <2>4 DEF Validate, AfterValidate, HandlerOp, Validated
    <3>2. /\ pc' \in [Threads -> (Statements \ {"decrypt"}) \cup {"idle", "done"}]
          /\ reply' \in [Threads -> [success : BOOLEAN, text : Texts] \cup {None}]
          /\ pc'[t] \in {"done", AfterValidate(req[t].op)}
          /\ \A v \in Threads \ {t} : pc'[v] = pc[v]
      BY <2>2, <2>4, <3>1, RespondType, GotoType DEF Validate, Statements
    <3>3. TypeOK'
      BY <2>4, <3>2 DEF TypeOK, Validate
    <3>4. HandlerInv'
      BY <2>4, <3>1, <3>2 DEF HandlerInv, Validate, HandlerOp
    <3> QED BY <3>3, <3>4
  <2>5. CASE InsertAccount(t)
    <3>1. req[t].op = "CreateAccount" /\ req[t].key \in AnyKey
          /\ req[t].pwd \in Passwords \cup {NoPwd}
      BY <2>1, <2>5, RequestFields DEF InsertAccount, HandlerOp, Validated
    <3>2. req[t].pwd \in Texts /\ [owner |-> req[t].user, key |-> req[t].key, pwd |-> req[t].pwd] \in AccountRow
      BY <2>1, <2>5, <3>1 DEF InsertAccount, AccountRow, Texts
    <3>3. /\ pc' \in [Threads -> (Statements \ {"decrypt"}) \cup {"idle", "done"}]
          /\ reply' \in [Threads -> [success : BOOLEAN, text : Texts] \cup {None}]
          /\ pc'[t] = "done"
          /\ \A v \in Threads \ {t} : pc'[v] = pc[v]
      BY <2>2, <2>5, RespondType DEF InsertAccount
    <3>4. account' \in [AccountIds -> AccountRow \cup {Unborn, Deleted}]
      BY <2>5, <3>2 DEF TypeOK, InsertAccount, RowInserted
    <3>6. intended' \in [AccountIds -> Passwords \cup {NoPwd}]
      BY <2>5, <3>1 DEF TypeOK, InsertAccount
    <3>7. TypeOK'
      BY <2>5, <3>3, <3>4, <3>6 DEF TypeOK, InsertAccount
    <3>5. HandlerInv'
      BY <2>5, <3>3 DEF HandlerInv, InsertAccount, HandlerOp
    <3> QED BY <3>5, <3>7
  <2>6. CASE SetPassword(t)
    <3>1. req[t].op \in {"ChangePassword", "UpdateAccount"} /\ req[t].key \in AnyKey
          /\ req[t].pwd \in Passwords \cup {NoPwd} /\ req[t].id \in AccountIds
      BY <2>1, <2>6, RequestFields DEF SetPassword, HandlerOp, Validated
    <3>2. PwdUpdated(req[t].id, req[t].user, req[t].key, req[t].pwd)
            \in [AccountIds -> AccountRow \cup {Unborn, Deleted}]
      BY <2>1, <2>6, <3>1, PwdUpdatedType DEF SetPassword, Texts
    <3>3. /\ pc' \in [Threads -> (Statements \ {"decrypt"}) \cup {"idle", "done"}]
          /\ reply' \in [Threads -> [success : BOOLEAN, text : Texts] \cup {None}]
          /\ pc'[t] = "done" \/ (pc'[t] = "setInfo" /\ req[t].op = "UpdateAccount")
          /\ \A v \in Threads \ {t} : pc'[v] = pc[v]
      <4>1. CASE \E b \in BOOLEAN : Respond(t, b, NoPwd)
        BY <2>2, <4>1, RespondType
      <4>2. CASE Goto(t, "setInfo") /\ req[t].op # "ChangePassword"
        BY <3>1, <4>2, GotoType DEF Statements
      <4> QED BY <2>6, <4>1, <4>2 DEF SetPassword
    <3>4. account' \in [AccountIds -> AccountRow \cup {Unborn, Deleted}]
      BY <2>6, <3>2 DEF TypeOK, SetPassword
    <3>5. intended' \in [AccountIds -> Passwords \cup {NoPwd}] /\ reported' \subseteq AccountIds
      <4>1. /\ \/ intended' = intended
               \/ intended' = [intended EXCEPT ![req[t].id] =
                                 IF req[t].id \in Owned(req[t].user) THEN req[t].pwd ELSE @]
            /\ reported' \subseteq reported
        BY <2>6 DEF SetPassword
      <4> QED BY <3>1, <4>1 DEF TypeOK
    <3>6. UNCHANGED <<user, req, loc, everKey>>
      BY <2>6 DEF SetPassword
    <3>7. TypeOK'
      BY <3>3, <3>4, <3>5, <3>6 DEF TypeOK
    <3>8. HandlerInv'
      BY <2>6, <3>3 DEF HandlerInv, SetPassword, HandlerOp
    <3> QED BY <3>7, <3>8
  <2>7. CASE SetInfo(t) \/ FetchPassword(t) \/ DeleteAccount(t)
    <3>1. pc[t] # "idle"
      BY <2>7 DEF SetInfo, FetchPassword, DeleteAccount
    <3>2. pc[t] = "fetch" => Retrieved(req[t].user, req[t].id, req[t].key) \subseteq Texts
      BY <2>1, RequestFields, RetrievedType DEF HandlerOp, Validated
    <3>3. /\ pc' \in [Threads -> (Statements \ {"decrypt"}) \cup {"idle", "done"}]
          /\ reply' \in [Threads -> [success : BOOLEAN, text : Texts] \cup {None}]
          /\ pc'[t] = "done"
          /\ \A v \in Threads \ {t} : pc'[v] = pc[v]
      BY <2>2, <2>7, <3>2, RespondType DEF SetInfo, FetchPassword, DeleteAccount
    <3>6. UNCHANGED <<user, req, loc, everKey, intended, reported>>
      BY <2>7 DEF SetInfo, FetchPassword, DeleteAccount
    <3>7. account' \in [AccountIds -> AccountRow \cup {Unborn, Deleted}]
      BY <2>7 DEF TypeOK, SetInfo, FetchPassword, DeleteAccount, RowDeleted
    <3>4. TypeOK'
      BY <3>3, <3>6, <3>7 DEF TypeOK
    <3>5. HandlerInv'
      BY <3>1, <3>3, <3>6 DEF HandlerInv, HandlerOp
    <3> QED BY <3>4, <3>5
  <2>8. CASE ChangeFind(t) \/ UserFind(t)
    <3>1. /\ pc' \in [Threads -> (Statements \ {"decrypt"}) \cup {"idle", "done"}]
          /\ reply' \in [Threads -> [success : BOOLEAN, text : Texts] \cup {None}]
          /\ pc'[t] = "done" \/ pc'[t] = (IF pc[t] = "chFind" THEN "chUpdate" ELSE "usUpdate")
          /\ \A v \in Threads \ {t} : pc'[v] = pc[v]
      BY <2>2, <2>8, RespondType, GotoType DEF ChangeFind, UserFind, Statements
    <3>2. /\ loc' \in [Threads -> Locals]
          /\ pc'[t] # "done" => loc'[t].row = user[req[t].user]
          /\ \A v \in Threads \ {t} : loc'[v] = loc[v]
      <4>1. user[req[t].user] \in UserRow
        BY <2>1, <2>8 DEF ChangeFind, UserFind
      <4>2. [loc[t] EXCEPT !.row = user[req[t].user]] \in Locals
        BY <2>3, <4>1 DEF Locals
      <4>3. CASE loc' = [loc EXCEPT ![t].row = user[req[t].user]]
        BY <4>2, <4>3 DEF TypeOK, Locals
      <4>4. CASE UNCHANGED loc /\ \E b \in BOOLEAN : Respond(t, b, NoPwd)
        BY <4>4, RespondDone DEF TypeOK
      <4> QED BY <2>8, <4>3, <4>4 DEF ChangeFind, UserFind
    <3>5. UNCHANGED <<user, account, req, everKey, intended, reported>>
      BY <2>8 DEF ChangeFind, UserFind
    <3>3. TypeOK'
      BY <3>1, <3>2, <3>5 DEF TypeOK
    <3>4. HandlerInv'
      <4>1. pc[t] \in {"chFind", "usFind"} /\ user[req[t].user] # None
        BY <2>1, <2>8 DEF ChangeFind, UserFind, HandlerInv
      <4> QED BY <3>1, <3>2, <3>5, <4>1 DEF HandlerInv, HandlerOp
    <3> QED BY <3>3, <3>4
  <2>9. CASE ChangeUpdate(t)
    <3>1. [loc[t].row EXCEPT !.key = req[t].new] \in UserRow
      BY <2>1, <2>3, <2>9, RequestFields
      DEF ChangeUpdate, HandlerOp, HandlerInv, Locals, UserRow
    <3>2. /\ pc' \in [Threads -> (Statements \ {"decrypt"}) \cup {"idle", "done"}]
          /\ reply' \in [Threads -> [success : BOOLEAN, text : Texts] \cup {None}]
          /\ pc'[t] \in {"done", "list"}
          /\ \A v \in Threads \ {t} : pc'[v] = pc[v]
      BY <2>2, <2>9, RespondType, GotoType DEF ChangeUpdate, Statements
    <3>3. user' \in [Users -> UserRow \cup {None}] /\ everKey' \in [Users -> SUBSET AnyKey]
          /\ \A u \in Users : user[u] # None => user'[u] # None
      <4> DEFINE row == [loc[t].row EXCEPT !.key = req[t].new]
      <4>1. req[t].user \in Users /\ row \in UserRow /\ row # None /\ row.key \in AnyKey
        BY <2>1, <2>9, <3>1 DEF ChangeUpdate, UserRow
      <4> HIDE DEF row
      <4>2. CASE user' = [user EXCEPT ![req[t].user] = row]
                 /\ everKey' = [everKey EXCEPT ![req[t].user] = @ \cup {row.key}]
        BY <4>1, <4>2 DEF TypeOK
      <4>3. CASE UNCHANGED <<user, everKey>>
        BY <4>3 DEF TypeOK
      <4> QED BY <2>9, <4>2, <4>3 DEF ChangeUpdate, row
    <3>4. TypeOK'
      BY <2>9, <3>2, <3>3 DEF TypeOK, ChangeUpdate
    <3>5. HandlerInv'
      <4>1. \A v \in Threads : pc[v] # "idle" => req[v].user \in Users
        BY RequestFields DEF TypeOK, HandlerInv
      <4> QED BY <2>9, <3>2, <3>3, <4>1 DEF HandlerInv, ChangeUpdate, HandlerOp
    <3> QED BY <3>4, <3>5
  <2>10. CASE UserUpdate(t)
    <3>1. [loc[t].row EXCEPT !.name = req[t].name] \in UserRow
      BY <2>1, <2>3, <2>10, RequestFields
      DEF UserUpdate, HandlerOp, HandlerInv, Locals, UserRow
    <3>2. /\ pc' \in [Threads -> (Statements \ {"decrypt"}) \cup {"idle", "done"}]
          /\ reply' \in [Threads -> [success : BOOLEAN, text : Texts] \cup {None}]
          /\ pc'[t] = "done"
          /\ \A v \in Threads \ {t} : pc'[v] = pc[v]
      BY <2>2, <2>10, RespondType DEF UserUpdate
    <3>3. user' \in [Users -> UserRow \cup {None}]
          /\ \A u \in Users : user[u] # None => user'[u] # None
      BY <2>1, <2>10, <3>1 DEF TypeOK, UserUpdate
    <3>4. TypeOK'
      BY <2>10, <3>2, <3>3 DEF TypeOK, UserUpdate
    <3>5. HandlerInv'
      <4>1. \A v \in Threads : pc[v] # "idle" => req[v].user \in Users
        BY RequestFields DEF TypeOK, HandlerInv
      <4> QED BY <2>10, <3>2, <3>3, <4>1 DEF HandlerInv, UserUpdate, HandlerOp
    <3> QED BY <3>4, <3>5
  <2>11. CASE ListIds(t)
    <3>1. /\ pc' \in [Threads -> (Statements \ {"decrypt"}) \cup {"idle", "done"}]
          /\ reply' \in [Threads -> [success : BOOLEAN, text : Texts] \cup {None}]
          /\ pc'[t] = "reRead"
          /\ \A v \in Threads \ {t} : pc'[v] = pc[v]
      BY <2>11, GotoType DEF ListIds, Statements
    <3>2. PICK ids \in SUBSET AccountIds :
            loc' = [loc EXCEPT ![t].listed = ids, ![t].todo = ids]
      BY <2>11 DEF ListIds, Owned, Live
    <3>3. loc' \in [Threads -> Locals]
      BY <2>3, <3>2 DEF TypeOK, Locals
    <3>4. TypeOK'
      BY <2>11, <3>1, <3>3 DEF TypeOK, ListIds
    <3>5. HandlerInv'
      BY <2>11, <3>1, <3>2 DEF HandlerInv, ListIds, HandlerOp, TypeOK
    <3> QED BY <3>4, <3>5
  <2>12. CASE ReRead(t)
    <3>1. /\ pc' \in [Threads -> (Statements \ {"decrypt"}) \cup {"idle", "done"}]
          /\ reply' \in [Threads -> [success : BOOLEAN, text : Texts] \cup {None}]
          /\ pc'[t] \in {"reRead", "reWrite"}
          /\ \A v \in Threads \ {t} : pc'[v] = pc[v]
      BY <2>12, GotoType DEF ReRead, Statements
    <3>2. req[t].op = "UpdateMainKey" /\ req[t].old \in AnyKey
      BY <2>1, <2>12, RequestFields DEF ReRead, HandlerOp
    <3>3. \A i \in AccountIds : Retrieved(req[t].user, i, req[t].old) \subseteq Texts
      BY <2>1, <2>12, <3>2, RetrievedType DEF ReRead
    <3>4. PICK i \in AccountIds, p \in Texts :
            \/ /\ loc' = [loc EXCEPT ![t].todo = @ \ {i}, ![t].failed = @ \cup {i}]
               /\ pc'[t] = "reRead"
            \/ loc' = [loc EXCEPT ![t].cur = i, ![t].plain = p]
      <4>1. loc[t].todo \subseteq AccountIds
        BY <2>3 DEF Locals
      <4> QED BY <2>2, <2>12, <3>3, <4>1 DEF ReRead, Goto, TypeOK
    <3>5. loc' \in [Threads -> Locals]
      <4>1. [loc[t] EXCEPT !.todo = @ \ {i}, !.failed = @ \cup {i}] \in Locals
            /\ [loc[t] EXCEPT !.cur = i, !.plain = p] \in Locals
        BY <2>3 DEF Locals
      <4>2. \/ loc' = [loc EXCEPT ![t] = [loc[t] EXCEPT !.todo = @ \ {i}, !.failed = @ \cup {i}]]
            \/ loc' = [loc EXCEPT ![t] = [loc[t] EXCEPT !.cur = i, !.plain = p]]
        BY <2>3, <3>4 DEF TypeOK, Locals
      <4> QED BY <4>1, <4>2, LocalsUpdate
    <3>6. TypeOK'
      BY <2>12, <3>1, <3>5 DEF TypeOK, ReRead
    <3>7. HandlerInv'
      <4>1. /\ pc'[t] = "reWrite" => loc'[t].cur \in AccountIds
            /\ \A v \in Threads \ {t} : loc'[v] = loc[v]
        BY <2>3, <3>4 DEF TypeOK, Locals
      <4> QED BY <2>12, <3>1, <4>1 DEF HandlerInv, ReRead, HandlerOp
    <3> QED BY <3>6, <3>7
  <2>13. CASE ReWrite(t)
    <3>1. /\ pc' \in [Threads -> (Statements \ {"decrypt"}) \cup {"idle", "done"}]
          /\ reply' \in [Threads -> [success : BOOLEAN, text : Texts] \cup {None}]
          /\ pc'[t] = "reRead"
          /\ \A v \in Threads \ {t} : pc'[v] = pc[v]
      BY <2>13, GotoType DEF ReWrite, Statements
    <3>2. req[t].op = "UpdateMainKey" /\ req[t].new \in AnyKey /\ loc[t].cur \in AccountIds
      BY <2>1, <2>13, RequestFields DEF ReWrite, HandlerOp, HandlerInv
    <3>3. PwdUpdated(loc[t].cur, req[t].user, req[t].new, loc[t].plain)
            \in [AccountIds -> AccountRow \cup {Unborn, Deleted}]
      BY <2>1, <2>3, <2>13, <3>2, PwdUpdatedType DEF ReWrite, Locals
    <3>4. account' \in [AccountIds -> AccountRow \cup {Unborn, Deleted}]
      BY <2>13, <3>3 DEF TypeOK, ReWrite
    <3>5. loc' \in [Threads -> Locals] /\ \A v \in Threads \ {t} : loc'[v] = loc[v]
      <4> DEFINE i == loc[t].cur
                 next == [loc[t] EXCEPT !.todo = @ \ {i}, !.cur = None, !.plain = NoPwd]
      <4>1. next \in Locals
        BY <2>2, <2>3, <3>2 DEF Locals
      <4>2. [next EXCEPT !.ok = @ \cup {i}] \in Locals /\ [next EXCEPT !.failed = @ \cup {i}] \in Locals
        BY <3>2, <4>1 DEF Locals
      <4> HIDE DEF next
      <4>3. loc' = [loc EXCEPT ![t] = [next EXCEPT !.ok = @ \cup {i}]]
            \/ loc' = [loc EXCEPT ![t] = [next EXCEPT !.failed = @ \cup {i}]]
        BY <2>13 DEF ReWrite, next
      <4> QED BY <4>2, <4>3, LocalsUpdate
    <3>6. TypeOK'
      BY <2>13, <3>1, <3>4, <3>5 DEF TypeOK, ReWrite
    <3>7. HandlerInv'
      BY <2>13, <3>1, <3>5 DEF HandlerInv, ReWrite, HandlerOp
    <3> QED BY <3>6, <3>7
  <2>14. CASE RotateReply(t)
    <3>1. /\ pc' \in [Threads -> (Statements \ {"decrypt"}) \cup {"idle", "done"}]
          /\ reply' \in [Threads -> [success : BOOLEAN, text : Texts] \cup {None}]
          /\ pc'[t] = "done"
          /\ \A v \in Threads \ {t} : pc'[v] = pc[v]
      BY <2>2, <2>14, RespondType DEF RotateReply
    <3>2. TypeOK'
      BY <2>3, <2>14, <3>1 DEF TypeOK, RotateReply, Locals
    <3>3. HandlerInv'
      BY <2>14, <3>1 DEF HandlerInv, RotateReply, HandlerOp
    <3> QED BY <3>2, <3>3
  <2>15. CASE Return(t)
    <3>1. TypeOK'
      BY <2>2, <2>15 DEF TypeOK, Return, Locals, NoLocals
    <3>2. HandlerInv'
      BY <2>15 DEF TypeOK, HandlerInv, Return
    <3> QED BY <3>1, <3>2
  <2> QED BY <1>3, <2>4, <2>5, <2>6, <2>7, <2>8, <2>9, <2>10, <2>11, <2>12, <2>13, <2>14, <2>15 DEF Step
<1>4. CASE Crash
  <2>1. TypeOK'
    BY <1>4 DEF TypeOK, Crash, Locals, NoLocals, Texts
  <2>2. HandlerInv'
    BY <1>4 DEF HandlerInv, Crash
  <2> QED BY <2>1, <2>2
<1>5. CASE UNCHANGED vars
  BY <1>5 DEF TypeOK, HandlerInv, vars
<1> QED BY <1>1, <1>2, <1>3, <1>4, <1>5 DEF Next

\* Type correctness of the handlers: every column, local variable and reply
\* keeps its shape, whatever overlaps, fails or crashes.
THEOREM TypeCorrect == Spec => []TypeOK
<1>1. Spec => [](TypeOK /\ HandlerInv)
  BY InitType, TypeStep, PTL DEF Spec
<1> QED BY <1>1, PTL
-------------------------------------------------------------------------------
\* The keys that the rows hold and the keys that handlers are about to write
\* with have all been a main key of the user they belong to.
RowKeys ==
  /\ \A u \in Users : user[u] # None => user[u].key \in everKey[u]
  /\ \A i \in Live : /\ user[account[i].owner] # None
                     /\ account[i].key \in everKey[account[i].owner]

HandlerKeys(t) ==
  /\ pc[t] \in {"insert", "setPwd"} => req[t].key \in everKey[req[t].user]
  /\ pc[t] = "chUpdate" => req[t].old \in everKey[req[t].user]
  /\ pc[t] \in {"list", "reRead", "reWrite"} => req[t].new \in everKey[req[t].user]
  /\ pc[t] = "usUpdate" => loc[t].row.key \in everKey[req[t].user]

KeyInv == RowKeys /\ \A t \in Threads : HandlerKeys(t)

\* The ids that the loop of thread t has read are split into those counted as a
\* success, those reported as failed and those still to do.
Accounted(t) ==
  /\ pc[t] \in {"reRead", "reWrite", "done"} =>
       /\ loc[t].ok \cup loc[t].failed \cup loc[t].todo = loc[t].listed
       /\ loc[t].ok \cap loc[t].failed = {}
       /\ (loc[t].ok \cup loc[t].failed) \cap loc[t].todo = {}
  /\ pc[t] = "reWrite" => loc[t].cur \in loc[t].todo
  /\ pc[t] = "done" => loc[t].todo = {}
  /\ pc[t] \notin {"reRead", "reWrite", "done"} =>
       loc[t].listed = {} /\ loc[t].todo = {} /\ loc[t].ok = {} /\ loc[t].failed = {}

LoopInv == \A t \in Threads : Accounted(t)
-------------------------------------------------------------------------------
\* A statement of one handler leaves the request and the locals of all others,
\* and its own request until it returns.
LEMMA StepFrame ==
  ASSUME TypeOK, NEW t \in Threads, Step(t)
  PROVE  /\ \A v \in Threads \ {t} : pc'[v] = pc[v] /\ req'[v] = req[v] /\ loc'[v] = loc[v]
         /\ pc[t] # "done" => UNCHANGED req
         /\ pc[t] # "idle"
  BY DEF TypeOK, Step, Respond, Goto, Validate, InsertAccount, SetPassword, SetInfo,
         FetchPassword, DeleteAccount, ChangeFind, ChangeUpdate, ListIds, ReRead, ReWrite,
         RotateReply, UserFind, UserUpdate, Return

\* Handlers outside the loop keep the empty sets they started with.
LEMMA LoopOutside ==
  ASSUME TypeOK, HandlerInv, LoopInv, NEW t \in Threads, Step(t), pc[t] \notin {"list", "reRead", "reWrite", "done"}
  PROVE  Accounted(t)'
<1>1. pc[t] \in {"validate", "insert", "setPwd", "setInfo", "fetch", "delete", "chFind", "chUpdate",
               "usFind", "usUpdate"}
  BY StepFrame DEF TypeOK, Statements
<1>2. \/ UNCHANGED loc
      \/ loc' = [loc EXCEPT ![t].row = user[req[t].user]]
  BY <1>1 DEF Step, Validate, InsertAccount, SetPassword, SetInfo, FetchPassword, DeleteAccount,
              ChangeFind, ChangeUpdate, ListIds, ReRead, ReWrite, RotateReply, UserFind, UserUpdate,
              Return
<1>3. /\ loc'[t].listed = {} /\ loc'[t].todo = {} /\ loc'[t].ok = {} /\ loc'[t].failed = {}
  <2>1. loc[t].listed = {} /\ loc[t].todo = {} /\ loc[t].ok = {} /\ loc[t].failed = {}
    BY <1>1 DEF LoopInv, Accounted
  <2>2. \A l : l \in Locals =>
          LET n == [l EXCEPT !.row = user[req[t].user]]
          IN  n.listed = l.listed /\ n.todo = l.todo /\ n.ok = l.ok /\ n.failed = l.failed
    BY DEF Locals
  <2>3. loc[t] \in Locals /\ (loc'[t] = loc[t] \/ loc'[t] = [loc[t] EXCEPT !.row = user[req[t].user]])
    BY <1>2 DEF TypeOK
  <2> QED BY <2>1, <2>2, <2>3
<1>4. pc'[t] \notin {"reRead", "reWrite"}
  <2>1. pc[t] = "validate" => AfterValidate(req[t].op) \in {"insert", "setPwd", "fetch", "delete"}
    BY DEF HandlerInv, HandlerOp, Validated, AfterValidate
  <2> QED BY <1>1, <2>1 DEF TypeOK, Respond, Goto, Step, Validate, InsertAccount, SetPassword, SetInfo,
              FetchPassword, DeleteAccount, ChangeFind, ChangeUpdate, ListIds, ReRead, ReWrite,
              RotateReply, UserFind, UserUpdate, Return
<1> QED BY <1>3, <1>4 DEF Accounted

LEMMA LoopStep == TypeOK /\ HandlerInv /\ LoopInv /\ [Next]_vars => LoopInv'
<1> SUFFICES ASSUME TypeOK, HandlerInv, LoopInv, [Next]_vars PROVE LoopInv'
  OBVIOUS
<1>1. ASSUME NEW u \in Users, NEW n \in Names, NEW k \in Keys, CreateUser(u, n, k)
      PROVE  LoopInv'
  BY <1>1 DEF CreateUser, LoopInv, Accounted
<1>2. ASSUME NEW t \in Threads, NEW r \in Requests, Receive(t, r)
      PROVE  LoopInv'
  <2>1. pc'[t] \notin {"reRead", "reWrite"} /\ \A v \in Threads \ {t} : pc'[v] = pc[v]
    BY <1>2 DEF TypeOK, Respond, Goto, Receive, Accept, CallCreateAccount, CallChangePassword, CallUpdateAccount,
                CallFetchPassword, CallDeleteAccount, CallUpdateMainKey, CallUpdateUser
  <2>2. UNCHANGED loc /\ pc[t] = "idle"
    BY <1>2 DEF Receive, Accept, CallCreateAccount, CallChangePassword, CallUpdateAccount,
                CallFetchPassword, CallDeleteAccount, CallUpdateMainKey, CallUpdateUser
  <2> QED BY <2>1, <2>2 DEF LoopInv, Accounted
<1>3. ASSUME NEW t \in Threads, Step(t)
      PROVE  LoopInv'
  <2>1. SUFFICES Accounted(t)'
    BY <1>3, StepFrame DEF LoopInv, Accounted
  <2>2. loc[t] \in Locals /\ Accounted(t)
    BY DEF TypeOK, LoopInv
  <2>3. CASE pc[t] \notin {"list", "reRead", "reWrite", "done"}
    BY <1>3, <2>3, LoopOutside
  <2>4. CASE ListIds(t)
    <3>1. pc'[t] = "reRead"
      BY <2>4 DEF TypeOK, ListIds, Goto
    <3>2. PICK ids : loc' = [loc EXCEPT ![t].listed = ids, ![t].todo = ids]
      BY <2>4 DEF ListIds
    <3>3. loc'[t].listed = ids /\ loc'[t].todo = ids /\ loc'[t].ok = loc[t].ok /\ loc'[t].failed = loc[t].failed
      BY <2>2, <3>2 DEF TypeOK, Locals
    <3>4. loc[t].ok = {} /\ loc[t].failed = {}
      BY <2>2, <2>4 DEF ListIds, Accounted
    <3> QED BY <3>1, <3>3, <3>4 DEF Accounted
  <2>5. CASE ReRead(t)
    <3>1. PICK i, p :
            /\ i \in loc[t].todo
            /\ \/ /\ loc' = [loc EXCEPT ![t].todo = @ \ {i}, ![t].failed = @ \cup {i}]
                  /\ pc'[t] = "reRead"
               \/ /\ loc' = [loc EXCEPT ![t].cur = i, ![t].plain = p]
                  /\ pc'[t] = "reWrite"
      BY <2>5 DEF TypeOK, ReRead, Goto
    <3>2. CASE /\ loc' = [loc EXCEPT ![t].todo = @ \ {i}, ![t].failed = @ \cup {i}]
               /\ pc'[t] = "reRead"
      <4>1. /\ loc'[t].todo = loc[t].todo \ {i} /\ loc'[t].failed = loc[t].failed \cup {i}
            /\ loc'[t].ok = loc[t].ok /\ loc'[t].listed = loc[t].listed
        BY <2>2, <3>2 DEF TypeOK, Locals
      <4>2. /\ loc[t].ok \cup loc[t].failed \cup loc[t].todo = loc[t].listed
            /\ loc[t].ok \cap loc[t].failed = {}
            /\ (loc[t].ok \cup loc[t].failed) \cap loc[t].todo = {}
            /\ i \in loc[t].todo
        BY <2>2, <2>5, <3>1 DEF ReRead, Accounted
      <4>3. /\ loc'[t].ok \cup loc'[t].failed \cup loc'[t].todo = loc'[t].listed
            /\ loc'[t].ok \cap loc'[t].failed = {}
            /\ (loc'[t].ok \cup loc'[t].failed) \cap loc'[t].todo = {}
        BY <4>1, <4>2
      <4> QED BY <3>2, <4>3 DEF Accounted
    <3>3. CASE /\ loc' = [loc EXCEPT ![t].cur = i, ![t].plain = p]
               /\ pc'[t] = "reWrite"
      <4>1. /\ loc'[t].todo = loc[t].todo /\ loc'[t].failed = loc[t].failed
            /\ loc'[t].ok = loc[t].ok /\ loc'[t].listed = loc[t].listed /\ loc'[t].cur = i
        BY <2>2, <3>3 DEF TypeOK, Locals
      <4> QED BY <2>2, <2>5, <3>1, <3>3, <4>1 DEF ReRead, Accounted
    <3> QED BY <3>1, <3>2, <3>3
  <2>6. CASE ReWrite(t)
    <3> DEFINE i == loc[t].cur
               next == [loc[t] EXCEPT !.todo = @ \ {i}, !.cur = None, !.plain = NoPwd]
    <3>1. next \in [row : UserRow \cup {None}, listed : SUBSET AccountIds, todo : SUBSET AccountIds,
                    cur : {None}, plain : {NoPwd}, ok : SUBSET AccountIds, failed : SUBSET AccountIds]
          /\ next.todo = loc[t].todo \ {i} /\ next.ok = loc[t].ok /\ next.failed = loc[t].failed
          /\ next.listed = loc[t].listed
      BY <2>2 DEF Locals
    <3>2. i \in loc[t].todo
      BY <2>2, <2>6 DEF ReWrite, Accounted
    <3>3. pc'[t] = "reRead"
      BY <2>6 DEF TypeOK, ReWrite, Goto
    <3>4. \/ loc'[t] = [next EXCEPT !.ok = @ \cup {i}]
          \/ loc'[t] = [next EXCEPT !.failed = @ \cup {i}]
      BY <2>6 DEF TypeOK, ReWrite
    <3> HIDE DEF next
    <3>5. /\ loc'[t].todo = loc[t].todo \ {i} /\ loc'[t].listed = loc[t].listed
          /\ \/ loc'[t].ok = loc[t].ok \cup {i} /\ loc'[t].failed = loc[t].failed
             \/ loc'[t].ok = loc[t].ok /\ loc'[t].failed = loc[t].failed \cup {i}
      BY <3>1, <3>4
    <3> QED BY <2>2, <2>6, <3>2, <3>3, <3>5 DEF ReWrite, Accounted
  <2>7. CASE RotateReply(t)
    <3>1. pc'[t] = "done" /\ loc' = loc
      BY <2>7 DEF TypeOK, RotateReply, Respond
    <3> QED BY <2>2, <2>7, <3>1 DEF RotateReply, Accounted
  <2>8. CASE Return(t)
    <3>1. pc'[t] = "idle" /\ loc'[t] = NoLocals
      BY <2>8 DEF TypeOK, Return
    <3> QED BY <3>1 DEF Accounted, NoLocals
  <2> QED BY <1>3, <2>3, <2>4, <2>5, <2>6, <2>7, <2>8
          DEF Step, Validate, InsertAccount, SetPassword, SetInfo, FetchPassword, DeleteAccount,
              ChangeFind, ChangeUpdate, UserFind, UserUpdate
<1>4. CASE Crash
  BY <1>4 DEF Crash, LoopInv, Accounted, NoLocals
<1>5. CASE UNCHANGED vars
  BY <1>5 DEF LoopInv, Accounted, vars
<1> QED BY <1>1, <1>2, <1>3, <1>4, <1>5 DEF Next

\* The reply of UpdateMainKey names or counts every id of its list, once.
THEOREM ReplyAccountingHolds == Spec => []ReplyAccounting
<1>1. Init => LoopInv
  BY DEF Init, LoopInv, Accounted, NoLocals
<1>2. LoopInv => ReplyAccounting
  BY DEF LoopInv, Accounted, ReplyAccounting
<1> QED BY <1>1, <1>2, InitType, TypeStep, LoopStep, PTL DEF Spec
-------------------------------------------------------------------------------
\* Keys are only added to a user's history, and registered users stay, except
\* that registration starts the history of a new one.
LEMMA HistoryGrows ==
  ASSUME TypeOK, HandlerInv, [Next]_vars, NEW u \in Users, user[u] # None
  PROVE  user'[u] # None /\ everKey[u] \subseteq everKey'[u]
<1>1. ASSUME NEW v \in Users, NEW n \in Names, NEW k \in Keys, CreateUser(v, n, k)
      PROVE  user'[u] # None /\ everKey[u] \subseteq everKey'[u]
  BY <1>1 DEF TypeOK, CreateUser
<1>2. ASSUME NEW t \in Threads, Step(t)
      PROVE  user'[u] # None /\ everKey[u] \subseteq everKey'[u]
  <2>1. CASE ChangeUpdate(t) \/ UserUpdate(t)
    <3>1. everKey[u] \subseteq everKey'[u]
      <4>1. \/ everKey' = everKey
            \/ everKey' = [everKey EXCEPT ![req[t].user] =
                                            @ \cup {[loc[t].row EXCEPT !.key = req[t].new].key}]
        BY <2>1 DEF ChangeUpdate, UserUpdate
      <4>2. everKey \in [Users -> SUBSET AnyKey]
        BY DEF TypeOK
      <4> QED BY <4>1, <4>2
    <3>2. user'[u] # None
      <4>1. TypeOK'
        BY TypeStep
      <4>2. HandlerInv'
        BY TypeStep
      <4>3. loc[t].row \in UserRow /\ req[t] \in Requests /\ req[t].user \in Users
        BY <2>1, RequestFields DEF TypeOK, HandlerInv, Locals, ChangeUpdate, UserUpdate
      <4>4. pc[t] = "chUpdate" => [loc[t].row EXCEPT !.key = req[t].new] # None
        BY <4>3, RequestFields, ConstantsOK DEF HandlerInv, HandlerOp, UserRow
      <4>5. pc[t] = "usUpdate" => [loc[t].row EXCEPT !.name = req[t].name] # None
        BY <4>3, RequestFields, ConstantsOK DEF HandlerInv, HandlerOp, UserRow
      <4> QED BY <2>1, <4>3, <4>4, <4>5 DEF TypeOK, ChangeUpdate, UserUpdate
    <3> QED BY <3>1, <3>2
  <2>2. CASE UNCHANGED <<user, everKey>>
    BY <2>2
  <2> QED BY <1>2, <2>1, <2>2
          DEF Step, Validate, InsertAccount, SetPassword, SetInfo, FetchPassword, DeleteAccount,
              ChangeFind, ListIds, ReRead, ReWrite, RotateReply, UserFind, Return
<1>3. CASE UNCHANGED <<user, everKey>>
  BY <1>3
<1> QED BY <1>1, <1>2, <1>3
        DEF Next, Crash, vars, Receive, Accept, CallCreateAccount, CallChangePassword, CallUpdateAccount,
                CallFetchPassword, CallDeleteAccount, CallUpdateMainKey, CallUpdateUser

\* An UPDATE of an encrypted password leaves every row with its owner, and with
\* its key or the key of the UPDATE.
LEMMA PwdUpdatedRows ==
  ASSUME TypeOK, NEW i \in AccountIds, NEW u \in Users, NEW k \in AnyKey, NEW p \in Texts,
         account' = PwdUpdated(i, u, k, p), NEW j \in Live'
  PROVE  /\ j \in Live
         /\ account'[j].owner = account[j].owner
         /\ account'[j].key = account[j].key
              \/ (account'[j].key = k /\ account[j].owner = u)
<1>1. j \in AccountIds /\ account'[j] \notin {Unborn, Deleted}
  BY DEF Live
<1>2. CASE j = i /\ i \in Owned(u)
  <2>1. account'[j] = [account[j] EXCEPT !.key = k, !.pwd = p] /\ account[j] \in AccountRow
        /\ j \in Live /\ account[j].owner = u
    BY <1>1, <1>2 DEF TypeOK, PwdUpdated, Encrypted, Owned, Live
  <2> QED BY <2>1 DEF AccountRow
<1>3. CASE ~(j = i /\ i \in Owned(u))
  <2>1. account'[j] = account[j]
    BY <1>1, <1>3 DEF TypeOK, PwdUpdated
  <2> QED BY <1>1, <2>1 DEF Live
<1> QED BY <1>2, <1>3

\* Rows keep to the keys their users have had.
LEMMA RowKeysStep ==
  ASSUME TypeOK, HandlerInv, KeyInv, NEW t \in Threads, Step(t)
  PROVE  RowKeys'
<1>1. [Next]_vars
  BY DEF Next
<1>2. pc[t] # "idle" /\ req[t] \in Requests /\ req[t].user \in Users
      /\ HandlerOp(pc[t], req[t].op) /\ HandlerKeys(t)
  BY StepFrame, RequestFields DEF TypeOK, HandlerInv, KeyInv
<1>3. \A u \in Users : user'[u] # None => user'[u].key \in everKey'[u]
  <2>1. CASE ChangeUpdate(t)
    <3>1. [loc[t].row EXCEPT !.key = req[t].new].key = req[t].new
      BY <2>1 DEF TypeOK, HandlerInv, Locals, ChangeUpdate, UserRow
    <3>2. \A u \in Users : user[u] # None => user[u].key \in everKey[u]
      BY DEF KeyInv, RowKeys
    <3>3. user \in [Users -> UserRow \cup {None}] /\ everKey \in [Users -> SUBSET AnyKey]
      BY DEF TypeOK
    <3>4. CASE UNCHANGED <<user, everKey>>
      BY <3>2, <3>4
    <3>5. CASE /\ user' = [user EXCEPT ![req[t].user] = [loc[t].row EXCEPT !.key = req[t].new]]
               /\ everKey' = [everKey EXCEPT ![req[t].user] = @ \cup {req[t].new}]
      BY <1>2, <3>1, <3>2, <3>3, <3>5
    <3> QED BY <2>1, <3>1, <3>4, <3>5 DEF ChangeUpdate
  <2>2. CASE UserUpdate(t)
    <3>1. [loc[t].row EXCEPT !.name = req[t].name].key = loc[t].row.key
      BY <2>2 DEF TypeOK, HandlerInv, Locals, UserUpdate, UserRow
    <3>2. \A u \in Users : user[u] # None => user[u].key \in everKey[u]
      BY DEF KeyInv, RowKeys
    <3>3. user \in [Users -> UserRow \cup {None}] /\ everKey' = everKey
      BY <2>2 DEF TypeOK, UserUpdate
    <3>4. loc[t].row.key \in everKey[req[t].user]
      BY <1>2, <2>2 DEF UserUpdate, HandlerKeys
    <3>5. user' = user \/ user' = [user EXCEPT ![req[t].user] = [loc[t].row EXCEPT !.name = req[t].name]]
      BY <2>2 DEF UserUpdate
    <3> QED BY <1>2, <3>1, <3>2, <3>3, <3>4, <3>5
  <2>3. CASE UNCHANGED <<user, everKey>>
    BY <2>3 DEF KeyInv, RowKeys
  <2> QED BY <2>1, <2>2, <2>3
          DEF Step, Validate, InsertAccount, SetPassword, SetInfo, FetchPassword, DeleteAccount,
              ChangeFind, ListIds, ReRead, ReWrite, RotateReply, UserFind, Return
<1>4. ASSUME NEW j \in Live'
      PROVE  user'[account'[j].owner] # None /\ account'[j].key \in everKey'[account'[j].owner]
  <2>1. \A i \in Live : /\ account[i].owner \in Users /\ user[account[i].owner] # None
                        /\ account[i].key \in everKey[account[i].owner]
    BY DEF TypeOK, Live, AccountRow, KeyInv, RowKeys
  <2>2. CASE j \in Live /\ account'[j].owner = account[j].owner /\ account'[j].key = account[j].key
    BY <1>1, <2>1, <2>2, HistoryGrows
  <2>3. CASE InsertAccount(t)
    <3>1. user[req[t].user] # None /\ req[t].key \in everKey[req[t].user]
      BY <1>2, <2>3 DEF InsertAccount, HandlerInv, HandlerKeys
    <3>2. CASE j \in Live /\ account'[j] = account[j]
      BY <2>2, <3>2
    <3>3. CASE account'[j] = [owner |-> req[t].user, key |-> req[t].key, pwd |-> req[t].pwd]
      BY <1>1, <1>2, <3>1, <3>3, HistoryGrows
    <3> QED BY <1>4, <2>3, <3>2, <3>3 DEF TypeOK, InsertAccount, RowInserted, Live
  <2>4. CASE SetPassword(t)
    <3>1. user[req[t].user] # None /\ req[t].key \in everKey[req[t].user] /\ req[t].key \in AnyKey
          /\ req[t].id \in AccountIds /\ req[t].pwd \in Texts
      BY <1>2, <2>4, RequestFields DEF SetPassword, HandlerInv, HandlerKeys, HandlerOp, Validated, Texts
    <3>2. CASE account' = PwdUpdated(req[t].id, req[t].user, req[t].key, req[t].pwd)
      BY <1>1, <1>2, <1>4, <2>1, <2>2, <3>1, <3>2, PwdUpdatedRows, HistoryGrows
    <3>3. CASE UNCHANGED account
      BY <1>4, <2>2, <3>3 DEF Live
    <3> QED BY <2>4, <3>2, <3>3 DEF SetPassword
  <2>5. CASE ReWrite(t)
    <3>1. user[req[t].user] # None /\ req[t].new \in everKey[req[t].user] /\ req[t].new \in AnyKey
          /\ loc[t].cur \in AccountIds /\ loc[t].plain \in Texts
      BY <1>2, <2>5, RequestFields DEF ReWrite, HandlerInv, HandlerKeys, HandlerOp, TypeOK, Locals
    <3>2. CASE account' = PwdUpdated(loc[t].cur, req[t].user, req[t].new, loc[t].plain)
      BY <1>1, <1>2, <1>4, <2>1, <2>2, <3>1, <3>2, PwdUpdatedRows, HistoryGrows
    <3>3. CASE UNCHANGED account
      BY <1>4, <2>2, <3>3 DEF Live
    <3> QED BY <2>5, <3>2, <3>3 DEF ReWrite
  <2>6. CASE DeleteAccount(t)
    <3>1. j \in Live /\ account'[j] = account[j]
      BY <1>4, <2>6 DEF TypeOK, DeleteAccount, RowDeleted, Live
    <3> QED BY <2>2, <3>1
  <2>7. CASE UNCHANGED account
    BY <1>4, <2>2, <2>7 DEF Live
  <2> QED BY <2>3, <2>4, <2>5, <2>6, <2>7
          DEF Step, Validate, SetInfo, FetchPassword, ChangeFind, ChangeUpdate, ListIds, ReRead,
              RotateReply, UserFind, UserUpdate, Return
<1> QED BY <1>3, <1>4 DEF RowKeys

\* The key a handler goes on with is one its user has had.
LEMMA HandlerKeysStep ==
  ASSUME TypeOK, HandlerInv, KeyInv, NEW t \in Threads, Step(t), NEW v \in Threads
  PROVE  HandlerKeys(v)'
<1>1. [Next]_vars
  BY DEF Next
<1>2. pc[t] # "idle" /\ req[t] \in Requests /\ req[t].user \in Users /\ user[req[t].user] # None
      /\ HandlerOp(pc[t], req[t].op) /\ HandlerKeys(t) /\ loc[t] \in Locals
  BY StepFrame, RequestFields DEF TypeOK, HandlerInv, KeyInv
<1>3. CASE v # t
  <2>1. pc'[v] = pc[v] /\ req'[v] = req[v] /\ loc'[v] = loc[v]
    BY <1>3, StepFrame
  <2>2. HandlerKeys(v) /\ (pc[v] # "idle" => req[v].user \in Users /\ user[req[v].user] # None)
    BY RequestFields DEF TypeOK, HandlerInv, KeyInv
  <2>3. pc[v] # "idle" => everKey[req[v].user] \subseteq everKey'[req[v].user]
    BY <1>1, <2>2, HistoryGrows
  <2> QED BY <2>1, <2>2, <2>3 DEF HandlerKeys
<1>4. CASE v = t
  <2>1. CASE Validate(t)
    <3>1. req' = req /\ everKey' = everKey /\ loc' = loc
      BY <2>1 DEF Validate
    <3>2. pc'[t] \notin {"chUpdate", "list", "reRead", "reWrite", "usUpdate"}
      BY <1>2, <2>1 DEF TypeOK, Validate, AfterValidate, Goto, Respond, HandlerOp, Validated
    <3>3. pc'[t] \in {"insert", "setPwd"} => KeyMatches(user[req[t].user], req[t].key)
      BY <2>1 DEF TypeOK, Validate, Goto, Respond
    <3>4. user[req[t].user].key \in everKey[req[t].user]
      BY <1>2 DEF KeyInv, RowKeys
    <3> QED BY <1>4, <3>1, <3>2, <3>3, <3>4 DEF HandlerKeys, KeyMatches
  <2>2. CASE ChangeUpdate(t)
    <3>1. req' = req /\ loc' = loc /\ pc'[t] \in {"list", "done"}
      BY <2>2 DEF TypeOK, ChangeUpdate, Goto, Respond
    <3>2. [loc[t].row EXCEPT !.key = req[t].new].key = req[t].new
      BY <1>2, <2>2 DEF HandlerInv, Locals, ChangeUpdate, UserRow
    <3>3. pc'[t] = "list" => req[t].new \in everKey'[req[t].user]
      BY <1>2, <2>2, <3>2 DEF TypeOK, ChangeUpdate, Respond
    <3> QED BY <1>4, <3>1, <3>3 DEF HandlerKeys
  <2>3. CASE UserFind(t)
    <3>1. req' = req /\ everKey' = everKey /\ pc'[t] \in {"usUpdate", "done"}
      BY <2>3 DEF TypeOK, UserFind, Goto, Respond
    <3>2. pc'[t] = "usUpdate" => loc'[t].row = user[req[t].user]
      BY <1>2, <2>3 DEF TypeOK, UserFind, Respond, Locals
    <3>3. user[req[t].user].key \in everKey[req[t].user]
      BY <1>2 DEF KeyInv, RowKeys
    <3> QED BY <1>4, <3>1, <3>2, <3>3 DEF HandlerKeys
  <2>4. CASE ListIds(t) \/ ReRead(t) \/ ReWrite(t)
    <3>1. req' = req /\ everKey' = everKey /\ pc'[t] \in {"reRead", "reWrite"}
      BY <2>4 DEF TypeOK, ListIds, ReRead, ReWrite, Goto
    <3>2. req[t].new \in everKey[req[t].user]
      BY <1>2, <2>4 DEF HandlerKeys, ListIds, ReRead, ReWrite
    <3> QED BY <1>4, <3>1, <3>2 DEF HandlerKeys
  <2>5. CASE ChangeFind(t)
    <3>1. req' = req /\ everKey' = everKey /\ pc'[t] \in {"chUpdate", "done"}
      BY <2>5 DEF TypeOK, ChangeFind, Goto, Respond
    <3>2. pc'[t] = "chUpdate" => KeyMatches(user[req[t].user], req[t].old)
      BY <2>5 DEF TypeOK, ChangeFind, Respond
    <3>3. user[req[t].user].key \in everKey[req[t].user]
      BY <1>2 DEF KeyInv, RowKeys
    <3> QED BY <1>4, <3>1, <3>2, <3>3 DEF HandlerKeys, KeyMatches
  <2>6. CASE pc'[t] \in {"done", "idle", "setInfo"}
    BY <1>4, <2>6 DEF HandlerKeys
  <2> QED BY <2>1, <2>2, <2>3, <2>4, <2>5, <2>6
          DEF TypeOK, Step, Respond, Goto, InsertAccount, SetPassword, SetInfo, FetchPassword,
              DeleteAccount, RotateReply, UserUpdate, Return
<1> QED BY <1>3, <1>4

LEMMA KeyStep == TypeOK /\ HandlerInv /\ KeyInv /\ [Next]_vars => KeyInv'
<1> SUFFICES ASSUME TypeOK, HandlerInv, KeyInv, [Next]_vars PROVE KeyInv'
  OBVIOUS
<1>1. ASSUME NEW u \in Users, NEW n \in Names, NEW k \in Keys, CreateUser(u, n, k)
      PROVE  KeyInv'
  <2>1. user[u] = None /\ user'[u].key = k /\ everKey'[u] = {k}
        /\ \A v \in Users \ {u} : user'[v] = user[v] /\ everKey'[v] = everKey[v]
    BY <1>1 DEF TypeOK, CreateUser
  <2>2. \A i \in Live : account[i].owner \in Users \ {u}
    BY <2>1 DEF TypeOK, Live, AccountRow, KeyInv, RowKeys
  <2>3. RowKeys'
    <3>1. Live' = Live /\ account' = account
      BY <1>1 DEF CreateUser, Live
    <3>2. \A i \in Live : user'[account[i].owner] # None /\ account[i].key \in everKey'[account[i].owner]
      BY <2>1, <2>2 DEF KeyInv, RowKeys
    <3> QED BY <2>1, <3>1, <3>2 DEF KeyInv, RowKeys
  <2>4. ASSUME NEW t \in Threads PROVE HandlerKeys(t)'
    <3>1. pc[t] # "idle" => req[t].user \in Users \ {u}
      BY <2>1, RequestFields DEF TypeOK, HandlerInv
    <3>2. HandlerKeys(t) /\ UNCHANGED <<pc, req, loc>>
      BY <1>1 DEF KeyInv, CreateUser
    <3> QED BY <2>1, <3>1, <3>2 DEF HandlerKeys
  <2> QED BY <2>3, <2>4 DEF KeyInv
<1>2. ASSUME NEW t \in Threads, NEW r \in Requests, Receive(t, r)
      PROVE  KeyInv'
  <2>1. RowKeys'
    BY <1>2 DEF KeyInv, RowKeys, Live, Receive, Accept, CallCreateAccount, CallChangePassword, CallUpdateAccount,
                CallFetchPassword, CallDeleteAccount, CallUpdateMainKey, CallUpdateUser
  <2>2. ASSUME NEW v \in Threads PROVE HandlerKeys(v)'
    <3>1. pc'[t] \notin {"insert", "setPwd", "chUpdate", "list", "reRead", "reWrite", "usUpdate"}
      BY <1>2 DEF TypeOK, Respond, Goto, Receive, Accept, CallCreateAccount, CallChangePassword, CallUpdateAccount,
                CallFetchPassword, CallDeleteAccount, CallUpdateMainKey, CallUpdateUser
    <3>2. v # t => pc'[v] = pc[v] /\ req'[v] = req[v]
      BY <1>2 DEF TypeOK, Respond, Goto, Receive, Accept, CallCreateAccount, CallChangePassword, CallUpdateAccount,
                CallFetchPassword, CallDeleteAccount, CallUpdateMainKey, CallUpdateUser
    <3>3. UNCHANGED <<loc, everKey>>
      BY <1>2 DEF Receive, Accept, CallCreateAccount, CallChangePassword, CallUpdateAccount,
                CallFetchPassword, CallDeleteAccount, CallUpdateMainKey, CallUpdateUser
    <3> QED BY <3>1, <3>2, <3>3 DEF KeyInv, HandlerKeys
  <2> QED BY <2>1, <2>2 DEF KeyInv
<1>3. ASSUME NEW t \in Threads, Step(t)
      PROVE  KeyInv'
  BY <1>3, RowKeysStep, HandlerKeysStep DEF KeyInv
<1>4. CASE Crash
  BY <1>4 DEF Crash, KeyInv, RowKeys, HandlerKeys, Live
<1>5. CASE UNCHANGED vars
  BY <1>5 DEF vars, KeyInv, RowKeys, HandlerKeys, Live
<1> QED BY <1>1, <1>2, <1>3, <1>4, <1>5 DEF Next

\* No ciphertext is made with a key that was never verified.
THEOREM KeyProvenanceHolds == Spec => []KeyProvenance
<1>1. Init => KeyInv
  BY DEF Init, KeyInv, RowKeys, HandlerKeys, Live
<1>2. KeyInv => KeyProvenance
  BY DEF KeyInv, RowKeys, KeyProvenance
<1> QED BY <1>1, <1>2, InitType, TypeStep, KeyStep, PTL DEF Spec

\* All that is known of the handlers whatever overlaps, fails or crashes.
VaultInv == TypeOK /\ HandlerInv /\ LoopInv /\ KeyInv

LEMMA VaultInvariant == Spec => []VaultInv
<1>1. Init => VaultInv
  BY InitType DEF Init, VaultInv, LoopInv, Accounted, NoLocals, KeyInv, RowKeys, HandlerKeys, Live
<1>2. VaultInv /\ [Next]_vars => VaultInv'
  BY TypeStep, LoopStep, KeyStep DEF VaultInv
<1> QED BY <1>1, <1>2, PTL DEF Spec
-------------------------------------------------------------------------------
\* Which rows of users a statement writes.
LEMMA UserEffects ==
  ASSUME TypeOK, NEW t \in Threads, Step(t), NEW u \in Users
  PROVE  \/ user'[u] = user[u]
         \/ /\ pc[t] = "chUpdate" /\ pc'[t] = "list" /\ u = req[t].user
            /\ user'[u] = [loc[t].row EXCEPT !.key = req[t].new]
         \/ /\ pc[t] = "usUpdate" /\ u = req[t].user
            /\ user'[u] = [loc[t].row EXCEPT !.name = req[t].name]
<1>1. CASE ChangeUpdate(t)
  BY <1>1 DEF ChangeUpdate, Goto, TypeOK
<1>2. CASE UserUpdate(t)
  BY <1>2 DEF UserUpdate, TypeOK
<1> QED
  BY <1>1, <1>2
     DEF Step, Validate, InsertAccount, SetPassword, SetInfo, FetchPassword, DeleteAccount, ChangeFind,
         ListIds, ReRead, ReWrite, RotateReply, UserFind, Return

\* What that does to the main key.
LEMMA KeyWrites ==
  ASSUME TypeOK, HandlerInv, NEW t \in Threads, Step(t), NEW u \in Users
  PROVE  \/ user'[u] = user[u]
         \/ pc[t] = "chUpdate" /\ pc'[t] = "list" /\ u = req[t].user /\ user'[u].key = req[t].new
         \/ pc[t] = "usUpdate" /\ u = req[t].user /\ user'[u].key = loc[t].row.key
<1>1. pc[t] \in {"chUpdate", "usUpdate"} => loc[t].row \in UserRow
  BY DEF TypeOK, HandlerInv, Locals
<1>2. ASSUME NEW row \in UserRow, NEW k, NEW n
      PROVE  [row EXCEPT !.key = k].key = k /\ [row EXCEPT !.name = n].key = row.key
  BY DEF UserRow
<1>3. CASE /\ pc[t] = "chUpdate" /\ pc'[t] = "list" /\ u = req[t].user
           /\ user'[u] = [loc[t].row EXCEPT !.key = req[t].new]
  BY <1>1, <1>2, <1>3
<1>4. CASE /\ pc[t] = "usUpdate" /\ u = req[t].user
           /\ user'[u] = [loc[t].row EXCEPT !.name = req[t].name]
  BY <1>1, <1>2, <1>4
<1> QED
  BY <1>3, <1>4, UserEffects

\* Whatever overlaps, fails or crashes, the main key of a user changes to a key
\* of an UpdateMainKey whose caller has shown a key the user has had, or goes
\* back to such a key by the stale row of an UpdateUser (change_passwd,
\* update_user_by_id).
THEOREM KeysOnlyReturnHolds == Spec => KeysOnlyReturn
<1> DEFINE Written(u, t) ==
             /\ req[t] # None /\ req[t].user = u
             /\ \/ /\ pc[t] = "chUpdate" /\ req[t].old \in everKey[u] /\ req[t].new = user'[u].key
                \/ /\ pc[t] = "usUpdate" /\ loc[t].row.key = user'[u].key /\ user'[u].key \in everKey[u]
           Change == \A u \in Users : (user[u] # None /\ user'[u].key # user[u].key) =>
                       \E t \in Threads : Written(u, t)
<1>1. VaultInv /\ [Next]_vars => [Change]_vars
  <2> SUFFICES ASSUME VaultInv, [Next]_vars, NEW u \in Users, user[u] # None, user'[u].key # user[u].key
               PROVE  \E t \in Threads : Written(u, t)
    OBVIOUS
  <2>1. ASSUME NEW t \in Threads, Step(t) PROVE Written(u, t)
    <3>1. TypeOK /\ HandlerInv /\ HandlerKeys(t)
      BY DEF VaultInv, KeyInv
    <3>2. pc[t] # "idle" /\ req[t] # None
      BY <2>1, <3>1, StepFrame DEF HandlerInv
    <3>3. \/ pc[t] = "chUpdate" /\ u = req[t].user /\ user'[u].key = req[t].new
          \/ pc[t] = "usUpdate" /\ u = req[t].user /\ user'[u].key = loc[t].row.key
      BY <2>1, <3>1, KeyWrites
    <3> QED BY <3>1, <3>2, <3>3 DEF HandlerKeys
  <2>2. CASE \E v \in Users, n \in Names, k \in Keys : CreateUser(v, n, k)
    BY <2>2 DEF CreateUser, VaultInv, TypeOK
  <2>3. CASE UNCHANGED user
    BY <2>3
  <2> QED
    BY <2>1, <2>2, <2>3
       DEF Next, Crash, vars, Receive, Accept, CallCreateAccount, CallChangePassword, CallUpdateAccount,
           CallFetchPassword, CallDeleteAccount, CallUpdateMainKey, CallUpdateUser
<1> HIDE DEF Change
<1>2. Spec => [][Change]_vars
  BY <1>1, VaultInvariant, PTL DEF Spec
<1> QED
  BY <1>2 DEF Change, KeysOnlyReturn
===============================================================================
