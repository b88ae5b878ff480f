-------------------------------- MODULE Phones --------------------------------
(***************************************************************************)
(* The mobile phones of the users, the references that accounts make to     *)
(* them, and the handlers that add, change and delete phones.  As in        *)
(* VaultService every SQL statement is one action and other handlers run    *)
(* between two statements of a handler.                                     *)
(*                                                                          *)
(* A phone row is its owner and its number; an account row is its owner and *)
(* the phone it is bound to.  The id of a phone is the smallest that is not *)
(* in use, so ids are used again.  Foreign keys are enforced (connection    *)
(* pool, PRAGMA foreign_keys), with ON DELETE SET NULL on account.phone_id. *)
(***************************************************************************)
EXTENDS Integers, FiniteSets, FiniteSetsExt

CONSTANTS Users, Numbers, Accounts,
          MaxPhones,  \* bound: phones and calls of CreatePhone at one time
          Threads,    \* handler threads
          Targets,    \* the phones that requests name
          Substitutes, \* the phones they name as replacements
          Modes,      \* the modes of deletion that requests carry
          Failable,   \* the statements that may fail (SQLITE_BUSY, I/O)
          CanCrash,   \* whether the process may die and be restarted
          None        \* "no row", "no request", "no phone"

\* generate_id answers -1 when it fails, and add does not look at it; from a
\* table that holds only -1 the next id is 0.
PhoneIds == -1 .. MaxPhones

PhoneStatements == {"genId", "insert", "update", "count", "remove", "replace", "cascade"}

ASSUME PhonesAssumption ==
  /\ MaxPhones \in Nat \ {0} /\ IsFiniteSet(Threads) /\ IsFiniteSet(Accounts)
  /\ Modes \subseteq Int /\ Targets \cup Substitutes \subseteq PhoneIds
  /\ Failable \subseteq PhoneStatements /\ CanCrash \in BOOLEAN
  /\ None \notin Int \cup BOOLEAN /\ None \notin Users
  /\ None \notin [owner : Users, number : Numbers]
  /\ None \notin [owner : Users, phone : PhoneIds \cup {None}]

VARIABLES phone,  \* phone[i]: the mobile_phone row i, or None
          acc,    \* acc[a]: the account row a, or None
          pc,     \* pc[t]: the statement thread t executes next
          req,    \* req[t]: its request, or None
          loc,    \* loc[t]: primaryKey of add, ref_count of delete_mobile_phone
          reply,  \* reply[t]: result of the response, when pc[t] = "done"
          since   \* history: accounts bound to a phone since thread t, which is about
          \* to remove one, has counted its references

phoneVars == <<phone, acc, pc, req, loc, reply, since>>

PhoneRow == [owner : Users, number : Numbers]
AccRow == [owner : Users, phone : PhoneIds \cup {None}]
PhoneRequests ==
       [op : {"CreatePhone"}, user : Users, number : Numbers]
  \cup [op : {"UpdatePhone"}, user : Users, id : Targets, number : Numbers]
  \cup [op : {"DeletePhone"}, user : Users, id : Targets, mode : Modes, replace : Substitutes]

Used == {i \in PhoneIds : phone[i] # None}
OwnedBy(i, u) == i \in Used /\ phone[i].owner = u
Referring(i, u) == {a \in Accounts : acc[a] # None /\ acc[a].owner = u /\ acc[a].phone = i}
MayFail(s) == s \in Failable

\* Thread t leaves its handler with this result.
Answer(t, ok) == /\ pc' = [pc EXCEPT ![t] = "done"]
                 /\ loc' = [loc EXCEPT ![t] = None]
                 /\ reply' = [reply EXCEPT ![t] = ok]

Continue(t, label) == pc' = [pc EXCEPT ![t] = label] /\ UNCHANGED reply
-------------------------------------------------------------------------------
InitPhones ==
  /\ phone = [i \in PhoneIds |-> None]
  /\ acc = [a \in Accounts |-> None]
  /\ pc = [t \in Threads |-> "idle"]
  /\ req = [t \in Threads |-> None]
  /\ loc = [t \in Threads |-> None]
  /\ reply = [t \in Threads |-> None]
  /\ since = [t \in Threads |-> {}]

Creating == {t \in Threads : pc[t] \in {"genId", "insert"}}

\* Thread t is given the request r, and starts at this statement.
Begin(t, r, label) ==
  /\ pc[t] = "idle"
  /\ req' = [req EXCEPT ![t] = r]
  /\ Continue(t, label)
  /\ UNCHANGED <<phone, acc, loc, since>>

CallCreatePhone(t, r) == /\ r.op = "CreatePhone"
                         /\ Cardinality(Used) + Cardinality(Creating) < MaxPhones
                         /\ Begin(t, r, "genId")

CallUpdatePhone(t, r) == r.op = "UpdatePhone" /\ Begin(t, r, "update")

CallDeletePhone(t, r) == r.op = "DeletePhone" /\ Begin(t, r, "count")

\* The accounts in A are bound: the threads that have counted may be wrong now.
NoteBound(A) ==
  since' = [t \in Threads |-> IF pc[t] = "remove" THEN since[t] \cup A ELSE since[t]]

\* The statements by which CreateAccount and UpdateAccount bind an account of
\* u: phone_id becomes the id of a phone with that number, whoever owns it, or
\* NULL when there is none.
BindAccount(u, a, n) ==
  /\ acc[a] # None => acc[a].owner = u
  /\ LET ids == {i \in Used : phone[i].number = n}
     IN  \E i \in IF ids = {} THEN {None} ELSE ids :
           acc' = [acc EXCEPT ![a] = [owner |-> u, phone |-> i]]
  /\ NoteBound({a})
  /\ UNCHANGED <<phone, pc, req, loc, reply>>

\* DeleteAccount.
DropAccount(a) == /\ acc[a] # None
                  /\ acc' = [acc EXCEPT ![a] = None]
                  /\ UNCHANGED <<phone, pc, req, loc, reply, since>>
-------------------------------------------------------------------------------
\* Mutated form of FreeId: the successor of the largest id.
NextId == IF Used = {} THEN 1 ELSE Max(Used) + 1

\* The smallest id that is missing from 1, 2, ... according to the three parts
\* of the query: 1, the successor of an id, the successor of the largest id.
FreeId ==
  LET largest == IF Used = {} THEN 0 ELSE Max(Used)
  IN  Min({i \in {1} : i \notin Used} \cup {i + 1 : i \in {j \in Used : j >= 1 /\ j + 1 \notin Used}}
          \cup {largest + 1})

generate_id(t) ==
  /\ pc[t] = "genId"
  /\ \E id \in {FreeId} \cup (IF MayFail("genId") THEN {-1} ELSE {}) :
       loc' = [loc EXCEPT ![t] = id]
  /\ Continue(t, "insert")
  /\ UNCHANGED <<phone, acc, req, since>>

\* Mutated form of add: INSERT OR REPLACE.
addReplacing(t) ==
  /\ pc[t] = "insert"
  /\ phone' = [phone EXCEPT ![loc[t]] = [owner |-> req[t].user, number |-> req[t].number]]
  /\ Answer(t, TRUE)
  /\ UNCHANGED <<acc, req, since>>

\* MobilePhoneDAO::add: the id is the primary key.
add(t) ==
  /\ pc[t] = "insert"
  /\ \/ /\ loc[t] \notin Used
        /\ phone' = [phone EXCEPT ![loc[t]] = [owner |-> req[t].user, number |-> req[t].number]]
        /\ Answer(t, TRUE)
     \/ /\ loc[t] \in Used \/ MayFail("insert")
        /\ Answer(t, FALSE)
        /\ UNCHANGED phone
  /\ UNCHANGED <<acc, req, since>>

\* update_mobile_phone: a negative id is refused, no matching row is no error.
update(t) ==
  /\ pc[t] = "update"
  /\ LET r == req[t] IN
       \/ /\ r.id >= 0
          /\ phone' = [phone EXCEPT ![r.id] =
                         IF OwnedBy(r.id, r.user) THEN [@ EXCEPT !.number = r.number] ELSE @]
          /\ Answer(t, TRUE)
       \/ /\ r.id < 0 \/ MayFail("update")
          /\ Answer(t, FALSE)
          /\ UNCHANGED phone
  /\ UNCHANGED <<acc, req, since>>
-------------------------------------------------------------------------------
\* delete_mobile_phone: the references are counted, then the mode says what is
\* done if there are any.

\* The statement that follows the count, or "done" when there is none.
Plan(mode, count) ==
  CASE count < 0 -> "done"
    [] count = 0 \/ mode = 2 -> "remove"
    [] count > 0 /\ mode = 1 -> "replace"
    [] count > 0 /\ mode = 3 -> "cascade"
    [] OTHER -> "done"

\* Mutated form of get_reference_count: a failure is reported as no reference.
countZeroOnFailure(t) ==
  /\ pc[t] = "count"
  /\ \E n \in {Cardinality(Referring(req[t].id, req[t].user))}
                \cup (IF MayFail("count") THEN {0} ELSE {}) :
       IF Plan(req[t].mode, n) = "done"
         THEN Answer(t, FALSE)
         ELSE loc' = [loc EXCEPT ![t] = n] /\ Continue(t, Plan(req[t].mode, n))
  /\ UNCHANGED <<phone, acc, req, since>>

\* get_reference_count and the branches on its result.
get_reference_count(t) ==
  /\ pc[t] = "count"
  /\ \E n \in {Cardinality(Referring(req[t].id, req[t].user))}
                \cup (IF MayFail("count") THEN {-1} ELSE {}) :
       IF Plan(req[t].mode, n) = "done"
         THEN Answer(t, FALSE)
         ELSE loc' = [loc EXCEPT ![t] = n] /\ Continue(t, Plan(req[t].mode, n))
  /\ UNCHANGED <<phone, acc, req, since>>

\* DELETE FROM mobile_phone WHERE id = i AND sys_user_id = u: the phones, ...
RowRemoved(i, u) == [phone EXCEPT ![i] = IF OwnedBy(i, u) THEN None ELSE @]

\* Mutated form of ReferencesCleared: foreign keys are not enforced.
ReferencesKept(i, u) == acc

\* ... and the accounts, whose references to the row are set to NULL.
ReferencesCleared(i, u) ==
  [a \in Accounts |-> IF OwnedBy(i, u) /\ acc[a] # None /\ acc[a].phone = i
                        THEN [acc[a] EXCEPT !.phone = None] ELSE acc[a]]

\* MobilePhoneDAO::remove, and the second statement of remove_cascade.
remove(t) ==
  /\ pc[t] = "remove"
  /\ LET r == req[t] IN
       \/ /\ r.id >= 0
          /\ phone' = RowRemoved(r.id, r.user)
          /\ acc' = ReferencesCleared(r.id, r.user)
          /\ Answer(t, TRUE)
       \/ /\ r.id < 0 \/ MayFail("remove")
          /\ Answer(t, FALSE)
          /\ UNCHANGED <<phone, acc>>
  /\ since' = [since EXCEPT ![t] = {}]
  /\ UNCHANGED req

\* replace_and_remove.  The parameters of its second statement are bound to the
\* first, finalized, statement; should that memory be the second statement, then
\* in the wrong order (the owner as id): whatever the build makes of it, no row
\* matches and nothing is deleted.  The foreign key makes the first statement
\* fail when a row would refer to a phone that does not exist.
replace_and_remove(t) ==
  /\ pc[t] = "replace"
  /\ LET r == req[t]
         moved == Referring(r.id, r.user)
     IN  \/ /\ r.id >= 0
            /\ moved # {} => r.replace \in Used
            /\ acc' = [a \in Accounts |-> IF a \in moved THEN [acc[a] EXCEPT !.phone = r.replace]
                                                         ELSE acc[a]]
            /\ NoteBound(moved)
            /\ \/ Answer(t, TRUE)
               \/ MayFail("remove") /\ Answer(t, FALSE)
         \/ /\ r.id < 0 \/ (moved # {} /\ r.replace \notin Used) \/ MayFail("replace")
            /\ Answer(t, FALSE)
            /\ UNCHANGED <<acc, since>>
  /\ UNCHANGED <<phone, req>>

\* Mutated form of AccountsRemoved: the owner is not part of the condition.
AccountsRemovedAnyOwner(i, u) ==
  [a \in Accounts |-> IF acc[a] # None /\ acc[a].phone = i THEN None ELSE acc[a]]

\* DELETE FROM account WHERE sys_user_id = u AND phone_id = i.
AccountsRemoved(i, u) == [a \in Accounts |-> IF a \in Referring(i, u) THEN None ELSE acc[a]]

\* remove_cascade, its first statement.
remove_cascade(t) ==
  /\ pc[t] = "cascade"
  /\ LET r == req[t] IN
       \/ /\ r.id >= 0
          /\ acc' = AccountsRemoved(r.id, r.user)
          /\ Continue(t, "remove") /\ UNCHANGED loc
       \/ /\ r.id < 0 \/ MayFail("cascade")
          /\ Answer(t, FALSE)
          /\ UNCHANGED acc
  /\ UNCHANGED <<phone, req, since>>

Return(t) ==
  /\ pc[t] = "done"
  /\ pc' = [pc EXCEPT ![t] = "idle"]
  /\ req' = [req EXCEPT ![t] = None]
  /\ reply' = [reply EXCEPT ![t] = None]
  /\ UNCHANGED <<phone, acc, loc, since>>

\* The process dies and is started again: the database is all that is left.
Crash ==
  /\ CanCrash
  /\ \E t \in Threads : pc[t] # "idle"
  /\ pc' = [t \in Threads |-> "idle"]
  /\ req' = [t \in Threads |-> None]
  /\ loc' = [t \in Threads |-> None]
  /\ reply' = [t \in Threads |-> None]
  /\ since' = [t \in Threads |-> {}]
  /\ UNCHANGED <<phone, acc>>

PhoneStep(t) == \/ generate_id(t) \/ add(t) \/ update(t) \/ get_reference_count(t)
                \/ remove(t) \/ replace_and_remove(t) \/ remove_cascade(t) \/ Return(t)

NextPhones ==
  \/ \E t \in Threads, r \in PhoneRequests :
        CallCreatePhone(t, r) \/ CallUpdatePhone(t, r) \/ CallDeletePhone(t, r)
  \/ \E t \in Threads : PhoneStep(t)
  \/ \E u \in Users, a \in Accounts, n \in Numbers : BindAccount(u, a, n)
  \/ \E a \in Accounts : DropAccount(a)
  \/ Crash

PhoneSpec == InitPhones /\ [][NextPhones]_phoneVars
-------------------------------------------------------------------------------
\* Every variable has the shape its column or local variable has in the code,
\* and no more ids are generated than there are phones (generate_id).
PhonesTypeOK ==
  /\ phone \in [PhoneIds -> PhoneRow \cup {None}]
  /\ acc \in [Accounts -> AccRow \cup {None}]
  /\ pc \in [Threads -> PhoneStatements \cup {"idle", "done"}]
  /\ req \in [Threads -> PhoneRequests \cup {None}]
  /\ loc \in [Threads -> Int \cup {None}]
  /\ \A t \in Threads : pc[t] = "insert" => loc[t] \in PhoneIds
  /\ reply \in [Threads -> BOOLEAN \cup {None}]
  /\ since \in [Threads -> SUBSET Accounts]

\* No account is ever bound to a phone that is gone, although ids are chosen
\* in one statement and used in another and phones are deleted in between.
ReferencesValid == \A a \in Accounts : acc[a] # None => acc[a].phone \in Used \cup {None}

\* A phone is never replaced by another one: two calls of CreatePhone that
\* generate the same id do not both succeed, and the row of the first stays.
NoOverwrite ==
  [][\A i \in Used : phone'[i] # None =>
       \/ phone'[i] = phone[i]
       \/ \E t \in Threads : /\ pc[t] = "update" /\ req[t].id = i
                             /\ phone[i].owner = req[t].user
                             /\ phone'[i].owner = phone[i].owner]_phoneVars

\* Deleting a phone takes no phone and no account of another user (phone_mgr.h:
\* the target is not deleted when it belongs to someone else), in any mode.
OthersUntouched ==
  [][\A t \in Threads : (pc[t] \in {"remove", "replace", "cascade"} /\ pc'[t] # pc[t]) =>
       /\ \A i \in Used : phone[i].owner # req[t].user => phone'[i] = phone[i]
       /\ \A a \in Accounts : (acc[a] # None /\ acc[a].owner # req[t].user) => acc'[a] # None
    ]_phoneVars

\* The reference of an account to a phone is cleared, by its owner's own
\* request to delete a phone that nothing refers to, only if the account was
\* bound after the references were counted: an error of the count never
\* passes for a count of zero, and the window is all that can go wrong.
LateBindingsOnly ==
  [][\A t \in Threads :
       (pc[t] = "remove" /\ pc'[t] = "done" /\ loc[t] = 0 /\ req[t].mode = 0) =>
         \A a \in Accounts : (acc[a] # None /\ acc[a].owner = req[t].user /\ acc'[a] # acc[a]) =>
           a \in since[t]]_phoneVars

\* A request to delete a phone that is answered with success has deleted it
\* (phone_mgr.cpp, mode 1: "在批量更新子表引用行的外键后删除目标成功", target
\* deleted after the foreign keys of the referring rows were updated).
DeletedMeansGone ==
  \A t \in Threads :
    (pc[t] = "done" /\ req[t].op = "DeletePhone" /\ reply[t] /\ req[t].replace # req[t].id) =>
      ~OwnedBy(req[t].id, req[t].user)
===============================================================================
