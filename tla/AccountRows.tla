------------------------------ MODULE AccountRows ------------------------------
(***************************************************************************)
(* The rows of account and mobile_phone as the clients see them: what the   *)
(* handlers of the account and phone services answer, and what they make of *)
(* the rows.  A handler is one step here (VaultService and Phones have its  *)
(* statements); a handler that fails changes nothing here.                  *)
(*                                                                          *)
(* Of the texts of an account only the user name is kept, of those of a     *)
(* phone only its number.  A deleted row keeps its last values, which tell  *)
(* whose it was; ids of accounts are never used again, those of phones are. *)
(***************************************************************************)
EXTENDS Integers, FiniteSets, FiniteSetsExt

CONSTANTS Users, Names, Numbers, Pwds,
          MaxAccounts, \* bound: accounts ever created
          MaxPhones,   \* bound: phones at one time
          MaxBirths,   \* bound: phones ever created
          Blank,       \* the empty text, and the combo boxes' entry for "none"
          None         \* NULL, "no row"

AccountIds == 1 .. MaxAccounts
PhoneIds == 1 .. MaxPhones
Categories == {"mail", "other"}
Fields == {"username", "category", "phone", "email"}

VARIABLES account, \* account[i]: the row of i, or None before it is inserted
          phone,   \* phone[p]: the row of p, or None
          births   \* history: how many phones there have been

rowVars == <<account, phone, births>>

AccountRow == [live : BOOLEAN, owner : Users, username : Names, category : Categories,
               phone : PhoneIds \cup {None}, email : AccountIds \cup {None}, pwd : Pwds]
PhoneRow == [owner : Users, number : Numbers,
             birth : 1 .. MaxBirths] \* history: the how-manieth phone it is

ASSUME RowsAssumption ==
  /\ MaxAccounts \in Nat /\ MaxPhones \in Nat /\ MaxBirths \in Nat
  /\ Blank \notin Names \cup Numbers \cup Pwds \cup Categories
  /\ None \notin {Blank} \cup Users \cup Nat \cup AccountRow \cup PhoneRow

Exists(i) == i \in AccountIds /\ account[i] # None /\ account[i].live

\* The types of the columns, the history, and the foreign keys.
RowsTypeOK ==
  /\ account \in [AccountIds -> AccountRow \cup {None}]
  /\ phone \in [PhoneIds -> PhoneRow \cup {None}]
  /\ births \in 0 .. MaxBirths
  /\ \A p \in PhoneIds : phone[p] # None => phone[p].birth <= births
  /\ \A i \in AccountIds : Exists(i) =>
       /\ account[i].phone # None => phone[account[i].phone] # None
       /\ account[i].email # None => Exists(account[i].email)

Owned(u) == {i \in AccountIds : Exists(i) /\ account[i].owner = u}
PhonesOf(u) == {p \in PhoneIds : phone[p] # None /\ phone[p].owner = u}
-------------------------------------------------------------------------------
\* view_account: the number and the address in place of the references.
View(i) == [username |-> account[i].username,
            category |-> account[i].category,
            phone    |-> IF account[i].phone = None THEN Blank ELSE phone[account[i].phone].number,
            email    |-> IF account[i].email = None THEN Blank ELSE account[account[i].email].username]

BlankView == [f \in Fields |-> Blank]

\* get_account_by_id looks at no owner; a row that is gone is answered by an
\* empty object.
find_by_id(i) == IF Exists(i) THEN View(i) ELSE BlankView

\* Mutated form of find: the condition on the owner is forgotten.
find_of_all(u, filter) == {i \in AccountIds : Exists(i) /\ \A f \in DOMAIN filter : filter[f] \in {Blank, View(i)[f]}}

\* Phone, address and category are exact conditions, empty for none.
find(u, filter) == {i \in Owned(u) : \A f \in DOMAIN filter : filter[f] \in {Blank, View(i)[f]}}

\* (SELECT id FROM mobile_phone WHERE phone_number = ?), and the same for
\* view_email: whoever owns the row, any of those that match, NULL if none.
PhoneByNumber(n) ==
  LET match == {p \in PhoneIds : phone[p] # None /\ phone[p].number = n}
  IN  IF match = {} THEN {None} ELSE match
EmailByAddress(a) ==
  LET match == {i \in AccountIds : Exists(i) /\ account[i].category = "mail" /\ account[i].username = a}
  IN  IF match = {} THEN {None} ELSE match
-------------------------------------------------------------------------------
\* The handlers that read.  u is the user of the session, None if it is not
\* valid: the answer is empty then.
ListAccountById(u, i) == IF u = None THEN BlankView ELSE find_by_id(i)
ListAccounts(u, filter) == IF u = None THEN {} ELSE find(u, filter)
ListEmailAddresses(u) == {account[i].username : i \in {j \in Owned(u) : account[j].category = "mail"}}
ListNameOfCategories(u) == IF u = None THEN {} ELSE Categories
ListPhoneNumbers(u) == {phone[p].number : p \in PhonesOf(u)}

\* The number is a pattern, Blank matches all.  The table is given: it may be
\* the one a call has just made.
ListPhone(table, u, n) == {p \in PhoneIds : table[p] # None /\ table[p].owner = u /\ n \in {Blank, table[p].number}}
FindPhoneById(u, p) == {p} \cap PhonesOf(u)

\* FetchPassword, as it is shown: Blank for a wrong key (an error or what
\* decrypts to nothing readable), for a row that is not there the text that
\* says so.
FetchPassword(u, i, right, gone) ==
  IF u = None THEN Blank ELSE IF i \notin Owned(u) THEN gone ELSE IF right THEN account[i].pwd ELSE Blank

References(p, u) == {i \in Owned(u) : account[i].phone = p}
GetReferenceCount(u, p) == IF u = None THEN -1 ELSE Cardinality(References(p, u))
-------------------------------------------------------------------------------
\* What an operation may make of the tables: a set of results, each with the
\* answer and the tables.
Same == [ok |-> FALSE, account |-> account, phone |-> phone, births |-> births]
Refused == {Same}
Done(a, p, b) == [ok |-> TRUE, account |-> a, phone |-> p, births |-> b]
Accepted == {Done(account, phone, births)}

\* username, platform_name and category_id are NOT NULL.
Acceptable(v) == v.username # Blank /\ v.category \in Categories

\* The row with the values v, bound to the phone p and the account e; the table
\* with it in row i.
Bound(row, v, p, e) ==
  [row EXCEPT !.username = v.username, !.category = v.category, !.phone = p, !.email = e]
Written(i, v, row) ==
  {Done([account EXCEPT ![i] = Bound(row, v, p, e)], phone, births) :
     p \in PhoneByNumber(v.phone), e \in EmailByAddress(v.email)}

Unused == {i \in AccountIds : account[i] = None}

\* AccountService::CreateAccount, with the right main key or not.
CreateAccount(u, v, pwd, right) ==
  IF u = None \/ ~right \/ pwd = Blank \/ ~Acceptable(v) THEN Refused
  ELSE Written(Min(Unused), v, [live |-> TRUE, owner |-> u, username |-> v.username,
                                category |-> v.category, phone |-> None, email |-> None, pwd |-> pwd])

\* Mutated form of UpdateAccount: the password is not written.
UpdateAccountTextOnly(u, i, v, pwd, right) ==
  IF u = None \/ (pwd # Blank /\ ~right) THEN Refused
  ELSE IF i \notin Owned(u) THEN Accepted
  ELSE IF Acceptable(v) THEN Written(i, v, account[i]) ELSE Refused

\* AccountService::UpdateAccount: with a password, the key is checked and the
\* password written first; a row that is gone or another user's is no error.
UpdateAccount(u, i, v, pwd, right) ==
  IF u = None \/ (pwd # Blank /\ ~right) THEN Refused
  ELSE IF i \notin Owned(u) THEN Accepted
  ELSE LET row == IF pwd = Blank THEN account[i] ELSE [account[i] EXCEPT !.pwd = pwd]
       IN  IF Acceptable(v) THEN Written(i, v, row) ELSE {[Same EXCEPT !.account = [account EXCEPT ![i] = row]]}

\* AccountService::DeleteAccount: the row must not be the address of another
\* account (ON DELETE RESTRICT); whose it is does not matter.
DeleteAccount(u, i, right) ==
  IF u = None \/ ~right \/ \E j \in AccountIds \ {i} : Exists(j) /\ account[j].email = i THEN Refused
  ELSE IF Exists(i) THEN {Done([account EXCEPT ![i].live = FALSE], phone, births)} ELSE Accepted
-------------------------------------------------------------------------------
FreePhones == {p \in PhoneIds : phone[p] = None}

\* Mutated form of CreatePhone: an empty number is stored as an empty text.
CreatePhoneUnchecked(u, n) ==
  {Done(account, [phone EXCEPT ![Min(FreePhones)] = [owner |-> u, number |-> n, birth |-> births + 1]], births + 1)}

\* PhoneService::CreatePhone: the smallest id that is free; numbers may repeat.
CreatePhone(u, n) ==
  IF u = None \/ n = Blank THEN Refused
  ELSE {Done(account, [phone EXCEPT ![Min(FreePhones)] = [owner |-> u, number |-> n, birth |-> births + 1]],
             births + 1)}

\* PhoneService::UpdatePhone: UPDATE ... WHERE id = ? AND sys_user_id = ?
UpdatePhone(u, p, n) ==
  IF u = None THEN Refused
  ELSE IF p \notin PhonesOf(u) THEN Accepted
  ELSE IF n = Blank THEN Refused ELSE {Done(account, [phone EXCEPT ![p].number = n], births)}

\* DELETE FROM account, in the order of insertion, meets a row that is the
\* address of an account.
Restricted(rows) == \E i \in rows, j \in AccountIds : /\ Exists(j) /\ account[j].email = i
                                                      /\ j # i /\ (j \in rows => j > i)

\* The tables without the accounts killed and, if it is to go, without the row
\* p: the references to it become NULL.
Removed(killed, p, gone) ==
  LET Left(i) == [account[i] EXCEPT !.live = @ /\ i \notin killed,
                                    !.phone = IF gone /\ @ = p THEN None ELSE @]
  IN  Done([i \in AccountIds |-> IF account[i] = None THEN None ELSE Left(i)],
           IF gone THEN [phone EXCEPT ![p] = None] ELSE phone, births)

\* MobilePhoneManager::delete_mobile_phone.  Mode 1 replaces the references by
\* the phone -1 here, which fails.
DeletePhone(u, p, mode) ==
  LET refs == References(p, u)
  IN  IF u = None \/ (refs # {} /\ (mode \notin {2, 3} \/ (mode = 3 /\ Restricted(refs)))) THEN Refused
      ELSE {Removed(IF mode = 3 THEN refs ELSE {}, p, p \in PhonesOf(u))}
===============================================================================
