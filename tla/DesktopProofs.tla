----------------------------- MODULE DesktopProofs -----------------------------
(***************************************************************************)
(* Proofs about Desktop.  First what the handlers may make of the rows, for *)
(* every table and argument; then DesktopInv, the inductive invariant, part *)
(* by part; then the properties, for any users, texts, bounds and faults.   *)
(***************************************************************************)
EXTENDS Desktop, FiniteSetTheorems, SequenceTheorems, TLAPS

\* RowsTypeOK of the tables a, p and b.
AccountsTyped(a) == a \in [AccountIds -> AccountRow \cup {None}]
PhonesTyped(p, b) ==
  /\ p \in [PhoneIds -> PhoneRow \cup {None}] /\ b \in 0 .. MaxBirths
  /\ \A q \in PhoneIds : p[q] # None => p[q].birth <= b
Alive(a, i) == i \in AccountIds /\ a[i] # None /\ a[i].live
PhoneKeys(a, p) == \A i \in AccountIds : Alive(a, i) /\ a[i].phone # None => p[a[i].phone] # None
EmailKeys(a) == \A i \in AccountIds : Alive(a, i) /\ a[i].email # None => Alive(a, a[i].email)

\* What the tables a, p and b may be after those there are now: rows of account
\* stay, dead or alive, with their owner; a phone is the one there was, or one
\* born since.
OwnersKept(a) == \A i \in AccountIds : account[i] # None => a[i] # None /\ a[i].owner = account[i].owner
PhonesKept(p, b) ==
  /\ births <= b
  /\ \A q \in PhoneIds : p[q] # None =>
       \/ phone[q] # None /\ p[q].birth = phone[q].birth /\ p[q].owner = phone[q].owner
       \/ p[q].birth > births

Follows(a, p, b) == /\ AccountsTyped(a) /\ PhonesTyped(p, b) /\ PhoneKeys(a, p) /\ EmailKeys(a)
                    /\ OwnersKept(a) /\ PhonesKept(p, b)

\* The texts a form sends, and those it is filled with.
Views == [username : Names \cup {Blank}, category : Categories \cup {Blank},
          phone : Numbers \cup {Blank}, email : Names \cup {Blank}]

\* The table of accounts with x in row i.
With(i, x) == [account EXCEPT ![i] = x]

\* The table a has one account more than there was: i, of the user u, with the
\* values v and the password pwd.
AddedTo(a, i, u, v, pwd) ==
  /\ a = With(i, a[i]) /\ Alive(a, i)
  /\ a[i].owner = u /\ a[i].pwd = pwd /\ a[i].username = v.username /\ a[i].category = v.category
  /\ a[i].phone \in PhoneByNumber(v.phone) /\ a[i].email \in EmailByAddress(v.email)

\* The results of handlers.
Result(r) == Follows(r.account, r.phone, r.births) /\ r.ok \in BOOLEAN
-------------------------------------------------------------------------------
LEMMA RowsParts ==
  RowsTypeOK <=> /\ AccountsTyped(account) /\ PhonesTyped(phone, births)
                 /\ PhoneKeys(account, phone) /\ EmailKeys(account)
  BY DEF RowsTypeOK, AccountsTyped, PhonesTyped, PhoneKeys, EmailKeys, Alive, Exists

LEMMA SameFollows ==
  ASSUME RowsTypeOK
  PROVE  Follows(account, phone, births) /\ Result(Same)
<1>1. Follows(account, phone, births)
  <2>1. births \in Int
    BY RowsAssumption DEF RowsTypeOK
  <2> QED
    BY <2>1, RowsParts DEF Follows, OwnersKept, PhonesKept
<1> QED
  BY <1>1 DEF Result, Same

\* What the texts of a form can be bound to.
LEMMA Matches ==
  ASSUME RowsTypeOK
  PROVE  /\ \A n : \A p \in PhoneByNumber(n) : p = None \/ (p \in PhoneIds /\ phone[p] # None /\ phone[p].number = n)
         /\ \A n : \A e \in EmailByAddress(n) : e = None \/ (e \in AccountIds /\ Exists(e) /\ account[e].username = n)
  BY DEF PhoneByNumber, EmailByAddress

LEMMA WrittenResult ==
  ASSUME RowsTypeOK, NEW i \in AccountIds, NEW row \in AccountRow, row.live,
         account[i] # None => row.owner = account[i].owner,
         NEW v \in Views, v.username \in Names, v.category \in Categories, NEW r \in Written(i, v, row)
  PROVE  /\ Result(r) /\ r.ok = TRUE /\ r.phone = phone /\ r.births = births
         /\ \E p \in PhoneByNumber(v.phone), e \in EmailByAddress(v.email) :
              r.account = With(i, Bound(row, v, p, e))
<1>1. PICK p \in PhoneByNumber(v.phone), e \in EmailByAddress(v.email) :
        r = Done([account EXCEPT ![i] = Bound(row, v, p, e)], phone, births)
  BY DEF Written
<1> DEFINE new == Bound(row, v, p, e)
           a == [account EXCEPT ![i] = new]
<1>2. r.account = a /\ r.phone = phone /\ r.births = births /\ r.ok = TRUE
  BY <1>1 DEF Done
<1>3. (p = None \/ (p \in PhoneIds /\ phone[p] # None)) /\ (e = None \/ (e \in AccountIds /\ Exists(e)))
  BY <1>1, Matches
<1>4. new \in AccountRow /\ new.live /\ new.owner = row.owner /\ new.phone = p /\ new.email = e
  BY <1>3 DEF AccountRow, Bound
<1>5. new # None
  BY <1>4, RowsAssumption
<1> HIDE DEF new
<1>6. AccountsTyped(account) /\ PhonesTyped(phone, births) /\ PhoneKeys(account, phone) /\ EmailKeys(account)
  BY RowsParts
<1>7. /\ a \in [AccountIds -> AccountRow \cup {None}] /\ a[i] = new
      /\ \A j \in AccountIds : j # i => a[j] = account[j]
  BY <1>4, <1>6 DEF AccountsTyped
<1> HIDE DEF a
<1>8. PhoneKeys(a, phone)
  BY <1>3, <1>4, <1>6, <1>7 DEF PhoneKeys, Alive
<1>9. EmailKeys(a)
  BY <1>3, <1>4, <1>5, <1>6, <1>7 DEF EmailKeys, Alive, Exists
<1>10. OwnersKept(a)
  BY <1>4, <1>5, <1>7 DEF OwnersKept
<1>11. PhonesKept(phone, births)
  BY SameFollows DEF Follows
<1>12. Result(r)
  BY <1>2, <1>6, <1>7, <1>8, <1>9, <1>10, <1>11 DEF Result, Follows, AccountsTyped
<1> QED
  BY <1>1, <1>2, <1>12 DEF a, new, With
-------------------------------------------------------------------------------
\* A set of natural numbers has a smallest element.
LEMMA MinOfNats ==
  ASSUME NEW S \in SUBSET Nat, S # {}
  PROVE  Min(S) \in S
<1>1. PICK m \in S : \A n \in S : <<n, m>> \notin OpToRel(<, Nat)
  BY NatLessThanWellFounded, WFMin
<1>2. \A n \in S : ~(n < m)
  BY <1>1 DEF OpToRel
<1>3. \A n \in S : m <= n
  BY <1>2
<1> QED
  BY <1>3 DEF Min

LEMMA CreateAccountResult ==
  ASSUME RowsTypeOK, Unused # {}, NEW u \in Users \cup {None}, NEW right \in BOOLEAN,
         NEW pwd \in Pwds \cup {Blank}, NEW v \in Views,
         NEW r \in CreateAccount(u, v, pwd, right)
  PROVE  /\ Result(r) /\ r.phone = phone
         /\ \A i \in AccountIds : Exists(i) => Alive(r.account, i)
         /\ r.ok => u # None /\ \E i \in Unused : AddedTo(r.account, i, u, v, pwd)
<1>1. CASE u = None \/ ~right \/ pwd = Blank \/ ~Acceptable(v)
  <2>1. r = Same
    BY <1>1 DEF CreateAccount, Refused
  <2> QED
    BY <2>1, SameFollows DEF Same, Alive, Exists
<1>2. CASE ~(u = None \/ ~right \/ pwd = Blank \/ ~Acceptable(v))
  <2> DEFINE i == Min(Unused)
             row == [live |-> TRUE, owner |-> u, username |-> v.username,
                     category |-> v.category, phone |-> None, email |-> None, pwd |-> pwd]
  <2>1. i \in Unused
    BY MinOfNats, RowsAssumption DEF Unused, AccountIds
  <2> HIDE DEF i
  <2>2. i \in AccountIds /\ account[i] = None /\ (account[i] # None => row.owner = account[i].owner)
    BY <2>1 DEF Unused
  <2>3. v.username \in Names /\ v.category \in Categories /\ row \in AccountRow /\ row.live /\ row.owner = u /\ row.pwd = pwd
    BY <1>2 DEF Acceptable, AccountRow, Views
  <2>4. r \in Written(i, v, row)
    BY <1>2 DEF CreateAccount, i
  <2> HIDE DEF row
  <2>5. /\ Result(r) /\ r.ok = TRUE /\ r.phone = phone /\ r.births = births
        /\ \E p \in PhoneByNumber(v.phone), e \in EmailByAddress(v.email) :
             r.account = With(i, Bound(row, v, p, e))
    BY <2>2, <2>3, <2>4, WrittenResult
  <2>6. PICK p \in PhoneByNumber(v.phone), e \in EmailByAddress(v.email) :
          r.account = With(i, Bound(row, v, p, e))
    BY <2>5
  <2>7. AccountsTyped(account) /\ AccountsTyped(r.account)
    BY <2>5, RowsParts DEF Result, Follows
  <2>8. r.account[i] = Bound(row, v, p, e) /\ \A j \in AccountIds : j # i => r.account[j] = account[j]
    BY <2>2, <2>6, <2>7 DEF AccountsTyped, With
  <2>9. /\ r.account[i].live /\ r.account[i].owner = u /\ row.pwd = pwd
        /\ r.account[i].username = v.username /\ r.account[i].category = v.category
        /\ r.account[i].pwd = row.pwd /\ r.account[i].phone = p /\ r.account[i].email = e
    BY <2>3, <2>8 DEF Bound, AccountRow
  <2>10. r.account[i] \in AccountRow
    <3>1. (p = None \/ (p \in PhoneIds /\ phone[p] # None)) /\ (e = None \/ (e \in AccountIds /\ Exists(e)))
      BY <2>6, Matches
    <3> QED
      BY <2>3, <2>8, <3>1 DEF Bound, AccountRow
  <2>11. r.account[i] # None
    BY <2>10, RowsAssumption
  <2>12. r.account = With(i, r.account[i])
    BY <2>6, <2>8
  <2>13. \A j \in AccountIds : Exists(j) => Alive(r.account, j)
    BY <2>2, <2>8 DEF Alive, Exists
  <2> QED
    BY <1>2, <2>1, <2>2, <2>5, <2>6, <2>9, <2>11, <2>12, <2>13 DEF Alive, AddedTo
<1> QED
  BY <1>1, <1>2

\* The row i with the password of a form, if it has one.
WithPwd(i, pwd) == IF pwd = Blank THEN account[i] ELSE [account[i] EXCEPT !.pwd = pwd]

\* The rows afterwards: those before; all columns of row i written; or, if the
\* texts are refused, its password only.
LEMMA UpdateAccountResult ==
  ASSUME RowsTypeOK, NEW u \in Users \cup {None}, NEW i, NEW right \in BOOLEAN,
         NEW pwd \in Pwds \cup {Blank}, NEW v \in Views, NEW r \in UpdateAccount(u, i, v, pwd, right)
  PROVE  /\ Result(r) /\ r.phone = phone /\ r.births = births
         /\ \A j \in AccountIds : Exists(j) => Alive(r.account, j)
         /\ \/ r.account = account /\ (r.ok => i \notin Owned(u))
            \/ /\ i \in Owned(u) /\ v.username \in Names /\ v.category \in Categories
               /\ \E p \in PhoneByNumber(v.phone), e \in EmailByAddress(v.email) :
                    r.account = With(i, Bound(WithPwd(i, pwd), v, p, e))
            \/ i \in Owned(u) /\ ~r.ok /\ r.account = With(i, WithPwd(i, pwd))
<1> DEFINE row == WithPwd(i, pwd)
<1>1. CASE u = None \/ (pwd # Blank /\ ~right)
  <2>1. r = Same
    BY <1>1 DEF UpdateAccount, Refused
  <2> QED
    BY <2>1, SameFollows DEF Same, Alive, Exists
<1>2. CASE ~(u = None \/ (pwd # Blank /\ ~right)) /\ i \notin Owned(u)
  <2>1. r = Done(account, phone, births)
    BY <1>2 DEF UpdateAccount, Accepted
  <2> QED
    BY <1>2, <2>1, SameFollows DEF Done, Alive, Exists, Result
<1>3. ASSUME ~(u = None \/ (pwd # Blank /\ ~right)), i \in Owned(u)
      PROVE  /\ i \in AccountIds /\ Exists(i) /\ account[i] \in AccountRow
             /\ row \in AccountRow /\ row.live /\ row.owner = account[i].owner
             /\ row.phone = account[i].phone /\ row.email = account[i].email
  <2>1. i \in AccountIds /\ Exists(i)
    BY <1>3 DEF Owned
  <2>2. account[i] \in AccountRow /\ account[i].live
    BY <2>1 DEF Exists, RowsTypeOK
  <2> QED
    BY <2>1, <2>2 DEF AccountRow, WithPwd
<1>4. CASE ~(u = None \/ (pwd # Blank /\ ~right)) /\ i \in Owned(u) /\ Acceptable(v)
  <2>1. r \in Written(i, v, row)
    BY <1>4 DEF UpdateAccount, WithPwd
  <2>2. v.username \in Names /\ v.category \in Categories
    BY <1>4 DEF Acceptable, Views
  <2>3. i \in AccountIds /\ row \in AccountRow /\ row.live /\ (account[i] # None => row.owner = account[i].owner)
    BY <1>3, <1>4
  <2> HIDE DEF row
  <2>4. /\ Result(r) /\ r.ok = TRUE /\ r.phone = phone /\ r.births = births
        /\ \E p \in PhoneByNumber(v.phone), e \in EmailByAddress(v.email) :
              r.account = With(i, Bound(row, v, p, e))
    BY <2>1, <2>2, <2>3, WrittenResult
  <2>5. PICK p \in PhoneByNumber(v.phone), e \in EmailByAddress(v.email) :
          r.account = With(i, Bound(row, v, p, e))
    BY <2>4
  <2>6. AccountsTyped(account) /\ AccountsTyped(r.account)
    BY <2>4, RowsParts DEF Result, Follows
  <2>7. r.account[i] = Bound(row, v, p, e) /\ \A j \in AccountIds : j # i => r.account[j] = account[j]
    BY <2>3, <2>5, <2>6 DEF AccountsTyped, With
  <2>8. r.account[i].live
    BY <2>3, <2>7 DEF Bound, AccountRow
  <2>9. r.account[i] # None
    BY <1>3, <1>4, <2>4 DEF Result, Follows, OwnersKept, Exists
  <2>10. \A j \in AccountIds : Exists(j) => Alive(r.account, j)
    BY <2>7, <2>8, <2>9 DEF Alive, Exists
  <2> QED
    BY <1>4, <2>2, <2>4, <2>5, <2>10 DEF row
<1>5. CASE ~(u = None \/ (pwd # Blank /\ ~right)) /\ i \in Owned(u) /\ ~Acceptable(v)
  <2>1. r.account = With(i, row) /\ r.phone = phone /\ r.births = births /\ r.ok = FALSE
    BY <1>5 DEF UpdateAccount, WithPwd, With, Same
  <2>2. /\ i \in AccountIds /\ Exists(i) /\ row \in AccountRow /\ row.live /\ row.owner = account[i].owner
        /\ row.phone = account[i].phone /\ row.email = account[i].email
    BY <1>3, <1>5
  <2>3. row # None
    BY <2>2, RowsAssumption
  <2> HIDE DEF row
  <2>4. AccountsTyped(account) /\ PhonesTyped(phone, births) /\ PhoneKeys(account, phone) /\ EmailKeys(account)
    BY RowsParts
  <2> DEFINE a == r.account
  <2>5. /\ a \in [AccountIds -> AccountRow \cup {None}] /\ a[i] = row
        /\ \A j \in AccountIds : j # i => a[j] = account[j]
    BY <2>1, <2>2, <2>4 DEF AccountsTyped, With
  <2> HIDE DEF a
  <2>6. \A j \in AccountIds : Alive(a, j) <=> Exists(j)
    BY <2>2, <2>3, <2>5 DEF Alive, Exists
  <2>7. \A j \in AccountIds : Exists(j) => a[j].phone = account[j].phone /\ a[j].email = account[j].email
    BY <2>2, <2>5
  <2>8. PhoneKeys(a, phone)
    BY <2>4, <2>6, <2>7 DEF PhoneKeys, Alive, Exists
  <2>9. EmailKeys(a)
    <3>1. \A j \in AccountIds : Exists(j) /\ account[j].email # None => Exists(account[j].email)
      BY <2>4 DEF EmailKeys, Alive, Exists
    <3>2. \A j \in AccountIds : Alive(a, j) /\ a[j].email # None => Exists(a[j].email)
      BY <2>6, <2>7, <3>1
    <3>3. \A j : Exists(j) => j \in AccountIds
      BY DEF Exists
    <3> QED
      BY <2>6, <3>2, <3>3 DEF EmailKeys
  <2>10. OwnersKept(a)
    BY <2>2, <2>3, <2>5 DEF OwnersKept
  <2>11. PhonesKept(phone, births)
    BY SameFollows DEF Follows
  <2>12. Result(r)
    BY <2>1, <2>4, <2>5, <2>8, <2>9, <2>10, <2>11 DEF Result, Follows, AccountsTyped, a
  <2> QED
    BY <1>5, <2>1, <2>6, <2>12 DEF a, row
<1> QED
  BY <1>1, <1>2, <1>4, <1>5

\* Nothing dies but the row named, and it does if the answer is a success.
LEMMA DeleteAccountResult ==
  ASSUME RowsTypeOK, NEW u, NEW i, NEW right \in BOOLEAN, NEW r \in DeleteAccount(u, i, right)
  PROVE  /\ Result(r) /\ r.phone = phone /\ r.births = births
         /\ \A j \in AccountIds : Exists(j) /\ ~Alive(r.account, j) => j = i
         /\ r.ok => ~Alive(r.account, i)
<1>1. CASE u = None \/ ~right \/ \E j \in AccountIds \ {i} : Exists(j) /\ account[j].email = i
  <2>1. r = Same
    BY <1>1 DEF DeleteAccount, Refused
  <2> QED
    BY <2>1, SameFollows DEF Same, Alive, Exists
<1>2. CASE ~(u = None \/ ~right \/ \E j \in AccountIds \ {i} : Exists(j) /\ account[j].email = i) /\ ~Exists(i)
  <2>1. r = Done(account, phone, births)
    BY <1>2 DEF DeleteAccount, Accepted
  <2> QED
    BY <1>2, <2>1, SameFollows DEF Done, Alive, Exists, Result
<1>3. CASE ~(u = None \/ ~right \/ \E j \in AccountIds \ {i} : Exists(j) /\ account[j].email = i) /\ Exists(i)
  <2>1. r.account = [account EXCEPT ![i].live = FALSE] /\ r.phone = phone /\ r.births = births /\ r.ok = TRUE
    BY <1>3 DEF DeleteAccount, Done
  <2>2. \A j \in AccountIds \ {i} : Exists(j) => account[j].email # i
    BY <1>3
  <2>3. AccountsTyped(account) /\ PhonesTyped(phone, births) /\ PhoneKeys(account, phone) /\ EmailKeys(account)
    BY RowsParts
  <2> DEFINE a == r.account
             row == [account[i] EXCEPT !.live = FALSE]
  <2>4. i \in AccountIds /\ account[i] \in AccountRow
    BY <1>3, <2>3 DEF Exists, AccountsTyped
  <2>5. row \in AccountRow /\ ~row.live /\ row.owner = account[i].owner
    BY <2>4 DEF AccountRow
  <2>6. a = [account EXCEPT ![i] = row]
    BY <2>1
  <2>7. row # None
    BY <2>5, RowsAssumption
  <2> HIDE DEF row
  <2>8. /\ a \in [AccountIds -> AccountRow \cup {None}] /\ a[i] = row
        /\ \A j \in AccountIds : j # i => a[j] = account[j]
    BY <2>3, <2>4, <2>5, <2>6 DEF AccountsTyped
  <2> HIDE DEF a
  <2>9. \A j \in AccountIds : Alive(a, j) <=> Exists(j) /\ j # i
    BY <2>5, <2>8 DEF Alive, Exists
  <2>10. PhoneKeys(a, phone)
    BY <2>3, <2>8, <2>9 DEF PhoneKeys, Alive, Exists
  <2>11. EmailKeys(a)
    <3>1. \A j \in AccountIds : Exists(j) /\ account[j].email # None => Exists(account[j].email)
      BY <2>3 DEF EmailKeys, Alive, Exists
    <3>2. \A j \in AccountIds : Alive(a, j) /\ a[j].email # None => Exists(a[j].email) /\ a[j].email # i
      BY <2>2, <2>8, <2>9, <3>1
    <3>3. \A j : Exists(j) => j \in AccountIds
      BY DEF Exists
    <3> QED
      BY <2>9, <3>2, <3>3 DEF EmailKeys
  <2>12. OwnersKept(a)
    BY <2>5, <2>7, <2>8 DEF OwnersKept
  <2>13. PhonesKept(phone, births)
    BY SameFollows DEF Follows
  <2>14. Result(r)
    BY <2>1, <2>3, <2>8, <2>10, <2>11, <2>12, <2>13 DEF Result, Follows, AccountsTyped, a
  <2>15. ~Alive(a, i) /\ \A j \in AccountIds : Exists(j) /\ ~Alive(a, j) => j = i
    BY <2>4, <2>9
  <2> QED
    BY <2>1, <2>14, <2>15 DEF a
<1> QED
  BY <1>1, <1>2, <1>3

\* A number that an account refers to stays referred to if no phone goes.
LEMMA PhoneKeysStay ==
  ASSUME RowsTypeOK, NEW t, \A q \in PhoneIds : phone[q] # None => t[q] # None
  PROVE  PhoneKeys(account, t)
<1>1. \A i \in AccountIds : Alive(account, i) /\ account[i].phone # None =>
        account[i].phone \in PhoneIds /\ phone[account[i].phone] # None
  BY RowsParts DEF AccountsTyped, PhoneKeys, Alive, AccountRow
<1> QED
  BY <1>1 DEF PhoneKeys

\* The table t has one phone more than there was: q, of the user u.
PhoneAddedTo(t, q, u, n) ==
  /\ t[q] # None /\ t[q].owner = u /\ t[q].number = n
  /\ \A p \in PhoneIds : p # q => t[p] = phone[p]

LEMMA CreatePhoneResult ==
  ASSUME RowsTypeOK, FreePhones # {}, births < MaxBirths, NEW u \in Users \cup {None},
         NEW n \in Numbers \cup {Blank}, NEW r \in CreatePhone(u, n)
  PROVE  /\ Result(r) /\ r.account = account /\ \A q \in PhoneIds : phone[q] # None => r.phone[q] # None
         /\ r.ok => u # None /\ \E q \in FreePhones : PhoneAddedTo(r.phone, q, u, n)
<1>1. CASE u = None \/ n = Blank
  <2>1. r = Same
    BY <1>1 DEF CreatePhone, Refused
  <2> QED
    BY <2>1, SameFollows DEF Same
<1>2. CASE ~(u = None \/ n = Blank)
  <2> DEFINE q == Min(FreePhones)
             b == births + 1
             row == [owner |-> u, number |-> n, birth |-> b]
             t == [phone EXCEPT ![q] = row]
  <2>1. q \in PhoneIds /\ phone[q] = None
    <3>1. q \in FreePhones
      BY MinOfNats, RowsAssumption DEF FreePhones, PhoneIds
    <3> QED
      BY <3>1 DEF FreePhones
  <2>2. r.account = account /\ r.phone = t /\ r.births = b /\ r.ok = TRUE
    BY <1>2 DEF CreatePhone, Done
  <2> HIDE DEF q
  <2>3. AccountsTyped(account) /\ PhonesTyped(phone, births) /\ PhoneKeys(account, phone) /\ EmailKeys(account)
    BY RowsParts
  <2>4. births \in Nat /\ b \in 1 .. MaxBirths /\ births < b /\ births <= b
    BY <2>3, RowsAssumption DEF PhonesTyped
  <2> HIDE DEF b
  <2>5. row \in PhoneRow /\ row.birth = b /\ row.owner = u /\ row.number = n
    BY <1>2, <2>4 DEF PhoneRow
  <2>6. row # None
    BY <2>5, RowsAssumption
  <2> HIDE DEF row
  <2>7. t \in [PhoneIds -> PhoneRow \cup {None}] /\ t[q] = row /\ \A p \in PhoneIds : p # q => t[p] = phone[p]
    BY <2>1, <2>3, <2>5 DEF PhonesTyped
  <2> HIDE DEF t
  <2>8. PhonesTyped(t, b)
    <3>1. \A p \in PhoneIds : phone[p] # None => phone[p].birth \in Int /\ phone[p].birth <= births
      BY <2>3 DEF PhonesTyped, PhoneRow
    <3>2. \A p \in PhoneIds : t[p] # None => t[p].birth <= b
      BY <2>4, <2>5, <2>7, <3>1
    <3>3. b \in 0 .. MaxBirths
      BY <2>4
    <3> QED
      BY <2>7, <3>2, <3>3 DEF PhonesTyped
  <2>9. PhoneKeys(account, t)
    BY <2>6, <2>7, PhoneKeysStay
  <2>10. PhonesKept(t, b)
    BY <2>4, <2>5, <2>7 DEF PhonesKept
  <2>11. OwnersKept(account)
    BY DEF OwnersKept
  <2>12. Result(r)
    BY <2>2, <2>3, <2>8, <2>9, <2>10, <2>11 DEF Result, Follows
  <2>13. q \in FreePhones /\ PhoneAddedTo(t, q, u, n)
    BY <2>1, <2>5, <2>6, <2>7 DEF FreePhones, PhoneAddedTo
  <2> QED
    BY <1>2, <2>2, <2>6, <2>7, <2>12, <2>13
<1> QED
  BY <1>1, <1>2

LEMMA UpdatePhoneResult ==
  ASSUME RowsTypeOK, NEW u, NEW p, NEW n \in Numbers \cup {Blank}, NEW r \in UpdatePhone(u, p, n)
  PROVE  /\ Result(r) /\ r.account = account /\ r.births = births
         /\ \A q \in PhoneIds : phone[q] # None => r.phone[q] # None
         /\ r.ok /\ p \in PhonesOf(u) => r.phone[p].number = n
<1>1. CASE u = None \/ (p \in PhonesOf(u) /\ n = Blank)
  <2>1. r = Same
    BY <1>1 DEF UpdatePhone, Refused
  <2> QED
    BY <2>1, SameFollows DEF Same
<1>2. CASE u # None /\ p \notin PhonesOf(u)
  <2>1. r = Done(account, phone, births)
    BY <1>2 DEF UpdatePhone, Accepted
  <2> QED
    BY <1>2, <2>1, SameFollows DEF Done, Result
<1>3. CASE u # None /\ p \in PhonesOf(u) /\ n # Blank
  <2> DEFINE row == [phone[p] EXCEPT !.number = n]
             t == [phone EXCEPT ![p] = row]
  <2>1. r.account = account /\ r.phone = t /\ r.births = births /\ r.ok = TRUE
    BY <1>3 DEF UpdatePhone, Done
  <2>2. AccountsTyped(account) /\ PhonesTyped(phone, births) /\ PhoneKeys(account, phone) /\ EmailKeys(account)
    BY RowsParts
  <2>3. p \in PhoneIds /\ phone[p] \in PhoneRow
    BY <1>3, <2>2 DEF PhonesOf, PhonesTyped
  <2>4. row \in PhoneRow /\ row.birth = phone[p].birth /\ row.owner = phone[p].owner /\ row.number = n
    BY <1>3, <2>3 DEF PhoneRow
  <2>5. row # None /\ phone[p] # None
    BY <2>3, <2>4, RowsAssumption
  <2> HIDE DEF row
  <2>6. t \in [PhoneIds -> PhoneRow \cup {None}] /\ t[p] = row /\ \A q \in PhoneIds : q # p => t[q] = phone[q]
    BY <2>2, <2>3, <2>4 DEF PhonesTyped
  <2> HIDE DEF t
  <2>7. PhonesTyped(t, births)
    BY <2>2, <2>3, <2>4, <2>5, <2>6 DEF PhonesTyped
  <2>8. PhoneKeys(account, t)
    BY <2>5, <2>6, PhoneKeysStay
  <2>9. PhonesKept(t, births)
    <3>1. births <= births
      BY <2>2, RowsAssumption DEF PhonesTyped
    <3> QED
      BY <2>4, <2>5, <2>6, <3>1 DEF PhonesKept
  <2>10. OwnersKept(account)
    BY DEF OwnersKept
  <2>11. Result(r)
    BY <2>1, <2>2, <2>7, <2>8, <2>9, <2>10 DEF Result, Follows
  <2> QED
    BY <2>1, <2>4, <2>5, <2>6, <2>11
<1> QED
  BY <1>1, <1>2, <1>3

\* Only phones p of u go, and accounts of u that refer to p.
LEMMA DeletePhoneResult ==
  ASSUME RowsTypeOK, NEW u, NEW p, NEW mode, NEW r \in DeletePhone(u, p, mode)
  PROVE  /\ Result(r) /\ r.births = births
         /\ \A j \in AccountIds : Exists(j) /\ ~Alive(r.account, j) =>
              mode = 3 /\ account[j].phone = p /\ account[j].owner = u
         /\ \A q \in PhoneIds : phone[q] # None /\ r.phone[q] = None => q = p /\ phone[q].owner = u
         /\ r.ok => u # None /\ (p \in PhonesOf(u) => r.phone[p] = None)
<1> DEFINE refs == References(p, u)
           refused == u = None \/ (refs # {} /\ (mode \notin {2, 3} \/ (mode = 3 /\ Restricted(refs))))
           killed == IF mode = 3 THEN refs ELSE {}
           gone == p \in PhonesOf(u)
           Left(i) == [account[i] EXCEPT !.live = @ /\ i \notin killed, !.phone = IF gone /\ @ = p THEN None ELSE @]
           a == [i \in AccountIds |-> IF account[i] = None THEN None ELSE Left(i)]
           t == IF gone THEN [phone EXCEPT ![p] = None] ELSE phone
<1>1. CASE refused
  <2>1. r = Same
    BY <1>1 DEF DeletePhone, Refused
  <2> QED
    BY <2>1, SameFollows DEF Same, Alive, Exists
<1>2. CASE ~refused
  <2>1. r.account = a /\ r.phone = t /\ r.births = births /\ r.ok = TRUE
    <3>1. r = Removed(killed, p, gone)
      BY <1>2 DEF DeletePhone
    <3>2. Removed(killed, p, gone) = Done(a, t, births)
      BY Zenon DEF Removed
    <3> HIDE DEF a, t
    <3> QED
      BY <3>1, <3>2 DEF Done
  <2>2. AccountsTyped(account) /\ PhonesTyped(phone, births) /\ PhoneKeys(account, phone) /\ EmailKeys(account)
    BY RowsParts
  <2>3. \A i \in killed : /\ mode = 3 /\ i \in AccountIds /\ account[i].phone = p /\ account[i].owner = u
    BY DEF References, Owned
  <2>4. \A i \in killed, j \in AccountIds \ killed : Exists(j) => account[j].email # i
    BY <1>2 DEF Restricted
  <2>5. u # None
    BY <1>2
  <2>6. \A q \in PhoneIds : t[q] = IF gone /\ q = p THEN None ELSE phone[q]
    BY <2>2 DEF PhonesTyped
  <2>7. \A q \in PhoneIds : phone[q] # None /\ t[q] = None => q = p /\ phone[q].owner = u
    BY <2>6 DEF PhonesOf
  <2>8. gone => p \in PhoneIds /\ t[p] = None
    BY <2>6 DEF PhonesOf
  <2>9. t \in [PhoneIds -> PhoneRow \cup {None}]
    BY <2>2 DEF PhonesTyped
  <2> HIDE DEF refs, killed, gone, t
  <2>10. \A i \in AccountIds : account[i] # None =>
           /\ Left(i) \in AccountRow /\ Left(i).owner = account[i].owner /\ Left(i).email = account[i].email
           /\ Left(i).live = (account[i].live /\ i \notin killed)
           /\ Left(i).phone = IF gone /\ account[i].phone = p THEN None ELSE account[i].phone
    BY <2>2 DEF AccountsTyped, AccountRow
  <2> HIDE DEF Left
  <2>11. \A i \in AccountIds : account[i] # None => Left(i) # None
    BY <2>10, RowsAssumption
  <2>12. a \in [AccountIds -> AccountRow \cup {None}]
    BY <2>10
  <2>13. \A i \in AccountIds : a[i] = IF account[i] = None THEN None ELSE Left(i)
    OBVIOUS
  <2> HIDE DEF a
  <2>14. \A j \in AccountIds : Alive(a, j) <=> Exists(j) /\ j \notin killed
    BY <2>10, <2>11, <2>13 DEF Alive, Exists
  <2>15. PhoneKeys(a, t)
    <3>1. \A i \in AccountIds : Exists(i) /\ account[i].phone # None =>
            account[i].phone \in PhoneIds /\ phone[account[i].phone] # None
      BY <2>2 DEF AccountsTyped, PhoneKeys, Alive, Exists, AccountRow
    <3>2. ASSUME NEW i \in AccountIds, Alive(a, i), a[i].phone # None
          PROVE  t[a[i].phone] # None
      <4>1. Exists(i) /\ account[i] # None
        BY <2>14, <3>2 DEF Exists
      <4>2. a[i].phone = account[i].phone /\ ~(gone /\ account[i].phone = p)
        BY <2>10, <2>13, <3>2, <4>1
      <4> QED
        BY <2>6, <3>1, <3>2, <4>1, <4>2
    <3> QED
      BY <3>2 DEF PhoneKeys
  <2>16. EmailKeys(a)
    <3>1. \A j \in AccountIds : Exists(j) /\ account[j].email # None => Exists(account[j].email)
      BY <2>2 DEF EmailKeys, Alive, Exists
    <3>2. \A j : Exists(j) => j \in AccountIds /\ account[j] # None
      BY DEF Exists
    <3>3. \A j \in AccountIds : Alive(a, j) => a[j].email = account[j].email
      BY <2>10, <2>13, <2>14, <3>2
    <3>4. ASSUME NEW j \in AccountIds, Alive(a, j), a[j].email # None
          PROVE  Alive(a, a[j].email)
      <4>1. Exists(j) /\ j \notin killed /\ a[j].email = account[j].email
        BY <2>14, <3>3, <3>4
      <4>2. Exists(account[j].email) /\ account[j].email \in AccountIds
        BY <3>1, <3>2, <3>4, <4>1
      <4>3. account[j].email \notin killed
        BY <2>4, <4>1
      <4> QED
        BY <2>14, <4>1, <4>2, <4>3
    <3> QED
      BY <3>4 DEF EmailKeys
  <2>17. OwnersKept(a)
    BY <2>10, <2>11, <2>13 DEF OwnersKept
  <2>18. PhonesTyped(t, births)
    BY <2>2, <2>6, <2>9 DEF PhonesTyped
  <2>19. PhonesKept(t, births)
    <3>1. births <= births
      BY <2>2, RowsAssumption DEF PhonesTyped
    <3> QED
      BY <2>6, <3>1 DEF PhonesKept
  <2>20. Result(r)
    BY <2>1, <2>12, <2>15, <2>16, <2>17, <2>18, <2>19 DEF Result, Follows, AccountsTyped
  <2>21. \A j \in AccountIds : Exists(j) /\ ~Alive(a, j) => mode = 3 /\ account[j].phone = p /\ account[j].owner = u
    BY <2>3, <2>14
  <2> QED
    BY <2>1, <2>5, <2>7, <2>8, <2>20, <2>21 DEF gone
<1> QED
  BY <1>1, <1>2
-------------------------------------------------------------------------------
\* What the forms are filled with.
OptionSets == [phone : SUBSET (Numbers \cup {Blank}), email : SUBSET (Names \cup {Blank}), category : SUBSET Categories]

LEMMA OptionsTyped ==
  ASSUME RowsTypeOK, NEW u \in Users \cup {None}, NEW failed
  PROVE  /\ Options(u, failed) \in OptionSets /\ NoOptions \in OptionSets
         /\ u = None => Options(u, failed) = NoOptions
         /\ u # None /\ "categories" \notin failed => Options(u, failed).category = Categories
<1> DEFINE ph == rpc_list_phone_numbers(u, failed)
           em == rpc_list_email_addresses(u, failed)
           ca == rpc_list_categories(u, failed)
<1>1. ph \subseteq Numbers /\ (u = None => ph = {})
  BY RowsAssumption DEF RowsTypeOK, rpc_list_phone_numbers, ListPhoneNumbers, PhonesOf, PhoneRow
<1>2. em \subseteq Names /\ (u = None => em = {})
  BY RowsAssumption DEF RowsTypeOK, rpc_list_email_addresses, ListEmailAddresses, Owned, Exists, AccountRow
<1>3. ca \subseteq Categories /\ (u = None => ca = {}) /\ (u # None /\ "categories" \notin failed => ca = Categories)
  BY DEF rpc_list_categories, ListNameOfCategories
<1>4. Options(u, failed) = [phone |-> {Blank} \cup ph, email |-> {Blank} \cup em, category |-> ca]
  BY DEF Options
<1> HIDE DEF ph, em, ca
<1>5. NoOptions \in OptionSets
  BY DEF NoOptions, OptionSets
<1>6. Options(u, failed) \in OptionSets
  BY <1>1, <1>2, <1>3, <1>4 DEF OptionSets
<1>7. u = None => Options(u, failed) = NoOptions
  BY <1>1, <1>2, <1>3, <1>4 DEF NoOptions
<1> QED
  BY <1>3, <1>4, <1>5, <1>6, <1>7

LEMMA ViewsTyped ==
  ASSUME RowsTypeOK
  PROVE  BlankView \in Views /\ \A i : Exists(i) => View(i) \in Views
<1>1. BlankView = [username |-> Blank, category |-> Blank, phone |-> Blank, email |-> Blank]
  BY DEF BlankView, Fields
<1>2. BlankView \in Views
  BY <1>1 DEF Views
<1>3. ASSUME NEW i, Exists(i)
      PROVE  View(i) \in Views
  <2>1. i \in AccountIds /\ account[i] \in AccountRow
    BY <1>3 DEF Exists, RowsTypeOK
  <2>2. account[i].phone = None \/ phone[account[i].phone] \in PhoneRow
    BY <1>3, <2>1 DEF RowsTypeOK, AccountRow
  <2>3. account[i].email = None \/ account[account[i].email] \in AccountRow
    BY <1>3, <2>1 DEF RowsTypeOK, AccountRow, Exists
  <2> QED
    BY <2>1, <2>2, <2>3 DEF View, Views, AccountRow, PhoneRow
<1> QED
  BY <1>2, <1>3

LEMMA FillTyped ==
  ASSUME RowsTypeOK, NEW i, NEW failed
  PROVE  rpc_list_account_by_id(i, failed) \in Views
  BY ViewsTyped DEF rpc_list_account_by_id, ListAccountById, find_by_id

LEMMA InWidgetsTyped ==
  ASSUME NEW v \in Views, NEW o \in OptionSets
  PROVE  InWidgets(v, o) \in Views
<1>1. v.phone \in Numbers \cup {Blank} /\ v.email \in Names \cup {Blank} /\ v.category \in Categories \cup {Blank}
      /\ v.username \in Names \cup {Blank} /\ "mail" \in Categories
  BY DEF Views, Categories
<1> QED
  BY <1>1 DEF InWidgets, Views
-------------------------------------------------------------------------------
(***************************************************************************)
(* The inductive invariant.  Its parts are about few variables each, so     *)
(* that most steps leave most of them alone.                                *)
(***************************************************************************)
\* Who is logged in has a name, and is someone while the workbench is up.
SessionInv ==
  /\ username \in [Users -> LoginNames \cup {Blank, None}]
  /\ user_state \in Users \cup {None} /\ expired \in BOOLEAN /\ habit \in Habits
  /\ stage \in {"login", "signup", "workbench", "ended"}
  /\ notice.told \in BOOLEAN /\ notice.nr \in 0 .. habit.calls
  /\ stage = "workbench" => user_state \in Users
  /\ user_state \in Users => username[user_state] # None
  /\ usernames \subseteq LoginNames \cup {Blank}

\* The tools; an untouched text of the personal form is the one it brought.
ToolsInv ==
  /\ notepads \subseteq Users /\ clipboard \in Pwds \cup {Blank, Gone, Generated}
  /\ personal \in [member : LoginNames \cup {Blank}, text : LoginNames \cup {Blank}, known : BOOLEAN, touched : BOOLEAN]
  /\ ~personal.touched => personal.text = personal.member
  /\ pwd_gen \in [passwords : {Blank, Generated}, editor : {Blank, Generated}]

\* The viewer follows the row chosen until the table is sorted.
TableOK(m) ==
  /\ m \in [table : Seq(AccountIds), row : -1 .. MaxAccounts, viewer : AccountIds \cup {None},
            options : OptionSets, resorted : BOOLEAN]
  /\ Len(m.table) <= MaxAccounts
  /\ ~m.resorted /\ m.row + 1 \in DOMAIN m.table => m.viewer = m.table[m.row + 1]
TableInv == TableOK(acc_mgr) /\ dlg_add \in OptionSets

\* A widget that is not touched shows what the fill put there.
EditOK(d) ==
  /\ d \in [id : AccountIds \cup {None}, base : Views, cur : Views, options : OptionSets,
            failed : SUBSET Reads, touched : SUBSET Fields, readonly : BOOLEAN,
            password : Pwds \cup {Blank}, main_key : {Blank, "right", "wrong"}]
  /\ \A f \in Fields \ d.touched : d.cur[f] = InWidgets(d.base, d.options)[f]
  /\ d.id # None /\ d.failed = {} => d.options.category = Categories
EditInv == EditOK(dlg_edit)

PhonePageInv ==
  /\ phone_mgr \in [table : SUBSET [id : PhoneIds, birth : 1 .. MaxBirths], options : SUBSET (Numbers \cup {Blank})]
  /\ detail \in [id : PhoneIds \cup {0, None}, number : Numbers \cup {Blank}, birth : 0 .. MaxBirths,
                 fetched : BOOLEAN, editing : BOOLEAN]
  /\ detail.birth <= births /\ \A row \in phone_mgr.table : row.birth <= births

\* The dialogs that exec() runs, and what they are about.
DeleteDialogs == [kind : {"delete"}, id : AccountIds]
ExposeDialogs == [kind : {"expose"}, id : AccountIds, display : Pwds \cup {Blank, Gone}, countdown : 0 .. ExposeSeconds]
PhoneDialogs == [kind : {"remove", "guide"}, id : PhoneIds \cup {0, None}]

ModalInv ==
  /\ modal \in {NoModal} \cup DeleteDialogs \cup ExposeDialogs \cup PhoneDialogs
  /\ modal # NoModal => stage = "workbench"
  /\ modal.kind = "delete" => modal.id = Chosen
  /\ modal.kind \in {"remove", "guide"} => modal.id = detail.id
  /\ ShownOnlyWhileCounting

\* The parts of OnlyOwnData.
Hers(i) == account[i] # None /\ account[i].owner = user_state
FormsGone == stage # "workbench" => NoForms
AllHers(ids) == \A n \in DOMAIN ids : Hers(ids[n])
TableHers == AllHers(acc_mgr.table)
EditHers == dlg_edit.id # None => Hers(dlg_edit.id)
ModalHers == modal.kind \in {"delete", "expose"} => Hers(modal.id)
PhoneHers(row) ==
  row.id \in PhoneIds /\ phone[row.id] # None /\ phone[row.id].birth = row.birth => phone[row.id].owner = user_state
PhonesHers == PhoneHers(detail) /\ \A row \in phone_mgr.table : PhoneHers(row)

DesktopInv ==
  /\ RowsTypeOK /\ SessionInv /\ ToolsInv /\ TableInv /\ EditInv /\ PhonePageInv /\ ModalInv
  /\ FormsGone /\ TableHers /\ EditHers /\ ModalHers /\ PhonesHers
  /\ others \in Nat
-------------------------------------------------------------------------------
(***************************************************************************)
(* The actions, by the variables they leave alone.                          *)
(***************************************************************************)
TableStep ==
  /\ \/ refresh_filter \/ sort_table
     \/ \E filter : list_accounts(filter)
     \/ \E n \in DOMAIN acc_mgr.table : on_table_view_item_clicked(n)
  /\ UNCHANGED <<rowVars, clientVars, dlg_add, dlg_edit, phoneVars, ownVars>>
EditStep ==
  /\ \/ on_btn_detail_and_edit_clicked \/ refresh_edit \/ read_only
     \/ \E f \in Fields : \E v \in Offered(f) : type_field(f, v)
     \/ \E pwd \in Pwds \cup {Blank}, key \in {Blank, "right", "wrong"} : type_password(pwd, key)
  /\ UNCHANGED <<rowVars, clientVars, acc_mgr, dlg_add, phoneVars, ownVars>>
AddStep ==
  refresh_add /\ UNCHANGED <<rowVars, clientVars, acc_mgr, dlg_edit, phoneVars, ownVars>>
SaveStep ==
  /\ submit_add \/ submit_edit \/ submit_add_phone \/ submit_phone
  /\ UNCHANGED <<session, modal, clipboard, accountVars, phoneVars, ownVars>>
DialogStep ==
  /\ \/ open_delete \/ cancel_modal \/ on_btn_read_passwd_clicked \/ on_btn_read_clicked
     \/ on_btn_copy_clicked \/ update_button \/ on_btn_delete_phone_clicked
  /\ UNCHANGED <<rowVars, session, notice, accountVars, phoneVars, ownVars>>
ConfirmStep ==
  /\ \E right \in BOOLEAN : on_btn_confirm_clicked(right)
  /\ UNCHANGED <<session, clipboard, dlg_add, dlg_edit, phoneVars, ownVars>>
PhonePageStep ==
  /\ \/ refresh_phone_filter \/ submit_phone_filter \/ refresh_detail \/ edit_phone
     \/ \E row \in phone_mgr.table : on_phone_clicked(row)
     \/ \E n \in Numbers \cup {Blank} : type_number(n)
  /\ UNCHANGED <<rowVars, clientVars, accountVars, ownVars>>
RemoveStep ==
  /\ remove_phone \/ \E option \in 0 .. 3 : on_btn_ok_clicked(option)
  /\ UNCHANGED <<session, clipboard, accountVars, detail, ownVars>>
LoginStep ==
  /\ \E name \in usernames, right \in BOOLEAN : on_btn_login_clicked(name, right)
  /\ UNCHANGED <<rowVars, username, modal, notice, clipboard, habit, usernames, notepads, others>>
SignupStep ==
  /\ on_btn_signup_clicked \/ leave_signup
  /\ UNCHANGED <<rowVars, username, user_state, expired, modal, notice, clipboard, habit, accountVars, phoneVars,
                 toolVars, notepads, others>>
NameStep ==
  /\ on_btn_save_clicked \/ \E u \in Users, name \in LoginNames : register(u, name)
  /\ UNCHANGED <<rowVars, user_state, expired, stage, modal, clipboard, habit, accountVars, phoneVars, ownVars>>
LeaveStep ==
  /\ relogin \/ quit
  /\ UNCHANGED <<rowVars, username, user_state, expired, modal, notice, clipboard, habit, usernames, others>>
ToolStep ==
  /\ \/ refresh_personal \/ on_btn_begin_clicked \/ on_btn_copy_pwds_clicked \/ on_btn_clear_clicked \/ onTmpNotepad
     \/ \E name \in LoginNames \cup {Blank} : type_username(name)
  /\ UNCHANGED <<rowVars, session, modal, notice, accountVars, phoneVars, usernames, others>>
OtherStep == OtherClient /\ UNCHANGED <<clientVars, accountVars, phoneVars, usernames, toolVars, notepads>>
ExpiryStep ==
  /\ SessionEnds
  /\ UNCHANGED <<rowVars, username, user_state, stage, modal, notice, clipboard, habit, accountVars, phoneVars, ownVars>>

LEMMA AccountSteps ==
  ASSUME AccountStep, UNCHANGED <<phoneVars, ownVars>>
  PROVE  TableStep \/ EditStep \/ AddStep \/ SaveStep \/ DialogStep \/ ConfirmStep
<1> USE DEF rowVars, tables
<1>1. CASE \/ refresh_filter \/ sort_table \/ (\E filter : list_accounts(filter))
           \/ (\E n \in DOMAIN acc_mgr.table : on_table_view_item_clicked(n))
  <2>1. UNCHANGED <<rowVars, clientVars, dlg_add, dlg_edit>>
    BY <1>1 DEF refresh_filter, sort_table, list_accounts, on_table_view_item_clicked
  <2> QED
    BY <1>1, <2>1 DEF TableStep
<1>2. CASE \/ on_btn_detail_and_edit_clicked \/ refresh_edit \/ read_only
           \/ (\E f \in Fields : \E v \in Offered(f) : type_field(f, v))
           \/ (\E pwd \in Pwds \cup {Blank}, key \in {Blank, "right", "wrong"} : type_password(pwd, key))
  <2>1. UNCHANGED <<rowVars, clientVars, acc_mgr, dlg_add>>
    BY <1>2 DEF on_btn_detail_and_edit_clicked, refresh_edit, read_only, type_field, type_password
  <2> QED
    BY <1>2, <2>1 DEF EditStep
<1>3. CASE refresh_add
  <2>1. UNCHANGED <<rowVars, clientVars, acc_mgr, dlg_edit>>
    BY <1>3 DEF refresh_add
  <2> QED
    BY <1>3, <2>1 DEF AddStep
<1>4. CASE submit_add \/ submit_edit
  <2>1. UNCHANGED <<session, modal, clipboard, accountVars>>
    BY <1>4 DEF submit_add, submit_edit
  <2> QED
    BY <1>4, <2>1 DEF SaveStep
<1>5. CASE \/ open_delete \/ cancel_modal \/ on_btn_read_passwd_clicked \/ on_btn_read_clicked
           \/ on_btn_copy_clicked \/ update_button
  <2>1. UNCHANGED <<rowVars, session, notice, accountVars>>
    BY <1>5 DEF open_delete, cancel_modal, on_btn_read_passwd_clicked, on_btn_read_clicked,
                on_btn_copy_clicked, update_button
  <2> QED
    BY <1>5, <2>1 DEF DialogStep
<1>6. CASE \E right \in BOOLEAN : on_btn_confirm_clicked(right)
  <2>1. UNCHANGED <<session, clipboard, dlg_add, dlg_edit>>
    BY <1>6 DEF on_btn_confirm_clicked
  <2> QED
    BY <1>6, <2>1 DEF ConfirmStep
<1> QED
  BY <1>1, <1>2, <1>3, <1>4, <1>5, <1>6 DEF AccountStep

LEMMA PhoneSteps ==
  ASSUME PhoneStep, UNCHANGED <<accountVars, ownVars>>
  PROVE  SaveStep \/ DialogStep \/ PhonePageStep \/ RemoveStep
<1> USE DEF rowVars, rows
<1>1. CASE submit_add_phone \/ submit_phone
  <2>1. UNCHANGED <<session, modal, clipboard, phoneVars>>
    BY <1>1 DEF submit_add_phone, submit_phone, sessionVars, session
  <2> QED
    BY <1>1, <2>1 DEF SaveStep
<1>2. CASE on_btn_delete_phone_clicked
  <2>1. UNCHANGED <<rowVars, session, notice, phoneVars>>
    BY <1>2 DEF on_btn_delete_phone_clicked, sessionVars, session
  <2> QED
    BY <1>2, <2>1 DEF DialogStep
<1>3. CASE \/ refresh_phone_filter \/ submit_phone_filter \/ refresh_detail \/ edit_phone
           \/ (\E row \in phone_mgr.table : on_phone_clicked(row))
           \/ (\E n \in Numbers \cup {Blank} : type_number(n))
  <2>1. UNCHANGED <<rowVars, clientVars>>
    BY <1>3 DEF refresh_phone_filter, submit_phone_filter, refresh_detail, edit_phone, on_phone_clicked, type_number
  <2> QED
    BY <1>3, <2>1 DEF PhonePageStep
<1>4. CASE remove_phone \/ \E option \in 0 .. 3 : on_btn_ok_clicked(option)
  <2>1. UNCHANGED <<session, clipboard, detail>>
    BY <1>4 DEF remove_phone, on_btn_ok_clicked, sessionVars, session
  <2> QED
    BY <1>4, <2>1 DEF RemoveStep
<1> QED
  BY <1>1, <1>2, <1>3, <1>4 DEF PhoneStep

LEMMA OwnSteps ==
  ASSUME OwnStep
  PROVE  LoginStep \/ SignupStep \/ NameStep \/ LeaveStep \/ ToolStep \/ OtherStep \/ ExpiryStep
<1> USE DEF rowVars, tables
<1>1. CASE \E name \in usernames, right \in BOOLEAN : on_btn_login_clicked(name, right)
  <2>1. UNCHANGED <<rowVars, username, modal, notice, clipboard, habit, usernames, notepads, others>>
    BY <1>1 DEF on_btn_login_clicked
  <2> QED
    BY <1>1, <2>1 DEF LoginStep
<1>2. CASE on_btn_signup_clicked \/ leave_signup
  <2>1. UNCHANGED <<rowVars, username, user_state, expired, modal, notice, clipboard, habit, accountVars, phoneVars,
                    toolVars, notepads, others>>
    BY <1>2 DEF on_btn_signup_clicked, leave_signup, ownVars
  <2> QED
    BY <1>2, <2>1 DEF SignupStep
<1>3. CASE on_btn_save_clicked \/ \E u \in Users, name \in LoginNames : register(u, name)
  <2>1. UNCHANGED <<user_state, expired, stage, modal, clipboard, habit, accountVars, phoneVars, ownVars>>
    BY <1>3 DEF on_btn_save_clicked, register
  <2>2. UNCHANGED rowVars
    BY <1>3 DEF on_btn_save_clicked, register, Named, ShownOf, Same
  <2> QED
    BY <1>3, <2>1, <2>2 DEF NameStep
<1>4. CASE relogin \/ quit
  <2>1. UNCHANGED <<rowVars, username, user_state, expired, modal, notice, clipboard, habit, usernames, others>>
    BY <1>4 DEF relogin, quit
  <2> QED
    BY <1>4, <2>1 DEF LeaveStep
<1>5. CASE \/ refresh_personal \/ on_btn_begin_clicked \/ on_btn_copy_pwds_clicked \/ on_btn_clear_clicked
           \/ onTmpNotepad \/ (\E name \in LoginNames \cup {Blank} : type_username(name))
  <2>1. UNCHANGED <<rowVars, session, modal, notice, accountVars, phoneVars, usernames, others>>
    BY <1>5 DEF refresh_personal, on_btn_begin_clicked, on_btn_copy_pwds_clicked, on_btn_clear_clicked,
                onTmpNotepad, type_username, clientVars, session, ownVars
  <2> QED
    BY <1>5, <2>1 DEF ToolStep
<1>6. CASE OtherClient
  <2>1. UNCHANGED <<clientVars, accountVars, phoneVars, usernames, toolVars, notepads>>
    BY <1>6 DEF OtherClient
  <2> QED
    BY <1>6, <2>1 DEF OtherStep
<1>7. CASE SessionEnds
  <2>1. UNCHANGED <<rowVars, username, user_state, stage, modal, notice, clipboard, habit, accountVars, phoneVars, ownVars>>
    BY <1>7 DEF SessionEnds
  <2> QED
    BY <1>7, <2>1 DEF ExpiryStep
<1> QED
  BY <1>1, <1>2, <1>3, <1>4, <1>5, <1>6, <1>7 DEF OwnStep

LEMMA Steps ==
  ASSUME [NextDesktop]_vars
  PROVE  \/ TableStep \/ EditStep \/ AddStep \/ SaveStep \/ DialogStep \/ ConfirmStep \/ PhonePageStep \/ RemoveStep
         \/ LoginStep \/ SignupStep \/ NameStep \/ LeaveStep \/ ToolStep \/ OtherStep \/ ExpiryStep
         \/ UNCHANGED vars
  BY AccountSteps, PhoneSteps, OwnSteps DEF NextDesktop
-------------------------------------------------------------------------------
(***************************************************************************)
(* The calls of the forms: what they make of the rows and what is shown.    *)
(***************************************************************************)
Noted(form) ==
  notice'.form = form /\ notice'.told \in BOOLEAN /\ notice'.nr = notice.nr + 1 /\ notice.nr < habit.calls
NoPhoneGone == \A q \in PhoneIds : phone[q] # None => phone'[q] # None
NoneDies == \A i \in AccountIds : Exists(i) => Alive(account', i)

LEMMA CallerTyped ==
  SessionInv => Caller \in Users \cup {None} /\ (Caller # None => Caller = user_state)
  BY DEF SessionInv, Caller

\* How a call can end.
LEMMA CalledMade ==
  ASSUME RowsTypeOK, NEW results, \A r \in results : r.ok \in BOOLEAN, NEW call \in Called(results)
  PROVE  /\ call.told \in BOOLEAN /\ (call.made \in results \/ call.made = Same)
         /\ call.told => call.made \in results /\ call.made.ok
<1>1. \/ call = [told |-> FALSE, made |-> Same]
      \/ \E r \in results : call = [told |-> r.ok, made |-> r] \/ call = [told |-> FALSE, made |-> r]
  <2> DEFINE S == {[told |-> r.ok, made |-> r] : r \in results}
             T == {[told |-> FALSE, made |-> r] : r \in results}
  <2>1. call \in S \/ call = [told |-> FALSE, made |-> Same] \/ call \in T
    BY DEF Called
  <2> QED
    BY <2>1
<1>2. CASE call = [told |-> FALSE, made |-> Same]
  BY <1>2
<1>3. ASSUME NEW r \in results, call = [told |-> r.ok, made |-> r] \/ call = [told |-> FALSE, made |-> r]
      PROVE  /\ call.told \in BOOLEAN /\ call.made \in results
             /\ call.told => call.made.ok
  <2>1. CASE call = [told |-> FALSE, made |-> r]
    BY <2>1
  <2>2. CASE call = [told |-> r.ok, made |-> r]
    <3>1. call.told = r.ok /\ call.made = r
      BY <2>2
    <3>2. r.ok \in BOOLEAN
      OBVIOUS
    <3> QED
      BY <3>1, <3>2
  <2> QED
    BY <1>3, <2>1, <2>2
<1> QED
  BY <1>1, <1>2, <1>3

\* A call that has been made and shown: the rows are those of a result of the
\* handler, or the same; if it is shown as a success, of one that is.
LEMMA ShownCall ==
  ASSUME RowsTypeOK, MayCall, NEW form, NEW sent, NEW results, \A r \in results : Result(r),
         NEW call \in Called(results), ShownOf(form, sent, call)
  PROVE  /\ Follows(account', phone', births') /\ Noted(form) /\ notice'.told = call.told
         /\ call.told => notice'.sent = sent
         /\ account' = call.made.account /\ phone' = call.made.phone /\ births' = call.made.births
         /\ \/ call.made \in results /\ (call.told => call.made.ok)
            \/ ~call.told /\ account' = account /\ phone' = phone /\ births' = births
<1>1. \A r \in results : r.ok \in BOOLEAN
  BY DEF Result
<1>2. /\ call.told \in BOOLEAN /\ (call.made \in results \/ call.made = Same)
      /\ call.told => call.made \in results /\ call.made.ok
  BY <1>1, CalledMade
<1>3. /\ account' = call.made.account /\ phone' = call.made.phone /\ births' = call.made.births
      /\ notice' = [form |-> form, told |-> call.told, sent |-> IF call.told THEN sent ELSE None,
                    nr |-> notice.nr + 1]
  BY DEF ShownOf
<1>4. Noted(form) /\ notice'.told = call.told /\ (call.told => notice'.sent = sent)
  BY <1>2, <1>3 DEF Noted, MayCall
<1>5. Follows(call.made.account, call.made.phone, call.made.births)
  BY <1>2, SameFollows DEF Result
<1>6. call.made = Same => account' = account /\ phone' = phone /\ births' = births
  BY <1>3 DEF Same
<1> QED
  BY <1>2, <1>3, <1>4, <1>5, <1>6

LEMMA SubmitAdd ==
  ASSUME RowsTypeOK, SessionInv, TableInv, submit_add
  PROVE  /\ Follows(account', phone', births') /\ Noted("add") /\ phone' = phone /\ NoneDies
         /\ notice'.told => Caller # None /\ notice'.sent.view \in Views /\ \E i \in Unused :
              AddedTo(account', i, Caller, notice'.sent.view, notice'.sent.pwd)
<1>1. PICK v \in [username : Names \cup {Blank}, phone : dlg_add.phone, email : dlg_add.email,
                  category : IF dlg_add.category = {} THEN {Blank} ELSE dlg_add.category],
           pwd \in Pwds \cup {Blank}, right \in BOOLEAN :
        \E call \in rpc_add_account(v, pwd, right) : ShownOf("add", [view |-> v, pwd |-> pwd], call)
  BY DEF submit_add
<1>2. PICK call \in rpc_add_account(v, pwd, right) : ShownOf("add", [view |-> v, pwd |-> pwd], call)
  BY <1>1
<1>3. v \in Views
  BY DEF TableInv, OptionSets, Views
<1>4. Unused # {} /\ MayCall /\ Caller \in Users \cup {None}
  BY CallerTyped DEF submit_add
<1> DEFINE results == CreateAccount(Caller, v, pwd, right)
<1>5. \A r \in results :
        /\ Result(r) /\ r.phone = phone
        /\ \A i \in AccountIds : Exists(i) => Alive(r.account, i)
        /\ r.ok => Caller # None /\ \E i \in Unused : AddedTo(r.account, i, Caller, v, pwd)
  BY <1>3, <1>4, CreateAccountResult
<1>6. call \in Called(results)
  BY <1>2 DEF rpc_add_account
<1> HIDE DEF results
<1>7. /\ Follows(account', phone', births') /\ Noted("add") /\ notice'.told = call.told
      /\ call.told => notice'.sent = [view |-> v, pwd |-> pwd]
      /\ account' = call.made.account /\ phone' = call.made.phone /\ births' = call.made.births
      /\ \/ call.made \in results /\ (call.told => call.made.ok)
         \/ ~call.told /\ account' = account /\ phone' = phone /\ births' = births
  BY <1>2, <1>4, <1>5, <1>6, ShownCall
<1>8. CASE call.made \in results /\ (call.told => call.made.ok)
  <2>1. phone' = phone /\ NoneDies
    BY <1>5, <1>7, <1>8 DEF NoneDies
  <2>2. notice'.told => notice'.sent.view = v /\ notice'.sent.pwd = pwd
    BY <1>7
  <2> QED
    BY <1>3, <1>5, <1>7, <1>8, <2>1, <2>2
<1>9. CASE ~call.told /\ account' = account /\ phone' = phone
  BY <1>7, <1>9 DEF NoneDies, Alive, Exists
<1> QED
  BY <1>7, <1>8, <1>9

\* What submit_edit has made of row i.
Edited(i) ==
  \/ account' = account /\ (notice'.told => i \notin Owned(Caller))
  \/ /\ i \in Owned(Caller) /\ dlg_edit.cur.username \in Names /\ dlg_edit.cur.category \in Categories
     /\ \E p \in PhoneByNumber(dlg_edit.cur.phone), e \in EmailByAddress(dlg_edit.cur.email) :
          account' = With(i, Bound(WithPwd(i, dlg_edit.password), dlg_edit.cur, p, e))
  \/ i \in Owned(Caller) /\ ~notice'.told /\ account' = With(i, WithPwd(i, dlg_edit.password))

LEMMA SubmitEdit ==
  ASSUME RowsTypeOK, SessionInv, EditInv, submit_edit
  PROVE  Follows(account', phone', births') /\ Noted("edit") /\ phone' = phone /\ NoneDies /\ Edited(dlg_edit.id)
<1> DEFINE i == dlg_edit.id
           v == dlg_edit.cur
           pwd == dlg_edit.password
           right == dlg_edit.main_key = "right"
           results == UpdateAccount(Caller, i, v, pwd, right)
<1>1. PICK call \in rpc_update_account(i, v, pwd, right) : Shown("edit", call)
  BY DEF submit_edit
<1>2. MayCall /\ Caller \in Users \cup {None} /\ v \in Views /\ pwd \in Pwds \cup {Blank} /\ right \in BOOLEAN
  BY CallerTyped DEF submit_edit, EditInv, EditOK
<1>3. call \in Called(results)
  BY <1>1 DEF rpc_update_account
<1> HIDE DEF i, v, pwd, right
<1>4. \A r \in results :
        /\ Result(r) /\ r.phone = phone
        /\ \A j \in AccountIds : Exists(j) => Alive(r.account, j)
        /\ \/ r.account = account /\ (r.ok => i \notin Owned(Caller))
           \/ /\ i \in Owned(Caller) /\ v.username \in Names /\ v.category \in Categories
              /\ \E p \in PhoneByNumber(v.phone), e \in EmailByAddress(v.email) :
                   r.account = With(i, Bound(WithPwd(i, pwd), v, p, e))
           \/ i \in Owned(Caller) /\ ~r.ok /\ r.account = With(i, WithPwd(i, pwd))
  BY <1>2, UpdateAccountResult
<1> HIDE DEF results
<1>5. /\ Follows(account', phone', births') /\ Noted("edit") /\ notice'.told = call.told
      /\ account' = call.made.account /\ phone' = call.made.phone /\ births' = call.made.births
      /\ \/ call.made \in results /\ (call.told => call.made.ok)
         \/ ~call.told /\ account' = account /\ phone' = phone /\ births' = births
  BY <1>1, <1>2, <1>3, <1>4, ShownCall DEF Shown
<1>6. CASE call.made \in results /\ (call.told => call.made.ok)
  <2>1. phone' = phone /\ NoneDies
    BY <1>4, <1>5, <1>6 DEF NoneDies
  <2>2. \/ account' = account /\ (notice'.told => i \notin Owned(Caller))
        \/ /\ i \in Owned(Caller) /\ v.username \in Names /\ v.category \in Categories
           /\ \E p \in PhoneByNumber(v.phone), e \in EmailByAddress(v.email) :
                account' = With(i, Bound(WithPwd(i, pwd), v, p, e))
        \/ i \in Owned(Caller) /\ ~notice'.told /\ account' = With(i, WithPwd(i, pwd))
    BY <1>4, <1>5, <1>6
  <2> QED
    BY <1>5, <2>1, <2>2 DEF Edited, i, v, pwd
<1>7. CASE ~call.told /\ account' = account /\ phone' = phone
  BY <1>5, <1>7 DEF NoneDies, Alive, Exists, Edited
<1> QED
  BY <1>5, <1>6, <1>7 DEF i

LEMMA SubmitAddPhone ==
  ASSUME RowsTypeOK, SessionInv, submit_add_phone
  PROVE  /\ Follows(account', phone', births') /\ Noted("add phone") /\ account' = account /\ NoPhoneGone
         /\ notice'.told => Caller # None /\ \E q \in FreePhones : PhoneAddedTo(phone', q, Caller, notice'.sent)
<1>1. PICK n \in Numbers \cup {Blank} : \E call \in rpc_add_phone(n) : ShownOf("add phone", n, call)
  BY DEF submit_add_phone
<1>2. PICK call \in rpc_add_phone(n) : ShownOf("add phone", n, call)
  BY <1>1
<1> DEFINE results == CreatePhone(Caller, n)
<1>3. MayCall /\ FreePhones # {} /\ births < MaxBirths /\ Caller \in Users \cup {None}
  BY CallerTyped DEF submit_add_phone
<1>4. \A r \in results :
        /\ Result(r) /\ r.account = account /\ \A q \in PhoneIds : phone[q] # None => r.phone[q] # None
        /\ r.ok => Caller # None /\ \E q \in FreePhones : PhoneAddedTo(r.phone, q, Caller, n)
  BY <1>3, CreatePhoneResult
<1>5. call \in Called(results)
  BY <1>2 DEF rpc_add_phone
<1> HIDE DEF results
<1>6. /\ Follows(account', phone', births') /\ Noted("add phone") /\ notice'.told = call.told
      /\ account' = call.made.account /\ phone' = call.made.phone
      /\ call.told => notice'.sent = n
      /\ \/ call.made \in results /\ (call.told => call.made.ok)
         \/ ~call.told /\ account' = account /\ phone' = phone
  BY <1>2, <1>3, <1>4, <1>5, ShownCall
<1> QED
  BY <1>4, <1>6 DEF NoPhoneGone

LEMMA SubmitPhone ==
  ASSUME RowsTypeOK, PhonePageInv, submit_phone
  PROVE  /\ Follows(account', phone', births') /\ Noted("phone") /\ account' = account /\ NoPhoneGone
         /\ notice'.told /\ detail.id \in PhonesOf(Caller) => phone'[detail.id].number = detail.number
<1> DEFINE p == detail.id
           n == detail.number
           results == UpdatePhone(Caller, p, n)
<1>1. PICK call \in rpc_update_phone_by_id(p, n) : Shown("phone", call)
  BY DEF submit_phone
<1>2. MayCall /\ n \in Numbers \cup {Blank}
  BY DEF submit_phone, PhonePageInv
<1>3. call \in Called(results)
  BY <1>1 DEF rpc_update_phone_by_id
<1> HIDE DEF n, p
<1>4. \A r \in results :
        /\ Result(r) /\ r.account = account
        /\ \A q \in PhoneIds : phone[q] # None => r.phone[q] # None
        /\ r.ok /\ p \in PhonesOf(Caller) => r.phone[p].number = n
  BY <1>2, UpdatePhoneResult
<1> HIDE DEF results
<1>5. /\ Follows(account', phone', births') /\ Noted("phone") /\ notice'.told = call.told
      /\ account' = call.made.account /\ phone' = call.made.phone
      /\ \/ call.made \in results /\ (call.told => call.made.ok)
         \/ ~call.told /\ account' = account /\ phone' = phone
  BY <1>1, <1>2, <1>3, <1>4, ShownCall DEF Shown
<1>6. account' = account /\ NoPhoneGone /\ (notice'.told /\ p \in PhonesOf(Caller) => phone'[p].number = n)
  BY <1>4, <1>5 DEF NoPhoneGone
<1> QED
  BY <1>5, <1>6 DEF n, p

LEMMA Confirm ==
  ASSUME RowsTypeOK, NEW right \in BOOLEAN, on_btn_confirm_clicked(right)
  PROVE  /\ Follows(account', phone', births') /\ Noted("delete") /\ phone' = phone /\ modal.kind = "delete"
         /\ \A j \in AccountIds : Exists(j) /\ ~Alive(account', j) => j = modal.id
         /\ notice'.told => ~Alive(account', modal.id)
         /\ \/ notice'.told /\ modal' = NoModal /\ acc_mgr' = RowRemoved
            \/ ~notice'.told /\ UNCHANGED <<modal, acc_mgr>>
<1> DEFINE i == modal.id
           results == DeleteAccount(Caller, i, right)
<1>1. PICK call \in rpc_remove_account(i, right) :
        /\ Shown("delete", call)
        /\ IF call.told THEN modal' = NoModal /\ acc_mgr' = RowRemoved ELSE UNCHANGED <<modal, acc_mgr>>
  BY DEF on_btn_confirm_clicked
<1>2. MayCall /\ modal.kind = "delete"
  BY DEF on_btn_confirm_clicked
<1>3. call \in Called(results)
  BY <1>1 DEF rpc_remove_account
<1> HIDE DEF i
<1>4. \A r \in results :
        /\ Result(r) /\ r.phone = phone
        /\ \A j \in AccountIds : Exists(j) /\ ~Alive(r.account, j) => j = i
        /\ r.ok => ~Alive(r.account, i)
  BY DeleteAccountResult
<1> HIDE DEF results
<1>5. /\ Follows(account', phone', births') /\ Noted("delete") /\ notice'.told = call.told
      /\ account' = call.made.account /\ phone' = call.made.phone
      /\ \/ call.made \in results /\ (call.told => call.made.ok)
         \/ ~call.told /\ account' = account /\ phone' = phone
  BY <1>1, <1>2, <1>3, <1>4, ShownCall DEF Shown
<1>6. /\ phone' = phone /\ (\A j \in AccountIds : Exists(j) /\ ~Alive(account', j) => j = i)
      /\ (notice'.told => ~Alive(account', i))
  <2>1. CASE call.made \in results /\ (call.told => call.made.ok)
    BY <1>4, <1>5, <2>1
  <2>2. CASE ~call.told /\ account' = account /\ phone' = phone
    BY <1>5, <2>2 DEF Alive, Exists
  <2> QED
    BY <1>5, <2>1, <2>2
<1>7. \/ notice'.told /\ modal' = NoModal /\ acc_mgr' = RowRemoved
      \/ ~notice'.told /\ UNCHANGED <<modal, acc_mgr>>
  BY <1>1, <1>5
<1> QED
  BY <1>2, <1>5, <1>6, <1>7 DEF i

\* The rows that list_phones puts in the table are the caller's.
Listed ==
  /\ phone_mgr' = [phone_mgr EXCEPT !.table = phone_mgr'.table]
  /\ \A row \in phone_mgr'.table :
       /\ row \in [id : PhoneIds, birth : 1 .. MaxBirths]
       /\ phone'[row.id] # None /\ phone'[row.id].birth = row.birth /\ phone'[row.id].owner = Caller /\ Caller # None

LEMMA ListPhones ==
  ASSUME NEW t, NEW b, PhonesTyped(t, b), PhonePageInv, list_phones(t), phone' = t
  PROVE  Listed
<1>0. PICK n \in phone_mgr.options : \E got \in rpc_list_phones(t, n) :
        phone_mgr' = [phone_mgr EXCEPT !.table = {[id |-> p, birth |-> t[p].birth] : p \in got}]
  BY DEF list_phones
<1>1. PICK got \in rpc_list_phones(t, n) :
        phone_mgr' = [phone_mgr EXCEPT !.table = {[id |-> p, birth |-> t[p].birth] : p \in got}]
  BY <1>0
<1>2. \A p \in got : p \in PhoneIds /\ t[p] # None /\ t[p].owner = Caller
  BY DEF rpc_list_phones, Answered, ListPhone
<1>3. \A p \in got : t[p] \in PhoneRow
  BY <1>2 DEF PhonesTyped
<1> DEFINE table == {[id |-> p, birth |-> t[p].birth] : p \in got}
<1>4. phone_mgr'.table = table /\ phone_mgr' = [phone_mgr EXCEPT !.table = table]
  BY <1>1 DEF PhonePageInv
<1>5. \A row \in table : \E p \in got : row = [id |-> p, birth |-> t[p].birth]
  OBVIOUS
<1> HIDE DEF table
<1>6. ASSUME NEW row \in table
      PROVE  /\ row \in [id : PhoneIds, birth : 1 .. MaxBirths]
             /\ t[row.id] # None /\ t[row.id].birth = row.birth /\ t[row.id].owner = Caller /\ Caller # None
  <2>1. PICK p \in got : row = [id |-> p, birth |-> t[p].birth]
    BY <1>5
  <2>2. row.id = p /\ row.birth = t[p].birth /\ t[p] \in PhoneRow
    BY <1>3, <2>1
  <2> QED
    BY <1>2, <2>1, <2>2, RowsAssumption DEF PhoneRow
<1> QED
  BY <1>4, <1>6 DEF Listed

LEMMA RemovePhone ==
  ASSUME RowsTypeOK, PhonePageInv, NEW mode, MayCall, delete_phone_by_id(mode)
  PROVE  /\ Follows(account', phone', births') /\ Noted("delete phone") /\ births' = births
         /\ \A j \in AccountIds : Exists(j) /\ ~Alive(account', j) =>
              mode = 3 /\ account[j].phone = modal.id /\ account[j].owner = Caller /\ Caller # None
         /\ \A q \in PhoneIds : phone[q] # None /\ phone'[q] = None => q = modal.id /\ phone[q].owner = Caller /\ Caller # None
         /\ notice'.told /\ modal.id \in PhonesOf(Caller) => phone'[modal.id] = None
         /\ Listed \/ UNCHANGED phone_mgr
<1> DEFINE p == modal.id
           results == DeletePhone(Caller, p, mode)
<1>1. PICK call \in rpc_delete_phone_by_id(p, mode) :
        /\ Shown("delete phone", call)
        /\ IF call.told THEN list_phones(call.made.phone) ELSE UNCHANGED phone_mgr
  BY DEF delete_phone_by_id
<1>2. call \in Called(results)
  BY <1>1 DEF rpc_delete_phone_by_id
<1> HIDE DEF p
<1>3. \A r \in results :
        /\ Result(r) /\ r.births = births
        /\ \A j \in AccountIds : Exists(j) /\ ~Alive(r.account, j) =>
             mode = 3 /\ account[j].phone = p /\ account[j].owner = Caller
        /\ \A q \in PhoneIds : phone[q] # None /\ r.phone[q] = None => q = p /\ phone[q].owner = Caller
        /\ r.ok => Caller # None /\ (p \in PhonesOf(Caller) => r.phone[p] = None)
  BY DeletePhoneResult
<1> HIDE DEF results
<1>4. /\ Follows(account', phone', births') /\ Noted("delete phone") /\ notice'.told = call.told
      /\ account' = call.made.account /\ phone' = call.made.phone /\ births' = call.made.births
      /\ \/ call.made \in results /\ (call.told => call.made.ok)
         \/ ~call.told /\ account' = account /\ phone' = phone /\ births' = births
  BY <1>1, <1>2, <1>3, ShownCall DEF Shown
<1>5. (\A j \in AccountIds : account[j] # None => account[j].owner # None)
      /\ (\A q \in PhoneIds : phone[q] # None => phone[q].owner # None)
  BY RowsAssumption DEF RowsTypeOK, AccountRow, PhoneRow
<1>6. /\ \A j \in AccountIds : Exists(j) /\ ~Alive(account', j) =>
           mode = 3 /\ account[j].phone = p /\ account[j].owner = Caller /\ Caller # None
      /\ \A q \in PhoneIds : phone[q] # None /\ phone'[q] = None => q = p /\ phone[q].owner = Caller /\ Caller # None
      /\ notice'.told /\ p \in PhonesOf(Caller) => phone'[p] = None
  <2>1. CASE call.made \in results /\ (call.told => call.made.ok)
    BY <1>3, <1>4, <1>5, <2>1 DEF Exists
  <2>2. CASE ~call.told /\ account' = account /\ phone' = phone
    BY <1>4, <2>2 DEF Alive, Exists
  <2> QED
    BY <1>4, <2>1, <2>2
<1>7. births' = births
  BY <1>3, <1>4
<1>8. Listed \/ UNCHANGED phone_mgr
  <2>1. CASE call.told
    <3>1. list_phones(call.made.phone) /\ phone' = call.made.phone /\ births' = call.made.births
      BY <1>1, <1>4, <2>1
    <3>2. PhonesTyped(call.made.phone, call.made.births)
      BY <1>4, <3>1 DEF Follows
    <3> QED
      BY <3>1, <3>2, ListPhones
  <2>2. CASE ~call.told
    BY <1>1, <2>2
  <2> QED
    BY <2>1, <2>2
<1> QED
  BY <1>4, <1>6, <1>7, <1>8 DEF p

LEMMA OthersRows ==
  ASSUME RowsTypeOK, OtherClient
  PROVE  Follows(account', phone', births')
<1>1. ASSUME NEW results, \A r \in results : Result(r), Gets(results)
      PROVE  Follows(account', phone', births')
  BY <1>1 DEF Gets, Result
<1>2. ASSUME NEW i \in AccountIds, Exists(i), Gets(DeleteAccount(account[i].owner, i, TRUE))
      PROVE  Follows(account', phone', births')
  <2>1. \A r \in DeleteAccount(account[i].owner, i, TRUE) : Result(r)
    BY DeleteAccountResult
  <2> QED
    BY <1>1, <1>2, <2>1
<1>3. ASSUME NEW i \in AccountIds, Exists(i), NEW n \in Names, NEW c \in Categories,
             Gets(UpdateAccount(account[i].owner, i, [View(i) EXCEPT !.username = n, !.category = c], Blank, TRUE))
      PROVE  Follows(account', phone', births')
  <2> DEFINE v == [View(i) EXCEPT !.username = n, !.category = c]
             u == account[i].owner
  <2>1. View(i) \in Views
    BY <1>3, ViewsTyped
  <2>2. v \in Views
    BY <2>1 DEF Views
  <2>3. u \in Users \cup {None}
    BY <1>3 DEF Exists, RowsTypeOK, AccountRow
  <2>4. Gets(UpdateAccount(u, i, v, Blank, TRUE))
    BY <1>3
  <2> HIDE DEF u, v
  <2>5. \A r \in UpdateAccount(u, i, v, Blank, TRUE) : Result(r)
    BY <2>2, <2>3, UpdateAccountResult
  <2> QED
    BY <1>1, <2>4, <2>5
<1>4. ASSUME NEW p \in PhoneIds, Gets(DeletePhone(phone[p].owner, p, 2))
      PROVE  Follows(account', phone', births')
  <2>1. \A r \in DeletePhone(phone[p].owner, p, 2) : Result(r)
    BY DeletePhoneResult
  <2> QED
    BY <1>1, <1>4, <2>1
<1>5. ASSUME FreePhones # {}, births < MaxBirths, NEW u \in Users, NEW n \in Numbers, Gets(CreatePhone(u, n))
      PROVE  Follows(account', phone', births')
  <2>1. \A r \in CreatePhone(u, n) : Result(r)
    BY <1>5, CreatePhoneResult
  <2> QED
    BY <1>1, <1>5, <2>1
<1> QED
  BY <1>2, <1>3, <1>4, <1>5 DEF OtherClient

\* Whatever happens, the rows follow those there were.
LEMMA RowsFollow ==
  ASSUME DesktopInv, [NextDesktop]_vars
  PROVE  Follows(account', phone', births')
<1>1. CASE UNCHANGED rowVars
  BY <1>1, SameFollows DEF DesktopInv, rowVars
<1>2. CASE SaveStep
  BY <1>2, SubmitAdd, SubmitEdit, SubmitAddPhone, SubmitPhone DEF SaveStep, DesktopInv
<1>3. CASE ConfirmStep
  BY <1>3, Confirm DEF ConfirmStep, DesktopInv
<1>4. CASE RemoveStep
  <2>1. MayCall /\ \E mode : delete_phone_by_id(mode)
    BY <1>4 DEF RemoveStep, remove_phone, on_btn_ok_clicked
  <2> QED
    BY <2>1, RemovePhone DEF DesktopInv
<1>5. CASE OtherStep
  BY <1>5, OthersRows DEF OtherStep, DesktopInv
<1> QED
  BY <1>1, <1>2, <1>3, <1>4, <1>5, Steps
  DEF TableStep, EditStep, AddStep, DialogStep, PhonePageStep, LoginStep, SignupStep, NameStep, LeaveStep,
      ToolStep, ExpiryStep, vars
-------------------------------------------------------------------------------
(***************************************************************************)
(* Each part of the invariant, kept by every step.                          *)
(***************************************************************************)
LEMMA RowsStay ==
  ASSUME DesktopInv, [NextDesktop]_vars
  PROVE  RowsTypeOK'
BY RowsFollow
DEF Follows, AccountsTyped, PhonesTyped, PhoneKeys, EmailKeys, Alive, RowsTypeOK, Exists

\* The steps that show a message.
LEMMA NoticeSteps ==
  ASSUME DesktopInv, SaveStep \/ ConfirmStep \/ RemoveStep
  PROVE  \E form : Noted(form)
<1>1. CASE SaveStep
  BY <1>1, SubmitAdd, SubmitEdit, SubmitAddPhone, SubmitPhone DEF SaveStep, DesktopInv
<1>2. CASE ConfirmStep
  BY <1>2, Confirm DEF ConfirmStep, DesktopInv
<1>3. CASE RemoveStep
  <2>1. MayCall /\ \E mode : delete_phone_by_id(mode)
    BY <1>3 DEF RemoveStep, remove_phone, on_btn_ok_clicked
  <2> QED
    BY <2>1, RemovePhone DEF DesktopInv
<1> QED
  BY <1>1, <1>2, <1>3

\* What the calls about users make of their names.
LEMMA NamesCalled ==
  ASSUME SessionInv, NEW table, NEW form, NEW sent, NEW call \in UserCalled(table), Named(form, sent, call), MayCall
  PROVE  /\ Noted(form) /\ (username' = table \/ username' = username)
         /\ notice'.told => username' = table /\ notice'.sent = sent
<1>1. /\ call.told \in BOOLEAN /\ (call.names = table \/ call.names = username)
      /\ call.told => call.names = table
  <2>1. \/ call = [told |-> TRUE, names |-> table] \/ call = [told |-> FALSE, names |-> username]
        \/ call = [told |-> FALSE, names |-> table]
    BY DEF UserCalled
  <2>2. CASE call = [told |-> TRUE, names |-> table]
    BY <2>2
  <2>3. CASE call = [told |-> FALSE, names |-> username]
    BY <2>3
  <2>4. CASE call = [told |-> FALSE, names |-> table]
    BY <2>4
  <2> QED
    BY <2>1, <2>2, <2>3, <2>4
<1> QED
  BY <1>1 DEF Named, ShownOf, Noted, MayCall

LEMMA SaveName ==
  ASSUME SessionInv, on_btn_save_clicked
  PROVE  /\ Noted("personal")
         /\ \/ username' = username
            \/ Caller # None /\ username' = [username EXCEPT ![Caller] = personal.text]
         /\ notice'.told => username' = UpdateUser(Caller, personal.text)
<1>1. PICK call \in rpc_update_user(personal.text) : Named("personal", None, call)
  BY DEF on_btn_save_clicked
<1>2. MayCall
  BY DEF on_btn_save_clicked
<1> DEFINE table == UpdateUser(Caller, personal.text)
<1>3. call \in UserCalled(table)
  BY <1>1 DEF rpc_update_user
<1>4. table = username \/ (Caller # None /\ table = [username EXCEPT ![Caller] = personal.text])
  BY DEF UpdateUser
<1> HIDE DEF table
<1>5. /\ Noted("personal") /\ (username' = table \/ username' = username)
      /\ notice'.told => username' = table
  BY <1>1, <1>2, <1>3, NamesCalled
<1> QED
  BY <1>4, <1>5 DEF table

LEMMA Register ==
  ASSUME SessionInv, NEW u \in Users, NEW name \in LoginNames, register(u, name)
  PROVE  /\ Noted("sign up") /\ (username' = username \/ username' = [username EXCEPT ![u] = name])
         /\ notice'.told => username' = CreateUser(u, name) /\ notice'.sent = name
<1>1. PICK call \in rpc_register_account(u, name) : Named("sign up", name, call)
  BY DEF register
<1>2. MayCall
  BY DEF register
<1> DEFINE table == CreateUser(u, name)
<1>3. call \in UserCalled(table)
  BY <1>1 DEF rpc_register_account
<1>4. table = username \/ table = [username EXCEPT ![u] = name]
  BY DEF CreateUser
<1> HIDE DEF table
<1>5. /\ Noted("sign up") /\ (username' = table \/ username' = username)
      /\ notice'.told => username' = table /\ notice'.sent = name
  BY <1>1, <1>2, <1>3, NamesCalled
<1> QED
  BY <1>4, <1>5 DEF table

LEMMA SessionStays ==
  ASSUME DesktopInv, [NextDesktop]_vars
  PROVE  SessionInv'
<1> USE DEF DesktopInv
<1>0. habit.calls \in Nat
  BY ClientAssumption DEF SessionInv
<1>1. CASE UNCHANGED <<session, notice, usernames>>
  BY <1>1 DEF SessionInv, session
<1>2. ASSUME UNCHANGED <<session, usernames>>, NEW form, Noted(form)
      PROVE  SessionInv'
  BY <1>0, <1>2 DEF SessionInv, session, Noted
<1>3. CASE SaveStep \/ ConfirmStep \/ RemoveStep
  <2>1. UNCHANGED <<session, usernames>>
    BY <1>3 DEF SaveStep, ConfirmStep, RemoveStep, ownVars
  <2> QED
    BY <1>2, <1>3, <2>1, NoticeSteps
<1>4. CASE LoginStep
  <2>1. PICK name \in usernames, right \in BOOLEAN : on_btn_login_clicked(name, right)
    BY <1>4 DEF LoginStep
  <2>2. name # None
    BY RowsAssumption, ClientAssumption DEF SessionInv
  <2>3. UNCHANGED <<username, habit, notice, usernames>> /\ expired' = FALSE
    BY <1>4, <2>1 DEF LoginStep, on_btn_login_clicked
  <2>4. \/ user_state' = None /\ stage' = stage /\ stage = "login"
        \/ stage' = "workbench" /\ user_state' \in Users /\ username[user_state'] = name
    BY <2>1 DEF on_btn_login_clicked
  <2> QED
    BY <2>2, <2>3, <2>4, RowsAssumption DEF SessionInv
<1>5. CASE SignupStep
  <2>1. UNCHANGED <<username, user_state, expired, habit, notice>> /\ stage' \in {"login", "signup"}
    BY <1>5 DEF SignupStep, on_btn_signup_clicked, leave_signup
  <2>2. usernames' = usernames \/ usernames' \in rpc_list_usernames
    BY <1>5 DEF SignupStep, on_btn_signup_clicked, leave_signup, ownVars
  <2>3. usernames' \subseteq LoginNames \cup {Blank}
    BY <2>2 DEF SessionInv, rpc_list_usernames, Answered, TakenNames
  <2> QED
    BY <2>1, <2>3 DEF SessionInv
<1>6. CASE NameStep
  <2>1. UNCHANGED <<user_state, expired, stage, habit, usernames>>
    BY <1>6 DEF NameStep, ownVars
  <2>2. /\ \E form : Noted(form)
        /\ \/ username' = username
           \/ \E u \in Users, name \in LoginNames \cup {Blank} : username' = [username EXCEPT ![u] = name]
    <3>1. CASE on_btn_save_clicked
      <4>1. personal.text \in LoginNames \cup {Blank} /\ (Caller # None => Caller \in Users)
        BY CallerTyped DEF ToolsInv
      <4> QED
        BY <3>1, <4>1, SaveName
    <3>2. CASE \E u \in Users, name \in LoginNames : register(u, name)
      BY <3>2, Register
    <3> QED
      BY <1>6, <3>1, <3>2 DEF NameStep
  <2>3. username' \in [Users -> LoginNames \cup {Blank, None}] /\ (user_state \in Users => username'[user_state] # None)
    <3>1. CASE username' = username
      BY <3>1 DEF SessionInv
    <3>2. ASSUME NEW u \in Users, NEW name \in LoginNames \cup {Blank}, username' = [username EXCEPT ![u] = name]
          PROVE  /\ username' \in [Users -> LoginNames \cup {Blank, None}]
                 /\ user_state \in Users => username'[user_state] # None
      <4>1. name # None
        BY RowsAssumption, ClientAssumption
      <4> QED
        BY <3>2, <4>1 DEF SessionInv
    <3> QED
      BY <2>2, <3>1, <3>2
  <2>4. notice'.told \in BOOLEAN /\ notice'.nr \in 0 .. habit.calls
    BY <1>0, <2>2 DEF Noted, SessionInv
  <2> QED
    BY <2>1, <2>3, <2>4 DEF SessionInv
<1>7. CASE LeaveStep
  <2>1. UNCHANGED <<username, user_state, expired, habit, notice, usernames>> /\ stage' \in {"login", "ended"}
    BY <1>7 DEF LeaveStep, relogin, quit
  <2> QED
    BY <2>1 DEF SessionInv
<1>8. CASE ExpiryStep
  <2>1. UNCHANGED <<username, user_state, stage, habit, notice, usernames>> /\ expired' = TRUE
    BY <1>8 DEF ExpiryStep, SessionEnds, ownVars
  <2> QED
    BY <2>1 DEF SessionInv
<1>9. CASE TableStep \/ EditStep \/ AddStep \/ DialogStep \/ PhonePageStep \/ ToolStep \/ OtherStep \/ UNCHANGED vars
  BY <1>1, <1>9 DEF TableStep, EditStep, AddStep, DialogStep, PhonePageStep, ToolStep, OtherStep, vars,
                    clientVars, session, ownVars
<1> QED
  BY <1>3, <1>4, <1>5, <1>6, <1>7, <1>8, <1>9, Steps

\* The dialogs' answer is a password, the text for a row that is gone, or nothing.
LEMMA PlaintextsTyped ==
  ASSUME RowsTypeOK
  PROVE  Plaintexts \subseteq Pwds \cup {Blank, Gone}
<1>1. \A i \in Owned(Caller) : account[i].pwd \in Pwds
  BY DEF Owned, Exists, RowsTypeOK, AccountRow
<1>2. \A right \in BOOLEAN : FetchPassword(Caller, modal.id, right, Gone) \in Pwds \cup {Blank, Gone}
  BY <1>1 DEF FetchPassword
<1> QED
  BY <1>2 DEF Plaintexts, rpc_fetch_password

LEMMA ToolsStay ==
  ASSUME DesktopInv, [NextDesktop]_vars
  PROVE  ToolsInv'
<1> USE DEF DesktopInv
<1>1. CASE UNCHANGED <<notepads, clipboard, personal, pwd_gen>>
  BY <1>1 DEF ToolsInv
<1>2. CASE DialogStep
  <2>1. UNCHANGED <<notepads, personal, pwd_gen>>
    BY <1>2 DEF DialogStep, ownVars, toolVars
  <2>2. clipboard' = clipboard \/ clipboard' \in Plaintexts
    BY <1>2 DEF DialogStep, open_delete, cancel_modal, on_btn_read_passwd_clicked, on_btn_read_clicked,
                on_btn_copy_clicked, update_button, on_btn_delete_phone_clicked, sessionVars
  <2> QED
    BY <2>1, <2>2, PlaintextsTyped DEF ToolsInv
<1>3. CASE LoginStep \/ LeaveStep
  <2>1. clipboard' = clipboard /\ notepads' \subseteq Users
    BY <1>3 DEF LoginStep, LeaveStep, relogin, quit, ToolsInv
  <2>2. \/ UNCHANGED toolVars
        \/ personal' = NewPersonal /\ pwd_gen' = NewPwdGen
    BY <1>3 DEF LoginStep, LeaveStep, relogin, quit, on_btn_login_clicked, Workbench
  <2>3. CASE UNCHANGED toolVars
    BY <2>1, <2>3 DEF ToolsInv, toolVars
  <2>4. CASE personal' = NewPersonal /\ pwd_gen' = NewPwdGen
    BY <2>1, <2>4 DEF ToolsInv, NewPersonal, NewPwdGen
  <2> QED
    BY <2>2, <2>3, <2>4
<1>4. CASE ToolStep
  <2> DEFINE texts == [member : LoginNames \cup {Blank}, text : LoginNames \cup {Blank}, known : BOOLEAN, touched : BOOLEAN]
  <2>1. CASE refresh_personal
    <3>1. UNCHANGED <<notepads, clipboard, pwd_gen>>
      BY <2>1 DEF refresh_personal, clientVars
    <3>2. PICK got \in rpc_get_user :
            personal' \in IF got = {} THEN {[personal EXCEPT !.text = personal.member, !.touched = FALSE]}
                          ELSE {[member |-> username[u], text |-> username[u], known |-> TRUE, touched |-> FALSE] : u \in got}
      BY <2>1 DEF refresh_personal
    <3>3. \A u \in got : u = user_state /\ u \in Users
      BY CallerTyped DEF rpc_get_user, Answered, GetUser
    <3>4. \A u \in got : username[u] \in LoginNames \cup {Blank}
      BY <3>3 DEF SessionInv
    <3>5. CASE got = {}
      <4>1. personal' = [personal EXCEPT !.text = personal.member, !.touched = FALSE]
        BY <3>2, <3>5
      <4> QED
        BY <3>1, <4>1 DEF ToolsInv
    <3>6. CASE got # {}
      <4>1. PICK u \in got : personal' = [member |-> username[u], text |-> username[u], known |-> TRUE, touched |-> FALSE]
        BY <3>2, <3>6
      <4> QED
        BY <3>1, <3>4, <4>1 DEF ToolsInv
    <3> QED
      BY <3>5, <3>6
  <2>2. ASSUME NEW name \in LoginNames \cup {Blank}, type_username(name)
        PROVE  ToolsInv'
    <3>1. UNCHANGED <<notepads, clipboard, pwd_gen>> /\ personal' = [personal EXCEPT !.text = name, !.touched = TRUE]
      BY <2>2 DEF type_username, clientVars
    <3> QED
      BY <3>1 DEF ToolsInv
  <2>3. CASE on_btn_begin_clicked
    <3>1. /\ UNCHANGED <<notepads, clipboard, personal>>
          /\ pwd_gen' \in [passwords : {Blank, Generated}, editor : {Blank, Generated}]
      <4>1. \/ pwd_gen' = [passwords |-> Generated, editor |-> Generated]
            \/ pwd_gen' = [pwd_gen EXCEPT !.passwords = Blank]
        BY <2>3 DEF on_btn_begin_clicked
      <4> QED
        BY <2>3, <4>1 DEF on_btn_begin_clicked, clientVars, ToolsInv
    <3> QED
      BY <3>1 DEF ToolsInv
  <2>4. CASE on_btn_clear_clicked
    BY <2>4 DEF on_btn_clear_clicked, clientVars, ToolsInv
  <2>5. CASE on_btn_copy_pwds_clicked
    BY <2>5 DEF on_btn_copy_pwds_clicked, ownVars, toolVars, ToolsInv
  <2>6. CASE onTmpNotepad
    <3>1. UNCHANGED <<clipboard, toolVars>> /\ notepads' = notepads \cup {user_state} /\ user_state \in Users
      BY <2>6 DEF onTmpNotepad, clientVars, Idle, SessionInv
    <3> QED
      BY <3>1 DEF ToolsInv, toolVars
  <2> QED
    BY <1>4, <2>1, <2>2, <2>3, <2>4, <2>5, <2>6 DEF ToolStep
<1>5. CASE \/ TableStep \/ EditStep \/ AddStep \/ SaveStep \/ ConfirmStep \/ PhonePageStep \/ RemoveStep
           \/ SignupStep \/ NameStep \/ OtherStep \/ ExpiryStep \/ UNCHANGED vars
  BY <1>1, <1>5 DEF TableStep, EditStep, AddStep, SaveStep, ConfirmStep, PhonePageStep, RemoveStep, SignupStep,
                    NameStep, OtherStep, ExpiryStep, vars, clientVars, ownVars, toolVars
<1> QED
  BY <1>2, <1>3, <1>4, <1>5, Steps

LEMMA FunctionIsSeq ==
  ASSUME NEW S, NEW n \in Nat, NEW s \in [1 .. n -> S]
  PROVE  s \in Seq(S) /\ Len(s) = n
<1>1. s \in Seq(S)
  BY SeqDef
<1>2. DOMAIN s = 1 .. n /\ DOMAIN s = 1 .. Len(s) /\ Len(s) \in Nat
  BY <1>1, LenProperties
<1> QED
  BY <1>1, <1>2

\* The answer of the daemon as a sequence.
LEMMA OrderedIds ==
  ASSUME NEW found \in SUBSET AccountIds, NEW ids \in InsertionOrder(found)
  PROVE  ids \in Seq(AccountIds) /\ Len(ids) <= MaxAccounts /\ \A n \in DOMAIN ids : ids[n] \in found
<1>1. IsFiniteSet(AccountIds) /\ Cardinality(AccountIds) <= MaxAccounts
  BY RowsAssumption, FS_Interval DEF AccountIds
<1>2. IsFiniteSet(found) /\ Cardinality(found) <= MaxAccounts /\ Cardinality(found) \in Nat
  <2>1. IsFiniteSet(found) /\ Cardinality(found) <= Cardinality(AccountIds)
    BY <1>1, FS_Subset
  <2>2. Cardinality(found) \in Nat /\ Cardinality(AccountIds) \in Nat
    BY <1>1, <2>1, FS_CardinalityType
  <2> QED
    BY <1>1, <2>1, <2>2, RowsAssumption
<1>3. ids \in [1 .. Cardinality(found) -> found]
  BY DEF InsertionOrder, SetToSeqs
<1>4. ids \in Seq(found) /\ Len(ids) = Cardinality(found)
  BY <1>2, <1>3, FunctionIsSeq
<1>5. ids \in Seq(AccountIds)
  BY <1>4, SeqMonotonic
<1>6. \A n \in DOMAIN ids : ids[n] \in found
  BY <1>3
<1> QED
  BY <1>2, <1>4, <1>5, <1>6

LEMMA Reversed ==
  ASSUME NEW S, NEW s \in Seq(S)
  PROVE  /\ Reverse(s) \in Seq(S) /\ Len(Reverse(s)) = Len(s)
         /\ \A n \in DOMAIN Reverse(s) : \E m \in DOMAIN s : Reverse(s)[n] = s[m]
<1>1. Len(s) \in Nat /\ DOMAIN s = 1 .. Len(s) /\ s \in [1 .. Len(s) -> S]
  BY LenProperties
<1>2. \A i \in 1 .. Len(s) : (Len(s) - i) + 1 \in 1 .. Len(s)
  BY <1>1
<1>3. \A i \in 1 .. Len(s) : s[(Len(s) - i) + 1] \in S
  BY <1>1, <1>2
<1>4. Reverse(s) \in [1 .. Len(s) -> S] /\ \A i \in 1 .. Len(s) : Reverse(s)[i] = s[(Len(s) - i) + 1]
  BY <1>3 DEF Reverse
<1>5. Reverse(s) \in Seq(S) /\ Len(Reverse(s)) = Len(s) /\ DOMAIN Reverse(s) = 1 .. Len(s)
  BY <1>1, <1>4, FunctionIsSeq
<1> QED
  BY <1>1, <1>2, <1>4, <1>5

LEMMA Shortened ==
  ASSUME NEW S, NEW s \in Seq(S), NEW k \in DOMAIN s
  PROVE  /\ RemoveAt(s, k) \in Seq(S) /\ Len(RemoveAt(s, k)) = Len(s) - 1
         /\ \A n \in DOMAIN RemoveAt(s, k) : \E m \in DOMAIN s : RemoveAt(s, k)[n] = s[m]
<1>1. Len(s) \in Nat /\ DOMAIN s = 1 .. Len(s) /\ s \in [1 .. Len(s) -> S] /\ k \in 1 .. Len(s)
  BY LenProperties
<1> DEFINE a == SubSeq(s, 1, k - 1)
           b == SubSeq(s, k + 1, Len(s))
<1>2. a \in Seq(S) /\ Len(a) = k - 1 /\ \A i \in 1 .. k - 1 : a[i] = s[i]
  <2>1. 1 \in Int /\ k - 1 \in Int /\ \A i \in 1 .. k - 1 : s[i] \in S
    BY <1>1
  <2>2. /\ a \in Seq(S)
        /\ Len(a) = IF 1 <= k - 1 THEN (k - 1) - 1 + 1 ELSE 0
        /\ \A i \in 1 .. (k - 1) - 1 + 1 : a[i] = s[1 + i - 1]
    BY <2>1, SubSeqProperties
  <2> QED
    BY <1>1, <2>2
<1>3. b \in Seq(S) /\ Len(b) = Len(s) - k /\ \A i \in 1 .. Len(s) - k : b[i] = s[k + i]
  <2>1. k + 1 \in Int /\ Len(s) \in Int /\ \A i \in k + 1 .. Len(s) : s[i] \in S
    BY <1>1
  <2>2. /\ b \in Seq(S)
        /\ Len(b) = IF k + 1 <= Len(s) THEN Len(s) - (k + 1) + 1 ELSE 0
        /\ \A i \in 1 .. Len(s) - (k + 1) + 1 : b[i] = s[(k + 1) + i - 1]
    BY <2>1, SubSeqProperties
  <2> QED
    BY <1>1, <2>2
<1>4. RemoveAt(s, k) = a \o b
  BY DEF RemoveAt
<1> HIDE DEF a, b
<1>5. /\ a \o b \in Seq(S) /\ Len(a \o b) = Len(s) - 1
      /\ \A i \in 1 .. Len(s) - 1 : (a \o b)[i] = IF i <= k - 1 THEN a[i] ELSE b[i - (k - 1)]
  <2>1. /\ a \o b \in Seq(S) /\ Len(a \o b) = Len(a) + Len(b)
        /\ \A i \in 1 .. Len(a) + Len(b) : (a \o b)[i] = IF i <= Len(a) THEN a[i] ELSE b[i - Len(a)]
    BY <1>2, <1>3, ConcatProperties
  <2>2. Len(a) + Len(b) = Len(s) - 1
    BY <1>1, <1>2, <1>3
  <2> QED
    BY <1>2, <2>1, <2>2
<1>6. \A i \in 1 .. Len(s) - 1 : (a \o b)[i] = IF i <= k - 1 THEN s[i] ELSE s[i + 1]
  <2>1. \A i \in 1 .. Len(s) - 1 : i <= k - 1 => i \in 1 .. k - 1
    BY <1>1
  <2>2. \A i \in 1 .. Len(s) - 1 : ~(i <= k - 1) => i - (k - 1) \in 1 .. Len(s) - k /\ k + (i - (k - 1)) = i + 1
    BY <1>1
  <2> QED
    BY <1>2, <1>3, <1>5, <2>1, <2>2
<1>7. DOMAIN (a \o b) = 1 .. Len(s) - 1
  BY <1>5, LenProperties
<1>8. \A i \in 1 .. Len(s) - 1 : i \in DOMAIN s /\ i + 1 \in DOMAIN s
  BY <1>1
<1> QED
  BY <1>4, <1>5, <1>6, <1>7, <1>8

LEMMA IdsTyped ==
  /\ \A i \in AccountIds : i # None /\ i \in Nat
  /\ MaxAccounts \in Nat
  BY RowsAssumption DEF AccountIds

\* Which dialog is up, by its kind.
LEMMA ModalKinds ==
  ASSUME ModalInv
  PROVE  /\ modal.kind = "none" => modal = NoModal
         /\ modal.kind = "delete" => modal \in DeleteDialogs
         /\ modal.kind = "expose" => modal \in ExposeDialogs
         /\ modal.kind \in {"remove", "guide"} => modal \in PhoneDialogs
  BY DEF ModalInv, NoModal, DeleteDialogs, ExposeDialogs, PhoneDialogs

LEMMA ChosenTyped ==
  ASSUME TableInv
  PROVE  /\ Chosen # None <=> acc_mgr.row + 1 \in DOMAIN acc_mgr.table
         /\ Chosen # None => Chosen = acc_mgr.table[acc_mgr.row + 1] /\ Chosen \in AccountIds
<1>1. acc_mgr.table \in Seq(AccountIds)
  BY DEF TableInv, TableOK
<1>2. \A n \in DOMAIN acc_mgr.table : acc_mgr.table[n] \in AccountIds /\ acc_mgr.table[n] # None
  BY <1>1, LenProperties, ElementOfSeq, IdsTyped
<1> QED
  BY <1>2 DEF Chosen

LEMMA RowRemovedOK ==
  ASSUME TableInv, TableHers, Chosen # None
  PROVE  TableOK(RowRemoved) /\ AllHers(RowRemoved.table)
<1> DEFINE s == acc_mgr.table
           k == acc_mgr.row + 1
           ids == RemoveAt(s, k)
           r == IF acc_mgr.row >= Len(ids) THEN Len(ids) - 1 ELSE acc_mgr.row
           viewer == IF ids = <<>> THEN None ELSE ids[r + 1]
           m == [acc_mgr EXCEPT !.table = ids, !.row = r, !.resorted = FALSE, !.viewer = viewer]
<1>1. s \in Seq(AccountIds) /\ k \in DOMAIN s /\ Len(s) <= MaxAccounts
  BY ChosenTyped DEF TableInv, TableOK
<1>2. DOMAIN s = 1 .. Len(s) /\ Len(s) \in Nat /\ acc_mgr.row \in -1 .. MaxAccounts /\ k = acc_mgr.row + 1
  BY <1>1, LenProperties DEF TableInv, TableOK
<1>3. /\ ids \in Seq(AccountIds) /\ Len(ids) = Len(s) - 1
      /\ \A n \in DOMAIN ids : \E j \in DOMAIN s : ids[n] = s[j]
  BY <1>1, Shortened
<1>4. RowRemoved = m
  BY Zenon DEF RowRemoved
<1> HIDE DEF s, k, ids
<1>5. DOMAIN ids = 1 .. Len(ids) /\ Len(ids) \in Nat /\ (ids # <<>> => Len(ids) >= 1)
  BY <1>3, LenProperties, EmptySeq
<1>6. r \in -1 .. MaxAccounts
  BY <1>1, <1>2, <1>3, <1>5, IdsTyped
<1>7. ids # <<>> => r + 1 \in DOMAIN ids
  BY <1>1, <1>2, <1>3, <1>5
<1> HIDE DEF r
<1>8. viewer \in AccountIds \cup {None} /\ (r + 1 \in DOMAIN ids => viewer = ids[r + 1])
  <2>1. ids # <<>> => ids[r + 1] \in AccountIds
    BY <1>3, <1>5, <1>7, ElementOfSeq
  <2>2. ids = <<>> => Len(ids) = 0
    BY <1>3
  <2> QED
    BY <1>5, <2>1, <2>2
<1> HIDE DEF viewer
<1>9. Len(ids) <= MaxAccounts
  BY <1>1, <1>2, <1>3, IdsTyped
<1>10. m.table = ids /\ m.row = r /\ m.viewer = viewer
  BY DEF TableInv, TableOK
<1>11. TableOK(m)
  BY <1>3, <1>6, <1>8, <1>9 DEF TableInv, TableOK
<1>12. AllHers(ids)
  BY <1>3 DEF TableHers, AllHers, s
<1> QED
  BY <1>4, <1>10, <1>11, <1>12

\* The steps that change the table: what it shows stays the user's.
LEMMA TableMoves ==
  ASSUME DesktopInv, TableStep \/ ConfirmStep
  PROVE  TableOK(acc_mgr') /\ AllHers(acc_mgr'.table)
<1> USE DEF DesktopInv
<1>0. /\ acc_mgr.table \in Seq(AccountIds) /\ DOMAIN acc_mgr.table = 1 .. Len(acc_mgr.table)
      /\ Len(acc_mgr.table) \in Nat /\ Len(acc_mgr.table) <= MaxAccounts /\ MaxAccounts \in Nat
      /\ \A n \in DOMAIN acc_mgr.table : acc_mgr.table[n] \in AccountIds
  BY LenProperties, ElementOfSeq, IdsTyped DEF TableInv, TableOK
<1>1. CASE refresh_filter
  <2>1. PICK failed \in ReadFaults : acc_mgr' = [acc_mgr EXCEPT !.options = Options(Caller, failed)]
    BY <1>1 DEF refresh_filter
  <2>2. Options(Caller, failed) \in OptionSets
    BY CallerTyped, OptionsTyped
  <2> QED
    BY <2>1, <2>2 DEF TableInv, TableOK, TableHers
<1>2. CASE sort_table
  <2>1. acc_mgr' = [acc_mgr EXCEPT !.table = Reverse(acc_mgr.table), !.resorted = TRUE]
    BY <1>2 DEF sort_table
  <2>2. /\ Reverse(acc_mgr.table) \in Seq(AccountIds) /\ Len(Reverse(acc_mgr.table)) = Len(acc_mgr.table)
        /\ \A n \in DOMAIN Reverse(acc_mgr.table) : \E m \in DOMAIN acc_mgr.table :
             Reverse(acc_mgr.table)[n] = acc_mgr.table[m]
    BY <1>0, Reversed
  <2> DEFINE t == Reverse(acc_mgr.table)
  <2> HIDE DEF t
  <2>3. acc_mgr' = [acc_mgr EXCEPT !.table = t, !.resorted = TRUE]
    BY <2>1 DEF t
  <2>4. t \in Seq(AccountIds) /\ Len(t) <= MaxAccounts /\ AllHers(t)
    BY <1>0, <2>2 DEF t, TableHers, AllHers
  <2> QED
    BY <2>3, <2>4 DEF TableInv, TableOK
<1>3. ASSUME NEW filter, list_accounts(filter)
      PROVE  TableOK(acc_mgr') /\ AllHers(acc_mgr'.table)
  <2>1. PICK found \in rpc_list_accounts(filter) : \E ids \in InsertionOrder(found) :
          acc_mgr' = [acc_mgr EXCEPT !.table = ids, !.resorted = FALSE, !.row = IF ids = <<>> THEN acc_mgr.row ELSE 0,
                                     !.viewer = IF ids = <<>> THEN None ELSE Head(ids)]
    BY <1>3 DEF list_accounts
  <2>2. PICK ids \in InsertionOrder(found) :
          acc_mgr' = [acc_mgr EXCEPT !.table = ids, !.resorted = FALSE, !.row = IF ids = <<>> THEN acc_mgr.row ELSE 0,
                                     !.viewer = IF ids = <<>> THEN None ELSE Head(ids)]
    BY <2>1
  <2>3. found \subseteq AccountIds /\ \A i \in found : Hers(i)
    <3>1. \A i \in found : Caller # None /\ i \in Owned(Caller)
      BY DEF rpc_list_accounts, Answered, ListAccounts, find
    <3> QED
      BY <3>1, CallerTyped DEF Owned, Exists, Hers
  <2>4. ids \in Seq(AccountIds) /\ Len(ids) <= MaxAccounts /\ AllHers(ids)
    BY <2>3, OrderedIds DEF AllHers
  <2>5. /\ DOMAIN ids = 1 .. Len(ids) /\ Len(ids) \in Nat
        /\ ids # <<>> => Head(ids) = ids[1] /\ ids[1] \in AccountIds
        /\ ids = <<>> => Len(ids) = 0
    BY <2>4, LenProperties, EmptySeq, ElementOfSeq
  <2> DEFINE row == IF ids = <<>> THEN acc_mgr.row ELSE 0
             viewer == IF ids = <<>> THEN None ELSE Head(ids)
  <2>6. row \in -1 .. MaxAccounts /\ viewer \in AccountIds \cup {None}
    BY <1>0, <2>5 DEF TableInv, TableOK
  <2>7. row + 1 \in DOMAIN ids => viewer = ids[row + 1]
    BY <2>5
  <2>8. acc_mgr' = [acc_mgr EXCEPT !.table = ids, !.resorted = FALSE, !.row = row, !.viewer = viewer]
    BY <2>2
  <2> HIDE DEF row, viewer
  <2> QED
    BY <2>4, <2>6, <2>7, <2>8 DEF TableInv, TableOK
<1>4. ASSUME NEW n \in DOMAIN acc_mgr.table, on_table_view_item_clicked(n)
      PROVE  TableOK(acc_mgr') /\ AllHers(acc_mgr'.table)
  <2>1. acc_mgr' = [acc_mgr EXCEPT !.row = n - 1, !.viewer = acc_mgr.table[n], !.resorted = FALSE]
    BY <1>4 DEF on_table_view_item_clicked
  <2>2. n - 1 \in -1 .. MaxAccounts /\ (n - 1) + 1 = n /\ acc_mgr.table[n] \in AccountIds
    BY <1>0
  <2> QED
    BY <2>1, <2>2 DEF TableInv, TableOK, TableHers
<1>5. CASE ConfirmStep
  <2>1. modal.kind = "delete" /\ (acc_mgr' = RowRemoved \/ acc_mgr' = acc_mgr)
    BY <1>5, Confirm DEF ConfirmStep
  <2>2. Chosen # None
    BY <2>1, ModalKinds, IdsTyped DEF ModalInv, DeleteDialogs
  <2> QED
    BY <2>1, <2>2, RowRemovedOK DEF TableInv, TableHers
<1> QED
  BY <1>1, <1>2, <1>3, <1>4, <1>5 DEF TableStep

\* The forms as their constructors leave them.
LEMMA NewFormsOK ==
  ASSUME RowsTypeOK, NEW u \in Users \cup {None}, NEW failed
  PROVE  /\ TableOK(NewAccountMgrForm(u, failed)) /\ NewAccountMgrForm(u, failed).table = <<>>
         /\ NewDialogAdd(u, failed) \in OptionSets /\ EditOK(NewDialogEdit)
         /\ Options(u, failed).phone \subseteq Numbers \cup {Blank}
<1>1. Options(u, failed) \in OptionSets /\ NoOptions \in OptionSets
  BY OptionsTyped
<1>2. <<>> \in Seq(AccountIds) /\ Len(<<>>) = 0 /\ DOMAIN <<>> = {}
  BY EmptySeq
<1>3. TableOK(NewAccountMgrForm(u, failed)) /\ NewAccountMgrForm(u, failed).table = <<>>
  BY <1>1, <1>2, IdsTyped DEF TableOK, NewAccountMgrForm
<1>4. BlankView \in Views
  BY ViewsTyped
<1>5. \A f \in Fields : BlankView[f] = InWidgets(BlankView, NoOptions)[f]
  <2>1. BlankView = [username |-> Blank, category |-> Blank, phone |-> Blank, email |-> Blank]
    BY DEF BlankView, Fields
  <2>2. InWidgets(BlankView, NoOptions) = [username |-> Blank, phone |-> Blank, email |-> Blank, category |-> Blank]
    BY <2>1 DEF InWidgets, NoOptions
  <2> QED
    BY <2>1, <2>2 DEF Fields
<1>6. EditOK(NewDialogEdit)
  <2> DEFINE d == NewDialogEdit
  <2>1. d \in [id : AccountIds \cup {None}, base : Views, cur : Views, options : OptionSets,
               failed : SUBSET Reads, touched : SUBSET Fields, readonly : BOOLEAN,
               password : Pwds \cup {Blank}, main_key : {Blank, "right", "wrong"}]
    BY <1>1, <1>4 DEF NewDialogEdit
  <2>2. d.cur = BlankView /\ d.base = BlankView /\ d.options = NoOptions /\ d.id = None
    BY DEF NewDialogEdit
  <2> QED
    BY <1>5, <2>1, <2>2 DEF EditOK
<1>7. NewDialogAdd(u, failed) \in OptionSets /\ Options(u, failed).phone \subseteq Numbers \cup {Blank}
  BY <1>1 DEF NewDialogAdd, OptionSets
<1> QED
  BY <1>3, <1>6, <1>7

\* A login that is accepted and a workbench that is left: new forms, or none.
LEMMA Rebuilt ==
  ASSUME SessionInv, LoginStep \/ LeaveStep
  PROVE  \/ UNCHANGED <<accountVars, phoneVars, toolVars, stage>> /\ stage = "login"
         \/ \E u \in Users \cup {None} : \E failed : Workbench(u, failed) /\ (stage' # "workbench" => u = None /\ failed = {})
<1>1. CASE LoginStep
  <2>1. PICK name \in usernames, right \in BOOLEAN : on_btn_login_clicked(name, right)
    BY <1>1 DEF LoginStep
  <2>2. \/ UNCHANGED <<stage, accountVars, phoneVars, toolVars>> /\ stage = "login"
        \/ \E u \in Users, failed \in BuildFaults : stage' = "workbench" /\ Workbench(u, failed)
    BY <2>1 DEF on_btn_login_clicked
  <2> QED
    BY <2>2
<1>2. CASE LeaveStep
  BY <1>2 DEF LeaveStep, relogin, quit
<1> QED
  BY <1>1, <1>2

LEMMA TableStays ==
  ASSUME DesktopInv, [NextDesktop]_vars
  PROVE  TableInv'
<1> USE DEF DesktopInv
<1>1. CASE UNCHANGED <<acc_mgr, dlg_add>>
  BY <1>1 DEF TableInv
<1>2. CASE TableStep \/ ConfirmStep
  BY <1>2, TableMoves DEF TableInv, TableStep, ConfirmStep
<1>3. CASE AddStep
  <2>1. \E failed \in ReadFaults : dlg_add' = Options(Caller, failed)
    BY <1>3 DEF AddStep, refresh_add
  <2>2. dlg_add' \in OptionSets
    BY <2>1, CallerTyped, OptionsTyped
  <2> QED
    BY <1>3, <2>2 DEF AddStep, TableInv
<1>4. CASE LoginStep \/ LeaveStep
  <2>1. CASE UNCHANGED <<accountVars, phoneVars, toolVars, stage>>
    BY <1>1, <2>1 DEF accountVars
  <2>2. ASSUME NEW u \in Users \cup {None}, NEW failed, Workbench(u, failed)
        PROVE  TableInv'
    BY <2>2, NewFormsOK DEF Workbench, TableInv
  <2> QED
    BY <1>4, <2>1, <2>2, Rebuilt
<1>5. CASE \/ EditStep \/ SaveStep \/ DialogStep \/ PhonePageStep \/ RemoveStep \/ SignupStep \/ NameStep
           \/ ToolStep \/ OtherStep \/ ExpiryStep \/ UNCHANGED vars
  BY <1>1, <1>5 DEF EditStep, SaveStep, DialogStep, PhonePageStep, RemoveStep, SignupStep, NameStep, ToolStep,
                    OtherStep, ExpiryStep, vars, accountVars
<1> QED
  BY <1>2, <1>3, <1>4, <1>5, Steps

\* A text typed into a widget, or chosen from what it offers.
LEMMA Typed ==
  ASSUME NEW c \in Views, NEW o \in OptionSets, NEW f \in Fields,
         NEW v \in IF f = "username" THEN Names \cup {Blank} ELSE o[f]
  PROVE  /\ [c EXCEPT ![f] = v] \in Views
         /\ \A g \in Fields : [c EXCEPT ![f] = v][g] = IF g = f THEN v ELSE c[g]
<1>1. c = [username |-> c.username, category |-> c.category, phone |-> c.phone, email |-> c.email]
  BY DEF Views
<1>2. CASE f = "username"
  <2>1. v \in Names \cup {Blank} /\ [c EXCEPT ![f] = v] = [c EXCEPT !.username = v]
    BY <1>2
  <2> QED
    BY <1>1, <1>2, <2>1 DEF Views, Fields
<1>3. CASE f = "category"
  <2>1. v \in Categories /\ [c EXCEPT ![f] = v] = [c EXCEPT !.category = v]
    BY <1>3 DEF OptionSets
  <2> QED
    BY <1>1, <1>3, <2>1 DEF Views, Fields
<1>4. CASE f = "phone"
  <2>1. v \in Numbers \cup {Blank} /\ [c EXCEPT ![f] = v] = [c EXCEPT !.phone = v]
    BY <1>4 DEF OptionSets
  <2> QED
    BY <1>1, <1>4, <2>1 DEF Views, Fields
<1>5. CASE f = "email"
  <2>1. v \in Names \cup {Blank} /\ [c EXCEPT ![f] = v] = [c EXCEPT !.email = v]
    BY <1>5 DEF OptionSets
  <2> QED
    BY <1>1, <1>5, <2>1 DEF Views, Fields
<1> QED
  BY <1>2, <1>3, <1>4, <1>5 DEF Fields

LEMMA FilledOK ==
  ASSUME RowsTypeOK, SessionInv, EditInv, NEW i \in AccountIds, initial_input_widgets(i)
  PROVE  EditOK(dlg_edit') /\ dlg_edit'.id = i
<1>1. PICK failed \in ReadFaults :
        LET v == rpc_list_account_by_id(i, failed)
            offered == Options(Caller, failed)
        IN  dlg_edit' = [dlg_edit EXCEPT !.id = i, !.base = v, !.cur = InWidgets(v, offered),
                                         !.options = offered, !.touched = {}, !.readonly = TRUE,
                                         !.failed = IF Caller = None THEN Reads ELSE failed]
  BY DEF initial_input_widgets
<1> DEFINE v == rpc_list_account_by_id(i, failed)
           o == Options(Caller, failed)
           c == InWidgets(v, o)
           missing == IF Caller = None THEN Reads ELSE failed
<1>2. dlg_edit' = [dlg_edit EXCEPT !.id = i, !.base = v, !.cur = c, !.options = o, !.touched = {},
                                   !.readonly = TRUE, !.failed = missing]
  BY <1>1
<1>3. Caller \in Users \cup {None} /\ failed \subseteq Reads
  BY CallerTyped, ClientAssumption
<1>4. v \in Views /\ o \in OptionSets /\ (Caller # None /\ "categories" \notin failed => o.category = Categories)
  BY <1>3, FillTyped, OptionsTyped
<1>5. c \in Views
  BY <1>4, InWidgetsTyped
<1>6. missing \subseteq Reads /\ (missing = {} => Caller # None /\ failed = {})
  BY <1>3 DEF Reads
<1>7. \A f \in Fields : c[f] = InWidgets(v, o)[f]
  OBVIOUS
<1>8. missing = {} => o.category = Categories
  BY <1>4, <1>6
<1> HIDE DEF v, o, c, missing
<1>9. /\ dlg_edit'.id = i /\ dlg_edit'.base = v /\ dlg_edit'.cur = c /\ dlg_edit'.options = o
      /\ dlg_edit'.failed = missing /\ dlg_edit'.touched = {}
      /\ dlg_edit' \in [id : AccountIds \cup {None}, base : Views, cur : Views, options : OptionSets,
                        failed : SUBSET Reads, touched : SUBSET Fields, readonly : BOOLEAN,
                        password : Pwds \cup {Blank}, main_key : {Blank, "right", "wrong"}]
  BY <1>2, <1>4, <1>5, <1>6 DEF EditInv, EditOK
<1> QED
  BY <1>7, <1>8, <1>9 DEF EditOK

\* The steps that change the edit dialog; only an account of the table is put
\* in it.
LEMMA EditMoves ==
  ASSUME DesktopInv, EditStep
  PROVE  EditOK(dlg_edit') /\ (dlg_edit'.id = dlg_edit.id \/ dlg_edit'.id = Chosen)
<1> USE DEF DesktopInv
<1>0. dlg_edit \in [id : AccountIds \cup {None}, base : Views, cur : Views, options : OptionSets,
                    failed : SUBSET Reads, touched : SUBSET Fields, readonly : BOOLEAN,
                    password : Pwds \cup {Blank}, main_key : {Blank, "right", "wrong"}]
  BY DEF EditInv, EditOK
<1>1. CASE on_btn_detail_and_edit_clicked
  <2>1. Chosen \in AccountIds /\ initial_input_widgets(Chosen)
    BY <1>1, ChosenTyped DEF on_btn_detail_and_edit_clicked
  <2> QED
    BY <2>1, FilledOK
<1>2. CASE refresh_edit
  <2>1. dlg_edit.id \in AccountIds /\ initial_input_widgets(dlg_edit.id)
    BY <1>0, <1>2 DEF refresh_edit
  <2> QED
    BY <2>1, FilledOK
<1>3. CASE read_only
  <2>1. dlg_edit' = [dlg_edit EXCEPT !.readonly = FALSE]
    BY <1>3 DEF read_only
  <2> QED
    BY <2>1 DEF EditInv, EditOK
<1>4. ASSUME NEW f \in Fields, NEW v \in Offered(f), type_field(f, v)
      PROVE  EditOK(dlg_edit') /\ dlg_edit'.id = dlg_edit.id
  <2> DEFINE c == [dlg_edit.cur EXCEPT ![f] = v]
  <2>1. dlg_edit' = [dlg_edit EXCEPT !.cur = c, !.touched = dlg_edit.touched \cup {f}]
    BY <1>4 DEF type_field
  <2>2. v \in IF f = "username" THEN Names \cup {Blank} ELSE dlg_edit.options[f]
    BY <1>4 DEF Offered
  <2>3. c \in Views /\ \A g \in Fields : c[g] = IF g = f THEN v ELSE dlg_edit.cur[g]
    BY <1>0, <2>2, Typed
  <2> HIDE DEF c
  <2>4. /\ dlg_edit'.id = dlg_edit.id /\ dlg_edit'.base = dlg_edit.base /\ dlg_edit'.cur = c
        /\ dlg_edit'.options = dlg_edit.options /\ dlg_edit'.failed = dlg_edit.failed
        /\ dlg_edit'.touched = dlg_edit.touched \cup {f}
        /\ dlg_edit' \in [id : AccountIds \cup {None}, base : Views, cur : Views, options : OptionSets,
                          failed : SUBSET Reads, touched : SUBSET Fields, readonly : BOOLEAN,
                          password : Pwds \cup {Blank}, main_key : {Blank, "right", "wrong"}]
    BY <1>0, <2>1, <2>3
  <2>5. \A g \in Fields \ dlg_edit'.touched : c[g] = InWidgets(dlg_edit.base, dlg_edit.options)[g]
    BY <2>3, <2>4 DEF EditInv, EditOK
  <2> QED
    BY <2>4, <2>5 DEF EditInv, EditOK
<1>5. ASSUME NEW pwd \in Pwds \cup {Blank}, NEW key \in {Blank, "right", "wrong"}, type_password(pwd, key)
      PROVE  EditOK(dlg_edit') /\ dlg_edit'.id = dlg_edit.id
  <2>1. dlg_edit' = [dlg_edit EXCEPT !.password = pwd, !.main_key = IF pwd = Blank THEN Blank ELSE key]
    BY <1>5 DEF type_password
  <2> QED
    BY <2>1 DEF EditInv, EditOK
<1> QED
  BY <1>1, <1>2, <1>3, <1>4, <1>5 DEF EditStep

LEMMA EditStays ==
  ASSUME DesktopInv, [NextDesktop]_vars
  PROVE  EditInv'
<1> USE DEF DesktopInv
<1>1. CASE UNCHANGED dlg_edit
  BY <1>1 DEF EditInv
<1>2. CASE EditStep
  BY <1>2, EditMoves DEF EditInv
<1>3. CASE LoginStep \/ LeaveStep
  <2>1. CASE UNCHANGED <<accountVars, phoneVars, toolVars, stage>>
    BY <1>1, <2>1 DEF accountVars
  <2>2. ASSUME NEW u \in Users \cup {None}, NEW failed, Workbench(u, failed)
        PROVE  EditInv'
    BY <2>2, NewFormsOK DEF Workbench, EditInv
  <2> QED
    BY <1>3, <2>1, <2>2, Rebuilt
<1>4. CASE \/ TableStep \/ AddStep \/ SaveStep \/ DialogStep \/ ConfirmStep \/ PhonePageStep \/ RemoveStep
           \/ SignupStep \/ NameStep \/ ToolStep \/ OtherStep \/ ExpiryStep \/ UNCHANGED vars
  BY <1>1, <1>4 DEF TableStep, AddStep, SaveStep, DialogStep, ConfirmStep, PhonePageStep, RemoveStep, SignupStep,
                    NameStep, ToolStep, OtherStep, ExpiryStep, vars, accountVars
<1> QED
  BY <1>2, <1>3, <1>4, Steps

\* A phone that a form has shown as the user's: what is under its id now is that
\* phone, or a later one.
LEMMA PhonePersists ==
  ASSUME DesktopInv, [NextDesktop]_vars, user_state' = user_state, NEW row, row.birth <= births, PhoneHers(row),
         row.birth \in Int, row.id \in PhoneIds, phone'[row.id] # None, phone'[row.id].birth = row.birth
  PROVE  phone'[row.id].owner = user_state
<1>1. PhonesTyped(phone', births') /\ PhonesKept(phone', births') /\ births \in Int
  BY RowsFollow, RowsAssumption DEF Follows, DesktopInv, RowsTypeOK
<1>2. phone'[row.id].birth \in Int
  BY <1>1, RowsAssumption DEF PhonesTyped, PhoneRow
<1> QED
  BY <1>1, <1>2 DEF PhonesKept, PhoneHers

LEMMA BirthsTyped ==
  ASSUME DesktopInv, [NextDesktop]_vars
  PROVE  births \in Nat /\ births' \in Nat /\ births' <= MaxBirths /\ births <= births' /\ MaxBirths \in Nat
BY RowsFollow, RowsAssumption DEF DesktopInv, RowsTypeOK, Follows, PhonesTyped, PhonesKept

\* What a click puts in the detail frame is the user's.
LEMMA PhoneClicked ==
  ASSUME DesktopInv, PhonePageStep, NEW row \in phone_mgr.table, on_phone_clicked(row)
  PROVE  /\ detail' \in [id : PhoneIds \cup {0, None}, number : Numbers \cup {Blank}, birth : 0 .. MaxBirths,
                         fetched : BOOLEAN, editing : BOOLEAN]
         /\ detail'.birth <= births /\ phone_mgr' = phone_mgr
         /\ detail'.id \in PhoneIds => phone[detail'.id].owner = user_state
<1> USE DEF DesktopInv
<1>1. PICK got \in rpc_find_phone_by_id(row.id) :
        detail' = IF got = {}
                    THEN [NewPhoneDetail EXCEPT !.id = 0, !.fetched = TRUE]
                    ELSE [NewPhoneDetail EXCEPT !.id = row.id, !.number = phone[row.id].number,
                                                !.birth = phone[row.id].birth, !.fetched = TRUE]
  BY DEF on_phone_clicked
<1>2. phone_mgr' = phone_mgr /\ births \in Nat /\ births <= MaxBirths /\ MaxBirths \in Nat
  BY RowsAssumption DEF on_phone_clicked, RowsTypeOK
<1>3. CASE got = {}
  <2>1. detail' = [id |-> 0, number |-> Blank, birth |-> 0, fetched |-> TRUE, editing |-> FALSE]
    BY <1>1, <1>3 DEF NewPhoneDetail
  <2> QED
    BY <1>2, <2>1 DEF PhoneIds
<1>4. CASE got # {}
  <2>1. got = {row.id} /\ row.id \in PhonesOf(Caller)
    BY <1>4 DEF rpc_find_phone_by_id, Answered, FindPhoneById
  <2>2. /\ row.id \in PhoneIds /\ phone[row.id] \in PhoneRow /\ phone[row.id].owner = Caller
        /\ phone[row.id].birth <= births
    BY <2>1 DEF PhonesOf, RowsTypeOK
  <2>3. phone[row.id].owner = user_state
    <3>1. phone[row.id].owner \in Users
      BY <2>2 DEF PhoneRow
    <3> QED
      BY <2>2, <3>1, CallerTyped, RowsAssumption
  <2>4. detail' = [id |-> row.id, number |-> phone[row.id].number, birth |-> phone[row.id].birth,
                   fetched |-> TRUE, editing |-> FALSE]
    BY <1>1, <1>4 DEF NewPhoneDetail
  <2>5. phone[row.id].birth \in 1 .. MaxBirths /\ phone[row.id].number \in Numbers
    BY <2>2 DEF PhoneRow
  <2> HIDE DEF DesktopInv
  <2> QED
    BY <1>2, <2>2, <2>3, <2>4, <2>5
<1> QED
  BY <1>3, <1>4

\* What list_phones puts in the table is the user's.
LEMMA PhonesListed ==
  ASSUME DesktopInv, [NextDesktop]_vars, user_state' = user_state, Listed
  PROVE  /\ phone_mgr' \in [table : SUBSET [id : PhoneIds, birth : 1 .. MaxBirths], options : SUBSET (Numbers \cup {Blank})]
         /\ \A row \in phone_mgr'.table : row.birth <= births' /\ phone'[row.id].owner = user_state
<1>1. PhonesTyped(phone', births')
  BY RowsFollow DEF Follows
<1>2. \A row \in phone_mgr'.table : row.birth <= births' /\ phone'[row.id].owner = user_state
  BY <1>1, CallerTyped DEF DesktopInv, Listed, PhonesTyped
<1> QED
  BY <1>2 DEF Listed, DesktopInv, PhonePageInv

LEMMA PhonePageStays ==
  ASSUME DesktopInv, [NextDesktop]_vars
  PROVE  PhonePageInv' /\ PhonesHers'
<1> USE DEF DesktopInv
<1> DEFINE TableTyped(m) == m \in [table : SUBSET [id : PhoneIds, birth : 1 .. MaxBirths], options : SUBSET (Numbers \cup {Blank})]
           DetailTyped(d) == d \in [id : PhoneIds \cup {0, None}, number : Numbers \cup {Blank}, birth : 0 .. MaxBirths,
                                    fetched : BOOLEAN, editing : BOOLEAN]
           HersNow(row) == row.id \in PhoneIds /\ phone'[row.id] # None /\ phone'[row.id].birth = row.birth =>
                             phone'[row.id].owner = user_state'
<1>0. /\ births \in Nat /\ births' \in Nat /\ births' <= MaxBirths /\ births <= births' /\ MaxBirths \in Nat
      /\ TableTyped(phone_mgr) /\ DetailTyped(detail)
      /\ detail.birth \in Int /\ \A row \in phone_mgr.table : row.birth \in Int
  BY BirthsTyped DEF PhonePageInv
<1>1. ASSUME TableTyped(phone_mgr'), DetailTyped(detail'), detail'.birth <= births', HersNow(detail'),
             \A row \in phone_mgr'.table : row.birth <= births' /\ HersNow(row)
      PROVE  PhonePageInv' /\ PhonesHers'
  BY <1>1 DEF PhonePageInv, PhonesHers, PhoneHers
<1>2. detail.birth <= births' /\ \A row \in phone_mgr.table : row.birth <= births'
  BY <1>0 DEF PhonePageInv
<1>3. user_state' = user_state => HersNow(detail) /\ \A row \in phone_mgr.table : HersNow(row)
  BY <1>0, PhonePersists DEF PhonesHers, PhonePageInv
<1> HIDE DEF TableTyped, DetailTyped, HersNow
<1>4. CASE user_state' = user_state /\ UNCHANGED phoneVars
  BY <1>0, <1>1, <1>2, <1>3, <1>4 DEF phoneVars
<1>5. CASE user_state' = user_state /\ detail' = detail /\ Listed
  <2>1. TableTyped(phone_mgr') /\ \A row \in phone_mgr'.table : row.birth <= births' /\ HersNow(row)
    BY <1>5, PhonesListed DEF TableTyped, HersNow
  <2> QED
    BY <1>0, <1>1, <1>2, <1>3, <1>5, <2>1
<1>6. CASE PhonePageStep
  <2>0. user_state' = user_state /\ phone' = phone /\ births' = births
    BY <1>6 DEF PhonePageStep, clientVars, rowVars
  <2>1. CASE refresh_phone_filter
    <3>1. PICK failed \in ReadFaults : phone_mgr' = [phone_mgr EXCEPT !.options = Options(Caller, failed).phone]
      BY <2>1 DEF refresh_phone_filter
    <3>2. Options(Caller, failed).phone \subseteq Numbers \cup {Blank}
      BY CallerTyped, OptionsTyped DEF OptionSets
    <3>3. TableTyped(phone_mgr') /\ phone_mgr'.table = phone_mgr.table /\ detail' = detail
      BY <1>0, <2>1, <3>1, <3>2 DEF TableTyped, refresh_phone_filter
    <3> QED
      BY <1>0, <1>1, <1>2, <1>3, <2>0, <3>3
  <2>2. CASE submit_phone_filter
    <3>1. list_phones(phone) /\ detail' = detail
      BY <2>2 DEF submit_phone_filter
    <3>2. PhonesTyped(phone, births)
      BY RowsParts
    <3>3. Listed
      BY <2>0, <3>1, <3>2, ListPhones
    <3> QED
      BY <1>5, <2>0, <3>1, <3>3
  <2>3. CASE refresh_detail \/ edit_phone \/ \E n \in Numbers \cup {Blank} : type_number(n)
    <3>1. phone_mgr' = phone_mgr
      BY <2>3 DEF refresh_detail, edit_phone, type_number
    <3>2. /\ DetailTyped(detail') /\ detail'.birth <= births'
          /\ detail'.id = None \/ (detail'.id = detail.id /\ detail'.birth = detail.birth)
      <4>1. CASE refresh_detail
        <5>1. detail' = [id |-> None, number |-> Blank, birth |-> 0, fetched |-> FALSE, editing |-> FALSE]
          BY <4>1 DEF refresh_detail, NewPhoneDetail
        <5> QED
          BY <1>0, <5>1 DEF DetailTyped
      <4>2. CASE edit_phone
        <5>1. detail' = [detail EXCEPT !.editing = TRUE]
          BY <4>2 DEF edit_phone
        <5> QED
          BY <1>0, <1>2, <5>1 DEF DetailTyped
      <4>3. ASSUME NEW n \in Numbers \cup {Blank}, type_number(n)
            PROVE  DetailTyped(detail') /\ detail'.birth <= births' /\ detail'.id = detail.id /\ detail'.birth = detail.birth
        <5>1. detail' = [detail EXCEPT !.number = n]
          BY <4>3 DEF type_number
        <5> QED
          BY <1>0, <1>2, <5>1 DEF DetailTyped
      <4> QED
        BY <2>3, <4>1, <4>2, <4>3
    <3>3. HersNow(detail')
      <4>1. None \notin PhoneIds
        BY RowsAssumption DEF PhoneIds
      <4> QED
        BY <1>3, <2>0, <3>2, <4>1 DEF HersNow
    <3> QED
      BY <1>0, <1>1, <1>2, <1>3, <2>0, <3>1, <3>2, <3>3
  <2>4. ASSUME NEW row \in phone_mgr.table, on_phone_clicked(row)
        PROVE  PhonePageInv' /\ PhonesHers'
    <3>1. /\ DetailTyped(detail') /\ detail'.birth <= births /\ phone_mgr' = phone_mgr
          /\ detail'.id \in PhoneIds => phone[detail'.id].owner = user_state
      BY <1>6, <2>4, PhoneClicked DEF DetailTyped
    <3>2. HersNow(detail')
      BY <2>0, <3>1 DEF HersNow
    <3> QED
      BY <1>0, <1>1, <1>2, <1>3, <2>0, <3>1, <3>2
  <2> QED
    BY <1>6, <2>1, <2>2, <2>3, <2>4 DEF PhonePageStep
<1>7. CASE RemoveStep
  <2>1. MayCall /\ \E mode : delete_phone_by_id(mode)
    BY <1>7 DEF RemoveStep, remove_phone, on_btn_ok_clicked
  <2>2. Listed \/ UNCHANGED phone_mgr
    BY <2>1, RemovePhone
  <2>3. user_state' = user_state /\ detail' = detail
    BY <1>7 DEF RemoveStep, session
  <2> QED
    BY <1>4, <1>5, <2>2, <2>3 DEF phoneVars
<1>8. CASE LoginStep \/ LeaveStep
  <2>1. ASSUME detail' = NewPhoneDetail, phone_mgr'.table = {}, TableTyped(phone_mgr')
        PROVE  PhonePageInv' /\ PhonesHers'
    <3>1. detail' = [id |-> None, number |-> Blank, birth |-> 0, fetched |-> FALSE, editing |-> FALSE]
      BY <2>1 DEF NewPhoneDetail
    <3>2. DetailTyped(detail') /\ detail'.birth <= births' /\ HersNow(detail')
      <4>1. None \notin PhoneIds
        BY RowsAssumption DEF PhoneIds
      <4> QED
        BY <1>0, <3>1, <4>1 DEF DetailTyped, HersNow
    <3> QED
      BY <1>1, <2>1, <3>2
  <2>2. CASE UNCHANGED <<accountVars, phoneVars, toolVars, stage>> /\ stage = "login"
    <3>1. detail = NewPhoneDetail /\ phone_mgr.table = {}
      BY <2>2 DEF FormsGone, NoForms, NewPhoneMgrForm
    <3> QED
      BY <1>0, <2>1, <2>2, <3>1 DEF phoneVars
  <2>3. ASSUME NEW u \in Users \cup {None}, NEW failed, Workbench(u, failed)
        PROVE  PhonePageInv' /\ PhonesHers'
    <3>1. phone_mgr' = [table |-> {}, options |-> Options(u, failed).phone] /\ detail' = NewPhoneDetail
      BY <2>3 DEF Workbench, NewPhoneMgrForm
    <3>2. Options(u, failed).phone \subseteq Numbers \cup {Blank}
      BY NewFormsOK
    <3> QED
      BY <2>1, <3>1, <3>2 DEF TableTyped
  <2> QED
    BY <1>8, <2>2, <2>3, Rebuilt
<1>9. CASE \/ TableStep \/ EditStep \/ AddStep \/ SaveStep \/ DialogStep \/ ConfirmStep
           \/ SignupStep \/ NameStep \/ ToolStep \/ OtherStep \/ ExpiryStep \/ UNCHANGED vars
  BY <1>4, <1>9 DEF TableStep, EditStep, AddStep, SaveStep, DialogStep, ConfirmStep, SignupStep, NameStep,
                    ToolStep, OtherStep, ExpiryStep, vars, clientVars, session
<1> QED
  BY <1>6, <1>7, <1>8, <1>9, Steps

\* The dialog that opens on an account or on the phone of the detail frame.
LEMMA DialogOpened ==
  ASSUME DesktopInv, DialogStep, open_delete \/ on_btn_read_passwd_clicked \/ on_btn_delete_phone_clicked
  PROVE  ModalInv'
<1> USE DEF DesktopInv
<1>1. stage' = stage /\ acc_mgr' = acc_mgr /\ detail' = detail
  BY DEF DialogStep, session, accountVars, phoneVars
<1>2. stage = "workbench"
  BY DEF open_delete, on_btn_read_passwd_clicked, on_btn_delete_phone_clicked, Idle
<1>3. Chosen' = Chosen
  BY <1>1 DEF Chosen
<1>4. CASE open_delete
  <2>1. Chosen \in AccountIds /\ modal' = [kind |-> "delete", id |-> Chosen]
    BY <1>4, ChosenTyped DEF open_delete, NewDialogDelete
  <2>2. modal'.kind = "delete" /\ modal'.id = Chosen /\ modal' \in DeleteDialogs
    BY <2>1 DEF DeleteDialogs
  <2> QED
    BY <1>1, <1>2, <1>3, <2>2 DEF ModalInv, ShownOnlyWhileCounting
<1>5. CASE on_btn_read_passwd_clicked
  <2>1. \E i \in AccountIds : modal' = NewDialogExposed(i)
    BY <1>5, ChosenTyped DEF on_btn_read_passwd_clicked, EditInv, EditOK
  <2>2. modal' \in ExposeDialogs /\ modal'.kind = "expose" /\ modal'.display = Blank
    BY <2>1, AccountFormsAssumption DEF NewDialogExposed, ExposeDialogs
  <2> QED
    BY <1>1, <1>2, <2>2 DEF ModalInv, ShownOnlyWhileCounting
<1>6. CASE on_btn_delete_phone_clicked
  <2>1. modal' = [kind |-> "remove", id |-> detail.id] \/ modal' = [kind |-> "guide", id |-> detail.id]
    BY <1>6 DEF on_btn_delete_phone_clicked, NewDeletionGuide
  <2>2. modal' \in PhoneDialogs /\ modal'.kind \in {"remove", "guide"} /\ modal'.id = detail.id
    BY <2>1 DEF PhoneDialogs, PhonePageInv
  <2> QED
    BY <1>1, <1>2, <2>2 DEF ModalInv, ShownOnlyWhileCounting
<1> QED
  BY <1>4, <1>5, <1>6

\* The dialog that shows a password, and its countdown.
LEMMA Exposed ==
  ASSUME DesktopInv, DialogStep, on_btn_read_clicked \/ on_btn_copy_clicked \/ update_button
  PROVE  ModalInv' /\ modal.kind = "expose" /\ modal'.id = modal.id /\ modal'.kind = "expose"
<1> USE DEF DesktopInv
<1>1. stage' = stage /\ modal.kind = "expose"
  BY DEF DialogStep, session, on_btn_read_clicked, on_btn_copy_clicked, update_button
<1>2. modal \in ExposeDialogs /\ ExposeSeconds \in Nat \ {0} /\ stage = "workbench"
  BY <1>1, ModalKinds, AccountFormsAssumption DEF ModalInv, NoModal
<1>3. \A text \in Plaintexts : text \in Pwds \cup {Blank, Gone}
  BY PlaintextsTyped
<1>4. ASSUME NEW d \in Pwds \cup {Blank, Gone}, NEW k \in 0 .. ExposeSeconds, d # Blank => k > 0,
             modal' = [modal EXCEPT !.display = d, !.countdown = k]
      PROVE  /\ modal' \in ExposeDialogs /\ modal'.kind = "expose" /\ modal'.id = modal.id
             /\ modal'.display # Blank => modal'.countdown > 0
  BY <1>1, <1>2, <1>4 DEF ExposeDialogs
<1>5. modal.display \in Pwds \cup {Blank, Gone} /\ modal.countdown \in 0 .. ExposeSeconds
  BY <1>2 DEF ExposeDialogs
<1>6. /\ modal' \in ExposeDialogs /\ modal'.kind = "expose" /\ modal'.id = modal.id
      /\ modal'.display # Blank => modal'.countdown > 0
  <2>1. CASE on_btn_read_clicked
    <3>1. PICK text \in Plaintexts :
            modal' = [modal EXCEPT !.display = text, !.countdown = IF text = Blank THEN 0 ELSE ExposeSeconds]
      BY <2>1 DEF on_btn_read_clicked
    <3> DEFINE k == IF text = Blank THEN 0 ELSE ExposeSeconds
    <3>2. k \in 0 .. ExposeSeconds /\ (text # Blank => k > 0)
      BY <1>2
    <3>3. modal' = [modal EXCEPT !.display = text, !.countdown = k]
      BY <3>1
    <3> HIDE DEF k
    <3> QED
      BY <1>3, <1>4, <3>2, <3>3
  <2>2. CASE on_btn_copy_clicked
    <3>1. modal' = [modal EXCEPT !.display = Blank]
      BY <2>2 DEF on_btn_copy_clicked
    <3> QED
      BY <1>1, <1>2, <3>1 DEF ExposeDialogs
  <2>3. CASE update_button
    <3> DEFINE k == modal.countdown - 1
               d == IF modal.countdown = 1 THEN Blank ELSE modal.display
    <3>1. modal' = [modal EXCEPT !.display = d, !.countdown = k] /\ modal.countdown > 0
      BY <2>3 DEF update_button
    <3>2. k \in 0 .. ExposeSeconds /\ d \in Pwds \cup {Blank, Gone} /\ (d # Blank => k > 0)
      BY <1>2, <1>5, <3>1
    <3> HIDE DEF k, d
    <3> QED
      BY <1>4, <3>1, <3>2
  <2> QED
    BY <2>1, <2>2, <2>3
<1> QED
  BY <1>1, <1>2, <1>6 DEF ModalInv, ShownOnlyWhileCounting

LEMMA ModalStays ==
  ASSUME DesktopInv, [NextDesktop]_vars
  PROVE  ModalInv'
<1> USE DEF DesktopInv
<1>1. CASE modal' = NoModal
  BY <1>1 DEF ModalInv, NoModal, ShownOnlyWhileCounting
<1>2. CASE UNCHANGED <<modal, acc_mgr, detail, stage>>
  BY <1>2 DEF ModalInv, Chosen, ShownOnlyWhileCounting
<1>3. CASE modal' = modal /\ (Idle \/ stage # "workbench")
  BY <1>1, <1>3 DEF ModalInv, Idle
<1>4. CASE TableStep \/ PhonePageStep
  <2>1. modal' = modal
    BY <1>4 DEF TableStep, PhonePageStep, clientVars
  <2>2. Idle
    BY <1>4 DEF TableStep, PhonePageStep, refresh_filter, sort_table, list_accounts, on_table_view_item_clicked,
                refresh_phone_filter, submit_phone_filter, refresh_detail, edit_phone, on_phone_clicked, type_number
  <2> QED
    BY <1>3, <2>1, <2>2
<1>5. CASE LoginStep \/ SignupStep \/ LeaveStep
  <2>1. modal' = modal
    BY <1>5 DEF LoginStep, SignupStep, LeaveStep
  <2>2. Idle \/ stage # "workbench"
    BY <1>5 DEF LoginStep, SignupStep, LeaveStep, on_btn_login_clicked, on_btn_signup_clicked, leave_signup,
                relogin, quit
  <2> QED
    BY <1>3, <2>1, <2>2
<1>6. CASE RemoveStep
  BY <1>1, <1>6 DEF RemoveStep, remove_phone, on_btn_ok_clicked
<1>7. CASE ConfirmStep
  <2>1. modal' = NoModal \/ UNCHANGED <<modal, acc_mgr>>
    BY <1>7, Confirm DEF ConfirmStep
  <2> QED
    BY <1>1, <1>2, <1>7, <2>1 DEF ConfirmStep, session, phoneVars
<1>8. CASE DialogStep
  <2>1. CASE cancel_modal
    BY <1>1, <2>1 DEF cancel_modal
  <2> QED
    BY <1>8, <2>1, DialogOpened, Exposed DEF DialogStep
<1>9. CASE EditStep \/ AddStep \/ SaveStep \/ NameStep \/ ToolStep \/ OtherStep \/ ExpiryStep \/ UNCHANGED vars
  BY <1>2, <1>9 DEF EditStep, AddStep, SaveStep, NameStep, ToolStep, OtherStep, ExpiryStep, vars, clientVars,
                    session, accountVars, phoneVars
<1> QED
  BY <1>4, <1>5, <1>6, <1>7, <1>8, <1>9, Steps

\* The forms of no one do not depend on the rows.
NoWorkbench ==
  /\ acc_mgr = [table |-> <<>>, row |-> 0, viewer |-> None, options |-> NoOptions, resorted |-> FALSE]
  /\ dlg_add = NoOptions /\ dlg_edit = NewDialogEdit
  /\ phone_mgr = [table |-> {}, options |-> NoOptions.phone] /\ detail = NewPhoneDetail
  /\ personal = NewPersonal /\ pwd_gen = NewPwdGen

LEMMA NoFormsMeans ==
  RowsTypeOK => (NoForms <=> NoWorkbench)
<1>1. ASSUME RowsTypeOK PROVE Options(None, {}) = NoOptions
  BY <1>1, OptionsTyped
<1> QED
  BY <1>1 DEF NoForms, NoWorkbench, NewAccountMgrForm, NewDialogAdd, NewPhoneMgrForm

LEMMA FormsStay ==
  ASSUME DesktopInv, [NextDesktop]_vars
  PROVE  FormsGone'
<1> USE DEF DesktopInv
<1>0. NoForms => NoWorkbench
  BY NoFormsMeans
<1>8. NoWorkbench' => NoForms'
  <2>1. (RowsTypeOK => (NoForms <=> NoWorkbench))'
    BY NoFormsMeans, PTL
  <2> QED
    BY <2>1, RowsStay
<1>1. CASE UNCHANGED <<accountVars, phoneVars, toolVars>> /\ (stage' = stage \/ stage # "workbench")
  <2>1. NoWorkbench => NoWorkbench'
    BY <1>1 DEF NoWorkbench, accountVars, phoneVars, toolVars
  <2> QED
    BY <1>0, <1>8, <1>1, <2>1 DEF FormsGone
<1>2. CASE stage' = "workbench"
  BY <1>2 DEF FormsGone
<1>3. CASE TableStep \/ EditStep \/ AddStep \/ PhonePageStep \/ ToolStep
  <2>1. stage' = stage
    BY <1>3 DEF TableStep, EditStep, AddStep, PhonePageStep, ToolStep, clientVars, session
  <2>2. Idle
    BY <1>3 DEF TableStep, PhonePageStep, refresh_filter, sort_table, list_accounts, on_table_view_item_clicked,
                refresh_phone_filter, submit_phone_filter, refresh_detail, edit_phone, on_phone_clicked, type_number,
                EditStep, on_btn_detail_and_edit_clicked, refresh_edit, read_only, type_field, type_password,
                AddStep, refresh_add, ToolStep, refresh_personal, on_btn_begin_clicked, on_btn_copy_pwds_clicked,
                on_btn_clear_clicked, onTmpNotepad, type_username
  <2> QED
    BY <1>2, <2>1, <2>2 DEF Idle
<1>4. CASE ConfirmStep \/ RemoveStep
  <2>1. stage' = stage
    BY <1>4 DEF ConfirmStep, RemoveStep, session
  <2>2. modal.kind \in {"delete", "remove", "guide"}
    BY <1>4 DEF ConfirmStep, RemoveStep, on_btn_confirm_clicked, remove_phone, on_btn_ok_clicked
  <2> QED
    BY <1>2, <2>1, <2>2 DEF ModalInv, NoModal
<1>5. CASE LoginStep \/ LeaveStep
  <2>1. CASE UNCHANGED <<accountVars, phoneVars, toolVars, stage>>
    BY <1>1, <2>1
  <2>2. ASSUME NEW u \in Users \cup {None}, NEW failed, Workbench(u, failed),
               stage' # "workbench" => u = None /\ failed = {}
        PROVE  FormsGone'
    <3>1. Workbench(None, {}) => NoWorkbench'
      <4>1. Options(None, {}) = NoOptions
        BY OptionsTyped
      <4> QED
        BY <4>1 DEF Workbench, NoWorkbench, NewAccountMgrForm, NewDialogAdd, NewPhoneMgrForm
    <3> QED
      BY <1>8, <2>2, <3>1 DEF FormsGone
  <2> QED
    BY <1>5, <2>1, <2>2, Rebuilt
<1>6. CASE SignupStep
  <2>1. UNCHANGED <<accountVars, phoneVars, toolVars>> /\ stage # "workbench"
    BY <1>6 DEF SignupStep, on_btn_signup_clicked, leave_signup
  <2> QED
    BY <1>1, <2>1
<1>7. CASE SaveStep \/ DialogStep \/ NameStep \/ OtherStep \/ ExpiryStep \/ UNCHANGED vars
  BY <1>1, <1>7 DEF SaveStep, DialogStep, NameStep, OtherStep, ExpiryStep, vars, clientVars, session, ownVars
<1> QED
  BY <1>3, <1>4, <1>5, <1>6, <1>7, Steps

\* A row that has been the user's stays so, dead or alive.
LEMMA HersPersist ==
  ASSUME DesktopInv, [NextDesktop]_vars, user_state' = user_state, NEW i \in AccountIds, Hers(i)
  PROVE  account'[i] # None /\ account'[i].owner = user_state'
  BY RowsFollow DEF Follows, OwnersKept, Hers

LEMMA AccountsShownStay ==
  ASSUME DesktopInv, [NextDesktop]_vars
  PROVE  TableHers' /\ EditHers'
<1> USE DEF DesktopInv
<1> DEFINE HersNow(i) == account'[i] # None /\ account'[i].owner = user_state'
<1>1. (\A n \in DOMAIN acc_mgr'.table : HersNow(acc_mgr'.table[n])) => TableHers'
  BY DEF TableHers, AllHers, Hers
<1>2. (dlg_edit'.id # None => HersNow(dlg_edit'.id)) => EditHers'
  BY DEF EditHers, Hers
<1>3. user_state' = user_state => \A i \in AccountIds : Hers(i) => HersNow(i)
  BY HersPersist
<1> HIDE DEF HersNow
<1>4. /\ \A n \in DOMAIN acc_mgr.table : acc_mgr.table[n] \in AccountIds
      /\ dlg_edit.id # None => dlg_edit.id \in AccountIds
  BY LenProperties, ElementOfSeq DEF TableInv, TableOK, EditInv, EditOK
<1>5. ASSUME user_state' = user_state, acc_mgr' = acc_mgr PROVE TableHers'
  BY <1>1, <1>3, <1>4, <1>5 DEF TableHers, AllHers
<1>6. ASSUME user_state' = user_state, dlg_edit' = dlg_edit PROVE EditHers'
  BY <1>2, <1>3, <1>4, <1>6 DEF EditHers
<1>7. CASE TableStep \/ ConfirmStep
  <2>1. user_state' = user_state /\ dlg_edit' = dlg_edit
    BY <1>7 DEF TableStep, ConfirmStep, clientVars, session
  <2>2. TableOK(acc_mgr') /\ AllHers(acc_mgr'.table)
    BY <1>7, TableMoves
  <2>3. \A n \in DOMAIN acc_mgr'.table : acc_mgr'.table[n] \in AccountIds
    BY <2>2, LenProperties, ElementOfSeq DEF TableOK
  <2> QED
    BY <1>1, <1>3, <1>6, <2>1, <2>2, <2>3 DEF AllHers
<1>8. CASE EditStep
  <2>1. user_state' = user_state /\ acc_mgr' = acc_mgr
    BY <1>8 DEF EditStep, clientVars
  <2>2. dlg_edit'.id = dlg_edit.id \/ dlg_edit'.id = Chosen
    BY <1>8, EditMoves
  <2>3. Chosen # None => Chosen \in AccountIds /\ Hers(Chosen)
    BY ChosenTyped DEF TableHers, AllHers
  <2> QED
    BY <1>2, <1>3, <1>4, <1>5, <2>1, <2>2, <2>3 DEF EditHers
<1>9. CASE LoginStep \/ LeaveStep
  <2>1. ASSUME acc_mgr'.table = <<>>, dlg_edit'.id = None
        PROVE  TableHers' /\ EditHers'
    <3>1. DOMAIN acc_mgr'.table = {}
      BY <2>1, EmptySeq
    <3> QED
      BY <1>1, <1>2, <2>1, <3>1
  <2>2. CASE UNCHANGED <<accountVars, phoneVars, toolVars, stage>> /\ stage = "login"
    BY <2>1, <2>2 DEF FormsGone, NoForms, NewAccountMgrForm, NewDialogEdit, accountVars
  <2>3. ASSUME NEW u \in Users \cup {None}, NEW failed, Workbench(u, failed)
        PROVE  TableHers' /\ EditHers'
    BY <2>1, <2>3 DEF Workbench, NewAccountMgrForm, NewDialogEdit
  <2> QED
    BY <1>9, <2>2, <2>3, Rebuilt
<1>10. CASE \/ AddStep \/ SaveStep \/ DialogStep \/ PhonePageStep \/ RemoveStep \/ SignupStep \/ NameStep
            \/ ToolStep \/ OtherStep \/ ExpiryStep \/ UNCHANGED vars
  <2>1. user_state' = user_state /\ acc_mgr' = acc_mgr /\ dlg_edit' = dlg_edit
    BY <1>10 DEF AddStep, SaveStep, DialogStep, PhonePageStep, RemoveStep, SignupStep, NameStep, ToolStep,
                 OtherStep, ExpiryStep, vars, clientVars, session, accountVars
  <2> QED
    BY <1>5, <1>6, <2>1
<1> QED
  BY <1>7, <1>8, <1>9, <1>10, Steps

LEMMA ModalHersStays ==
  ASSUME DesktopInv, [NextDesktop]_vars
  PROVE  ModalHers'
<1> USE DEF DesktopInv
<1>1. CASE modal' = NoModal
  BY <1>1 DEF ModalHers, NoModal
<1>2. ASSUME user_state' = user_state, modal'.kind \in {"delete", "expose"} => modal'.id \in AccountIds /\ Hers(modal'.id)
      PROVE  ModalHers'
  <2>1. modal'.kind \in {"delete", "expose"} => account'[modal'.id] # None /\ account'[modal'.id].owner = user_state'
    BY <1>2, HersPersist
  <2> QED
    BY <2>1 DEF ModalHers, Hers
<1>3. modal.kind \in {"delete", "expose"} => modal.id \in AccountIds /\ Hers(modal.id)
  BY ModalKinds DEF ModalHers, DeleteDialogs, ExposeDialogs
<1>4. CASE user_state' = user_state /\ modal' = modal
  BY <1>2, <1>3, <1>4
<1>5. CASE LoginStep \/ LeaveStep
  <2>1. modal' = modal /\ (Idle \/ stage # "workbench")
    BY <1>5 DEF LoginStep, LeaveStep, on_btn_login_clicked, relogin, quit
  <2> QED
    BY <1>1, <2>1 DEF ModalInv, Idle
<1>6. CASE RemoveStep
  BY <1>1, <1>6 DEF RemoveStep, remove_phone, on_btn_ok_clicked
<1>7. CASE ConfirmStep
  <2>1. modal' = NoModal \/ UNCHANGED <<modal, acc_mgr>>
    BY <1>7, Confirm DEF ConfirmStep
  <2> QED
    BY <1>1, <1>4, <1>7, <2>1 DEF ConfirmStep, session
<1>8. CASE DialogStep
  <2>0. user_state' = user_state
    BY <1>8 DEF DialogStep, session
  <2>1. CASE cancel_modal
    BY <1>1, <2>1 DEF cancel_modal
  <2>2. CASE on_btn_read_clicked \/ on_btn_copy_clicked \/ update_button
    <3>1. modal.kind = "expose" /\ modal'.id = modal.id
      BY <1>8, <2>2, Exposed
    <3> QED
      BY <1>2, <1>3, <2>0, <3>1
  <2>3. CASE open_delete \/ on_btn_read_passwd_clicked
    <3>1. \/ Chosen # None /\ modal'.id = Chosen
          \/ dlg_edit.id # None /\ modal'.id = dlg_edit.id
      BY <2>3 DEF open_delete, on_btn_read_passwd_clicked, NewDialogDelete, NewDialogExposed
    <3>2. Chosen # None => Chosen \in AccountIds /\ Hers(Chosen)
      BY ChosenTyped DEF TableHers, AllHers
    <3>3. dlg_edit.id # None => dlg_edit.id \in AccountIds /\ Hers(dlg_edit.id)
      BY DEF EditHers, EditInv, EditOK
    <3> QED
      BY <1>2, <2>0, <3>1, <3>2, <3>3
  <2>4. CASE on_btn_delete_phone_clicked
    <3>1. modal'.kind \in {"remove", "guide"}
      BY <2>4 DEF on_btn_delete_phone_clicked, NewDeletionGuide
    <3> QED
      BY <1>2, <2>0, <3>1
  <2> QED
    BY <1>8, <2>1, <2>2, <2>3, <2>4 DEF DialogStep
<1>9. CASE \/ TableStep \/ EditStep \/ AddStep \/ SaveStep \/ PhonePageStep \/ SignupStep \/ NameStep
           \/ ToolStep \/ OtherStep \/ ExpiryStep \/ UNCHANGED vars
  BY <1>4, <1>9 DEF TableStep, EditStep, AddStep, SaveStep, PhonePageStep, SignupStep, NameStep, ToolStep,
                    OtherStep, ExpiryStep, vars, clientVars, session
<1> QED
  BY <1>5, <1>6, <1>7, <1>8, <1>9, Steps

LEMMA InitInv ==
  InitDesktop => DesktopInv
<1> SUFFICES ASSUME InitDesktop PROVE DesktopInv
  OBVIOUS
<1>0. /\ RowsTypeOK /\ InitClient /\ NoForms /\ usernames \in rpc_list_usernames /\ notepads = {} /\ others = 0
      /\ username \in [Users -> LoginNames \cup {Blank, None}]
  BY DEF InitDesktop, InitClient
<1>1. SessionInv
  <2>1. user_state = None /\ expired = FALSE /\ stage = "login" /\ habit \in Habits
        /\ notice = [form |-> "none", told |-> FALSE, sent |-> None, nr |-> 0]
    BY <1>0 DEF InitClient
  <2>2. habit.calls \in Nat
    BY <2>1, ClientAssumption
  <2>3. usernames \subseteq LoginNames \cup {Blank}
    BY <1>0 DEF rpc_list_usernames, Answered, TakenNames
  <2>4. None \notin Users
    BY RowsAssumption
  <2>5. notice.told \in BOOLEAN
    BY <2>1
  <2>6. notice.nr \in 0 .. habit.calls
    BY <2>1, <2>2
  <2> QED
    BY <1>0, <2>1, <2>3, <2>4, <2>5, <2>6 DEF SessionInv
<1>2. ToolsInv
  BY <1>0 DEF ToolsInv, InitClient, NoForms, NewPersonal, NewPwdGen
<1>3. NoWorkbench
  BY <1>0, NoFormsMeans
<1>4. TableInv /\ TableHers
  <2>1. TableOK(NewAccountMgrForm(None, {})) /\ NewAccountMgrForm(None, {}).table = <<>>
        /\ NewDialogAdd(None, {}) \in OptionSets
    BY <1>0, NewFormsOK
  <2>2. DOMAIN <<>> = {}
    BY EmptySeq
  <2> QED
    BY <1>0, <2>1, <2>2 DEF NoForms, TableInv, TableHers, AllHers
<1>5. EditInv /\ EditHers
  <2>1. EditOK(NewDialogEdit) /\ NewDialogEdit.id = None
    BY <1>0, NewFormsOK DEF NewDialogEdit
  <2> QED
    BY <1>0, <2>1 DEF NoForms, EditInv, EditHers
<1>6. PhonePageInv /\ PhonesHers
  <2>1. detail = [id |-> None, number |-> Blank, birth |-> 0, fetched |-> FALSE, editing |-> FALSE]
        /\ phone_mgr = [table |-> {}, options |-> {Blank}]
    BY <1>3 DEF NoWorkbench, NoOptions, NewPhoneDetail
  <2>2. births \in Nat /\ MaxBirths \in Nat /\ None \notin PhoneIds
    BY <1>0, RowsAssumption DEF RowsTypeOK, PhoneIds
  <2> QED
    BY <2>1, <2>2 DEF PhonePageInv, PhonesHers, PhoneHers
<1>7. ModalInv /\ ModalHers
  BY <1>0 DEF InitClient, ModalInv, ModalHers, NoModal, ShownOnlyWhileCounting
<1> QED
  BY <1>0, <1>1, <1>2, <1>4, <1>5, <1>6, <1>7 DEF DesktopInv, FormsGone

LEMMA DesktopInvariant ==
  DesktopSpec => []DesktopInv
<1>1. InitDesktop => DesktopInv
  BY InitInv
<1>2. DesktopInv /\ [NextDesktop]_vars => DesktopInv'
  <2> SUFFICES ASSUME DesktopInv, [NextDesktop]_vars
               PROVE  DesktopInv'
    OBVIOUS
  <2>1. RowsTypeOK' /\ SessionInv' /\ ToolsInv' /\ TableInv' /\ EditInv'
    BY RowsStay, SessionStays, ToolsStay, TableStays, EditStays
  <2>2. PhonePageInv' /\ ModalInv' /\ FormsGone' /\ TableHers' /\ EditHers' /\ ModalHers' /\ PhonesHers'
    BY PhonePageStays, ModalStays, FormsStay, AccountsShownStay, ModalHersStays
  <2>3. others' \in Nat
    <3>1. others' = others \/ others' = others + 1
      BY Steps DEF TableStep, EditStep, AddStep, SaveStep, DialogStep, ConfirmStep, PhonePageStep, RemoveStep,
                   LoginStep, SignupStep, NameStep, LeaveStep, ToolStep, OtherStep, ExpiryStep, OtherClient,
                   vars, ownVars
    <3> QED
      BY <3>1 DEF DesktopInv
  <2> QED
    BY <2>1, <2>2, <2>3 DEF DesktopInv
<1> QED
  BY <1>1, <1>2, PTL DEF DesktopSpec
-------------------------------------------------------------------------------
(***************************************************************************)
(* The properties.                                                          *)
(***************************************************************************)
\* The rows, the forms and the session have their types, and the foreign keys
\* hold, whatever the user, other clients and the network do.
THEOREM DesktopTypeCorrect ==
  DesktopSpec => []DesktopTypeOK
<1>1. DesktopInv => DesktopTypeOK
  <2> SUFFICES ASSUME DesktopInv PROVE DesktopTypeOK
    OBVIOUS
  <2> USE DEF DesktopInv
  <2>1. ClientTypeOK
    <3>1. modal.kind \in {"none", "delete", "expose", "remove", "guide"}
      BY DEF ModalInv, NoModal, DeleteDialogs, ExposeDialogs, PhoneDialogs
    <3> QED
      BY <3>1 DEF ClientTypeOK, SessionInv
  <2>2. AccountFormsTypeOK
    BY DEF AccountFormsTypeOK, TableInv, TableOK, EditInv, EditOK, Views, Fields
  <2>3. PhoneFormsTypeOK
    BY DEF PhoneFormsTypeOK, PhonePageInv
  <2>4. modal.kind \in {"delete", "expose"} => modal.id \in AccountIds
    BY ModalKinds DEF DeleteDialogs, ExposeDialogs
  <2> QED
    BY <2>1, <2>2, <2>3, <2>4 DEF DesktopTypeOK, SessionInv, ToolsInv
<1> QED
  BY <1>1, DesktopInvariant, PTL

\* No form shows a row of anyone but the user logged in, and a login finds no
\* form of the last one: also when rows are deleted and their ids used again by
\* other clients, when answers are lost and when the session has expired.
THEOREM OnlyOwnDataHolds ==
  DesktopSpec => []OnlyOwnData
<1>1. DesktopInv => OnlyOwnData
  <2> SUFFICES ASSUME DesktopInv PROVE OnlyOwnData
    OBVIOUS
  <2> USE DEF DesktopInv
  <2>1. stage # "workbench" => NoForms /\ modal = NoModal
    BY DEF FormsGone, ModalInv
  <2>2. ASSUME NEW i \in {acc_mgr.table[n] : n \in DOMAIN acc_mgr.table} \cup {dlg_edit.id} \cup
                         (IF modal.kind \in {"delete", "expose"} THEN {modal.id} ELSE {}), i # None
        PROVE  account[i] # None /\ account[i].owner = user_state
    BY <2>2 DEF TableHers, AllHers, EditHers, ModalHers, Hers
  <2>3. \A row \in phone_mgr.table \cup {detail} : PhoneHers(row)
    BY DEF PhonesHers
  <2> QED
    BY <2>1, <2>2, <2>3 DEF OnlyOwnData, PhoneHers
<1> QED
  BY <1>1, DesktopInvariant, PTL

\* The exposed password is cleared with the countdown, however the buttons that
\* show and the one that copies are mixed with its ticks.
THEOREM ShownOnlyWhileCountingHolds ==
  DesktopSpec => []ShownOnlyWhileCounting
<1>1. DesktopInv => ShownOnlyWhileCounting
  BY DEF DesktopInv, ModalInv
<1> QED
  BY <1>1, DesktopInvariant, PTL

\* What dies in a step of the client, by the dialog that is up.
LEMMA Deaths ==
  ASSUME DesktopInv, [NextDesktop]_vars, others' = others
  PROVE  /\ \A i \in AccountIds : Exists(i) /\ ~Alive(account', i) =>
              \/ modal.kind = "delete" /\ modal.id = i /\ (acc_mgr.resorted \/ acc_mgr.viewer = i)
              \/ modal.kind = "guide" /\ modal.id = detail.id
                 /\ account[i].phone = detail.id /\ account[i].owner = user_state
         /\ \A p \in PhoneIds : phone[p] # None /\ phone'[p] = None =>
              modal.kind \in {"remove", "guide"} /\ p = detail.id /\ phone[p].owner = user_state
<1> USE DEF DesktopInv
<1>1. CASE UNCHANGED rowVars
  BY <1>1 DEF rowVars, Exists, Alive
<1>2. CASE SaveStep
  <2>1. NoneDies /\ NoPhoneGone
    BY <1>2, SubmitAdd, SubmitEdit, SubmitAddPhone, SubmitPhone
    DEF SaveStep, NoneDies, NoPhoneGone, Exists, Alive
  <2> QED
    BY <2>1 DEF NoneDies, NoPhoneGone
<1>3. CASE ConfirmStep
  <2>1. /\ modal.kind = "delete" /\ phone' = phone
        /\ \A j \in AccountIds : Exists(j) /\ ~Alive(account', j) => j = modal.id
    BY <1>3, Confirm DEF ConfirmStep
  <2>2. modal.id = Chosen /\ modal.id \in AccountIds
    BY <2>1, ModalKinds DEF ModalInv, DeleteDialogs
  <2>3. acc_mgr.resorted \/ acc_mgr.viewer = modal.id
    BY <2>2, ChosenTyped, IdsTyped DEF TableInv, TableOK
  <2> QED
    BY <2>1, <2>3
<1>4. CASE RemoveStep
  <2>1. PICK mode : /\ MayCall /\ delete_phone_by_id(mode)
                    /\ modal.kind = "guide" \/ (modal.kind = "remove" /\ mode = 0)
    BY <1>4 DEF RemoveStep, remove_phone, on_btn_ok_clicked
  <2>2. /\ \A j \in AccountIds : Exists(j) /\ ~Alive(account', j) =>
             mode = 3 /\ account[j].phone = modal.id /\ account[j].owner = Caller /\ Caller # None
        /\ \A q \in PhoneIds : phone[q] # None /\ phone'[q] = None =>
             q = modal.id /\ phone[q].owner = Caller /\ Caller # None
    BY <2>1, RemovePhone
  <2>3. modal.id = detail.id
    BY <2>1 DEF ModalInv
  <2> QED
    BY <2>1, <2>2, <2>3, CallerTyped
<1>5. ~OtherStep
  <2>1. OtherStep => others' = others + 1
    BY DEF OtherStep, OtherClient
  <2> QED
    BY <2>1
<1> QED
  BY <1>1, <1>2, <1>3, <1>4, <1>5, Steps
  DEF TableStep, EditStep, AddStep, DialogStep, PhonePageStep, LoginStep, SignupStep, NameStep, LeaveStep,
      ToolStep, ExpiryStep, vars

\* The client destroys nothing but what its dialogs are about: the deletion
\* dialog is modal, so the row chosen and the viewer cannot move while it is up,
\* and a phone is deleted with accounts that refer to it only from the guide.
THEOREM ActsOnWhatItNamesHolds ==
  DesktopSpec => ActsOnWhatItNames
<1>1. DesktopInv /\ [NextDesktop]_vars =>
        [others' = others =>
           /\ \A i \in {j \in AccountIds : Exists(j) /\ ~Exists(j)'} :
                \/ modal.kind = "delete" /\ modal.id = i /\ (acc_mgr.resorted \/ acc_mgr.viewer = i)
                \/ modal.kind = "guide" /\ modal.id = detail.id
                   /\ account[i].phone = detail.id /\ account[i].owner = user_state
           /\ \A p \in PhoneIds : phone[p] # None /\ phone'[p] = None =>
                modal.kind \in {"remove", "guide"} /\ p = detail.id /\ phone[p].owner = user_state]_vars
  <2> SUFFICES ASSUME DesktopInv, [NextDesktop]_vars, others' = others
               PROVE  /\ \A i \in {j \in AccountIds : Exists(j) /\ ~Exists(j)'} :
                           \/ modal.kind = "delete" /\ modal.id = i /\ (acc_mgr.resorted \/ acc_mgr.viewer = i)
                           \/ modal.kind = "guide" /\ modal.id = detail.id
                              /\ account[i].phone = detail.id /\ account[i].owner = user_state
                      /\ \A p \in PhoneIds : phone[p] # None /\ phone'[p] = None =>
                           modal.kind \in {"remove", "guide"} /\ p = detail.id /\ phone[p].owner = user_state
    OBVIOUS
  <2>1. \A i \in AccountIds : Exists(i)' <=> Alive(account', i)
    BY DEF Exists, Alive
  <2> QED
    BY <2>1, Deaths
<1> QED
  BY <1>1, DesktopInvariant, PTL DEF DesktopSpec, ActsOnWhatItNames

\* The row i as it is stored, when the edit dialog has written its values v
\* with the phone p and the account e that match their texts.
LEMMA StoredBound ==
  ASSUME RowsTypeOK, NEW i, Exists(i), NEW pwd \in Pwds \cup {Blank}, NEW v \in Views,
         NEW p \in PhoneByNumber(v.phone), NEW e \in EmailByAddress(v.email), phone' = phone,
         account' = With(i, Bound(WithPwd(i, pwd), v, p, e))
  PROVE  /\ Stored(i)["username"] = v.username /\ Stored(i)["category"] = v.category
         /\ Stored(i)["phone"] = v.phone \/ (PhoneByNumber(v.phone) = {None} /\ Stored(i)["phone"] = Blank)
         /\ Stored(i)["email"] = v.email \/ EmailByAddress(v.email) = {None}
         /\ account'[i].pwd = IF pwd = Blank THEN account[i].pwd ELSE pwd
<1>1. i \in AccountIds /\ account[i] \in AccountRow
  BY DEF Exists, RowsTypeOK
<1>2. WithPwd(i, pwd) \in AccountRow /\ WithPwd(i, pwd).pwd = IF pwd = Blank THEN account[i].pwd ELSE pwd
  BY <1>1 DEF WithPwd, AccountRow
<1>3. account'[i] = Bound(WithPwd(i, pwd), v, p, e)
  BY <1>1 DEF With, RowsTypeOK
<1>4. /\ account'[i].username = v.username /\ account'[i].category = v.category
      /\ account'[i].phone = p /\ account'[i].email = e /\ account'[i].pwd = WithPwd(i, pwd).pwd
  BY <1>2, <1>3 DEF Bound, AccountRow
<1>5. /\ Stored(i)["username"] = v.username /\ Stored(i)["category"] = v.category
      /\ Stored(i)["phone"] = IF p = None THEN Blank ELSE phone[p].number
      /\ Stored(i)["email"] = IF e = None THEN Blank ELSE account[e].username
  BY <1>4 DEF Stored, View
<1>6. (p = None => PhoneByNumber(v.phone) = {None}) /\ (p # None => phone[p].number = v.phone)
  <2>1. None \notin PhoneIds
    BY RowsAssumption DEF PhoneIds
  <2> QED
    BY <2>1 DEF PhoneByNumber
<1>7. (e = None => EmailByAddress(v.email) = {None}) /\ (e # None => account[e].username = v.email)
  <2>1. None \notin AccountIds
    BY RowsAssumption DEF AccountIds
  <2> QED
    BY <2>1 DEF EmailByAddress
<1> QED
  BY <1>2, <1>4, <1>5, <1>6, <1>7

\* The same when only the password has been written, or nothing.
LEMMA StoredSame ==
  ASSUME RowsTypeOK, NEW i, Exists(i), NEW pwd \in Pwds \cup {Blank}, phone' = phone,
         account' = account \/ account' = With(i, WithPwd(i, pwd))
  PROVE  /\ \A f \in Fields : Stored(i)[f] = View(i)[f]
         /\ pwd = Blank => account'[i].pwd = account[i].pwd
<1>1. i \in AccountIds /\ account[i] \in AccountRow
  BY DEF Exists, RowsTypeOK
<1>2. account'[i] = account[i] \/ account'[i] = WithPwd(i, pwd)
  BY <1>1 DEF With, RowsTypeOK
<1>3. /\ account'[i].username = account[i].username /\ account'[i].category = account[i].category
      /\ account'[i].phone = account[i].phone /\ account'[i].email = account[i].email
      /\ pwd = Blank => account'[i].pwd = account[i].pwd
  BY <1>1, <1>2 DEF WithPwd, AccountRow
<1>4. /\ Stored(i)["username"] = View(i)["username"] /\ Stored(i)["category"] = View(i)["category"]
      /\ Stored(i)["phone"] = View(i)["phone"] /\ Stored(i)["email"] = View(i)["email"]
  BY <1>3 DEF Stored, View
<1> QED
  BY <1>3, <1>4 DEF Fields

\* The number and the address that a view shows are those of rows there are.
LEMMA ViewMatches ==
  ASSUME RowsTypeOK, NEW i, Exists(i)
  PROVE  PhoneByNumber(View(i).phone) = {None} => View(i).phone = Blank
<1>1. i \in AccountIds /\ account[i] \in AccountRow /\ None \notin PhoneIds
  BY RowsAssumption DEF Exists, RowsTypeOK, PhoneIds
<1>2. CASE account[i].phone = None
  BY <1>2 DEF View
<1>3. CASE account[i].phone # None
  <2>1. account[i].phone \in PhoneIds /\ phone[account[i].phone] # None
    BY <1>1, <1>3 DEF RowsTypeOK, AccountRow
  <2>2. View(i).phone = phone[account[i].phone].number
    BY <1>3 DEF View
  <2>3. account[i].phone \in PhoneByNumber(View(i).phone)
    BY <2>1, <2>2 DEF PhoneByNumber
  <2> QED
    BY <1>1, <2>1, <2>3
<1> QED
  BY <1>2, <1>3

\* Which step has shown which message.
LEMMA Messages ==
  ASSUME DesktopInv, [NextDesktop]_vars, notice'.nr # notice.nr
  PROVE  \/ notice'.form = "edit" /\ submit_edit /\ SaveStep
         \/ notice'.form = "add" /\ submit_add /\ SaveStep
         \/ notice'.form = "phone" /\ submit_phone /\ SaveStep
         \/ notice'.form = "delete" /\ ConfirmStep
         \/ notice'.form = "delete phone" /\ RemoveStep
         \/ notice'.form = "personal" /\ on_btn_save_clicked /\ NameStep
         \/ notice'.form = "add phone" /\ submit_add_phone /\ SaveStep
         \/ notice'.form = "sign up" /\ \E u \in Users, name \in LoginNames : register(u, name)
<1> USE DEF DesktopInv
<1>1. CASE SaveStep
  BY <1>1, SubmitAdd, SubmitEdit, SubmitAddPhone, SubmitPhone DEF SaveStep, Noted
<1>2. CASE ConfirmStep
  BY <1>2, Confirm DEF ConfirmStep, Noted
<1>3. CASE RemoveStep
  <2>1. MayCall /\ \E mode : delete_phone_by_id(mode)
    BY <1>3 DEF RemoveStep, remove_phone, on_btn_ok_clicked
  <2> QED
    BY <1>3, <2>1, RemovePhone DEF Noted
<1>4. CASE NameStep
  BY <1>4, SaveName, Register DEF NameStep, Noted
<1>5. ~UNCHANGED notice
  OBVIOUS
<1> QED
  BY <1>1, <1>2, <1>3, <1>4, <1>5, Steps
  DEF TableStep, EditStep, AddStep, DialogStep, PhonePageStep, LoginStep, SignupStep, LeaveStep, ToolStep,
      OtherStep, ExpiryStep, vars, clientVars

\* What submit_edit keeps of a field that shows what the fill put there.
LEMMA FieldKept ==
  ASSUME DesktopInv, Exists(dlg_edit.id), submit_edit, dlg_edit.failed = {}, dlg_edit.base = View(dlg_edit.id),
         NEW f \in Fields \ dlg_edit.touched
  PROVE  \/ Stored(dlg_edit.id)[f] = View(dlg_edit.id)[f]
         \/ f \in {"phone", "email"} /\ dlg_edit.base[f] \notin dlg_edit.options[f]
         \/ f = "email" /\ EmailByAddress(dlg_edit.base.email) = {None}
<1> DEFINE i == dlg_edit.id
           v == dlg_edit.cur
           o == dlg_edit.options
           pwd == dlg_edit.password
<1>1. /\ RowsTypeOK /\ v \in Views /\ pwd \in Pwds \cup {Blank} /\ i # None /\ o.category = Categories
      /\ v[f] = InWidgets(View(i), o)[f] /\ View(i) \in Views /\ dlg_edit.base = View(i)
  BY IdsTyped, ViewsTyped DEF DesktopInv, EditInv, EditOK, Exists
<1>2. phone' = phone /\ Edited(i)
  BY SubmitEdit DEF DesktopInv
<1>3. \/ account' = account \/ account' = With(i, WithPwd(i, pwd))
      \/ \E p \in PhoneByNumber(v.phone), e \in EmailByAddress(v.email) :
           account' = With(i, Bound(WithPwd(i, pwd), v, p, e))
  BY <1>2 DEF Edited
<1>4. View(i).category \in Categories
  BY <1>1 DEF View, Exists, RowsTypeOK, AccountRow
<1>5. /\ f = "username" => v.username = View(i).username
      /\ f = "category" => v.category = View(i).category
      /\ f = "phone" /\ View(i).phone \in o.phone => v.phone = View(i).phone
      /\ f = "email" /\ View(i).email \in o.email => v.email = View(i).email
  BY <1>1, <1>4 DEF InWidgets
<1> HIDE DEF i, v, o, pwd
<1>6. Exists(i)
  BY DEF i
<1>7. CASE account' = account \/ account' = With(i, WithPwd(i, pwd))
  BY <1>1, <1>2, <1>6, <1>7, StoredSame DEF i
<1>8. ASSUME NEW p \in PhoneByNumber(v.phone), NEW e \in EmailByAddress(v.email),
             account' = With(i, Bound(WithPwd(i, pwd), v, p, e))
      PROVE  \/ Stored(i)[f] = View(i)[f]
             \/ f \in {"phone", "email"} /\ View(i)[f] \notin o[f]
             \/ f = "email" /\ EmailByAddress(View(i).email) = {None}
  <2>1. /\ Stored(i)["username"] = v.username /\ Stored(i)["category"] = v.category
        /\ Stored(i)["phone"] = v.phone \/ (PhoneByNumber(v.phone) = {None} /\ Stored(i)["phone"] = Blank)
        /\ Stored(i)["email"] = v.email \/ EmailByAddress(v.email) = {None}
    BY <1>1, <1>2, <1>6, <1>8, StoredBound DEF i
  <2>2. PhoneByNumber(View(i).phone) = {None} => View(i).phone = Blank
    BY <1>1, <1>6, ViewMatches
  <2>3. CASE f = "username"
    BY <1>5, <2>1, <2>3
  <2>4. CASE f = "category"
    BY <1>5, <2>1, <2>4
  <2>5. CASE f = "phone"
    BY <1>5, <2>1, <2>2, <2>5
  <2>6. CASE f = "email"
    BY <1>5, <2>1, <2>6
  <2> QED
    BY <2>3, <2>4, <2>5, <2>6 DEF Fields
<1> QED
  BY <1>1, <1>3, <1>7, <1>8 DEF i, o

\* The edit dialog changes nothing that its user has not touched, but for what
\* its boxes could not show; the personal form changes no name.
THEOREM UntouchedKeptHolds ==
  DesktopSpec => UntouchedKept
<1> DEFINE Kept ==
      /\ notice'.nr # notice.nr /\ notice'.form = "edit" /\ Exists(dlg_edit.id) =>
           LET i == dlg_edit.id
           IN  /\ dlg_edit.failed = {} /\ dlg_edit.base = View(i) =>
                    \A f \in Fields \ dlg_edit.touched :
                      \/ Stored(i)[f] = View(i)[f]
                      \/ f \in {"phone", "email"} /\ dlg_edit.base[f] \notin dlg_edit.options[f]
                      \/ f = "email" /\ EmailByAddress(dlg_edit.base.email) = {None}
               /\ dlg_edit.password = Blank => account'[i].pwd = account[i].pwd
      /\ notice'.nr # notice.nr /\ notice'.form = "personal" /\ Caller # None /\ personal.known /\ ~personal.touched =>
           username'[Caller] \in {username[Caller], personal.member}
<1>1. ASSUME DesktopInv, [NextDesktop]_vars PROVE Kept
  <2>1. ASSUME notice'.nr # notice.nr, notice'.form = "edit", Exists(dlg_edit.id)
        PROVE  /\ dlg_edit.failed = {} /\ dlg_edit.base = View(dlg_edit.id) =>
                    \A f \in Fields \ dlg_edit.touched :
                      \/ Stored(dlg_edit.id)[f] = View(dlg_edit.id)[f]
                      \/ f \in {"phone", "email"} /\ dlg_edit.base[f] \notin dlg_edit.options[f]
                      \/ f = "email" /\ EmailByAddress(dlg_edit.base.email) = {None}
               /\ dlg_edit.password = Blank => account'[dlg_edit.id].pwd = account[dlg_edit.id].pwd
    <3>1. submit_edit
      BY <1>1, <2>1, Messages
    <3>2. /\ RowsTypeOK /\ phone' = phone /\ Edited(dlg_edit.id)
          /\ dlg_edit.password \in Pwds \cup {Blank} /\ dlg_edit.cur \in Views
      BY <1>1, <3>1, SubmitEdit DEF DesktopInv, EditInv, EditOK
    <3>3. ASSUME dlg_edit.password = Blank
          PROVE  account'[dlg_edit.id].pwd = account[dlg_edit.id].pwd
      <4>1. CASE account' = account \/ account' = With(dlg_edit.id, WithPwd(dlg_edit.id, dlg_edit.password))
        BY <2>1, <3>2, <3>3, <4>1, StoredSame
      <4>2. ASSUME NEW p \in PhoneByNumber(dlg_edit.cur.phone), NEW e \in EmailByAddress(dlg_edit.cur.email),
                   account' = With(dlg_edit.id, Bound(WithPwd(dlg_edit.id, dlg_edit.password), dlg_edit.cur, p, e))
            PROVE  account'[dlg_edit.id].pwd = account[dlg_edit.id].pwd
        BY <2>1, <3>2, <3>3, <4>2, StoredBound
      <4> QED
        BY <3>2, <4>1, <4>2 DEF Edited
    <3> QED
      BY <1>1, <2>1, <3>1, <3>3, FieldKept
  <2>2. ASSUME notice'.nr # notice.nr, notice'.form = "personal", Caller # None, personal.known, ~personal.touched
        PROVE  username'[Caller] \in {username[Caller], personal.member}
    <3>1. on_btn_save_clicked
      BY <1>1, <2>2, Messages
    <3>2. username' = username \/ username' = [username EXCEPT ![Caller] = personal.text]
      BY <1>1, <3>1, SaveName DEF DesktopInv
    <3>3. personal.text = personal.member /\ Caller \in Users /\ username \in [Users -> LoginNames \cup {Blank, None}]
      BY <1>1, <2>2, CallerTyped DEF DesktopInv, ToolsInv, SessionInv
    <3> QED
      BY <3>2, <3>3
  <2> QED
    BY <2>1, <2>2
<1>2. DesktopInv /\ [NextDesktop]_vars => [Kept]_vars
  BY <1>1
<1> QED
  BY <1>2, DesktopInvariant, PTL DEF DesktopSpec, UntouchedKept

\* An account that is added is one more of the caller's, with what was sent.
LEMMA OneMore ==
  ASSUME RowsTypeOK, Caller' = Caller, NEW i \in Unused, NEW v \in Views, NEW pwd,
         phone' = phone, AddedTo(account', i, Caller, v, pwd)
  PROVE  /\ Owned(Caller)' = Owned(Caller) \cup {i}
         /\ SavedAs(i, v) /\ account'[i].pwd = pwd
<1>1. i \in AccountIds /\ i \notin Owned(Caller) /\ account' = With(i, account'[i])
  BY DEF Unused, Owned, Exists, AddedTo
<1>2. \A j \in AccountIds : j # i => account'[j] = account[j]
  BY <1>1 DEF With, RowsTypeOK
<1>3. Owned(Caller)' = Owned(Caller) \cup {i}
  BY <1>1, <1>2 DEF Owned, Exists, Alive, AddedTo
<1>4. None \notin PhoneIds /\ None \notin AccountIds
  BY RowsAssumption DEF PhoneIds, AccountIds
<1>5. /\ Stored(i)["username"] = v.username /\ Stored(i)["category"] = v.category
      /\ Stored(i)["phone"] = v.phone \/ PhoneByNumber(v.phone) = {None}
      /\ Stored(i)["email"] = v.email \/ EmailByAddress(v.email) = {None}
  <2>1. /\ account'[i].phone = None => PhoneByNumber(v.phone) = {None}
        /\ account'[i].phone # None => phone'[account'[i].phone].number = v.phone
    BY <1>4 DEF AddedTo, PhoneByNumber
  <2>2. /\ account'[i].email = None => EmailByAddress(v.email) = {None}
        /\ account'[i].email # None => account[account'[i].email].username = v.email
    BY <1>4 DEF AddedTo, EmailByAddress
  <2> QED
    BY <2>1, <2>2 DEF Stored, AddedTo
<1> QED
  BY <1>3, <1>5 DEF SavedAs, Fields, AddedTo

\* A phone that is added is one more of the caller's, with the number sent.
LEMMA OnePhoneMore ==
  ASSUME Caller' = Caller, NEW q \in FreePhones, NEW n, PhoneAddedTo(phone', q, Caller, n)
  PROVE  PhonesOf(Caller)' = PhonesOf(Caller) \cup {q} /\ phone'[q].number = n
  BY DEF PhonesOf, FreePhones, PhoneAddedTo

\* What submit_edit has made of the row when it reports success.
LEMMA FieldSaved ==
  ASSUME DesktopInv, submit_edit, notice'.told, dlg_edit.id \in Owned(Caller)
  PROVE  /\ SavedAs(dlg_edit.id, dlg_edit.cur)
         /\ dlg_edit.password # Blank => account'[dlg_edit.id].pwd = dlg_edit.password
<1>1. /\ RowsTypeOK /\ phone' = phone /\ Edited(dlg_edit.id) /\ Exists(dlg_edit.id)
      /\ dlg_edit.password \in Pwds \cup {Blank} /\ dlg_edit.cur \in Views
  BY SubmitEdit DEF DesktopInv, EditInv, EditOK, Owned
<1>2. PICK p \in PhoneByNumber(dlg_edit.cur.phone) : \E e \in EmailByAddress(dlg_edit.cur.email) :
        account' = With(dlg_edit.id, Bound(WithPwd(dlg_edit.id, dlg_edit.password), dlg_edit.cur, p, e))
  BY <1>1 DEF Edited
<1>3. PICK e \in EmailByAddress(dlg_edit.cur.email) :
        account' = With(dlg_edit.id, Bound(WithPwd(dlg_edit.id, dlg_edit.password), dlg_edit.cur, p, e))
  BY <1>2
<1>4. /\ Stored(dlg_edit.id)["username"] = dlg_edit.cur.username
      /\ Stored(dlg_edit.id)["category"] = dlg_edit.cur.category
      /\ \/ Stored(dlg_edit.id)["phone"] = dlg_edit.cur.phone
         \/ PhoneByNumber(dlg_edit.cur.phone) = {None}
      /\ \/ Stored(dlg_edit.id)["email"] = dlg_edit.cur.email
         \/ EmailByAddress(dlg_edit.cur.email) = {None}
      /\ dlg_edit.password # Blank => account'[dlg_edit.id].pwd = dlg_edit.password
  BY <1>1, <1>3, StoredBound
<1> QED
  BY <1>4 DEF Fields, SavedAs

\* Every form of the client that reports success has saved what it sent, in the
\* row it shows or in one new row, or deleted what it names; the two forms about
\* users do it too where nothing has been saved, for an invalid session or the
\* name of another user, and only there.
THEOREM SavedOrGoneHolds ==
  DesktopSpec => SavedOrGone
<1> DEFINE Saved ==
      notice'.nr # notice.nr /\ notice'.told =>
        /\ notice'.form = "edit" /\ dlg_edit.id \in Owned(Caller) =>
             /\ SavedAs(dlg_edit.id, dlg_edit.cur)
             /\ dlg_edit.password # Blank => account'[dlg_edit.id].pwd = dlg_edit.password
        /\ notice'.form = "add" =>
             \E i \in Unused : /\ Owned(Caller)' = Owned(Caller) \cup {i}
                               /\ SavedAs(i, notice'.sent.view) /\ account'[i].pwd = notice'.sent.pwd
        /\ notice'.form = "delete" => ~account'[modal.id].live
        /\ notice'.form = "add phone" =>
             \E p \in FreePhones : /\ PhonesOf(Caller)' = PhonesOf(Caller) \cup {p}
                                   /\ phone'[p].number = notice'.sent
        /\ notice'.form = "phone" /\ detail.id \in PhonesOf(Caller) => phone'[detail.id].number = detail.number
        /\ notice'.form = "delete phone" => detail.id \notin PhonesOf(Caller)'
        /\ notice'.form = "sign up" =>
             \E u \in Users : /\ username[u] \in {None, notice'.sent}
                              /\ username' = [username EXCEPT ![u] = notice'.sent]
        /\ notice'.form = "personal" =>
             \/ Caller # None /\ username'[Caller] = personal.text
             \/ /\ Caller = None \/ \E v \in Users \ {Caller} : username[v] = personal.text
                /\ username' = username
<1>1. ASSUME DesktopInv, [NextDesktop]_vars, notice'.nr # notice.nr, notice'.told
      PROVE  Saved
  <2>0. SaveStep \/ RemoveStep => Caller' = Caller
    BY DEF SaveStep, RemoveStep, session, Caller
  <2>1. ASSUME notice'.form = "edit", dlg_edit.id \in Owned(Caller)
        PROVE  /\ SavedAs(dlg_edit.id, dlg_edit.cur)
               /\ dlg_edit.password # Blank => account'[dlg_edit.id].pwd = dlg_edit.password
    BY <1>1, <2>1, Messages, FieldSaved
  <2>2. ASSUME notice'.form = "add"
        PROVE  \E i \in Unused : /\ Owned(Caller)' = Owned(Caller) \cup {i}
                                 /\ SavedAs(i, notice'.sent.view) /\ account'[i].pwd = notice'.sent.pwd
    <3>1. submit_add /\ SaveStep
      BY <1>1, <2>2, Messages
    <3>2. /\ phone' = phone /\ notice'.sent.view \in Views
          /\ \E i \in Unused : AddedTo(account', i, Caller, notice'.sent.view, notice'.sent.pwd)
      BY <1>1, <3>1, SubmitAdd DEF DesktopInv
    <3> QED
      BY <1>1, <2>0, <3>1, <3>2, OneMore DEF DesktopInv
  <2>3. ASSUME notice'.form = "delete"
        PROVE  ~account'[modal.id].live
    <3>1. ConfirmStep
      BY <1>1, <2>3, Messages
    <3>2. modal.kind = "delete" /\ ~Alive(account', modal.id)
      BY <1>1, <3>1, Confirm DEF ConfirmStep, DesktopInv
    <3>3. modal.id \in AccountIds /\ account[modal.id] # None
      BY <1>1, <3>2, ModalKinds DEF DesktopInv, ModalHers, Hers, DeleteDialogs
    <3>4. account'[modal.id] # None
      BY <1>1, <3>3, RowsFollow DEF Follows, OwnersKept
    <3> QED
      BY <3>2, <3>3, <3>4 DEF Alive
  <2>4. ASSUME notice'.form = "phone", detail.id \in PhonesOf(Caller)
        PROVE  phone'[detail.id].number = detail.number
    <3>1. submit_phone
      BY <1>1, <2>4, Messages
    <3> QED
      BY <1>1, <2>4, <3>1, SubmitPhone DEF DesktopInv
  <2>5. ASSUME notice'.form = "delete phone", detail.id \in PhonesOf(Caller)'
        PROVE  FALSE
    <3>1. RemoveStep
      BY <1>1, <2>5, Messages
    <3>2. MayCall /\ (\E mode : delete_phone_by_id(mode)) /\ modal.id = detail.id
      BY <1>1, <3>1 DEF RemoveStep, remove_phone, on_btn_ok_clicked, DesktopInv, ModalInv
    <3>3. /\ births' = births /\ Follows(account', phone', births')
          /\ detail.id \in PhonesOf(Caller) => phone'[detail.id] = None
      BY <1>1, <3>2, RemovePhone DEF DesktopInv
    <3>4. detail.id \in PhoneIds /\ phone'[detail.id] # None /\ phone'[detail.id].owner = Caller
      BY <2>0, <2>5, <3>1 DEF PhonesOf
    <3>5. phone'[detail.id].birth \in Int /\ births \in Int /\ phone'[detail.id].birth <= births
      BY <1>1, <3>3, <3>4, RowsAssumption DEF Follows, PhonesTyped, PhoneRow
    <3>6. phone[detail.id] # None /\ phone[detail.id].owner = Caller
      BY <3>3, <3>4, <3>5 DEF Follows, PhonesKept
    <3> QED
      BY <3>3, <3>4, <3>6 DEF PhonesOf
  <2>6. ASSUME notice'.form = "add phone"
        PROVE  \E p \in FreePhones : /\ PhonesOf(Caller)' = PhonesOf(Caller) \cup {p}
                                     /\ phone'[p].number = notice'.sent
    <3>1. submit_add_phone /\ SaveStep
      BY <1>1, <2>6, Messages
    <3>2. PICK q \in FreePhones : PhoneAddedTo(phone', q, Caller, notice'.sent)
      BY <1>1, <3>1, SubmitAddPhone DEF DesktopInv
    <3> QED
      BY <2>0, <3>1, <3>2, OnePhoneMore
  <2>7. ASSUME notice'.form = "sign up"
        PROVE  \E u \in Users : /\ username[u] \in {None, notice'.sent}
                                /\ username' = [username EXCEPT ![u] = notice'.sent]
    <3>1. PICK u \in Users, name \in LoginNames : register(u, name)
      BY <1>1, <2>7, Messages
    <3>2. username' = CreateUser(u, name) /\ notice'.sent = name /\ username[u] = None
      BY <1>1, <3>1, Register DEF DesktopInv, register
    <3>3. username \in [Users -> LoginNames \cup {Blank, None}]
      BY <1>1 DEF DesktopInv, SessionInv
    <3>4. CASE name \in TakenNames
      <4>1. PICK v \in Users : username[v] = name
        BY <3>4 DEF TakenNames
      <4> QED
        BY <3>2, <3>3, <3>4, <4>1 DEF CreateUser
    <3>5. CASE name \notin TakenNames
      BY <3>2, <3>5 DEF CreateUser
    <3> QED
      BY <3>4, <3>5
  <2>8. ASSUME notice'.form = "personal"
        PROVE  \/ Caller # None /\ username'[Caller] = personal.text
               \/ /\ Caller = None \/ \E v \in Users \ {Caller} : username[v] = personal.text
                  /\ username' = username
    <3>1. on_btn_save_clicked
      BY <1>1, <2>8, Messages
    <3>2. username' = UpdateUser(Caller, personal.text)
      BY <1>1, <3>1, SaveName DEF DesktopInv
    <3>3. Caller \in Users \cup {None} /\ username \in [Users -> LoginNames \cup {Blank, None}]
      BY <1>1, CallerTyped DEF DesktopInv, SessionInv
    <3> QED
      BY <3>2, <3>3 DEF UpdateUser
  <2> QED
    BY <2>1, <2>2, <2>3, <2>4, <2>5, <2>6, <2>7, <2>8
<1>2. DesktopInv /\ [NextDesktop]_vars => [Saved]_vars
  BY <1>1
<1> QED
  BY <1>2, DesktopInvariant, PTL DEF DesktopSpec, SavedOrGone
===============================================================================
