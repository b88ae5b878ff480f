----------------------------- MODULE PhonesProofs -----------------------------
(***************************************************************************)
(* Proofs about Phones, for any finite sets of threads and accounts, any    *)
(* number of phones, any requests and any statements that may fail.         *)
(***************************************************************************)
EXTENDS Phones, FiniteSetTheorems, TLAPS

\* A handler carries the request that its statement belongs to.
RequestsMatch ==
  \A t \in Threads :
    /\ pc[t] # "idle" => req[t] \in PhoneRequests
    /\ pc[t] \in {"genId", "insert"} => req[t].op = "CreatePhone"
    /\ pc[t] = "update" => req[t].op = "UpdatePhone"
    /\ pc[t] \in {"count", "remove", "replace", "cascade"} => req[t].op = "DeletePhone"

\* There is an id for every phone that is being created (the bound).
IdsSuffice == Cardinality(Used) + Cardinality(Creating) <= MaxPhones

\* Who is about to remove a phone that nothing referred to when it counted
\* knows of every account that refers to it now; who removes the accounts
\* first has counted some.
LateOnesNoted ==
  \A t \in Threads :
    /\ pc[t] = "remove" /\ loc[t] = 0 => Referring(req[t].id, req[t].user) \subseteq since[t]
    /\ pc[t] = "cascade" => loc[t] # 0

PhonesInv == PhonesTypeOK /\ RequestsMatch /\ IdsSuffice /\ ReferencesValid /\ LateOnesNoted
-------------------------------------------------------------------------------
\* A set of natural numbers has a smallest element.
LEMMA NatMinimum ==
  ASSUME NEW S \in SUBSET Nat, S # {}
  PROVE  \E m \in S : \A n \in S : m <= n
<1>1. PICK m \in S : \A n \in S : <<n, m>> \notin OpToRel(<, Nat)
  BY NatLessThanWellFounded, WFMin
<1>2. \A n \in S : ~(n < m)
  BY <1>1 DEF OpToRel
<1> QED
  BY <1>2

\* Max of a set of integers that is bounded above.
LEMMA MaxOfBounded ==
  ASSUME NEW S \in SUBSET Int, S # {}, NEW b \in Int, \A n \in S : n <= b
  PROVE  Max(S) \in S /\ \A n \in S : n <= Max(S)
<1> DEFINE T == {b - n : n \in S}
<1>1. T \in SUBSET Nat /\ T # {}
  <2>1. \A n \in S : b - n \in Nat
    OBVIOUS
  <2> QED
    BY <2>1
<1>2. PICK m \in T : \A n \in T : m <= n
  BY <1>1, NatMinimum
<1>3. PICK x \in S : m = b - x
  BY <1>2
<1>4. \A n \in S : x >= n
  <2>1. \A n \in S : b - x <= b - n
    BY <1>2, <1>3
  <2> QED
    BY <2>1
<1> QED
  BY <1>4 DEF Max

\* Min of a set of natural numbers.
LEMMA MinOfNats ==
  ASSUME NEW S \in SUBSET Nat, S # {}
  PROVE  Min(S) \in S /\ \A n \in S : Min(S) <= n
<1>1. PICK m \in S : \A n \in S : m <= n
  BY NatMinimum
<1> QED
  BY <1>1 DEF Min

LEMMA PhoneSetsFinite ==
  /\ IsFiniteSet(PhoneIds) /\ IsFiniteSet(Used) /\ IsFiniteSet(Creating)
  /\ Cardinality(Used) \in Nat /\ Cardinality(Creating) \in Nat
<1>1. IsFiniteSet(PhoneIds)
  BY FS_Interval, PhonesAssumption DEF PhoneIds
<1>2. IsFiniteSet(Used) /\ IsFiniteSet(Creating)
  BY <1>1, FS_Subset, PhonesAssumption DEF Used, Creating
<1> QED
  BY <1>1, <1>2, FS_CardinalityType

\* generate_id finds an id that is not in use and within the bound, whatever
\* ids are in use, as long as they are fewer than the bound.
LEMMA FreeIdFits ==
  ASSUME Cardinality(Used) < MaxPhones
  PROVE  FreeId \in 0 .. MaxPhones /\ FreeId \notin Used
<1>0. MaxPhones \in Nat /\ MaxPhones >= 1
  BY PhonesAssumption
<1> DEFINE largest == IF Used = {} THEN 0 ELSE Max(Used)
           S == {i \in {1} : i \notin Used}
                  \cup {i + 1 : i \in {j \in Used : j >= 1 /\ j + 1 \notin Used}} \cup {largest + 1}
           gaps == {i \in 1 .. MaxPhones : i \notin Used}
<1>1. Used \in SUBSET Int /\ \A n \in Used : n <= MaxPhones /\ n >= -1
  BY <1>0 DEF Used, PhoneIds
<1>2. largest \in Int /\ largest >= -1 /\ \A n \in Used : n <= largest
  <2>1. CASE Used = {}
    BY <2>1
  <2>2. CASE Used # {}
    <3>1. Max(Used) \in Used /\ \A n \in Used : n <= Max(Used)
      <4>1. MaxPhones \in Int /\ \A n \in Used : n <= MaxPhones
        BY <1>0, <1>1
      <4> QED
        BY <1>1, <2>2, <4>1, MaxOfBounded
    <3> QED
      BY <1>1, <2>2, <3>1
  <2> QED
    BY <2>1, <2>2
<1> HIDE DEF largest
<1>3. S \in SUBSET Nat /\ S # {} /\ \A n \in S : n \notin Used
  <2>1. \A n \in S : n \in Nat /\ n \notin Used
    BY <1>1, <1>2
  <2> QED
    BY <2>1
<1>4. gaps # {}
  <2>1. SUFFICES ASSUME 1 .. MaxPhones \subseteq Used PROVE FALSE
    OBVIOUS
  <2>2. Cardinality(1 .. MaxPhones) = MaxPhones
    BY <1>0, FS_Interval
  <2>3. Cardinality(1 .. MaxPhones) <= Cardinality(Used)
    BY <2>1, FS_Subset, PhoneSetsFinite
  <2> QED
    BY <1>0, <2>2, <2>3, PhoneSetsFinite
<1>5. PICK m \in gaps : \A n \in gaps : m <= n
  <2>1. gaps \in SUBSET Nat
    BY <1>0
  <2> QED
    BY <1>4, <2>1, NatMinimum
<1>6. m \in S
  <2>1. CASE m = 1
    BY <1>5, <2>1
  <2>2. CASE m # 1
    <3>1. m - 1 \in Used /\ m - 1 >= 1 /\ (m - 1) + 1 \notin Used
      BY <1>0, <1>5, <2>2
    <3>2. (m - 1) + 1 = m
      BY <1>5
    <3>3. (m - 1) + 1 \in S
      BY <3>1
    <3> QED
      BY <3>2, <3>3
  <2> QED
    BY <2>1, <2>2
<1>7. Min(S) \in S /\ Min(S) <= m
  BY <1>3, <1>6, MinOfNats
<1>8. FreeId = Min(S)
  BY DEF FreeId, largest
<1> QED
  BY <1>0, <1>3, <1>5, <1>7, <1>8
-------------------------------------------------------------------------------
LEMMA PhonesInit == InitPhones => PhonesInv
<1> SUFFICES ASSUME InitPhones PROVE PhonesInv
  OBVIOUS
<1> USE PhonesAssumption DEF InitPhones
<1>1. PhonesTypeOK
  BY DEF PhonesTypeOK
<1>2. Used = {} /\ Creating = {}
  BY DEF Used, Creating
<1>3. IdsSuffice
  BY <1>2, FS_EmptySet DEF IdsSuffice
<1> QED
  BY <1>1, <1>3 DEF PhonesInv, RequestsMatch, ReferencesValid, LateOnesNoted

\* A thread that generates an id leaves one free.
LEMMA RoomForId ==
  ASSUME IdsSuffice, NEW t \in Creating
  PROVE  Cardinality(Used) < MaxPhones
<1>1. Creating # {}
  OBVIOUS
<1>2. Cardinality(Creating) # 0
  BY <1>1, FS_EmptySet, PhoneSetsFinite
<1> QED
  BY <1>2, PhoneSetsFinite, PhonesAssumption DEF IdsSuffice

\* A handler answers: what an answer says is typed whatever it is.
LEMMA AnswerTyped ==
  ASSUME PhonesTypeOK, RequestsMatch, NEW t \in Threads, NEW b \in BOOLEAN, Answer(t, b),
         pc[t] # "idle", req' = req
  PROVE  /\ pc' \in [Threads -> PhoneStatements \cup {"idle", "done"}]
         /\ req' \in [Threads -> PhoneRequests \cup {None}]
         /\ loc' \in [Threads -> Int \cup {None}]
         /\ \A s \in Threads : pc'[s] = "insert" => loc'[s] \in PhoneIds
         /\ reply' \in [Threads -> BOOLEAN \cup {None}]
         /\ RequestsMatch'
  BY DEF Answer, PhonesTypeOK, RequestsMatch

\* No statement leaves anything but rows in the two tables.
LEMMA RowsTyped ==
  ASSUME PhonesTypeOK
  PROVE  /\ \A i \in PhoneIds, u \in Users, n \in Numbers : OwnedBy(i, u) =>
                [phone[i] EXCEPT !.number = n] \in PhoneRow
         /\ \A a \in Accounts, p \in PhoneIds \cup {None} : acc[a] # None =>
                [acc[a] EXCEPT !.phone = p] \in AccRow
         /\ \A i, u : RowRemoved(i, u) \in [PhoneIds -> PhoneRow \cup {None}]
         /\ \A i, u : ReferencesCleared(i, u) \in [Accounts -> AccRow \cup {None}]
<1>1. \A i \in PhoneIds : phone[i] \in PhoneRow \cup {None}
  BY DEF PhonesTypeOK
<1>2. \A a \in Accounts : acc[a] \in AccRow \cup {None}
  BY DEF PhonesTypeOK
<1>3. \A i \in PhoneIds, u \in Users, n \in Numbers : OwnedBy(i, u) =>
         [phone[i] EXCEPT !.number = n] \in PhoneRow
  BY <1>1 DEF OwnedBy, Used, PhoneRow
<1>4. \A a \in Accounts, p \in PhoneIds \cup {None} : acc[a] # None =>
         [acc[a] EXCEPT !.phone = p] \in AccRow
  BY <1>2 DEF AccRow
<1>5. ASSUME NEW i, NEW u PROVE RowRemoved(i, u) \in [PhoneIds -> PhoneRow \cup {None}]
  BY DEF RowRemoved, PhonesTypeOK
<1>6. ASSUME NEW i, NEW u PROVE ReferencesCleared(i, u) \in [Accounts -> AccRow \cup {None}]
  BY <1>2, <1>4 DEF ReferencesCleared
<1> QED
  BY <1>3, <1>4, <1>5, <1>6

LEMMA PhonesTypeStep ==
  ASSUME PhonesTypeOK, RequestsMatch, IdsSuffice, [NextPhones]_phoneVars
  PROVE  PhonesTypeOK' /\ RequestsMatch'
<1> USE PhonesAssumption
<1>1. CASE UNCHANGED phoneVars
  BY <1>1 DEF phoneVars, PhonesTypeOK, RequestsMatch
<1>2. ASSUME NEW t \in Threads, NEW r \in PhoneRequests,
             CallCreatePhone(t, r) \/ CallUpdatePhone(t, r) \/ CallDeletePhone(t, r)
      PROVE  PhonesTypeOK' /\ RequestsMatch'
  BY <1>2 DEF CallCreatePhone, CallUpdatePhone, CallDeletePhone, Begin, Continue, PhonesTypeOK,
              RequestsMatch, PhoneStatements
<1>3. ASSUME NEW t \in Threads, generate_id(t) PROVE PhonesTypeOK' /\ RequestsMatch'
  <2>1. t \in Creating
    BY <1>3 DEF generate_id, Creating
  <2>2. FreeId \in PhoneIds /\ -1 \in PhoneIds
    BY <2>1, RoomForId, FreeIdFits DEF PhoneIds
  <2>3. PICK id \in PhoneIds : loc' = [loc EXCEPT ![t] = id]
    BY <1>3, <2>2 DEF generate_id
  <2>4. id \in Int
    BY DEF PhoneIds
  <2> QED
    BY <1>3, <2>3, <2>4 DEF generate_id, Continue, PhonesTypeOK, RequestsMatch, PhoneStatements
<1>4. ASSUME NEW t \in Threads, add(t) PROVE PhonesTypeOK' /\ RequestsMatch'
  <2>1. [owner |-> req[t].user, number |-> req[t].number] \in PhoneRow /\ loc[t] \in PhoneIds
    BY <1>4 DEF add, PhonesTypeOK, RequestsMatch, PhoneRequests, PhoneRow
  <2>2. phone' \in [PhoneIds -> PhoneRow \cup {None}]
    BY <1>4, <2>1 DEF add, PhonesTypeOK
  <2>3. PICK b \in BOOLEAN : Answer(t, b)
    BY <1>4 DEF add
  <2>4. pc[t] # "idle" /\ UNCHANGED <<acc, req, since>>
    BY <1>4 DEF add
  <2> QED
    BY <2>2, <2>3, <2>4, AnswerTyped DEF PhonesTypeOK
<1>5. ASSUME NEW t \in Threads, update(t) PROVE PhonesTypeOK' /\ RequestsMatch'
  <2>1. req[t].number \in Numbers /\ req[t].user \in Users /\ req[t].id \in PhoneIds
    BY <1>5 DEF update, RequestsMatch, PhoneRequests
  <2>2. OwnedBy(req[t].id, req[t].user) => [phone[req[t].id] EXCEPT !.number = req[t].number] \in PhoneRow
    BY <2>1, RowsTyped
  <2>3. phone' \in [PhoneIds -> PhoneRow \cup {None}]
    BY <1>5, <2>1, <2>2 DEF update, PhonesTypeOK
  <2>4. PICK b \in BOOLEAN : Answer(t, b)
    BY <1>5 DEF update
  <2>5. pc[t] # "idle" /\ UNCHANGED <<acc, req, since>>
    BY <1>5 DEF update
  <2> QED
    BY <2>3, <2>4, <2>5, AnswerTyped DEF PhonesTypeOK
<1>6. ASSUME NEW t \in Threads, get_reference_count(t) PROVE PhonesTypeOK' /\ RequestsMatch'
  <2>1. Cardinality(Referring(req[t].id, req[t].user)) \in Int
    BY FS_Subset, FS_CardinalityType DEF Referring
  <2>2. PICK n \in {Cardinality(Referring(req[t].id, req[t].user))}
                     \cup (IF MayFail("count") THEN {-1} ELSE {}) :
          IF Plan(req[t].mode, n) = "done"
            THEN Answer(t, FALSE)
            ELSE loc' = [loc EXCEPT ![t] = n] /\ Continue(t, Plan(req[t].mode, n))
    BY <1>6 DEF get_reference_count
  <2>3. Plan(req[t].mode, n) \in {"done", "remove", "replace", "cascade"}
    BY DEF Plan
  <2>4. CASE Plan(req[t].mode, n) = "done"
    <3>1. Answer(t, FALSE) /\ pc[t] # "idle" /\ UNCHANGED <<phone, acc, req, since>>
      BY <1>6, <2>2, <2>4 DEF get_reference_count
    <3> QED
      BY <3>1, AnswerTyped DEF PhonesTypeOK
  <2>5. CASE Plan(req[t].mode, n) # "done"
    BY <1>6, <2>1, <2>2, <2>3, <2>5 DEF get_reference_count, Continue, PhonesTypeOK, RequestsMatch, PhoneStatements
  <2> QED
    BY <2>4, <2>5
<1>7. ASSUME NEW t \in Threads, remove(t) PROVE PhonesTypeOK' /\ RequestsMatch'
  <2>1. /\ phone' \in [PhoneIds -> PhoneRow \cup {None}]
        /\ acc' \in [Accounts -> AccRow \cup {None}]
    <3>1. \/ phone' = RowRemoved(req[t].id, req[t].user) /\ acc' = ReferencesCleared(req[t].id, req[t].user)
          \/ UNCHANGED <<phone, acc>>
      BY <1>7 DEF remove
    <3> QED
      BY <3>1, RowsTyped DEF PhonesTypeOK
  <2>2. PICK b \in BOOLEAN : Answer(t, b)
    BY <1>7 DEF remove
  <2>3. pc[t] # "idle" /\ UNCHANGED req /\ since' \in [Threads -> SUBSET Accounts]
    BY <1>7 DEF remove, PhonesTypeOK
  <2> QED
    BY <2>1, <2>2, <2>3, AnswerTyped DEF PhonesTypeOK
<1>8. ASSUME NEW t \in Threads, replace_and_remove(t) PROVE PhonesTypeOK' /\ RequestsMatch'
  <2> DEFINE moved == Referring(req[t].id, req[t].user)
  <2>1. moved \subseteq Accounts /\ \A a \in moved : acc[a] # None
    BY DEF Referring
  <2>2. req[t].replace \in PhoneIds
    BY <1>8 DEF replace_and_remove, RequestsMatch, PhoneRequests
  <2>3. \/ /\ acc' = [a \in Accounts |-> IF a \in moved THEN [acc[a] EXCEPT !.phone = req[t].replace]
                                                       ELSE acc[a]]
           /\ NoteBound(moved)
        \/ UNCHANGED <<acc, since>>
    BY <1>8 DEF replace_and_remove
  <2> HIDE DEF moved
  <2>4. acc' \in [Accounts -> AccRow \cup {None}]
    BY <2>1, <2>2, <2>3, RowsTyped DEF PhonesTypeOK
  <2>5. since' \in [Threads -> SUBSET Accounts]
    BY <2>1, <2>3 DEF NoteBound, PhonesTypeOK
  <2>6. PICK b \in BOOLEAN : Answer(t, b)
    BY <1>8 DEF replace_and_remove
  <2>7. pc[t] # "idle" /\ UNCHANGED <<phone, req>>
    BY <1>8 DEF replace_and_remove
  <2> QED
    BY <2>4, <2>5, <2>6, <2>7, AnswerTyped DEF PhonesTypeOK
<1>9. ASSUME NEW t \in Threads, remove_cascade(t) PROVE PhonesTypeOK' /\ RequestsMatch'
  <2>1. acc' \in [Accounts -> AccRow \cup {None}]
    BY <1>9 DEF remove_cascade, AccountsRemoved, PhonesTypeOK
  <2>2. pc[t] = "cascade" /\ UNCHANGED <<phone, req, since>>
    BY <1>9 DEF remove_cascade
  <2>3. CASE Answer(t, FALSE)
    BY <2>1, <2>2, <2>3, AnswerTyped DEF PhonesTypeOK
  <2>4. CASE Continue(t, "remove") /\ UNCHANGED loc
    BY <2>1, <2>2, <2>4 DEF Continue, PhonesTypeOK, RequestsMatch, PhoneStatements
  <2> QED
    BY <1>9, <2>3, <2>4 DEF remove_cascade
<1>10. ASSUME NEW t \in Threads, Return(t) PROVE PhonesTypeOK' /\ RequestsMatch'
  BY <1>10 DEF Return, PhonesTypeOK, RequestsMatch
<1>11. ASSUME NEW u \in Users, NEW a \in Accounts, NEW n \in Numbers, BindAccount(u, a, n)
       PROVE  PhonesTypeOK' /\ RequestsMatch'
  <2>1. PICK i \in Used \cup {None} : acc' = [acc EXCEPT ![a] = [owner |-> u, phone |-> i]]
    BY <1>11 DEF BindAccount
  <2>2. acc' \in [Accounts -> AccRow \cup {None}]
    BY <2>1 DEF Used, PhonesTypeOK, AccRow
  <2>3. since' \in [Threads -> SUBSET Accounts]
    BY <1>11 DEF BindAccount, NoteBound, PhonesTypeOK
  <2> QED
    BY <1>11, <2>2, <2>3 DEF BindAccount, PhonesTypeOK, RequestsMatch
<1>12. ASSUME NEW a \in Accounts, DropAccount(a) PROVE PhonesTypeOK' /\ RequestsMatch'
  BY <1>12 DEF DropAccount, PhonesTypeOK, RequestsMatch
<1>13. CASE Crash
  BY <1>13 DEF Crash, PhonesTypeOK, RequestsMatch
<1> QED
  BY <1>1, <1>2, <1>3, <1>4, <1>5, <1>6, <1>7, <1>8, <1>9, <1>10, <1>11, <1>12, <1>13
     DEF NextPhones, PhoneStep
-------------------------------------------------------------------------------
\* The bound holds when there are no more phones and no more creations, when a
\* creation becomes a phone, and when a creation starts that there is room for.
LEMMA IdsSufficeWhen ==
  ASSUME IdsSuffice,
         \/ Used' \subseteq Used /\ Creating' \subseteq Creating
         \/ \E i, t : Used' \subseteq Used \cup {i} /\ t \in Creating /\ Creating' \subseteq Creating \ {t}
         \/ /\ Cardinality(Used) + Cardinality(Creating) < MaxPhones
            /\ Used' \subseteq Used /\ \E t : Creating' \subseteq Creating \cup {t}
  PROVE  IdsSuffice'
<1>0. MaxPhones \in Nat
  BY PhonesAssumption
<1>1. ASSUME NEW U, NEW C, IsFiniteSet(U), IsFiniteSet(C), Used' \subseteq U, Creating' \subseteq C,
             Cardinality(U) + Cardinality(C) <= MaxPhones
      PROVE  IdsSuffice'
  <2>1. /\ Cardinality(Used') <= Cardinality(U) /\ Cardinality(Creating') <= Cardinality(C)
        /\ IsFiniteSet(Used') /\ IsFiniteSet(Creating')
    BY <1>1, FS_Subset
  <2>2. /\ Cardinality(Used') \in Nat /\ Cardinality(Creating') \in Nat
        /\ Cardinality(U) \in Nat /\ Cardinality(C) \in Nat
    BY <1>1, <2>1, FS_CardinalityType
  <2> QED
    BY <1>0, <1>1, <2>1, <2>2 DEF IdsSuffice
<1>2. CASE Used' \subseteq Used /\ Creating' \subseteq Creating
  BY <1>1, <1>2, PhoneSetsFinite DEF IdsSuffice
<1>3. ASSUME NEW i, NEW t \in Creating, Used' \subseteq Used \cup {i}, Creating' \subseteq Creating \ {t}
      PROVE  IdsSuffice'
  <2>1. /\ IsFiniteSet(Used \cup {i}) /\ Cardinality(Used \cup {i}) <= Cardinality(Used) + 1
        /\ Cardinality(Used \cup {i}) \in Nat
    <3>1. /\ IsFiniteSet(Used \cup {i})
          /\ Cardinality(Used \cup {i}) =
               IF i \in Used THEN Cardinality(Used) ELSE Cardinality(Used) + 1
      BY FS_AddElement, PhoneSetsFinite
    <3> QED
      BY <3>1, PhoneSetsFinite
  <2>2. /\ IsFiniteSet(Creating \ {t}) /\ Cardinality(Creating \ {t}) = Cardinality(Creating) - 1
    BY FS_RemoveElement, PhoneSetsFinite
  <2>3. Cardinality(Used \cup {i}) + Cardinality(Creating \ {t}) <= MaxPhones
    BY <1>0, <2>1, <2>2, PhoneSetsFinite DEF IdsSuffice
  <2> QED
    BY <1>1, <1>3, <2>1, <2>2, <2>3
<1>4. ASSUME Cardinality(Used) + Cardinality(Creating) < MaxPhones, Used' \subseteq Used,
             NEW t, Creating' \subseteq Creating \cup {t}
      PROVE  IdsSuffice'
  <2>1. /\ IsFiniteSet(Creating \cup {t}) /\ Cardinality(Creating \cup {t}) <= Cardinality(Creating) + 1
        /\ Cardinality(Creating \cup {t}) \in Nat
    <3>1. /\ IsFiniteSet(Creating \cup {t})
          /\ Cardinality(Creating \cup {t}) =
               IF t \in Creating THEN Cardinality(Creating) ELSE Cardinality(Creating) + 1
      BY FS_AddElement, PhoneSetsFinite
    <3> QED
      BY <3>1, PhoneSetsFinite
  <2>2. Cardinality(Used) + Cardinality(Creating \cup {t}) <= MaxPhones
    BY <1>0, <1>4, <2>1, PhoneSetsFinite
  <2> QED
    BY <1>1, <1>4, <2>1, <2>2, PhoneSetsFinite
<1> QED
  BY <1>2, <1>3, <1>4

LEMMA IdsSufficeStep ==
  ASSUME PhonesTypeOK, IdsSuffice, [NextPhones]_phoneVars
  PROVE  IdsSuffice'
<1> USE PhonesAssumption
<1>1. CASE UNCHANGED phoneVars
  BY <1>1, IdsSufficeWhen DEF phoneVars, Used, Creating
<1>2. ASSUME NEW t \in Threads, NEW r \in PhoneRequests, CallCreatePhone(t, r) PROVE IdsSuffice'
  <2>1. Creating' \subseteq Creating \cup {t} /\ Used' \subseteq Used
    BY <1>2 DEF CallCreatePhone, Begin, Continue, Creating, Used, PhonesTypeOK
  <2> QED
    BY <1>2, <2>1, IdsSufficeWhen DEF CallCreatePhone
<1>3. ASSUME NEW t \in Threads, NEW r \in PhoneRequests, CallUpdatePhone(t, r) \/ CallDeletePhone(t, r)
      PROVE  IdsSuffice'
  <2>1. Creating' \subseteq Creating /\ Used' \subseteq Used
    BY <1>3 DEF CallUpdatePhone, CallDeletePhone, Begin, Continue, Creating, Used, PhonesTypeOK
  <2> QED
    BY <2>1, IdsSufficeWhen
<1>4. ASSUME NEW t \in Threads, add(t) PROVE IdsSuffice'
  <2>1. t \in Creating /\ Creating' \subseteq Creating \ {t}
    BY <1>4 DEF add, Answer, Creating, PhonesTypeOK
  <2>2. Used' \subseteq Used \cup {loc[t]}
    BY <1>4 DEF add, Used, PhonesTypeOK
  <2> QED
    BY <2>1, <2>2, IdsSufficeWhen
<1>5. ASSUME NEW t \in Threads, generate_id(t) \/ update(t) \/ get_reference_count(t) \/ remove(t)
                                  \/ replace_and_remove(t) \/ remove_cascade(t) \/ Return(t)
      PROVE  IdsSuffice'
  <2>1. Creating' \subseteq Creating
    <3>1. \A m \in Modes : \A n : Plan(m, n) \notin {"genId", "insert"}
      BY DEF Plan
    <3>2. CASE get_reference_count(t)
      BY <3>2 DEF get_reference_count, Plan, Answer, Continue, Creating, PhonesTypeOK
    <3> QED
      BY <1>5, <3>2 DEF generate_id, update, remove, replace_and_remove, remove_cascade, Return, Answer,
                        Continue, Creating, PhonesTypeOK
  <2>2. Used' \subseteq Used
    <3>1. CASE update(t)
      BY <3>1 DEF update, OwnedBy, Used, PhonesTypeOK
    <3>2. CASE remove(t)
      BY <3>2 DEF remove, RowRemoved, OwnedBy, Used, PhonesTypeOK
    <3> QED
      BY <1>5, <3>1, <3>2 DEF generate_id, get_reference_count, replace_and_remove, remove_cascade, Return, Used
  <2> QED
    BY <2>1, <2>2, IdsSufficeWhen
<1>6. ASSUME \/ \E u \in Users, a \in Accounts, n \in Numbers : BindAccount(u, a, n)
             \/ \E a \in Accounts : DropAccount(a)
             \/ Crash
      PROVE  IdsSuffice'
  <2>1. Creating' \subseteq Creating /\ Used' \subseteq Used
    BY <1>6 DEF BindAccount, DropAccount, Crash, Creating, Used
  <2> QED
    BY <2>1, IdsSufficeWhen
<1> QED
  BY <1>1, <1>2, <1>3, <1>4, <1>5, <1>6 DEF NextPhones, PhoneStep
-------------------------------------------------------------------------------
\* References stay valid when no phone goes and a changed one is to a phone.
LEMMA ReferencesWhen ==
  ASSUME ReferencesValid, Used \subseteq Used',
         \A a \in Accounts : acc'[a] = acc[a] \/ (acc'[a] # None => acc'[a].phone \in Used \cup {None})
  PROVE  ReferencesValid'
  BY DEF ReferencesValid

LEMMA ReferencesStep ==
  ASSUME PhonesTypeOK, RequestsMatch, ReferencesValid, [NextPhones]_phoneVars
  PROVE  ReferencesValid'
<1> USE PhonesAssumption
<1>1. CASE UNCHANGED <<phone, acc>>
  BY <1>1, ReferencesWhen DEF Used
<1>2. ASSUME NEW t \in Threads, add(t) PROVE ReferencesValid'
  <2>1. Used \subseteq Used' /\ acc' = acc
    BY <1>2 DEF add, Used, PhonesTypeOK
  <2> QED
    BY <2>1, ReferencesWhen
<1>3. ASSUME NEW t \in Threads, update(t) PROVE ReferencesValid'
  <2>1. \A i \in PhoneIds : phone[i] # None => phone'[i] # None
    <3>1. req[t].number \in Numbers /\ req[t].user \in Users /\ req[t].id \in PhoneIds
      BY <1>3 DEF update, RequestsMatch, PhoneRequests
    <3>2. OwnedBy(req[t].id, req[t].user) => [phone[req[t].id] EXCEPT !.number = req[t].number] # None
      BY <3>1, RowsTyped DEF PhoneRow
    <3> QED
      BY <1>3, <3>1, <3>2 DEF update, PhonesTypeOK
  <2>2. Used \subseteq Used' /\ acc' = acc
    BY <1>3, <2>1 DEF update, Used
  <2> QED
    BY <2>2, ReferencesWhen
<1>4. ASSUME NEW t \in Threads, remove(t) PROVE ReferencesValid'
  <2> DEFINE i == req[t].id
             u == req[t].user
  <2>1. \/ phone' = RowRemoved(i, u) /\ acc' = ReferencesCleared(i, u)
        \/ UNCHANGED <<phone, acc>>
    BY <1>4 DEF remove
  <2>2. CASE phone' = RowRemoved(i, u) /\ acc' = ReferencesCleared(i, u) /\ OwnedBy(i, u)
    <3>1. Used \ {i} \subseteq Used'
      BY <2>2 DEF RowRemoved, Used, PhonesTypeOK
    <3>2. ASSUME NEW a \in Accounts, acc'[a] # None PROVE acc'[a].phone \in Used' \cup {None}
      <4>1. CASE acc[a] # None /\ acc[a].phone = i
        <5>1. acc'[a] = [acc[a] EXCEPT !.phone = None]
          BY <2>2, <4>1 DEF ReferencesCleared
        <5>2. acc[a] \in AccRow
          BY <4>1 DEF PhonesTypeOK
        <5> QED
          BY <5>1, <5>2 DEF AccRow
      <4>2. CASE ~(acc[a] # None /\ acc[a].phone = i)
        <5>1. acc'[a] = acc[a]
          BY <2>2, <4>2 DEF ReferencesCleared
        <5> QED
          BY <3>1, <3>2, <4>2, <5>1 DEF ReferencesValid
      <4> QED
        BY <4>1, <4>2
    <3> QED
      BY <3>2 DEF ReferencesValid
  <2>3. CASE phone' = RowRemoved(i, u) /\ acc' = ReferencesCleared(i, u) /\ ~OwnedBy(i, u)
    <3>1. \A a \in Accounts : acc'[a] = acc[a]
      BY <2>3 DEF ReferencesCleared
    <3>2. Used \subseteq Used'
      BY <2>3 DEF RowRemoved, Used, PhonesTypeOK
    <3> QED
      BY <3>1, <3>2, ReferencesWhen
  <2>4. CASE UNCHANGED <<phone, acc>>
    BY <1>1, <2>4
  <2> QED
    BY <2>1, <2>2, <2>3, <2>4
<1>5. ASSUME NEW t \in Threads, replace_and_remove(t) PROVE ReferencesValid'
  <2> DEFINE moved == Referring(req[t].id, req[t].user)
  <2>1. /\ phone' = phone
        /\ \/ /\ moved # {} => req[t].replace \in Used
              /\ acc' = [a \in Accounts |-> IF a \in moved THEN [acc[a] EXCEPT !.phone = req[t].replace]
                                                           ELSE acc[a]]
           \/ UNCHANGED acc
    BY <1>5 DEF replace_and_remove
  <2>2. \A a \in moved : acc[a] \in AccRow
    BY DEF Referring, PhonesTypeOK
  <2> HIDE DEF moved
  <2>3. \A a \in Accounts : acc'[a] = acc[a] \/ acc'[a].phone \in Used
    BY <2>1, <2>2 DEF AccRow
  <2> QED
    BY <2>1, <2>3, ReferencesWhen DEF Used
<1>6. ASSUME NEW t \in Threads, remove_cascade(t) PROVE ReferencesValid'
  <2>1. \A a \in Accounts : acc'[a] = acc[a] \/ acc'[a] = None
    BY <1>6 DEF remove_cascade, AccountsRemoved
  <2> QED
    BY <1>6, <2>1, ReferencesWhen DEF remove_cascade, Used
<1>7. ASSUME NEW u \in Users, NEW a \in Accounts, NEW n \in Numbers, BindAccount(u, a, n)
      PROVE  ReferencesValid'
  <2>1. PICK i \in Used \cup {None} : acc' = [acc EXCEPT ![a] = [owner |-> u, phone |-> i]]
    BY <1>7 DEF BindAccount
  <2>2. \A b \in Accounts : acc'[b] = acc[b] \/ acc'[b].phone \in Used \cup {None}
    BY <2>1 DEF PhonesTypeOK
  <2> QED
    BY <1>7, <2>2, ReferencesWhen DEF BindAccount, Used
<1>8. ASSUME NEW a \in Accounts, DropAccount(a) PROVE ReferencesValid'
  <2>1. \A b \in Accounts : acc'[b] = acc[b] \/ acc'[b] = None
    BY <1>8 DEF DropAccount, PhonesTypeOK
  <2> QED
    BY <1>8, <2>1, ReferencesWhen DEF DropAccount, Used
<1> QED
  BY <1>1, <1>2, <1>3, <1>4, <1>5, <1>6, <1>7, <1>8
     DEF NextPhones, PhoneStep, phoneVars, CallCreatePhone, CallUpdatePhone, CallDeletePhone, Begin,
         generate_id, get_reference_count, Return, Crash
-------------------------------------------------------------------------------
\* What thread t knows stays true when t stays where it is, has not lost what
\* it has noted, and every account whose row has changed is noted, or is no
\* reference any more.
StillNoted(t) ==
  /\ pc'[t] = pc[t] /\ loc'[t] = loc[t] /\ req'[t] = req[t] /\ since[t] \subseteq since'[t]
  /\ pc[t] = "remove" =>
       \A a \in Accounts : \/ acc'[a] = acc[a] \/ acc'[a] = None \/ acc'[a].phone = None
                           \/ a \in since'[t]

LEMMA LateOnesWhen ==
  ASSUME PhonesTypeOK, RequestsMatch, LateOnesNoted,
         \A t \in Threads : \/ StillNoted(t)
                            \/ pc'[t] \notin {"remove", "cascade"}
                            \/ pc'[t] = "remove" /\ loc'[t] # 0
                            \/ pc'[t] = "remove" /\ Referring(req[t].id, req[t].user)' = {}
                            \/ pc'[t] = "cascade" /\ loc'[t] # 0
  PROVE  LateOnesNoted'
<1> SUFFICES ASSUME NEW t \in Threads
             PROVE  /\ pc'[t] = "remove" /\ loc'[t] = 0 =>
                         Referring(req[t].id, req[t].user)' \subseteq since'[t]
                    /\ pc'[t] = "cascade" => loc'[t] # 0
  BY DEF LateOnesNoted
<1>1. CASE StillNoted(t)
  <2>1. CASE pc[t] = "remove" /\ loc[t] = 0
    <3>1. req[t].id # None
      BY <2>1, PhonesAssumption DEF RequestsMatch, PhoneRequests, PhoneIds
    <3>2. ASSUME NEW a \in Referring(req[t].id, req[t].user)' PROVE a \in since'[t]
      <4>1. a \in Accounts /\ acc'[a] # None /\ acc'[a].phone = req[t].id /\ acc'[a].owner = req[t].user
        BY <1>1 DEF Referring, StillNoted
      <4>2. CASE acc'[a] = acc[a]
        BY <1>1, <2>1, <4>1, <4>2 DEF Referring, LateOnesNoted, StillNoted
      <4> QED
        BY <1>1, <2>1, <3>1, <4>1, <4>2 DEF StillNoted
    <3> QED
      BY <1>1, <2>1, <3>2 DEF StillNoted
  <2> QED
    BY <1>1, <2>1 DEF StillNoted, LateOnesNoted
<1> QED
  BY <1>1

LEMMA LateOnesStep ==
  ASSUME PhonesTypeOK, RequestsMatch, LateOnesNoted, [NextPhones]_phoneVars
  PROVE  LateOnesNoted'
<1> USE PhonesAssumption
<1>1. CASE UNCHANGED phoneVars
  BY <1>1, LateOnesWhen DEF phoneVars, StillNoted
<1>2. ASSUME NEW t \in Threads, NEW r \in PhoneRequests,
             CallCreatePhone(t, r) \/ CallUpdatePhone(t, r) \/ CallDeletePhone(t, r)
      PROVE  LateOnesNoted'
  <2>1. pc'[t] \notin {"remove", "cascade"} /\ \A s \in Threads \ {t} : StillNoted(s)
    BY <1>2 DEF CallCreatePhone, CallUpdatePhone, CallDeletePhone, Begin, Continue, StillNoted, PhonesTypeOK
  <2> QED
    BY <2>1, LateOnesWhen
<1>3. ASSUME NEW t \in Threads, generate_id(t) \/ add(t) \/ update(t) \/ Return(t) PROVE LateOnesNoted'
  <2>1. pc'[t] \notin {"remove", "cascade"} /\ \A s \in Threads \ {t} : StillNoted(s)
    BY <1>3 DEF generate_id, add, update, Return, Answer, Continue, StillNoted, PhonesTypeOK
  <2> QED
    BY <2>1, LateOnesWhen
<1>4. ASSUME NEW t \in Threads, get_reference_count(t) PROVE LateOnesNoted'
  <2> DEFINE R == Referring(req[t].id, req[t].user)
  <2>1. PICK n \in {Cardinality(R)} \cup (IF MayFail("count") THEN {-1} ELSE {}) :
          IF Plan(req[t].mode, n) = "done"
            THEN Answer(t, FALSE)
            ELSE loc' = [loc EXCEPT ![t] = n] /\ Continue(t, Plan(req[t].mode, n))
    BY <1>4 DEF get_reference_count
  <2>2. \A s \in Threads \ {t} : StillNoted(s)
    BY <1>4, <2>1 DEF get_reference_count, Answer, Continue, StillNoted, PhonesTypeOK
  <2>3. n = 0 => R = {}
    <3>1. IsFiniteSet(R)
      BY FS_Subset DEF Referring
    <3> QED
      BY <2>1, <3>1, FS_EmptySet
  <2>4. Referring(req[t].id, req[t].user)' = R
    BY <1>4 DEF get_reference_count, Referring
  <2>5. CASE Plan(req[t].mode, n) = "done"
    <3>1. pc'[t] = "done"
      BY <2>1, <2>5 DEF Answer, PhonesTypeOK
    <3> QED
      BY <2>2, <3>1, LateOnesWhen
  <2>6. CASE Plan(req[t].mode, n) # "done"
    <3>1. loc'[t] = n /\ pc'[t] = Plan(req[t].mode, n)
      BY <2>1, <2>6 DEF Continue, PhonesTypeOK
    <3>2. n = 0 => Plan(req[t].mode, n) # "cascade"
      BY DEF Plan
    <3> QED
      BY <2>2, <2>3, <2>4, <3>1, <3>2, LateOnesWhen
  <2> QED
    BY <2>5, <2>6
<1>5. ASSUME NEW t \in Threads, remove(t) PROVE LateOnesNoted'
  <2>1. pc'[t] = "done"
    BY <1>5 DEF remove, Answer, PhonesTypeOK
  <2>2. \A a \in Accounts : acc'[a] = acc[a] \/ acc'[a].phone = None
    <3>1. acc' = ReferencesCleared(req[t].id, req[t].user) \/ acc' = acc
      BY <1>5 DEF remove
    <3>2. \A a \in Accounts : acc[a] # None => [acc[a] EXCEPT !.phone = None].phone = None
      BY DEF PhonesTypeOK, AccRow
    <3> QED
      BY <3>1, <3>2 DEF ReferencesCleared
  <2>3. \A s \in Threads \ {t} : StillNoted(s)
    BY <1>5, <2>2 DEF remove, Answer, StillNoted, PhonesTypeOK
  <2> QED
    BY <2>1, <2>3, LateOnesWhen
<1>6. ASSUME NEW t \in Threads, replace_and_remove(t) PROVE LateOnesNoted'
  <2> DEFINE moved == Referring(req[t].id, req[t].user)
  <2>1. pc'[t] = "done" /\ \A s \in Threads \ {t} : pc'[s] = pc[s] /\ loc'[s] = loc[s] /\ req'[s] = req[s]
    BY <1>6 DEF replace_and_remove, Answer, PhonesTypeOK
  <2>2. \/ /\ \A a \in Accounts \ moved : acc'[a] = acc[a]
           /\ NoteBound(moved)
        \/ UNCHANGED <<acc, since>>
    BY <1>6 DEF replace_and_remove
  <2> HIDE DEF moved
  <2>3. \A s \in Threads \ {t} : StillNoted(s)
    BY <2>1, <2>2 DEF NoteBound, StillNoted, PhonesTypeOK
  <2> QED
    BY <2>1, <2>3, LateOnesWhen
<1>7. ASSUME NEW t \in Threads, remove_cascade(t) PROVE LateOnesNoted'
  <2>1. \A a \in Accounts : acc'[a] = acc[a] \/ acc'[a] = None
    BY <1>7 DEF remove_cascade, AccountsRemoved
  <2>2. \/ pc'[t] = "done"
        \/ pc'[t] = "remove" /\ loc'[t] # 0
    BY <1>7 DEF remove_cascade, Answer, Continue, PhonesTypeOK, LateOnesNoted
  <2>3. \A s \in Threads \ {t} : StillNoted(s)
    BY <1>7, <2>1 DEF remove_cascade, Answer, Continue, StillNoted, PhonesTypeOK
  <2> QED
    BY <2>2, <2>3, LateOnesWhen
<1>8. ASSUME NEW u \in Users, NEW a \in Accounts, NEW n \in Numbers, BindAccount(u, a, n)
      PROVE  LateOnesNoted'
  <2>1. \A b \in Accounts \ {a} : acc'[b] = acc[b]
    BY <1>8 DEF BindAccount, PhonesTypeOK
  <2>2. \A s \in Threads : StillNoted(s)
    BY <1>8, <2>1 DEF BindAccount, NoteBound, StillNoted, PhonesTypeOK
  <2> QED
    BY <2>2, LateOnesWhen
<1>9. ASSUME NEW a \in Accounts, DropAccount(a) PROVE LateOnesNoted'
  <2>1. \A b \in Accounts : acc'[b] = acc[b] \/ acc'[b] = None
    BY <1>9 DEF DropAccount, PhonesTypeOK
  <2>2. \A s \in Threads : StillNoted(s)
    BY <1>9, <2>1 DEF DropAccount, StillNoted
  <2> QED
    BY <2>2, LateOnesWhen
<1>10. CASE Crash
  <2>1. \A s \in Threads : pc'[s] = "idle"
    BY <1>10 DEF Crash
  <2> QED
    BY <2>1, LateOnesWhen
<1> QED
  BY <1>1, <1>2, <1>3, <1>4, <1>5, <1>6, <1>7, <1>8, <1>9, <1>10 DEF NextPhones, PhoneStep
-------------------------------------------------------------------------------
LEMMA PhonesInvariant == PhoneSpec => []PhonesInv
<1>1. PhonesInv /\ [NextPhones]_phoneVars => PhonesInv'
  BY PhonesTypeStep, IdsSufficeStep, ReferencesStep, LateOnesStep DEF PhonesInv
<1> QED
  BY <1>1, PhonesInit, PTL DEF PhoneSpec

\* The variables keep their shape; in particular generate_id, which looks for
\* the smallest id that is not in use, finds one within the number of phones.
THEOREM PhonesTypeCorrect == PhoneSpec => []PhonesTypeOK
<1>1. PhonesInv => PhonesTypeOK
  BY DEF PhonesInv
<1> QED
  BY <1>1, PhonesInvariant, PTL

\* No account refers to a phone that is gone.
THEOREM ReferencesHold == PhoneSpec => []ReferencesValid
<1>1. PhonesInv => ReferencesValid
  BY DEF PhonesInv
<1> QED
  BY <1>1, PhonesInvariant, PTL

\* What a step may do to the phones: a row is added where there is none, an
\* owner changes the number of his, or rows go.
LEMMA PhoneChanges ==
  ASSUME PhonesTypeOK, RequestsMatch, [NextPhones]_phoneVars
  PROVE  \A i \in Used : phone'[i] # None =>
           \/ phone'[i] = phone[i]
           \/ \E t \in Threads : /\ pc[t] = "update" /\ req[t].id = i
                                 /\ phone[i].owner = req[t].user
                                 /\ phone'[i].owner = phone[i].owner
<1> SUFFICES ASSUME NEW i \in Used, phone'[i] # None, phone'[i] # phone[i]
             PROVE  \E t \in Threads : /\ pc[t] = "update" /\ req[t].id = i
                                       /\ phone[i].owner = req[t].user
                                       /\ phone'[i].owner = phone[i].owner
  OBVIOUS
<1>0. i \in PhoneIds /\ phone[i] \in PhoneRow
  BY DEF Used, PhonesTypeOK
<1>1. ASSUME NEW t \in Threads, add(t) PROVE FALSE
  BY <1>0, <1>1 DEF add, Used, PhonesTypeOK
<1>2. ASSUME NEW t \in Threads, remove(t) PROVE FALSE
  <2>1. phone' = RowRemoved(req[t].id, req[t].user) \/ phone' = phone
    BY <1>2 DEF remove
  <2> QED
    BY <1>0, <2>1 DEF RowRemoved, PhonesTypeOK
<1>3. ASSUME NEW t \in Threads, update(t)
      PROVE  /\ pc[t] = "update" /\ req[t].id = i
             /\ phone[i].owner = req[t].user
             /\ phone'[i].owner = phone[i].owner
  <2>1. /\ pc[t] = "update"
        /\ phone' = [phone EXCEPT ![req[t].id] =
                       IF OwnedBy(req[t].id, req[t].user) THEN [@ EXCEPT !.number = req[t].number] ELSE @]
    BY <1>3 DEF update
  <2>2. req[t].id = i /\ OwnedBy(i, req[t].user)
    BY <1>0, <2>1 DEF PhonesTypeOK
  <2>3. phone'[i] = [phone[i] EXCEPT !.number = req[t].number]
    BY <1>0, <2>1, <2>2 DEF PhonesTypeOK
  <2> QED
    BY <1>0, <2>1, <2>2, <2>3 DEF OwnedBy, PhoneRow
<1>4. UNCHANGED phone \/ \E t \in Threads : add(t) \/ remove(t) \/ update(t)
  BY DEF NextPhones, PhoneStep, phoneVars, CallCreatePhone, CallUpdatePhone, CallDeletePhone, Begin,
         generate_id, get_reference_count, replace_and_remove, remove_cascade, Return, BindAccount,
         DropAccount, Crash
<1> QED
  BY <1>1, <1>2, <1>3, <1>4

\* Two calls of CreatePhone that generate the same id do not both succeed, and
\* no step puts another phone in the place of one: ids are chosen in one
\* statement and used in another, but INSERT refuses an id in use.
THEOREM NoOverwriteHolds == PhoneSpec => NoOverwrite
<1>1. PhonesInv /\ [NextPhones]_phoneVars =>
        [\A i \in Used : phone'[i] # None =>
            \/ phone'[i] = phone[i]
            \/ \E t \in Threads : /\ pc[t] = "update" /\ req[t].id = i
                                  /\ phone[i].owner = req[t].user
                                  /\ phone'[i].owner = phone[i].owner]_phoneVars
  BY PhoneChanges DEF PhonesInv
<1> QED
  BY <1>1, PhonesInvariant, PTL DEF PhoneSpec, NoOverwrite

\* Which step takes a thread from a statement of a deletion.
LEMMA DeletionSteps ==
  ASSUME PhonesTypeOK, [NextPhones]_phoneVars, NEW t \in Threads,
         pc[t] \in {"remove", "replace", "cascade"}, pc'[t] # pc[t]
  PROVE  remove(t) \/ replace_and_remove(t) \/ remove_cascade(t) \/ Crash
<1>1. ASSUME NEW s \in Threads, PhoneStep(s), s # t PROVE FALSE
  <2>1. pc'[t] = pc[t]
    BY <1>1 DEF PhoneStep, generate_id, add, update, get_reference_count, remove, replace_and_remove,
                remove_cascade, Return, Answer, Continue, PhonesTypeOK
  <2> QED
    BY <2>1
<1>2. ASSUME PhoneStep(t) PROVE remove(t) \/ replace_and_remove(t) \/ remove_cascade(t)
  BY <1>2 DEF PhoneStep, generate_id, add, update, get_reference_count, Return
<1>3. ASSUME NEW s \in Threads, NEW r \in PhoneRequests,
             CallCreatePhone(s, r) \/ CallUpdatePhone(s, r) \/ CallDeletePhone(s, r)
      PROVE  FALSE
  BY <1>3 DEF CallCreatePhone, CallUpdatePhone, CallDeletePhone, Begin, Continue, PhonesTypeOK
<1> QED
  BY <1>1, <1>2, <1>3 DEF NextPhones, phoneVars, BindAccount, DropAccount

\* A handler that deletes takes nothing of another user, whatever its request
\* names, in every mode: his phones stay as they are and his accounts exist.
THEOREM OthersUntouchedHolds == PhoneSpec => OthersUntouched
<1> DEFINE Untouched(t) ==
             /\ \A i \in Used : phone[i].owner # req[t].user => phone'[i] = phone[i]
             /\ \A a \in Accounts : (acc[a] # None /\ acc[a].owner # req[t].user) => acc'[a] # None
<1>1. ASSUME PhonesInv, [NextPhones]_phoneVars, NEW t \in Threads,
             pc[t] \in {"remove", "replace", "cascade"}, pc'[t] # pc[t]
      PROVE  Untouched(t)
  <2> USE PhonesAssumption
  <2>0. PhonesTypeOK /\ \A a \in Accounts : acc[a] # None => acc[a] \in AccRow
    BY <1>1 DEF PhonesInv, PhonesTypeOK
  <2>1. CASE remove(t)
    <3>1. \/ phone' = RowRemoved(req[t].id, req[t].user) /\ acc' = ReferencesCleared(req[t].id, req[t].user)
          \/ UNCHANGED <<phone, acc>>
      BY <2>1 DEF remove
    <3>2. \A a \in Accounts : acc[a] # None => [acc[a] EXCEPT !.phone = None] # None
      BY <2>0, RowsTyped DEF AccRow
    <3>3. \A i \in Used : i \in PhoneIds
      BY DEF Used
    <3> QED
      BY <2>0, <3>1, <3>2, <3>3 DEF RowRemoved, ReferencesCleared, OwnedBy, PhonesTypeOK
  <2>2. CASE replace_and_remove(t)
    BY <2>2 DEF replace_and_remove, Referring
  <2>3. CASE remove_cascade(t)
    BY <2>3 DEF remove_cascade, AccountsRemoved, Referring
  <2>4. CASE Crash
    BY <2>4 DEF Crash
  <2> QED
    BY <1>1, <2>0, <2>1, <2>2, <2>3, <2>4, DeletionSteps
<1>2. PhonesInv /\ [NextPhones]_phoneVars =>
        [\A t \in Threads : (pc[t] \in {"remove", "replace", "cascade"} /\ pc'[t] # pc[t]) =>
            Untouched(t)]_phoneVars
  BY <1>1
<1> QED
  BY <1>2, PhonesInvariant, PTL DEF PhoneSpec, OthersUntouched

\* The window between the count and the removal is all that can cost an account
\* its reference: it was bound in it, by its own request or by another deletion
\* that moved it there.
THEOREM LateBindingsOnlyHolds == PhoneSpec => LateBindingsOnly
<1>1. ASSUME PhonesInv, [NextPhones]_phoneVars, NEW t \in Threads,
             pc[t] = "remove", pc'[t] = "done", loc[t] = 0, NEW a \in Accounts,
             acc[a] # None, acc[a].owner = req[t].user, acc'[a] # acc[a]
      PROVE  a \in since[t]
  <2>1. remove(t) \/ Crash
    BY <1>1, DeletionSteps DEF PhonesInv, replace_and_remove, remove_cascade
  <2>2. acc' = ReferencesCleared(req[t].id, req[t].user)
    BY <1>1, <2>1 DEF remove, Crash
  <2>3. acc[a].phone = req[t].id
    BY <1>1, <2>2 DEF ReferencesCleared
  <2> QED
    BY <1>1, <2>3 DEF PhonesInv, LateOnesNoted, Referring
<1>2. PhonesInv /\ [NextPhones]_phoneVars =>
        [\A t \in Threads :
           (pc[t] = "remove" /\ pc'[t] = "done" /\ loc[t] = 0 /\ req[t].mode = 0) =>
             \A a \in Accounts : (acc[a] # None /\ acc[a].owner = req[t].user /\ acc'[a] # acc[a]) =>
               a \in since[t]]_phoneVars
  BY <1>1
<1> QED
  BY <1>2, PhonesInvariant, PTL DEF PhoneSpec, LateBindingsOnly
===============================================================================
