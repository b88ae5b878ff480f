------------------------ MODULE ConnectionPoolProofs ------------------------
(***************************************************************************)
(* Proofs about ConnectionPool, for any finite sets of connections and of   *)
(* threads, any of which may nest.                                          *)
(***************************************************************************)
EXTENDS LeaseRefinement, SequenceTheorems, FiniteSetTheorems, TLAPS

\* The queue starts as a permutation of the connections: a surjection from
\* 1 .. n onto n connections is injective.
LEMMA InitQueue ==
  ASSUME InitPool
  PROVE  /\ available \in Seq(Conns)
         /\ \A i, j \in 1 .. Len(available) : available[i] = available[j] => i = j
         /\ \A c \in Conns : InQueue(c)
<1> DEFINE n == Cardinality(Conns)
<1>1. n \in Nat
  BY FS_CardinalityType, PoolAssumption
<1>2. available \in [1 .. n -> Conns] /\ \A c \in Conns : \E i \in 1 .. n : available[i] = c
  BY DEF InitPool
<1>3. available \in Seq(Conns) /\ Len(available) = n
  BY <1>1, <1>2
<1>4. IsFiniteSet(1 .. n) /\ Cardinality(1 .. n) = n
  BY <1>1, FS_Interval
<1>5. available \in Surjection(1 .. n, Conns)
  BY <1>2 DEF Surjection
<1>6. available \in Injection(1 .. n, Conns)
  BY <1>4, <1>5, FS_SurjSameCardinalityImpliesInj
<1>7. \A i, j \in 1 .. n : available[i] = available[j] => i = j
  BY <1>6 DEF Injection, IsInjective
<1> QED
  BY <1>2, <1>3, <1>7 DEF InQueue

\* Whichever waiter notify_one picks, the caller returns, and nobody but the
\* waiter, who was asleep, moves.
LEMMA NotifyMoves ==
  ASSUME NEW t \in Threads, PoolTypeOK, NotifyOne(t)
  PROVE  /\ pc' \in [Threads -> Labels]
         /\ pc'[t] = AfterRelease(t)
         /\ \A s \in Threads \ {t} : pc'[s] = pc[s] \/ (pc[s] = "asleep" /\ pc'[s] = "woken")
  BY DEF PoolTypeOK, NotifyOne, AfterRelease, Sleepers, Labels

LEMMA TypeInit == InitPool => PoolTypeOK
<1> SUFFICES ASSUME InitPool PROVE PoolTypeOK
  OBVIOUS
<1>1. available \in Seq(Conns)
  BY InitQueue
<1> QED
  BY <1>1, PoolAssumption DEF InitPool, PoolTypeOK, Labels

LEMMA TypeStep == PoolTypeOK /\ [NextPool]_poolVars => PoolTypeOK'
<1> SUFFICES ASSUME PoolTypeOK, [NextPool]_poolVars PROVE PoolTypeOK'
  OBVIOUS
<1> USE PoolAssumption
<1>1. CASE UNCHANGED poolVars
  BY <1>1 DEF PoolTypeOK, poolVars
<1>2. ASSUME NEW t \in Threads, GetConnection(t) PROVE PoolTypeOK'
  <2>1. CASE available # <<>> /\ Take(t)
    <3>1. Head(available) \in Conns /\ Tail(available) \in Seq(Conns)
      BY <2>1, HeadTailProperties DEF PoolTypeOK
    <3> QED
      BY <1>2, <2>1, <3>1 DEF GetConnection, Take, PoolTypeOK, Labels
  <2>2. CASE available = <<>>
    BY <1>2, <2>2 DEF GetConnection, Take, PoolTypeOK, Labels
  <2> QED
    BY <1>2, <2>1, <2>2 DEF GetConnection
<1>3. ASSUME NEW t \in Threads, ReleaseConnection(t) PROVE PoolTypeOK'
  <2>1. Append(available, conn[t]) \in Seq(Conns)
    BY <1>3, AppendProperties DEF ReleaseConnection, PoolTypeOK
  <2> QED
    BY <1>3, <2>1 DEF ReleaseConnection, PoolTypeOK, Labels
<1>4. ASSUME NEW t \in Threads, NotifyOne(t) PROVE PoolTypeOK'
  <2>1. /\ pc' \in [Threads -> Labels]
        /\ pc'[t] = AfterRelease(t)
        /\ \A s \in Threads \ {t} : pc'[s] = pc[s] \/ (pc[s] = "asleep" /\ pc'[s] = "woken")
    BY <1>4, NotifyMoves
  <2>2. /\ conn' = [conn EXCEPT ![t] = outer[t]]
        /\ outer' = [outer EXCEPT ![t] = NoConn]
        /\ nested' = [nested EXCEPT ![t] = (outer[t] # NoConn)]
        /\ available' = available
    BY <1>4 DEF NotifyOne, ReturnFrom
  <2>3. /\ conn'[t] \in Conns <=> pc'[t] = "use"
        /\ outer'[t] \in Conns => pc'[t] # "idle" /\ nested'[t]
    BY <2>1, <2>2 DEF AfterRelease, PoolTypeOK
  <2>4. ASSUME NEW s \in Threads \ {t}
        PROVE  /\ conn'[s] \in Conns <=> pc'[s] = "use"
               /\ outer'[s] \in Conns => pc'[s] # "idle" /\ nested'[s]
    BY <2>1, <2>2, <2>4 DEF PoolTypeOK
  <2> QED
    BY <2>1, <2>2, <2>3, <2>4 DEF PoolTypeOK
<1>5. ASSUME NEW t \in Threads, Call(t) PROVE PoolTypeOK'
  BY <1>5 DEF Call, PoolTypeOK, Labels
<1>6. ASSUME NEW t \in Threads, CallNested(t) PROVE PoolTypeOK'
  BY <1>6 DEF CallNested, PoolTypeOK, Labels
<1>7. ASSUME NEW t \in Threads, SpuriousWakeup(t) PROVE PoolTypeOK'
  BY <1>7 DEF SpuriousWakeup, PoolTypeOK, Labels
<1> QED
  BY <1>1, <1>2, <1>3, <1>4, <1>5, <1>6, <1>7 DEF NextPool, ThreadStep

\* Every variable keeps its type, a running DAO method has a connection and
\* no other has one: get_connection never returns without.
THEOREM PoolTypeCorrect == PoolSpec => []PoolTypeOK
  BY TypeInit, TypeStep, PTL DEF PoolSpec

\* pop() takes exactly the front out of a queue without repetitions.
LEMMA TakeQueue ==
  ASSUME NEW t \in Threads, PoolTypeOK, available # <<>>, Take(t),
         \A i, j \in 1 .. Len(available) : available[i] = available[j] => i = j
  PROVE  /\ \A i, j \in 1 .. Len(available') : available'[i] = available'[j] => i = j
         /\ \A c \in Conns : c = Head(available) => InQueue(c) /\ ~InQueue(c)'
         /\ \A c \in Conns : InQueue(c)' => InQueue(c)
         /\ \A c \in Conns : InQueue(c) => c = Head(available) \/ InQueue(c)'
<1> DEFINE q == available
           r == Tail(q)
<1>1. /\ q \in Seq(Conns) /\ Len(q) \in Nat /\ Len(q) # 0
      /\ r \in Seq(Conns) /\ Len(r) = Len(q) - 1
      /\ \A i \in 1 .. Len(r) : r[i] = q[i + 1]
  BY HeadTailProperties, EmptySeq, LenProperties DEF PoolTypeOK
<1>2. Head(q) = q[1]
  BY <1>1
<1>3. available' = r
  BY DEF Take
<1>4. \A i, j \in 1 .. Len(r) : r[i] = r[j] => i = j
  <2> SUFFICES ASSUME NEW i \in 1 .. Len(r), NEW j \in 1 .. Len(r), r[i] = r[j]
               PROVE  i = j
    OBVIOUS
  <2>1. i + 1 \in 1 .. Len(q) /\ j + 1 \in 1 .. Len(q) /\ q[i + 1] = q[j + 1]
    BY <1>1
  <2>2. i + 1 = j + 1
    BY <2>1
  <2> QED
    BY <1>1, <2>2
<1>5. ~ \E i \in 1 .. Len(r) : r[i] = q[1]
  <2> SUFFICES ASSUME NEW i \in 1 .. Len(r), r[i] = q[1] PROVE FALSE
    OBVIOUS
  <2>1. i + 1 \in 1 .. Len(q) /\ 1 \in 1 .. Len(q) /\ q[i + 1] = q[1]
    BY <1>1
  <2> QED
    BY <1>1, <2>1
<1>6. \A c \in Conns : InQueue(c)' => InQueue(c)
  <2> SUFFICES ASSUME NEW c \in Conns, NEW i \in 1 .. Len(r), r[i] = c
               PROVE  \E j \in 1 .. Len(q) : q[j] = c
    BY <1>3 DEF InQueue
  <2> QED
    BY <1>1
<1>7. \A c \in Conns : InQueue(c) => c = Head(q) \/ InQueue(c)'
  <2> SUFFICES ASSUME NEW c \in Conns, NEW i \in 1 .. Len(q), q[i] = c, i # 1
               PROVE  \E j \in 1 .. Len(r) : r[j] = c
    BY <1>2, <1>3 DEF InQueue
  <2>1. i - 1 \in 1 .. Len(r) /\ r[i - 1] = q[i]
    BY <1>1
  <2> QED
    BY <2>1
<1> QED
  BY <1>1, <1>2, <1>3, <1>4, <1>5, <1>6, <1>7 DEF InQueue

\* push() of a connection that was not in the queue.
LEMMA ReleaseQueue ==
  ASSUME NEW t \in Threads, PoolTypeOK, ReleaseConnection(t), ~InQueue(conn[t]),
         \A i, j \in 1 .. Len(available) : available[i] = available[j] => i = j
  PROVE  /\ \A i, j \in 1 .. Len(available') : available'[i] = available'[j] => i = j
         /\ \A c \in Conns : InQueue(c)' <=> InQueue(c) \/ c = conn[t]
<1> DEFINE q == available
           r == Append(q, conn[t])
<1>1. /\ q \in Seq(Conns) /\ conn[t] \in Conns /\ available' = r /\ Len(q) \in Nat
  BY LenProperties DEF PoolTypeOK, ReleaseConnection
<1>2. /\ Len(r) = Len(q) + 1 /\ r[Len(q) + 1] = conn[t]
      /\ \A i \in 1 .. Len(q) : r[i] = q[i]
  BY <1>1, AppendProperties
<1>3. \A i \in 1 .. Len(q) : q[i] # conn[t]
  BY DEF InQueue
<1>4. 1 .. Len(r) = 1 .. Len(q) \cup {Len(q) + 1}
  BY <1>1, <1>2
<1>5. \A i, j \in 1 .. Len(r) : r[i] = r[j] => i = j
  BY <1>2, <1>3, <1>4
<1>6. \A c \in Conns : InQueue(c)' <=> InQueue(c) \/ c = conn[t]
  BY <1>1, <1>2, <1>4 DEF InQueue
<1> QED
  BY <1>1, <1>5, <1>6

\* The connection a thread takes leaves the queue for that thread alone.
LEMMA TakeExclusive ==
  ASSUME NEW t \in Threads, PoolTypeOK, Exclusive, available # <<>>, Take(t),
         pc[t] # "use", outer' = outer
  PROVE  Exclusive'
<1> USE PoolAssumption
<1>1. \A i, j \in 1 .. Len(available) : available[i] = available[j] => i = j
  BY DEF Exclusive
<1>2. /\ \A i, j \in 1 .. Len(available') : available'[i] = available'[j] => i = j
      /\ \A c \in Conns : c = Head(available) => InQueue(c) /\ ~InQueue(c)'
      /\ \A c \in Conns : InQueue(c)' => InQueue(c)
  BY <1>1, TakeQueue
<1>3. Head(available) \in Conns /\ conn' = [conn EXCEPT ![t] = Head(available)]
  BY HeadTailProperties DEF Take, PoolTypeOK
<1>4. \A s \in Threads, c \in Conns : Holds(s, c)' => Holds(s, c) \/ (s = t /\ c = Head(available))
  BY <1>3 DEF Holds, PoolTypeOK
<1>5. \A s \in Threads : ~Holds(s, Head(available))
  BY <1>2, <1>3 DEF Exclusive
<1>6. ASSUME NEW s \in Threads, NEW c \in Conns
      PROVE  /\ Holds(s, c)' => ~InQueue(c)'
             /\ ~(conn'[s] = c /\ outer'[s] = c)
  <2>1. Holds(s, c)' => ~InQueue(c)'
    BY <1>2, <1>4 DEF Exclusive
  <2>2. ~(conn'[s] = c /\ outer'[s] = c)
    BY <1>3, <1>5 DEF Holds, Exclusive, PoolTypeOK
  <2> QED
    BY <2>1, <2>2
<1>7. ASSUME NEW s \in Threads, NEW v \in Threads, NEW c \in Conns, Holds(s, c)', Holds(v, c)'
      PROVE  s = v
  BY <1>4, <1>5, <1>7 DEF Exclusive
<1> QED
  BY <1>2, <1>6, <1>7 DEF Exclusive

\* A step that moves connections only between the two conn variables of a
\* thread, or drops one, and leaves the queue alone.
LEMMA FrameExclusive ==
  ASSUME Exclusive, PoolTypeOK, available' = available,
         \A s \in Threads, c \in Conns : Holds(s, c)' => Holds(s, c),
         \A s \in Threads, c \in Conns : ~(conn'[s] = c /\ outer'[s] = c)
  PROVE  Exclusive'
  BY DEF Exclusive, InQueue

LEMMA ReleaseExclusive ==
  ASSUME NEW t \in Threads, PoolTypeOK, Exclusive, ReleaseConnection(t)
  PROVE  Exclusive'
<1> USE PoolAssumption
<1>1. conn[t] \in Conns /\ Holds(t, conn[t]) /\ outer' = outer /\ conn' = [conn EXCEPT ![t] = NoConn]
  BY DEF ReleaseConnection, PoolTypeOK, Holds
<1>2. ~InQueue(conn[t]) /\ \A i, j \in 1 .. Len(available) : available[i] = available[j] => i = j
  BY <1>1 DEF Exclusive
<1>3. /\ \A i, j \in 1 .. Len(available') : available'[i] = available'[j] => i = j
      /\ \A c \in Conns : InQueue(c)' <=> InQueue(c) \/ c = conn[t]
  BY <1>2, ReleaseQueue
<1>4. \A s \in Threads, c \in Conns : Holds(s, c)' => Holds(s, c)
  BY <1>1 DEF Holds, PoolTypeOK
<1>5. \A s \in Threads, c \in Conns : c = conn[t] => ~Holds(s, c)'
  <2> SUFFICES ASSUME NEW s \in Threads, conn'[s] = conn[t] \/ outer'[s] = conn[t] PROVE FALSE
    BY DEF Holds
  <2>1. CASE s = t
    BY <1>1, <2>1 DEF Exclusive, PoolTypeOK
  <2>2. CASE s # t
    BY <1>1, <2>2 DEF Exclusive, Holds, PoolTypeOK
  <2> QED
    BY <2>1, <2>2
<1>6. ASSUME NEW s \in Threads, NEW c \in Conns
      PROVE  /\ Holds(s, c)' => ~InQueue(c)'
             /\ ~(conn'[s] = c /\ outer'[s] = c)
  <2>1. Holds(s, c)' => ~InQueue(c)'
    <3> SUFFICES ASSUME Holds(s, c)', InQueue(c)' PROVE FALSE
      OBVIOUS
    <3>1. c # conn[t]
      BY <1>5
    <3> QED
      BY <1>3, <1>4, <3>1 DEF Exclusive
  <2>2. ~(conn'[s] = c /\ outer'[s] = c)
    BY <1>1 DEF Exclusive, PoolTypeOK
  <2> QED
    BY <2>1, <2>2
<1>7. \A s, v \in Threads, c \in Conns : Holds(s, c)' /\ Holds(v, c)' => s = v
  BY <1>4 DEF Exclusive
<1> QED
  BY <1>3, <1>6, <1>7 DEF Exclusive

LEMMA ExclusiveInit == InitPool => Exclusive
  BY InitQueue, PoolAssumption DEF InitPool, Exclusive, Holds

LEMMA ExclusiveStep ==
  ASSUME PoolTypeOK, Exclusive, [NextPool]_poolVars
  PROVE  Exclusive'
<1> USE PoolAssumption
<1>1. CASE UNCHANGED poolVars
  BY <1>1 DEF Exclusive, Holds, InQueue, poolVars
<1>2. ASSUME NEW t \in Threads, GetConnection(t) PROVE Exclusive'
  <2>1. CASE available # <<>> /\ Take(t)
    BY <1>2, <2>1, TakeExclusive DEF GetConnection
  <2>2. CASE available = <<>> /\ UNCHANGED <<available, conn>>
    BY <1>2, <2>2 DEF GetConnection, Exclusive, Holds, InQueue
  <2> QED
    BY <1>2, <2>1, <2>2 DEF GetConnection
<1>3. ASSUME NEW t \in Threads, ReleaseConnection(t) PROVE Exclusive'
  BY <1>3, ReleaseExclusive
<1>4. ASSUME NEW t \in Threads, NotifyOne(t) PROVE Exclusive'
  <2>1. /\ conn' = [conn EXCEPT ![t] = outer[t]]
        /\ outer' = [outer EXCEPT ![t] = NoConn]
        /\ available' = available
    BY <1>4 DEF NotifyOne, ReturnFrom
  <2>2. \A s \in Threads, c \in Conns : Holds(s, c)' => Holds(s, c)
    BY <2>1 DEF Holds, PoolTypeOK
  <2>3. \A s \in Threads, c \in Conns : ~(conn'[s] = c /\ outer'[s] = c)
    BY <2>1 DEF Exclusive, PoolTypeOK
  <2> QED
    BY <2>1, <2>2, <2>3, FrameExclusive
<1>5. ASSUME NEW t \in Threads, Call(t) PROVE Exclusive'
  BY <1>5 DEF Call, Exclusive, Holds, InQueue
<1>6. ASSUME NEW t \in Threads, CallNested(t) PROVE Exclusive'
  <2>1. /\ outer' = [outer EXCEPT ![t] = conn[t]]
        /\ conn' = [conn EXCEPT ![t] = NoConn]
        /\ available' = available
    BY <1>6 DEF CallNested
  <2>2. \A s \in Threads, c \in Conns : Holds(s, c)' => Holds(s, c)
    BY <2>1 DEF Holds, PoolTypeOK
  <2>3. \A s \in Threads, c \in Conns : ~(conn'[s] = c /\ outer'[s] = c)
    BY <2>1 DEF Exclusive, PoolTypeOK
  <2> QED
    BY <2>1, <2>2, <2>3, FrameExclusive
<1>7. ASSUME NEW t \in Threads, SpuriousWakeup(t) PROVE Exclusive'
  BY <1>7 DEF SpuriousWakeup, Exclusive, Holds, InQueue
<1> QED
  BY <1>1, <1>2, <1>3, <1>4, <1>5, <1>6, <1>7 DEF NextPool, ThreadStep

\* No connection is ever used by two callers, or is in the queue while it is
\* in use: what get_connection and release_connection promise together, with
\* nested calls included.
THEOREM ExclusiveHolds == PoolSpec => []Exclusive
<1>1. InitPool => PoolTypeOK /\ Exclusive
  BY TypeInit, ExclusiveInit
<1>2. PoolTypeOK /\ Exclusive /\ [NextPool]_poolVars => (PoolTypeOK /\ Exclusive)'
  BY TypeStep, ExclusiveStep
<1> QED
  BY <1>1, <1>2, PTL DEF PoolSpec

LEMMA ConservedStep ==
  ASSUME PoolTypeOK, Exclusive, Conserved, [NextPool]_poolVars
  PROVE  Conserved'
<1> USE PoolAssumption
<1> SUFFICES ASSUME NEW c \in Conns PROVE InQueue(c)' \/ \E t \in Threads : Holds(t, c)'
  BY DEF Conserved
<1>0. InQueue(c) \/ \E s \in Threads : Holds(s, c)
  BY DEF Conserved
<1>1. CASE UNCHANGED poolVars
  BY <1>0, <1>1 DEF Holds, InQueue, poolVars
<1>2. ASSUME NEW t \in Threads, GetConnection(t)
      PROVE  InQueue(c)' \/ \E s \in Threads : Holds(s, c)'
  <2>1. CASE available # <<>> /\ Take(t)
    <3>1. \A i, j \in 1 .. Len(available) : available[i] = available[j] => i = j
      BY DEF Exclusive
    <3>2. InQueue(c) => c = Head(available) \/ InQueue(c)'
      BY <2>1, <3>1, TakeQueue
    <3>3. conn' = [conn EXCEPT ![t] = Head(available)] /\ outer' = outer /\ conn[t] = NoConn
      BY <1>2, <2>1 DEF GetConnection, Take, PoolTypeOK
    <3> QED
      BY <1>0, <3>2, <3>3 DEF Holds, PoolTypeOK
  <2>2. CASE available = <<>> /\ UNCHANGED <<available, conn>>
    BY <1>0, <1>2, <2>2 DEF GetConnection, Holds, InQueue
  <2> QED
    BY <1>2, <2>1, <2>2 DEF GetConnection
<1>3. ASSUME NEW t \in Threads, ReleaseConnection(t)
      PROVE  InQueue(c)' \/ \E s \in Threads : Holds(s, c)'
  <2>1. ~InQueue(conn[t]) /\ \A i, j \in 1 .. Len(available) : available[i] = available[j] => i = j
    BY <1>3 DEF Exclusive, Holds, ReleaseConnection, PoolTypeOK
  <2>2. InQueue(c)' <=> InQueue(c) \/ c = conn[t]
    BY <1>3, <2>1, ReleaseQueue
  <2> QED
    BY <1>0, <1>3, <2>2 DEF ReleaseConnection, Holds, PoolTypeOK
<1>4. ASSUME NEW t \in Threads, NotifyOne(t)
      PROVE  InQueue(c)' \/ \E s \in Threads : Holds(s, c)'
  <2>1. /\ conn' = [conn EXCEPT ![t] = outer[t]]
        /\ outer' = [outer EXCEPT ![t] = NoConn]
        /\ available' = available /\ conn[t] \notin Conns
    BY <1>4 DEF NotifyOne, ReturnFrom, PoolTypeOK
  <2> QED
    BY <1>0, <2>1 DEF Holds, InQueue, PoolTypeOK
<1>5. ASSUME NEW t \in Threads, Call(t)
      PROVE  InQueue(c)' \/ \E s \in Threads : Holds(s, c)'
  BY <1>0, <1>5 DEF Call, Holds, InQueue
<1>6. ASSUME NEW t \in Threads, CallNested(t)
      PROVE  InQueue(c)' \/ \E s \in Threads : Holds(s, c)'
  <2>1. /\ outer' = [outer EXCEPT ![t] = conn[t]]
        /\ conn' = [conn EXCEPT ![t] = NoConn]
        /\ available' = available /\ outer[t] = NoConn
    BY <1>6 DEF CallNested, PoolTypeOK
  <2> QED
    BY <1>0, <2>1 DEF Holds, InQueue, PoolTypeOK
<1>7. ASSUME NEW t \in Threads, SpuriousWakeup(t)
      PROVE  InQueue(c)' \/ \E s \in Threads : Holds(s, c)'
  BY <1>0, <1>7 DEF SpuriousWakeup, Holds, InQueue
<1> QED
  BY <1>1, <1>2, <1>3, <1>4, <1>5, <1>6, <1>7 DEF NextPool, ThreadStep

\* No connection is lost, however many calls nest and in whatever order the
\* waiters are served: each stays in the queue or in the hands of a caller.
THEOREM ConservedHolds == PoolSpec => []Conserved
<1>1. InitPool => PoolTypeOK /\ Exclusive /\ Conserved
  BY TypeInit, ExclusiveInit, InitQueue DEF Conserved
<1>2. PoolTypeOK /\ Exclusive /\ Conserved /\ [NextPool]_poolVars
        => (PoolTypeOK /\ Exclusive /\ Conserved)'
  BY TypeStep, ExclusiveStep, ConservedStep
<1> QED
  BY <1>1, <1>2, PTL DEF PoolSpec

LEMMA AlertFinite == IsFiniteSet(Alert) /\ Cardinality(Alert) \in Nat
<1>1. IsFiniteSet(Alert)
  BY FS_Subset, PoolAssumption DEF Alert
<1> QED
  BY <1>1, FS_CardinalityType

\* A step after which the queue is no longer and no thread has left Alert.
LEMMA AlertGrows ==
  ASSUME PoolTypeOK, PoolTypeOK', NoLostWakeup, Alert \subseteq Alert', IsFiniteSet(Alert'),
         Len(available') <= Len(available), Sleepers' # {} => Sleepers # {}
  PROVE  NoLostWakeup'
<1>1. Cardinality(Alert) <= Cardinality(Alert') /\ Cardinality(Alert) \in Nat /\ Cardinality(Alert') \in Nat
  BY FS_Subset, FS_CardinalityType, AlertFinite
<1>2. Len(available) \in Nat /\ Len(available') \in Nat
  BY LenProperties DEF PoolTypeOK
<1> QED
  BY <1>1, <1>2 DEF NoLostWakeup

LEMMA NoLostWakeupStep ==
  ASSUME PoolTypeOK, PoolTypeOK', NoLostWakeup, [NextPool]_poolVars
  PROVE  NoLostWakeup'
<1> USE PoolAssumption
<1>0. /\ IsFiniteSet(Alert) /\ Cardinality(Alert) \in Nat
      /\ IsFiniteSet(Alert') /\ Cardinality(Alert') \in Nat
      /\ available \in Seq(Conns) /\ Len(available) \in Nat
  <2>1. Alert' \subseteq Threads
    BY DEF Alert
  <2> QED
    BY <2>1, AlertFinite, FS_Subset, FS_CardinalityType, LenProperties DEF PoolTypeOK
<1>1. CASE UNCHANGED poolVars
  <2>1. Alert' = Alert /\ Sleepers' = Sleepers /\ available' = available
    BY <1>1 DEF Alert, Sleepers, poolVars
  <2> QED
    BY <2>1 DEF NoLostWakeup
<1>2. ASSUME NEW t \in Threads, GetConnection(t) PROVE NoLostWakeup'
  <2>1. CASE available # <<>> /\ Take(t)
    <3>1. Len(available') = Len(available) - 1
      BY <1>0, <2>1, HeadTailProperties DEF Take
    <3>2. Alert' = Alert \ {t} /\ Sleepers' = Sleepers
      BY <1>2, <2>1 DEF GetConnection, Take, Alert, Sleepers, PoolTypeOK
    <3>3. Cardinality(Alert') >= Cardinality(Alert) - 1
      BY <1>0, <3>2, FS_RemoveElement
    <3> QED
      BY <1>0, <3>1, <3>2, <3>3 DEF NoLostWakeup
  <2>2. CASE available = <<>> /\ UNCHANGED <<available, conn>>
    <3>1. Len(available') = 0
      BY <2>2
    <3> QED
      BY <1>0, <3>1 DEF NoLostWakeup
  <2> QED
    BY <1>2, <2>1, <2>2 DEF GetConnection
<1>3. ASSUME NEW t \in Threads, ReleaseConnection(t) PROVE NoLostWakeup'
  <2>1. Len(available') = Len(available) + 1
    BY <1>0, <1>3, AppendProperties DEF ReleaseConnection, PoolTypeOK
  <2>2. Alert' = Alert \cup {t} /\ t \notin Alert /\ Sleepers' = Sleepers
    BY <1>3 DEF ReleaseConnection, Alert, Sleepers, PoolTypeOK
  <2>3. Cardinality(Alert') = Cardinality(Alert) + 1
    BY <1>0, <2>2, FS_AddElement
  <2> QED
    BY <1>0, <2>1, <2>2, <2>3 DEF NoLostWakeup
<1>4. ASSUME NEW t \in Threads, NotifyOne(t) PROVE NoLostWakeup'
  <2>1. CASE Sleepers = {} /\ pc' = [pc EXCEPT ![t] = AfterRelease(t)]
    <3>1. Sleepers' = {}
      BY <2>1 DEF Sleepers, AfterRelease, PoolTypeOK
    <3> QED
      BY <3>1 DEF NoLostWakeup
  <2>2. ASSUME NEW s \in Sleepers, pc' = [pc EXCEPT ![s] = "woken", ![t] = AfterRelease(t)]
        PROVE  NoLostWakeup'
    <3>1. s \in Threads /\ pc[s] = "asleep" /\ pc[t] = "notify" /\ available' = available
      BY <1>4 DEF NotifyOne, Sleepers
    <3>2. Alert' = (Alert \ {t}) \cup {s} /\ t \in Alert /\ s \notin Alert \ {t}
      BY <2>2, <3>1 DEF Alert, AfterRelease, PoolTypeOK
    <3>3. Cardinality(Alert \ {t}) = Cardinality(Alert) - 1 /\ IsFiniteSet(Alert \ {t})
      BY <1>0, <3>2, FS_RemoveElement
    <3>4. Cardinality(Alert') = Cardinality(Alert)
      <4>1. Cardinality((Alert \ {t}) \cup {s}) = Cardinality(Alert \ {t}) + 1
        BY <3>2, <3>3, FS_AddElement
      <4> QED
        BY <1>0, <3>2, <3>3, <4>1
    <3>5. Sleepers # {}
      BY <2>2
    <3> QED
      BY <3>1, <3>4, <3>5 DEF NoLostWakeup
  <2> QED
    BY <1>4, <2>1, <2>2 DEF NotifyOne
<1>5. ASSUME NEW t \in Threads, Call(t) PROVE NoLostWakeup'
  <2>1. Alert' = Alert /\ Sleepers' = Sleepers /\ available' = available
    BY <1>5 DEF Call, Alert, Sleepers, PoolTypeOK
  <2> QED
    BY <2>1 DEF NoLostWakeup
<1>6. ASSUME NEW t \in Threads, CallNested(t) PROVE NoLostWakeup'
  <2>1. Alert' = Alert /\ Sleepers' = Sleepers /\ available' = available
    BY <1>6 DEF CallNested, Alert, Sleepers, PoolTypeOK
  <2> QED
    BY <2>1 DEF NoLostWakeup
<1>7. ASSUME NEW t \in Threads, SpuriousWakeup(t) PROVE NoLostWakeup'
  <2>1. Alert \subseteq Alert' /\ available' = available
    BY <1>7 DEF SpuriousWakeup, Alert, PoolTypeOK
  <2>2. Sleepers # {}
    BY <1>7 DEF SpuriousWakeup, Sleepers
  <2> QED
    BY <1>0, <2>1, <2>2, AlertGrows
<1> QED
  BY <1>1, <1>2, <1>3, <1>4, <1>5, <1>6, <1>7 DEF NextPool, ThreadStep

\* No wakeup is lost: releasing the mutex before notify_one, callers that barge
\* in and spurious wakeups never leave a connection in the queue that no thread
\* will look for while another sleeps.
THEOREM NoLostWakeupHolds == PoolSpec => []NoLostWakeup
<1>1. InitPool => PoolTypeOK /\ NoLostWakeup
  BY TypeInit DEF InitPool, NoLostWakeup, Sleepers
<1>2. PoolTypeOK /\ NoLostWakeup /\ [NextPool]_poolVars => (PoolTypeOK /\ NoLostWakeup)'
  BY TypeStep, NoLostWakeupStep
<1> QED
  BY <1>1, <1>2, PTL DEF PoolSpec

-----------------------------------------------------------------------------
LEMMA LesseeOfOne == /\ LesseeAmong({}) = Free
                     /\ \A t : LesseeAmong({t}) = t
  BY DEF LesseeAmong

\* Which connections change hands when a thread takes the head of the queue:
\* that one, which nobody had.
LEMMA TakeLeases ==
  ASSUME PoolTypeOK, Exclusive, NEW t \in Threads, GetConnection(t), available # <<>>
  PROVE  \E h \in Conns : /\ Holders(h) = {} /\ Holders(h)' = {t}
                          /\ \A c \in Conns \ {h} : Holders(c)' = Holders(c)
<1>1. PICK h \in Conns : h = Head(available) /\ InQueue(h)
  <2>1. Len(available) \in Nat \ {0} /\ Head(available) = available[1] /\ available[1] \in Conns
    BY DEF PoolTypeOK
  <2> QED
    BY <2>1 DEF InQueue
<1>2. \A s \in Threads : ~Holds(s, h)
  BY <1>1 DEF Exclusive
<1>3. conn' = [conn EXCEPT ![t] = h] /\ outer' = outer
  BY <1>1 DEF GetConnection, Take
<1>4. conn[t] = NoConn
  BY DEF GetConnection, PoolTypeOK
<1>5. Holders(h) = {} /\ Holders(h)' = {t}
  BY <1>2, <1>3 DEF Holders, Holds, PoolTypeOK
<1>6. \A c \in Conns \ {h} : Holders(c)' = Holders(c)
  BY <1>3, <1>4, PoolAssumption DEF Holders, Holds, PoolTypeOK
<1> QED
  BY <1>5, <1>6

\* The same when a thread releases the connection it uses: nobody has it then.
LEMMA ReleaseLeases ==
  ASSUME PoolTypeOK, Exclusive, NEW t \in Threads, ReleaseConnection(t)
  PROVE  \E h \in Conns : /\ Holders(h) = {t} /\ Holders(h)' = {}
                          /\ \A c \in Conns \ {h} : Holders(c)' = Holders(c)
<1>1. PICK h \in Conns : h = conn[t]
  BY DEF ReleaseConnection, PoolTypeOK
<1>2. outer[t] # h /\ \A s \in Threads \ {t} : ~Holds(s, h)
  BY <1>1 DEF Exclusive, Holds
<1>3. outer' = outer /\ \A s \in Threads : conn'[s] = IF s = t THEN NoConn ELSE conn[s]
  BY DEF ReleaseConnection, PoolTypeOK
<1>4. Holders(h) = {t}
  BY <1>1, <1>2 DEF Holders, Holds
<1>5. Holders(h)' = {}
  BY <1>2, <1>3, PoolAssumption DEF Holders, Holds
<1>6. \A c \in Conns \ {h} : Holders(c)' = Holders(c)
  BY <1>1, <1>3, PoolAssumption DEF Holders, Holds
<1> QED
  BY <1>4, <1>5, <1>6

\* Nothing else changes hands: add keeps its connection across generate_id.
LEMMA OthersLeaseNothing ==
  ASSUME PoolTypeOK, [NextPool]_poolVars
  PROVE  \/ \E t \in Threads : GetConnection(t) /\ available # <<>>
         \/ \E t \in Threads : ReleaseConnection(t)
         \/ \A c \in Conns : Holders(c)' = Holders(c)
<1>1. CASE UNCHANGED <<conn, outer>>
  BY <1>1 DEF Holders, Holds
<1>2. ASSUME NEW t \in Threads, NotifyOne(t) PROVE \A c \in Conns : Holders(c)' = Holders(c)
  <2>1. conn' = [conn EXCEPT ![t] = outer[t]] /\ outer' = [outer EXCEPT ![t] = NoConn]
    BY <1>2 DEF NotifyOne, ReturnFrom
  <2>2. conn[t] = NoConn
    BY <1>2 DEF NotifyOne, PoolTypeOK
  <2> QED
    BY <2>1, <2>2, PoolAssumption DEF Holders, Holds, PoolTypeOK
<1>3. ASSUME NEW t \in Threads, CallNested(t) PROVE \A c \in Conns : Holders(c)' = Holders(c)
  <2>1. conn' = [conn EXCEPT ![t] = NoConn] /\ outer' = [outer EXCEPT ![t] = conn[t]]
    BY <1>3 DEF CallNested
  <2>2. outer[t] = NoConn
    BY <1>3 DEF CallNested, PoolTypeOK
  <2> QED
    BY <2>1, <2>2, PoolAssumption DEF Holders, Holds, PoolTypeOK
<1>4. ASSUME NEW t \in Threads, GetConnection(t), available = <<>> PROVE UNCHANGED <<conn, outer>>
  BY <1>4 DEF GetConnection
<1> QED
  BY <1>1, <1>2, <1>3, <1>4 DEF NextPool, ThreadStep, Call, SpuriousWakeup, poolVars

LEMMA LeaseStep ==
  ASSUME PoolTypeOK, Exclusive, [NextPool]_poolVars
  PROVE  [Leases!LNext]_([c \in Conns |-> LesseeAmong(Holders(c))])
<1> DEFINE lessee == [c \in Conns |-> LesseeAmong(Holders(c))]
<1>1. ASSUME NEW t \in Threads, GetConnection(t), available # <<>>
      PROVE  \E h \in Conns : Leases!Lease(t, h)
  <2>1. PICK h \in Conns : /\ Holders(h) = {} /\ Holders(h)' = {t}
                           /\ \A c \in Conns \ {h} : Holders(c)' = Holders(c)
    BY <1>1, TakeLeases
  <2>2. lessee[h] = Free /\ lessee'[h] = t /\ \A c \in Conns \ {h} : lessee'[c] = lessee[c]
    BY <2>1, LesseeOfOne
  <2>3. lessee' = [lessee EXCEPT ![h] = t]
    BY <2>2
  <2> QED
    BY <2>2, <2>3 DEF Leases!Lease
<1>2. ASSUME NEW t \in Threads, ReleaseConnection(t) PROVE \E h \in Conns : Leases!Return(t, h)
  <2>1. PICK h \in Conns : /\ Holders(h) = {t} /\ Holders(h)' = {}
                           /\ \A c \in Conns \ {h} : Holders(c)' = Holders(c)
    BY <1>2, ReleaseLeases
  <2>2. lessee[h] = t /\ lessee'[h] = Free /\ \A c \in Conns \ {h} : lessee'[c] = lessee[c]
    BY <2>1, LesseeOfOne
  <2>3. lessee' = [lessee EXCEPT ![h] = Free]
    BY <2>2
  <2> QED
    BY <2>2, <2>3 DEF Leases!Return
<1>3. ASSUME \A c \in Conns : Holders(c)' = Holders(c) PROVE UNCHANGED lessee
  BY <1>3
<1> QED
  BY <1>1, <1>2, <1>3, OthersLeaseNothing DEF Leases!LNext

\* The pool implements exclusive leases: for any number of threads, nesting or
\* not, and any interleaving of critical sections, wakeups and notifications, a
\* connection is given to one caller at a time and comes back from that caller.
THEOREM LeasesImplemented == PoolSpec => ImplementsLeases
<1>1. InitPool => Leases!LInit
  <2>1. InitPool => \A c \in Conns : Holders(c) = {}
    BY PoolAssumption DEF InitPool, Holders, Holds
  <2> QED
    BY <2>1, LesseeOfOne DEF Leases!LInit
<1>2. PoolTypeOK /\ Exclusive /\ [NextPool]_poolVars
        => [Leases!LNext]_([c \in Conns |-> LesseeAmong(Holders(c))])
  BY LeaseStep
<1> QED
  BY <1>1, <1>2, PoolTypeCorrect, ExclusiveHolds, PTL DEF PoolSpec, ImplementsLeases, Leases!LSpec
=============================================================================
