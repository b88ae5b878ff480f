---------------------------- MODULE ConnectionPool ----------------------------
(***************************************************************************)
(* The pool of SQLite connections that every DAO method draws from: a queue *)
(* under a mutex, and a condition variable on which get_connection waits.   *)
(* Every critical section is one action.  release_connection gives up the   *)
(* mutex before it calls notify_one, and a waiter that is woken takes the   *)
(* mutex again before it looks at the queue, so both are steps of their own *)
(* and another caller can take the connection in between.                   *)
(*                                                                          *)
(* A DAO method holds one connection, except MobilePhoneDAO::add, which     *)
(* calls generate_id while it holds its own.                                *)
(***************************************************************************)
EXTENDS Naturals, Sequences, FiniteSets

CONSTANTS Conns,    \* the connections the constructor opens
          Threads,  \* handler threads
          Nesting,  \* the threads whose calls may be MobilePhoneDAO::add
          NoConn    \* a conn variable that holds no connection

ASSUME PoolAssumption == /\ Nesting \subseteq Threads
                         /\ IsFiniteSet(Threads) /\ IsFiniteSet(Conns)
                         /\ NoConn \notin Conns

VARIABLES available,  \* available_connections_
          conn,       \* conn[t]: the conn of the DAO method t is in
          outer,      \* outer[t]: the conn of add, while t is in generate_id
          nested,     \* nested[t]: this call of add has called generate_id
          pc          \* where t is

poolVars == <<available, conn, outer, nested, pc>>

Labels == {"idle", "get", "asleep", "woken", "use", "notify"}
-------------------------------------------------------------------------------
\* The constructor pushes every connection it opened, in some order.
InitPool ==
  /\ available \in {q \in [1 .. Cardinality(Conns) -> Conns] :
                      \A c \in Conns : \E i \in 1 .. Cardinality(Conns) : q[i] = c}
  /\ conn = [t \in Threads |-> NoConn]
  /\ outer = [t \in Threads |-> NoConn]
  /\ nested = [t \in Threads |-> FALSE]
  /\ pc = [t \in Threads |-> "idle"]

\* A DAO method starts.
Call(t) == /\ pc[t] = "idle"
           /\ pc' = [pc EXCEPT ![t] = "get"]
           /\ UNCHANGED <<available, conn, outer, nested>>

\* Mutated form of Take: the connection is not removed from the queue.
TakeNoPop(t) == /\ conn' = [conn EXCEPT ![t] = Head(available)]
                /\ pc' = [pc EXCEPT ![t] = "use"]
                /\ UNCHANGED available

\* front() and pop() of the queue.
Take(t) == /\ available' = Tail(available)
           /\ conn' = [conn EXCEPT ![t] = Head(available)]
           /\ pc' = [pc EXCEPT ![t] = "use"]

\* Mutated form of GetConnection: a thread that was woken does not test the
\* predicate again, and leaves an empty queue with no connection.
GetConnectionNoLoop(t) ==
  /\ pc[t] \in {"get", "woken"}
  /\ \/ available # <<>> /\ Take(t)
     \/ /\ available = <<>>
        /\ pc' = [pc EXCEPT ![t] = IF @ = "get" THEN "asleep" ELSE "use"]
        /\ UNCHANGED <<available, conn>>
  /\ UNCHANGED <<outer, nested>>

\* get_connection from the moment it has the mutex: the predicate of the wait
\* is tested on entry and after every wakeup.
GetConnection(t) ==
  /\ pc[t] \in {"get", "woken"}
  /\ \/ available # <<>> /\ Take(t)
     \/ /\ available = <<>>
        /\ pc' = [pc EXCEPT ![t] = "asleep"]
        /\ UNCHANGED <<available, conn>>
  /\ UNCHANGED <<outer, nested>>

\* A condition variable may wake a waiter for no reason.
SpuriousWakeup(t) == /\ pc[t] = "asleep"
                     /\ pc' = [pc EXCEPT ![t] = "woken"]
                     /\ UNCHANGED <<available, conn, outer, nested>>

\* MobilePhoneDAO::add, its statement prepared, calls generate_id.
CallNested(t) == /\ pc[t] = "use"
                 /\ t \in Nesting /\ ~nested[t]
                 /\ pc' = [pc EXCEPT ![t] = "get"]
                 /\ outer' = [outer EXCEPT ![t] = conn[t]]
                 /\ conn' = [conn EXCEPT ![t] = NoConn]
                 /\ nested' = [nested EXCEPT ![t] = TRUE]
                 /\ UNCHANGED available

\* Mutated form of ReleaseConnection: the connection is not put back, as on a
\* return that is not preceded by release_connection.
ReleaseNothing(t) == /\ pc[t] = "use"
                     /\ conn' = [conn EXCEPT ![t] = NoConn]
                     /\ pc' = [pc EXCEPT ![t] = "notify"]
                     /\ UNCHANGED <<available, outer, nested>>

\* Every return of a DAO method that a handler can reach is preceded by
\* release_connection.
ReleaseConnection(t) == /\ pc[t] = "use"
                        /\ available' = Append(available, conn[t])
                        /\ conn' = [conn EXCEPT ![t] = NoConn]
                        /\ pc' = [pc EXCEPT ![t] = "notify"]
                        /\ UNCHANGED <<outer, nested>>

\* release_connection returns: from generate_id into add, otherwise the
\* DAO method is over.
AfterRelease(t) == IF outer[t] = NoConn THEN "idle" ELSE "use"

ReturnFrom(t) == /\ conn' = [conn EXCEPT ![t] = outer[t]]
                 /\ outer' = [outer EXCEPT ![t] = NoConn]
                 /\ nested' = [nested EXCEPT ![t] = (outer[t] # NoConn)]

\* Mutated form of NotifyOne: the waiters are not told.
NotifyNobody(t) == /\ pc[t] = "notify"
                   /\ pc' = [pc EXCEPT ![t] = AfterRelease(t)]
                   /\ ReturnFrom(t)
                   /\ UNCHANGED available

Sleepers == {s \in Threads : pc[s] = "asleep"}

\* notify_one wakes one waiter, if there is one.
NotifyOne(t) ==
  /\ pc[t] = "notify"
  /\ \/ /\ Sleepers = {}
        /\ pc' = [pc EXCEPT ![t] = AfterRelease(t)]
     \/ \E s \in Sleepers :
          pc' = [pc EXCEPT ![s] = "woken", ![t] = AfterRelease(t)]
  /\ ReturnFrom(t)
  /\ UNCHANGED available

ThreadStep(t) == GetConnection(t) \/ ReleaseConnection(t) \/ NotifyOne(t)

NextPool == \E t \in Threads :
              ThreadStep(t) \/ Call(t) \/ CallNested(t) \/ SpuriousWakeup(t)

PoolSpec == InitPool /\ [][NextPool]_poolVars

\* The scheduler runs every thread that can run; nothing orders the threads
\* that compete for the mutex.
FairPoolSpec == PoolSpec /\ \A t \in Threads : WF_poolVars(ThreadStep(t))

\* A scheduler that is also fair to every competitor.
StrongPoolSpec == PoolSpec /\ \A t \in Threads : /\ WF_poolVars(ReleaseConnection(t))
                                                 /\ WF_poolVars(NotifyOne(t))
                                                 /\ SF_poolVars(GetConnection(t) /\ available # <<>>)
-------------------------------------------------------------------------------
InQueue(c) == \E i \in 1 .. Len(available) : available[i] = c
Holds(t, c) == conn[t] = c \/ outer[t] = c

\* A DAO method uses a connection exactly from the moment get_connection
\* returns one to the moment it is released, and add keeps its own meanwhile.
PoolTypeOK ==
  /\ available \in Seq(Conns)
  /\ nested \in [Threads -> BOOLEAN]
  /\ pc \in [Threads -> Labels]
  /\ conn \in [Threads -> Conns \cup {NoConn}]
  /\ outer \in [Threads -> Conns \cup {NoConn}]
  /\ \A t \in Threads : /\ conn[t] \in Conns <=> pc[t] = "use"
                        /\ outer[t] \in Conns => pc[t] # "idle" /\ nested[t]

\* No two callers ever use one connection, none is in use while it is in the
\* queue, and none is in the queue twice.
Exclusive ==
  /\ \A i, j \in 1 .. Len(available) : available[i] = available[j] => i = j
  /\ \A t \in Threads, c \in Conns : /\ Holds(t, c) => ~InQueue(c)
                                     /\ ~(conn[t] = c /\ outer[t] = c)
  /\ \A s, t \in Threads, c \in Conns : Holds(s, c) /\ Holds(t, c) => s = t

\* No connection is ever lost: each is in the queue or in use.
Conserved == \A c \in Conns : InQueue(c) \/ \E t \in Threads : Holds(t, c)

\* Threads that have taken or will take notice of a connection in the queue.
Alert == {t \in Threads : pc[t] \in {"woken", "notify"}}

\* No wakeup is lost: while someone sleeps, every connection in the queue has
\* a thread that was woken, or that is about to call notify_one, to see to it,
\* although notify_one is called without the mutex and callers may barge in.
NoLostWakeup == Sleepers # {} => Len(available) <= Cardinality(Alert)

\* The pool is never exhausted for ever: fewer nesting calls than connections
\* cannot all be waiting for one another.
PoolRefills == []<>(available # <<>>)

\* MobilePhoneDAO::add returns (phone_dao.h: "@return 成功与否", success or not).
AddReturns == \A t \in Nesting : pc[t] = "use" ~> pc[t] = "idle"
===============================================================================
