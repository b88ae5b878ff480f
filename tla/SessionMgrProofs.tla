--------------------------- MODULE SessionMgrProofs ---------------------------
(***************************************************************************)
(* Proofs about SessionMgr, for any number of users, sessions and handlers, *)
(* any timeout, any changes of the clock and any bound of it.               *)
(***************************************************************************)
EXTENDS SessionMgr, TLAPS

\* A handler past its first critical section knows its user, its session, or
\* both.
CallInv ==
  \A t \in Threads : /\ pc[t] \in {"create", "serve"} => call[t].user \in Users
                     /\ pc[t] \in {"serve", "refresh"} => call[t].id \in SessionIds
                     /\ pc[t] = "serve" => call[t].user = owner[call[t].id]

\* What the map holds was put there by a login, for the user of the login.
OwnerInv ==
  \A id \in SessionIds :
    /\ owner[id] = None => sessions[id] = None /\ due[id] = None /\ refused[id] = None
    /\ sessions[id] # None => sessions[id].user = owner[id]

\* The digits at which the time given to a session is over.
Ends(id) == addSeconds(WallClock(since[id]), due[id] - since[id])

\* What the clock has to do with a session: the digits it keeps are those of
\* Ends, it is gone only when the clock has shown them, and if it was refused,
\* the clock showed them then.
TimeInv ==
  \A id \in SessionIds :
    /\ due[id] # None => since[id] <= now /\ since[id] < due[id]
    /\ sessions[id] # None => due[id] # None /\ sessions[id].expires = Ends(id)
    /\ sessions[id] = None /\ due[id] # None => \E x \in since[id] .. now : Ends(id) <= WallClock(x)
    /\ sessions[id] # None /\ refused[id] # None =>
         refused[id] <= now /\ sessions[id].expires <= WallClock(refused[id])

LEMMA SessionTypeInit == InitSessions => SessionTypeOK /\ CallInv /\ OwnerInv
  BY SessionAssumption DEF InitSessions, SessionTypeOK, CallInv, OwnerInv, NoCall

LEMMA ClockType ==
  ASSUME SessionTypeOK
  PROVE  \A s \in Nat : addSeconds(WallClock(now), s) \in Int
  BY SessionAssumption DEF SessionTypeOK, addSeconds, WallClock

LEMMA SessionTypeStep ==
  ASSUME SessionTypeOK, CallInv, [NextSession]_sessionVars
  PROVE  SessionTypeOK'
<1> USE SessionAssumption
<1>1. CASE UNCHANGED sessionVars
  BY <1>1 DEF SessionTypeOK, sessionVars
<1>2. CASE Tick
  BY <1>2 DEF SessionTypeOK, Tick, InTime
<1>3. CASE purge_expired_sessions
  BY <1>3 DEF SessionTypeOK, purge_expired_sessions
<1>4. ASSUME NEW t \in Threads, create(t) PROVE SessionTypeOK'
  <2>1. addSeconds(WallClock(now), Timeout) \in Int /\ call[t].user \in Users /\ now + Timeout \in Nat
    BY <1>4, ClockType DEF create, CallInv, SessionTypeOK
  <2>2. PICK id \in SessionIds :
          /\ sessions' = [sessions EXCEPT ![id] =
                            [user |-> call[t].user, expires |-> addSeconds(WallClock(now), Timeout)]]
          /\ since' = [since EXCEPT ![id] = now]
          /\ due' = [due EXCEPT ![id] = now + Timeout]
          /\ owner' = [owner EXCEPT ![id] = call[t].user]
    BY <1>4 DEF create
  <2>3. sessions' \in [SessionIds -> [user : Users, expires : Int] \cup {None}]
    BY <2>1, <2>2 DEF SessionTypeOK
  <2>4. /\ since' \in [SessionIds -> 0 .. MaxTime]
        /\ due' \in [SessionIds -> Nat \cup {None}] /\ owner' \in [SessionIds -> Users \cup {None}]
    BY <2>1, <2>2 DEF SessionTypeOK
  <2> QED
    BY <1>4, <2>3, <2>4 DEF create, Leave, NoCall, SessionTypeOK
<1>5. ASSUME NEW t \in Threads, Serve(t) PROVE SessionTypeOK'
  BY <1>5 DEF Serve, Leave, NoCall, SessionTypeOK
<1>6. ASSUME NEW t \in Threads, refresh(t) PROVE SessionTypeOK'
  <2>1. addSeconds(WallClock(now), RenewTime) \in Int /\ call[t].id \in SessionIds /\ now + RenewTime \in Nat
    BY <1>6, ClockType DEF refresh, CallInv, SessionTypeOK
  <2>2. CASE call[t].id \in Live
    <3>1. sessions[call[t].id] \in [user : Users, expires : Int]
      BY <2>2 DEF Live, SessionTypeOK
    <3>2. [sessions EXCEPT ![call[t].id].expires = addSeconds(WallClock(now), RenewTime)]
            \in [SessionIds -> [user : Users, expires : Int] \cup {None}]
      BY <2>1, <3>1 DEF SessionTypeOK
    <3>3. /\ sessions' = [sessions EXCEPT ![call[t].id].expires = addSeconds(WallClock(now), RenewTime)]
          /\ since' = [since EXCEPT ![call[t].id] = now]
          /\ due' = [due EXCEPT ![call[t].id] = now + RenewTime]
          /\ refused' = [refused EXCEPT ![call[t].id] = None]
      BY <1>6, <2>2 DEF refresh
    <3>4. /\ sessions' \in [SessionIds -> [user : Users, expires : Int] \cup {None}]
          /\ due' \in [SessionIds -> Nat \cup {None}]
          /\ since' \in [SessionIds -> 0 .. MaxTime]
          /\ refused' \in [SessionIds -> 0 .. MaxTime \cup {None}]
      BY <2>1, <3>2, <3>3 DEF SessionTypeOK
    <3> QED
      BY <1>6, <3>4 DEF refresh, Leave, NoCall, SessionTypeOK
  <2>3. CASE call[t].id \notin Live
    BY <1>6, <2>3 DEF refresh, Leave, NoCall, SessionTypeOK
  <2> QED
    BY <2>2, <2>3
<1>7. ASSUME NEW t \in Threads, NEW u \in Users, Login(t, u) PROVE SessionTypeOK'
  BY <1>7 DEF Login, SessionTypeOK
<1>8. ASSUME NEW t \in Threads, NEW id \in SessionIds, Validate(t, id) PROVE SessionTypeOK'
  <2>1. CASE Accepted(id)
    <3>1. sessions[id].user \in Users
      BY <2>1 DEF Accepted, Live, SessionTypeOK
    <3>2. /\ pc' = [pc EXCEPT ![t] = "serve"]
          /\ call' = [call EXCEPT ![t] = [user |-> sessions[id].user, id |-> id]]
          /\ UNCHANGED <<refused, now, sessions, mutex, since, due, owner>>
      BY <1>8, <2>1 DEF Validate
    <3> QED
      BY <3>1, <3>2 DEF SessionTypeOK
  <2>2. CASE ~Accepted(id)
    BY <1>8, <2>2 DEF Validate, SessionTypeOK
  <2> QED
    BY <2>1, <2>2
<1>9. ASSUME NEW t \in Threads, NEW id \in SessionIds, Renew(t, id) PROVE SessionTypeOK'
  BY <1>9 DEF Renew, SessionTypeOK
<1>10. ASSUME NEW t \in Threads, NEW id \in SessionIds, CallRefresh(t, id) PROVE SessionTypeOK'
  BY <1>10 DEF CallRefresh, SessionTypeOK
<1>11. ASSUME NEW id \in SessionIds, destroy(id) PROVE SessionTypeOK'
  BY <1>11 DEF destroy, SessionTypeOK
<1> QED
  BY <1>1, <1>2, <1>3, <1>4, <1>5, <1>6, <1>7, <1>8, <1>9, <1>10, <1>11
     DEF NextSession, HandlerStep

\* A step keeps CallInv when no id changes hands, and every handler that moves
\* leaves or comes to know what its next label asks for.
LEMMA CallFrame ==
  ASSUME CallInv, SessionTypeOK,
         \A id \in SessionIds : owner[id] # None => owner'[id] = owner[id],
         \A t \in Threads :
           \/ pc'[t] = pc[t] /\ call'[t] = call[t]
           \/ pc'[t] = "idle"
           \/ pc'[t] = "create" /\ call'[t].user \in Users
           \/ pc'[t] = "refresh" /\ call'[t].id \in SessionIds
           \/ /\ pc'[t] = "serve" /\ call'[t].user \in Users /\ call'[t].id \in SessionIds
              /\ owner[call'[t].id] = call'[t].user
  PROVE  CallInv'
<1> USE SessionAssumption
<1> SUFFICES ASSUME NEW t \in Threads
             PROVE  /\ pc'[t] \in {"create", "serve"} => call'[t].user \in Users
                    /\ pc'[t] \in {"serve", "refresh"} => call'[t].id \in SessionIds
                    /\ pc'[t] = "serve" => call'[t].user = owner'[call'[t].id]
  BY DEF CallInv
<1>1. CASE pc'[t] = pc[t] /\ call'[t] = call[t]
  BY <1>1 DEF CallInv
<1>2. CASE pc'[t] = "serve" /\ call'[t].user \in Users /\ call'[t].id \in SessionIds
           /\ owner[call'[t].id] = call'[t].user
  BY <1>2
<1> QED
  BY <1>1, <1>2

LEMMA CallStep ==
  ASSUME SessionTypeOK, CallInv, OwnerInv, [NextSession]_sessionVars
  PROVE  CallInv' /\ OwnerInv'
<1> USE SessionAssumption
<1>1. CASE UNCHANGED sessionVars
  BY <1>1 DEF CallInv, OwnerInv, sessionVars
<1>2. CASE Tick
  BY <1>2 DEF Tick, CallInv, OwnerInv
<1>3. CASE purge_expired_sessions
  BY <1>3 DEF purge_expired_sessions, CallInv, OwnerInv
<1>4. ASSUME NEW t \in Threads, create(t) PROVE CallInv' /\ OwnerInv'
  <2>1. PICK id \in SessionIds :
          /\ owner[id] = None
          /\ sessions' = [sessions EXCEPT ![id] =
                            [user |-> call[t].user, expires |-> addSeconds(WallClock(now), Timeout)]]
          /\ due' = [due EXCEPT ![id] = now + Timeout]
          /\ owner' = [owner EXCEPT ![id] = call[t].user]
    BY <1>4 DEF create
  <2>2. call[t].user \in Users /\ refused' = refused /\ Leave(t)
    BY <1>4 DEF create, CallInv
  <2>3. CallInv'
    BY <2>1, <2>2, CallFrame DEF Leave, SessionTypeOK
  <2>4. ASSUME NEW i \in SessionIds
        PROVE  /\ owner'[i] = None => sessions'[i] = None /\ due'[i] = None /\ refused'[i] = None
               /\ sessions'[i] # None => sessions'[i].user = owner'[i]
    BY <2>1, <2>2 DEF OwnerInv, SessionTypeOK
  <2> QED
    BY <2>3, <2>4 DEF OwnerInv
<1>5. ASSUME NEW t \in Threads, Serve(t) PROVE CallInv' /\ OwnerInv'
  <2>1. CallInv'
    BY <1>5, CallFrame DEF Serve, Leave, SessionTypeOK
  <2> QED
    BY <1>5, <2>1 DEF Serve, OwnerInv
<1>6. ASSUME NEW t \in Threads, refresh(t) PROVE CallInv' /\ OwnerInv'
  <2>1. CallInv'
    BY <1>6, CallFrame DEF refresh, Leave, SessionTypeOK
  <2>2. CASE call[t].id \in Live
    <3>1. /\ sessions' = [sessions EXCEPT ![call[t].id].expires = addSeconds(WallClock(now), RenewTime)]
          /\ due' = [due EXCEPT ![call[t].id] = now + RenewTime]
          /\ refused' = [refused EXCEPT ![call[t].id] = None] /\ owner' = owner
      BY <1>6, <2>2 DEF refresh
    <3>2. owner[call[t].id] # None /\ sessions[call[t].id] \in [user : Users, expires : Int]
      BY <2>2 DEF Live, OwnerInv, SessionTypeOK
    <3>3. OwnerInv'
      BY <3>1, <3>2 DEF OwnerInv, SessionTypeOK
    <3> QED
      BY <2>1, <3>3
  <2>3. CASE call[t].id \notin Live
    BY <1>6, <2>1, <2>3 DEF refresh, OwnerInv
  <2> QED
    BY <2>2, <2>3
<1>7. ASSUME NEW t \in Threads, NEW u \in Users, Login(t, u) PROVE CallInv' /\ OwnerInv'
  <2>1. CallInv'
    BY <1>7, CallFrame DEF Login, SessionTypeOK
  <2> QED
    BY <1>7, <2>1 DEF Login, OwnerInv
<1>8. ASSUME NEW t \in Threads, NEW id \in SessionIds, Validate(t, id) PROVE CallInv' /\ OwnerInv'
  <2>1. CASE Accepted(id)
    <3>1. /\ pc' = [pc EXCEPT ![t] = "serve"]
          /\ call' = [call EXCEPT ![t] = [user |-> sessions[id].user, id |-> id]]
          /\ UNCHANGED <<refused, sessions, due, owner>>
      BY <1>8, <2>1 DEF Validate
    <3>2. sessions[id].user \in Users /\ sessions[id].user = owner[id]
      BY <2>1 DEF Accepted, Live, SessionTypeOK, OwnerInv
    <3>3. CallInv'
      BY <3>1, <3>2, CallFrame DEF SessionTypeOK
    <3> QED
      BY <3>1, <3>3 DEF OwnerInv
  <2>2. CASE ~Accepted(id)
    <3>1. /\ UNCHANGED <<sessions, pc, call, due, owner>>
          /\ \A i \in SessionIds : owner[i] = None => refused'[i] = refused[i]
      BY <1>8, <2>2 DEF Validate, SessionTypeOK
    <3> QED
      BY <3>1 DEF CallInv, OwnerInv
  <2> QED
    BY <2>1, <2>2
<1>9. ASSUME NEW t \in Threads, NEW id \in SessionIds, Renew(t, id) PROVE CallInv' /\ OwnerInv'
  <2>1. CallInv'
    BY <1>9, CallFrame DEF Renew, SessionTypeOK
  <2> QED
    BY <1>9, <2>1 DEF Renew, OwnerInv
<1>10. ASSUME NEW t \in Threads, NEW id \in SessionIds, CallRefresh(t, id) PROVE CallInv' /\ OwnerInv'
  <2>1. CallInv'
    BY <1>10, CallFrame DEF CallRefresh, SessionTypeOK
  <2> QED
    BY <1>10, <2>1 DEF CallRefresh, OwnerInv
<1>11. ASSUME NEW id \in SessionIds, destroy(id) PROVE CallInv' /\ OwnerInv'
  BY <1>11 DEF destroy, CallInv, OwnerInv, SessionTypeOK
<1> QED
  BY <1>1, <1>2, <1>3, <1>4, <1>5, <1>6, <1>7, <1>8, <1>9, <1>10, <1>11
     DEF NextSession, HandlerStep

LEMMA OwnerInvariant == SessionSpec => [](SessionTypeOK /\ CallInv /\ OwnerInv)
<1>1. SessionTypeOK /\ CallInv /\ OwnerInv /\ [NextSession]_sessionVars
        => (SessionTypeOK /\ CallInv /\ OwnerInv)'
  BY SessionTypeStep, CallStep
<1> QED
  BY <1>1, SessionTypeInit, PTL DEF SessionSpec

\* The sessions, the handlers' variables and the clock keep their shape; a
\* session is created for a user whom login has found, never for nobody.
THEOREM SessionTypeCorrect == SessionSpec => []SessionTypeOK
  BY OwnerInvariant, PTL

\* Every handler works for the user that logged in: sessions that expire, are
\* purged, destroyed or refreshed while it runs never turn it to another user.
THEOREM OnBehalfOfOwnerHolds == SessionSpec => []OnBehalfOfOwner
<1>1. CallInv => OnBehalfOfOwner
  BY DEF CallInv, OnBehalfOfOwner
<1> QED
  BY <1>1, OwnerInvariant, PTL

LEMMA TimeInit == InitSessions => TimeInv
  BY DEF InitSessions, TimeInv

\* A session that is accepted has time left on the clock; one that has had time
\* left ever since it was given is accepted.
LEMMA AcceptedWhen ==
  ASSUME SessionTypeOK, TimeInv, NEW id \in SessionIds
  PROVE  /\ Accepted(id) => due[id] # None /\ WallClock(now) < Ends(id)
         /\ due[id] # None /\ (\A x \in since[id] .. now : WallClock(x) < Ends(id)) => Accepted(id)
<1> USE SessionAssumption
<1>1. /\ now \in Int /\ since[id] \in Int /\ WallClock(now) \in Int
      /\ due[id] # None => now \in since[id] .. now /\ Ends(id) \in Int
  BY DEF SessionTypeOK, TimeInv, WallClock, Ends, addSeconds
<1>2. CASE sessions[id] = None
  <2>1. \A x \in since[id] .. now : WallClock(x) \in Int
    BY <1>1 DEF WallClock
  <2> QED
    BY <1>1, <1>2, <2>1 DEF Accepted, Live, TimeInv
<1>3. CASE sessions[id] # None
  BY <1>1, <1>3 DEF Accepted, Live, Expired, TimeInv
<1> QED
  BY <1>2, <1>3

LEMMA TimeStep ==
  ASSUME SessionTypeOK, CallInv, OwnerInv, TimeInv, [NextSession]_sessionVars
  PROVE  TimeInv'
<1> USE SessionAssumption
<1>0. /\ now \in Nat /\ WallClock(now) \in Int
      /\ \A id \in SessionIds : since[id] \in Int /\ (due[id] # None => due[id] \in Nat)
      /\ \A id \in SessionIds : sessions[id] # None => sessions[id].expires \in Int
  BY DEF SessionTypeOK, WallClock
<1>1. CASE UNCHANGED sessionVars
  BY <1>1 DEF TimeInv, Ends, sessionVars
<1>2. CASE Tick
  <2>1. now' = now + 1 /\ UNCHANGED <<sessions, since, due, refused>>
    BY <1>2 DEF Tick
  <2>2. \A id \in SessionIds : since[id] .. now \subseteq since[id] .. now' /\ Ends(id)' = Ends(id)
    BY <1>0, <2>1 DEF Ends
  <2>3. \A id \in SessionIds : refused[id] # None => refused[id] \in Int
    BY DEF SessionTypeOK
  <2>4. ASSUME NEW id \in SessionIds
        PROVE  /\ due[id] # None => since[id] <= now' /\ since[id] < due[id]
               /\ sessions[id] # None => due[id] # None /\ sessions[id].expires = Ends(id)
               /\ sessions[id] # None /\ refused[id] # None =>
                    refused[id] <= now' /\ sessions[id].expires <= WallClock(refused[id])
    BY <1>0, <2>1, <2>3 DEF TimeInv
  <2>5. ASSUME NEW id \in SessionIds, sessions[id] = None, due[id] # None
        PROVE  \E x \in since[id] .. now' : Ends(id) <= WallClock(x)
    BY <2>2, <2>5 DEF TimeInv
  <2> QED
    BY <2>1, <2>2, <2>4, <2>5 DEF TimeInv
<1>3. CASE purge_expired_sessions
  <2>1. /\ \A id \in SessionIds : sessions'[id] = IF Accepted(id) THEN sessions[id] ELSE None
        /\ UNCHANGED <<now, since, due, refused>>
    BY <1>3 DEF purge_expired_sessions
  <2>2. ASSUME NEW id \in SessionIds, sessions[id] # None, ~Accepted(id)
        PROVE  now \in since[id] .. now /\ Ends(id) <= WallClock(now)
    BY <1>0, <2>2 DEF Accepted, Live, Expired, TimeInv
  <2>3. \A id \in SessionIds : Ends(id)' = Ends(id)
    BY <2>1 DEF Ends
  <2> QED
    BY <2>1, <2>2, <2>3 DEF TimeInv
<1>4. ASSUME NEW t \in Threads, create(t) PROVE TimeInv'
  <2>1. PICK id \in SessionIds :
          /\ owner[id] = None
          /\ sessions' = [sessions EXCEPT ![id] =
                            [user |-> call[t].user, expires |-> addSeconds(WallClock(now), Timeout)]]
          /\ since' = [since EXCEPT ![id] = now]
          /\ due' = [due EXCEPT ![id] = now + Timeout]
    BY <1>4 DEF create
  <2>2. addSeconds(WallClock(now), Timeout) \in Int /\ call[t].user \in Users
    BY <1>4, ClockType DEF create, CallInv, SessionTypeOK
  <2>3. /\ sessions'[id] = [user |-> call[t].user, expires |-> addSeconds(WallClock(now), Timeout)]
        /\ since'[id] = now /\ due'[id] = now + Timeout
    BY <2>1 DEF SessionTypeOK
  <2>4. refused[id] = None /\ refused' = refused /\ now' = now
    BY <1>4, <2>1 DEF create, OwnerInv
  <2>5. /\ sessions'[id] # None /\ due'[id] # None /\ sessions'[id].expires = Ends(id)'
        /\ since'[id] <= now' /\ since'[id] < due'[id]
    <3>1. due'[id] - since'[id] = Timeout
      BY <1>0, <2>3
    <3>2. Ends(id)' = addSeconds(WallClock(now), Timeout)
      BY <2>3, <3>1 DEF Ends, addSeconds, WallClock
    <3> QED
      BY <1>0, <2>2, <2>3, <2>4, <3>2
  <2>6. \A i \in SessionIds \ {id} : /\ sessions'[i] = sessions[i] /\ due'[i] = due[i]
                                     /\ since'[i] = since[i] /\ Ends(i)' = Ends(i)
    BY <2>1 DEF SessionTypeOK, Ends
  <2> QED
    BY <2>4, <2>5, <2>6 DEF TimeInv
<1>5. ASSUME NEW t \in Threads, refresh(t) PROVE TimeInv'
  <2>0. PICK id : id = call[t].id
    OBVIOUS
  <2>1. CASE id \in Live
    <3>1. /\ sessions' = [sessions EXCEPT ![id].expires = addSeconds(WallClock(now), RenewTime)]
          /\ since' = [since EXCEPT ![id] = now]
          /\ due' = [due EXCEPT ![id] = now + RenewTime]
          /\ refused' = [refused EXCEPT ![id] = None] /\ now' = now
      BY <1>5, <2>0, <2>1 DEF refresh
    <3>2. id \in SessionIds /\ sessions[id] \in [user : Users, expires : Int]
      BY <2>1 DEF Live, SessionTypeOK
    <3>3. addSeconds(WallClock(now), RenewTime) \in Int
      BY ClockType
    <3>4. /\ sessions'[id] = [sessions[id] EXCEPT !.expires = addSeconds(WallClock(now), RenewTime)]
          /\ since'[id] = now /\ due'[id] = now + RenewTime /\ refused'[id] = None
      BY <3>1, <3>2 DEF SessionTypeOK
    <3>5. sessions'[id] # None /\ sessions'[id].expires = addSeconds(WallClock(now), RenewTime)
      <4>1. sessions'[id] \in [user : Users, expires : Int]
        BY <3>2, <3>3, <3>4
      <4> QED
        BY <3>2, <3>4, <4>1
    <3>6. /\ due'[id] # None /\ sessions'[id].expires = Ends(id)'
          /\ since'[id] <= now' /\ since'[id] < due'[id]
      <4>1. due'[id] - since'[id] = RenewTime
        BY <1>0, <3>4
      <4>2. Ends(id)' = addSeconds(WallClock(now), RenewTime)
        BY <3>4, <4>1 DEF Ends, addSeconds, WallClock
      <4> QED
        BY <1>0, <3>1, <3>4, <3>5, <4>2
    <3>7. \A i \in SessionIds \ {id} : /\ sessions'[i] = sessions[i] /\ due'[i] = due[i]
                                       /\ since'[i] = since[i] /\ Ends(i)' = Ends(i)
                                       /\ refused'[i] = refused[i]
      BY <3>1, <3>2 DEF SessionTypeOK, Ends
    <3>8. now' = now
      BY <3>1
    <3> QED
      <4>1. ASSUME NEW i \in SessionIds
            PROVE  /\ due'[i] # None => since'[i] <= now' /\ since'[i] < due'[i]
                   /\ sessions'[i] # None => due'[i] # None /\ sessions'[i].expires = Ends(i)'
                   /\ sessions'[i] = None /\ due'[i] # None =>
                        \E x \in since'[i] .. now' : Ends(i)' <= WallClock(x)
                   /\ sessions'[i] # None /\ refused'[i] # None =>
                        refused'[i] <= now' /\ sessions'[i].expires <= WallClock(refused'[i])
        <5>1. CASE i = id
          BY <3>4, <3>5, <3>6, <5>1
        <5>2. CASE i # id
          BY <3>7, <3>8, <5>2 DEF TimeInv
        <5> QED
          BY <5>1, <5>2
      <4> QED
        BY <4>1 DEF TimeInv
  <2>2. CASE id \notin Live
    BY <1>5, <2>0, <2>2 DEF refresh, TimeInv, Ends
  <2> QED
    BY <2>1, <2>2
<1>6. ASSUME NEW t \in Threads, NEW id \in SessionIds, Validate(t, id) PROVE TimeInv'
  <2>1. UNCHANGED <<now, sessions, since, due>>
    BY <1>6 DEF Validate
  <2>2. CASE Accepted(id)
    BY <1>6, <2>1, <2>2 DEF Validate, TimeInv, Ends
  <2>3. CASE ~Accepted(id)
    <3>1. \A i \in SessionIds : refused'[i] = refused[i] \/ (i = id /\ refused'[i] = now)
      BY <1>6, <2>3 DEF Validate, SessionTypeOK
    <3>2. sessions[id] # None => now <= now /\ sessions[id].expires <= WallClock(now)
      BY <1>0, <2>3 DEF Accepted, Live, Expired
    <3>3. \A i \in SessionIds : Ends(i)' = Ends(i)
      BY <2>1 DEF Ends
    <3> QED
      BY <2>1, <3>1, <3>2, <3>3 DEF TimeInv
  <2> QED
    BY <2>2, <2>3
<1>7. ASSUME NEW id \in SessionIds, destroy(id) PROVE TimeInv'
  <2>1. /\ sessions'[id] = None /\ due'[id] = None
        /\ \A i \in SessionIds \ {id} : sessions'[i] = sessions[i] /\ due'[i] = due[i]
        /\ UNCHANGED <<now, since, refused>>
    BY <1>7 DEF destroy, SessionTypeOK
  <2>2. \A i \in SessionIds \ {id} : Ends(i)' = Ends(i)
    BY <2>1 DEF Ends
  <2> QED
    BY <2>1, <2>2 DEF TimeInv
<1>8. CASE UNCHANGED <<now, sessions, since, due, refused>>
  BY <1>8 DEF TimeInv, Ends
<1> QED
  BY <1>1, <1>2, <1>3, <1>4, <1>5, <1>6, <1>7, <1>8
     DEF NextSession, HandlerStep, Serve, Login, Renew, CallRefresh

SessionInv == SessionTypeOK /\ CallInv /\ OwnerInv /\ TimeInv

LEMMA SessionInvariant == SessionSpec => []SessionInv
<1>1. InitSessions => SessionInv
  BY SessionTypeInit, TimeInit DEF SessionInv
<1>2. SessionInv /\ [NextSession]_sessionVars => SessionInv'
  BY SessionTypeStep, CallStep, TimeStep DEF SessionInv
<1> QED
  BY <1>1, <1>2, PTL DEF SessionSpec

\* Whenever the clock is changed, a session is accepted until its time is over
\* (unless daylight saving time begins and ends within it), for less than two
\* shifts of the clock longer, and exactly as long as the clock says while no
\* change of the clock is met.
THEOREM LifetimeKeptHolds == SessionSpec => []LifetimeKept
<1>1. SessionInv => LifetimeKept
  <2> USE SessionAssumption
  <2> SUFFICES ASSUME SessionInv, NEW id \in SessionIds
               PROVE  /\ Accepted(id) => due[id] # None /\ now < due[id] + 2 * Shift
                      /\ due[id] # None =>
                           /\ now < due[id] /\ ~SummerWithin(id) => Accepted(id)
                           /\ (since[id] .. now \cup {due[id]}) \cap Summer = {} =>
                                (Accepted(id) <=> now < due[id])
                           /\ since[id] .. now \cup {due[id] + Shift} \subseteq Summer =>
                                (Accepted(id) <=> now < due[id] + Shift)
    BY DEF LifetimeKept
  <2>1. Accepted(id) => due[id] # None
    BY AcceptedWhen DEF SessionInv
  <2> SUFFICES ASSUME due[id] # None
               PROVE  /\ Accepted(id) => now < due[id] + 2 * Shift
                      /\ now < due[id] /\ ~SummerWithin(id) => Accepted(id)
                      /\ (since[id] .. now \cup {due[id]}) \cap Summer = {} =>
                           (Accepted(id) <=> now < due[id])
                      /\ since[id] .. now \cup {due[id] + Shift} \subseteq Summer =>
                           (Accepted(id) <=> now < due[id] + Shift)
    BY <2>1
  <2> DEFINE c == since[id]
             d == due[id]
  <2>2. /\ now \in Int /\ c \in Int /\ d \in Int /\ Shift \in Nat
        /\ c <= now /\ c < d
    BY DEF SessionInv, SessionTypeOK, TimeInv
  <2>3. \A x \in Int : WallClock(x) = IF x \in Summer THEN x + Shift ELSE x
    BY DEF WallClock
  <2>4. Ends(id) = WallClock(WallClock(c) + (d - c))
    BY DEF Ends, addSeconds
  <2>5. /\ c \in Summer => Ends(id) = WallClock(d + Shift)
        /\ c \notin Summer => Ends(id) = WallClock(d)
    <3>1. c \in Summer => WallClock(c) + (d - c) = d + Shift
      BY <2>2, <2>3
    <3>2. c \notin Summer => WallClock(c) + (d - c) = d
      BY <2>2, <2>3
    <3> QED
      BY <2>4, <3>1, <3>2
  <2>6. /\ Accepted(id) => WallClock(now) < Ends(id)
        /\ (\A x \in c .. now : WallClock(x) < Ends(id)) => Accepted(id)
    BY AcceptedWhen DEF SessionInv
  <2> HIDE DEF c, d
  <2>7. Accepted(id) => now < d + 2 * Shift
    BY <2>2, <2>3, <2>5, <2>6
  <2>8. ASSUME now < d, ~SummerWithin(id) PROVE Accepted(id)
    <3>1. CASE c \in Summer
      BY <2>2, <2>3, <2>5, <2>6, <2>8, <3>1
    <3>2. CASE c \notin Summer /\ d \in Summer
      BY <2>2, <2>3, <2>5, <2>6, <2>8, <3>2
    <3>3. CASE c \notin Summer /\ d \notin Summer
      <4>1. c .. now \subseteq c .. d
        BY <2>2, <2>8
      <4>2. \A x \in c .. now : x \notin Summer
        BY <2>8, <3>3, <4>1 DEF SummerWithin, c, d
      <4> QED
        BY <2>2, <2>3, <2>5, <2>6, <2>8, <3>3, <4>2
    <3> QED
      BY <3>1, <3>2, <3>3
  <2>9. ASSUME (c .. now \cup {d}) \cap Summer = {}
        PROVE  Accepted(id) <=> now < d
    <3>1. d \notin Summer /\ (\A x \in c .. now : x \notin Summer) /\ c \in c .. now /\ now \in c .. now
      BY <2>2, <2>9
    <3> QED
      BY <2>2, <2>3, <2>5, <2>6, <3>1
  <2>10. ASSUME c .. now \cup {d + Shift} \subseteq Summer
         PROVE  Accepted(id) <=> now < d + Shift
    <3>1. /\ d + Shift \in Summer /\ (\A x \in c .. now : x \in Summer)
          /\ c \in c .. now /\ now \in c .. now
      BY <2>2, <2>10
    <3>2. Ends(id) = d + Shift + Shift
      BY <2>2, <2>3, <2>5, <3>1
    <3> QED
      BY <2>2, <2>3, <2>6, <3>1, <3>2
  <2> QED
    BY <2>7, <2>8, <2>9, <2>10 DEF c, d
<1> QED
  BY <1>1, SessionInvariant, PTL

\* Whenever the clock is changed, a session that was refused is accepted again
\* only when it was refused in daylight saving time that is over now, and the
\* instant is within the shift of the clock from the refusal.
THEOREM NeverRevivedHolds == SessionSpec => []NeverRevived
<1>1. SessionInv => NeverRevived
  <2> USE SessionAssumption
  <2> SUFFICES ASSUME SessionInv, NEW id \in SessionIds, refused[id] # None, Accepted(id)
               PROVE  refused[id] \in Summer /\ now \notin Summer /\ now < refused[id] + Shift
    BY DEF NeverRevived
  <2>1. /\ refused[id] \in Int /\ now \in Int /\ Shift \in Nat
        /\ sessions[id] # None /\ sessions[id].expires \in Int
    BY DEF SessionInv, SessionTypeOK, Accepted, Live
  <2>2. refused[id] <= now /\ sessions[id].expires <= WallClock(refused[id])
    BY <2>1 DEF SessionInv, TimeInv
  <2>3. WallClock(now) < sessions[id].expires
    BY <2>1 DEF Accepted, Expired, WallClock
  <2> QED
    BY <2>1, <2>2, <2>3 DEF WallClock
<1> QED
  BY <1>1, SessionInvariant, PTL
===============================================================================
