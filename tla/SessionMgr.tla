------------------------------ MODULE SessionMgr ------------------------------
(***************************************************************************)
(* The sessions in memory (SessionMgr), the handlers that create and check  *)
(* them, and the worker that purges them.  Every method of SessionMgr runs  *)
(* under one mutex, so it is one action; the mutex is a variable because    *)
(* the renewing overload of validate_session_and_get_user_id asks for it a  *)
(* second time.  A handler that has checked its session goes on without the *)
(* mutex: time passes and sessions end before it has done its work.         *)
(* DeleteSession and UpdateSession have empty bodies: they are not actions.  *)
(*                                                                          *)
(* Time is an instant; the code keeps the digits a wall clock shows.  All   *)
(* of DateTime parses them with tm_isdst = 0, that is, as standard time.    *)
(***************************************************************************)
EXTENDS Integers, FiniteSets

CONSTANTS
  Users,       \* users that log in
  SessionIds,  \* session ids; a UUID is never generated twice
  Threads,     \* handler threads
  Timeout,     \* session.timeout of the configuration
  RenewTime,   \* what the renewing overload gives a session
  Summer,      \* the instants at which daylight saving time is in force
  Shift,       \* by how much it moves the clock
  Methods,     \* methods no handler calls, called nevertheless
  MaxTime,     \* bound: the clock stops here, and all sessions are over
  None

VARIABLES
  now,       \* the instant
  sessions,  \* sessions_map_: id -> [user, expires], or None
  mutex,     \* mutex_: its owner, or None
  pc,        \* pc[t]: where handler t is
  call,      \* call[t]: the user that logs in, or the session and its user
  since,     \* history: the instant at which a session was last given time
  due,       \* history: the instant at which that time is over, or None
  refused,   \* history: the instant at which it was last refused since, or None
  owner      \* history: the user that logged in for the id, or None

sessionVars == <<now, sessions, mutex, pc, call, since, due, refused, owner>>

NoCall == [user |-> None, id |-> None]

ASSUME SessionAssumption ==
  /\ Timeout \in Nat \ {0} /\ RenewTime \in Nat \ {0} /\ Shift \in Nat /\ MaxTime \in Nat
  /\ Methods \subseteq {"destroy", "refresh", "renew"}
  /\ None \notin Users \cup SessionIds \cup Threads
  /\ None \notin [user : Users, expires : Int] /\ None \notin Int
-------------------------------------------------------------------------------
\* Mutated form of WallClock: a format that shows half a day (%I for %H).
TwelveHourClock(x) == x % 3

\* getCurrentDateTime, for the instant x.
WallClock(x) == IF x \in Summer THEN x + Shift ELSE x

\* mktime takes the digits for standard time and localtime_r shows the later
\* instant as the clock will show it.
addSeconds(wall, s) == WallClock(wall + s)

\* Mutated form of Expired: a session that ends now is still valid.
ExpiredLate(id) == sessions[id].expires < WallClock(now)

\* 0 >= compareDateTimes(expires_time, now)
Expired(id) == sessions[id].expires <= WallClock(now)

Live == {id \in SessionIds : sessions[id] # None}
Accepted(id) == id \in Live /\ ~Expired(id)
-------------------------------------------------------------------------------
InitSessions ==
  /\ now = 0
  /\ sessions = [id \in SessionIds |-> None]
  /\ mutex = None
  /\ pc = [t \in Threads |-> "idle"]
  /\ call = [t \in Threads |-> NoCall]
  /\ since = [id \in SessionIds |-> now]
  /\ due = [id \in SessionIds |-> None]
  /\ refused = [id \in SessionIds |-> None]
  /\ owner = [id \in SessionIds |-> None]

\* Bounds: what a handler is about to start is over when the clock stops, and
\* there is an id for every handler that creates a session.
InTime(s) == now + s <= MaxTime
Pending(label) == {t \in Threads : pc[t] = label}
SpareIds == Cardinality({id \in SessionIds : owner[id] = None}) > Cardinality(Pending("create"))

Tick == /\ InTime(1)
        /\ Pending("create") # {} => InTime(Timeout + 1)
        /\ Pending("refresh") # {} => InTime(RenewTime + 1)
        /\ now' = now + 1
        /\ UNCHANGED <<sessions, mutex, pc, call, since, due, refused, owner>>

\* CreateSession has found the user and compared the digests.
Login(t, u) == /\ pc[t] = "idle"
               /\ InTime(Timeout) /\ SpareIds
               /\ pc' = [pc EXCEPT ![t] = "create"]
               /\ call' = [call EXCEPT ![t].user = u]
               /\ UNCHANGED <<now, sessions, mutex, since, due, refused, owner>>

\* Handler t is over.
Leave(t) == /\ pc' = [pc EXCEPT ![t] = "idle"]
            /\ call' = [call EXCEPT ![t] = NoCall]

\* Mutated form of create: the session is made before its user is known.
createAnonymous(t) ==
  /\ pc[t] = "create" /\ mutex = None
  /\ \E id \in SessionIds :
       /\ owner[id] = None
       /\ sessions' = [sessions EXCEPT ![id] =
                         [user |-> None, expires |-> addSeconds(WallClock(now), Timeout)]]
       /\ since' = [since EXCEPT ![id] = now]
       /\ due' = [due EXCEPT ![id] = now + Timeout]
       /\ owner' = [owner EXCEPT ![id] = call[t].user]
  /\ Leave(t)
  /\ UNCHANGED <<now, mutex, refused>>

\* Mutated form of create: an id may be generated again, and replaces the
\* session that has it.
createReusing(t) ==
  /\ pc[t] = "create" /\ mutex = None
  /\ \E id \in SessionIds :
       /\ sessions' = [sessions EXCEPT ![id] =
                         [user |-> call[t].user, expires |-> addSeconds(WallClock(now), Timeout)]]
       /\ since' = [since EXCEPT ![id] = now]
       /\ due' = [due EXCEPT ![id] = now + Timeout]
       /\ owner' = [owner EXCEPT ![id] = call[t].user]
  /\ Leave(t)
  /\ UNCHANGED <<now, mutex, refused>>

\* SessionMgr::create.
create(t) ==
  /\ pc[t] = "create" /\ mutex = None
  /\ \E id \in SessionIds :
       /\ owner[id] = None
       /\ sessions' = [sessions EXCEPT ![id] =
                         [user |-> call[t].user, expires |-> addSeconds(WallClock(now), Timeout)]]
       /\ since' = [since EXCEPT ![id] = now]
       /\ due' = [due EXCEPT ![id] = now + Timeout]
       /\ owner' = [owner EXCEPT ![id] = call[t].user]
  /\ Leave(t)
  /\ UNCHANGED <<now, mutex, refused>>

\* validate_session_and_get_user_id, with which every handler but CreateUser,
\* ListUsernames and CreateSession begins: it goes on with the user of the
\* session, or answers that the session is not valid.
Validate(t, id) ==
  /\ pc[t] = "idle" /\ mutex = None
  /\ \/ /\ Accepted(id)
        /\ pc' = [pc EXCEPT ![t] = "serve"]
        /\ call' = [call EXCEPT ![t] = [user |-> sessions[id].user, id |-> id]]
        /\ UNCHANGED refused
     \/ /\ ~Accepted(id)
        /\ refused' = [refused EXCEPT ![id] = IF owner[id] # None THEN now ELSE @]
        /\ UNCHANGED <<pc, call>>
  /\ UNCHANGED <<now, sessions, mutex, since, due, owner>>

\* The handler reads and writes rows of the user it was told, and replies.
Serve(t) == /\ pc[t] = "serve"
            /\ Leave(t)
            /\ UNCHANGED <<now, sessions, mutex, since, due, refused, owner>>

\* Mutated form of purge_expired_sessions: the condition is reversed.
PurgeValid ==
  /\ mutex = None
  /\ \E id \in Live : ~Expired(id)
  /\ sessions' = [id \in SessionIds |-> IF Accepted(id) THEN None ELSE sessions[id]]
  /\ UNCHANGED <<now, mutex, pc, call, since, due, refused, owner>>

\* Application::periodic_task_worker, whenever its sleep is over.
purge_expired_sessions ==
  /\ mutex = None
  /\ \E id \in Live : Expired(id)
  /\ sessions' = [id \in SessionIds |-> IF Accepted(id) THEN sessions[id] ELSE None]
  /\ UNCHANGED <<now, mutex, pc, call, since, due, refused, owner>>
-------------------------------------------------------------------------------
\* Methods that no handler calls.

destroy(id) == /\ "destroy" \in Methods /\ mutex = None
               /\ sessions' = [sessions EXCEPT ![id] = None]
               /\ due' = [due EXCEPT ![id] = None]
               /\ UNCHANGED <<now, mutex, pc, call, since, refused, owner>>

CallRefresh(t, id) == /\ "refresh" \in Methods
                      /\ pc[t] = "idle" /\ InTime(RenewTime + 1)
                      /\ pc' = [pc EXCEPT ![t] = "refresh"]
                      /\ call' = [call EXCEPT ![t].id = id]
                      /\ UNCHANGED <<now, sessions, mutex, since, due, refused, owner>>

\* validate_session_and_get_user_id with renew: it still holds the mutex when
\* it calls refresh.
Renew(t, id) == /\ "renew" \in Methods /\ mutex = None
                /\ pc[t] = "idle" /\ InTime(RenewTime + 1)
                /\ Accepted(id)
                /\ mutex' = t
                /\ pc' = [pc EXCEPT ![t] = "refresh"]
                /\ call' = [call EXCEPT ![t].id = id]
                /\ UNCHANGED <<now, sessions, since, due, refused, owner>>

\* refresh takes the mutex, which is not recursive.  It does not ask whether
\* the session has expired.
refresh(t) ==
  /\ pc[t] = "refresh" /\ mutex = None
  /\ LET id == call[t].id
     IN  \/ /\ id \in Live
            /\ sessions' = [sessions EXCEPT ![id].expires = addSeconds(WallClock(now), RenewTime)]
            /\ since' = [since EXCEPT ![id] = now]
            /\ due' = [due EXCEPT ![id] = now + RenewTime]
            /\ refused' = [refused EXCEPT ![id] = None]
         \/ id \notin Live /\ UNCHANGED <<sessions, since, due, refused>>
  /\ Leave(t)
  /\ UNCHANGED <<now, mutex, owner>>

HandlerStep(t) == create(t) \/ Serve(t) \/ refresh(t)

NextSession ==
  \/ Tick
  \/ purge_expired_sessions
  \/ \E t \in Threads : \/ HandlerStep(t)
                        \/ \E u \in Users : Login(t, u)
                        \/ \E id \in SessionIds : Validate(t, id) \/ Renew(t, id) \/ CallRefresh(t, id)
  \/ \E id \in SessionIds : destroy(id)

SessionSpec == InitSessions /\ [][NextSession]_sessionVars

\* The clock goes on whatever handlers do, the worker wakes up again and again,
\* handlers run.
FairSessionSpec == /\ SessionSpec
                   /\ WF_sessionVars(Tick) /\ WF_sessionVars(purge_expired_sessions)
                   /\ \A t \in Threads : WF_sessionVars(HandlerStep(t))
-------------------------------------------------------------------------------
SessionTypeOK ==
  /\ now \in 0 .. MaxTime
  /\ sessions \in [SessionIds -> [user : Users, expires : Int] \cup {None}]
  /\ mutex \in Threads \cup {None}
  /\ pc \in [Threads -> {"idle", "create", "serve", "refresh"}]
  /\ call \in [Threads -> [user : Users \cup {None}, id : SessionIds \cup {None}]]
  /\ since \in [SessionIds -> 0 .. MaxTime]
  /\ due \in [SessionIds -> Nat \cup {None}]
  /\ refused \in [SessionIds -> 0 .. MaxTime \cup {None}]
  /\ owner \in [SessionIds -> Users \cup {None}]

\* A session is accepted exactly until its time is over, on the clock of the
\* world, whatever is created, purged or refreshed in between.  The code keeps
\* this in standard time only.
ExactLifetime ==
  \A id \in SessionIds : Accepted(id) <=> due[id] # None /\ now < due[id]

\* Daylight saving time begins and ends while the session lasts.
SummerWithin(id) == /\ {since[id], due[id]} \cap Summer = {}
                    /\ (since[id] .. due[id]) \cap Summer # {}

\* What is left of that when the clock may be changed at any time (addSeconds,
\* compareDateTimes): a session never ends before its time is over, and never
\* lasts longer by twice the shift of the clock.  In standard time it ends when
\* its time is over; within daylight saving time one shift later.
LifetimeKept ==
  \A id \in SessionIds :
    /\ Accepted(id) => due[id] # None /\ now < due[id] + 2 * Shift
    /\ due[id] # None =>
         /\ now < due[id] /\ ~SummerWithin(id) => Accepted(id)
         /\ (since[id] .. now \cup {due[id]}) \cap Summer = {} => (Accepted(id) <=> now < due[id])
         /\ since[id] .. now \cup {due[id] + Shift} \subseteq Summer =>
              (Accepted(id) <=> now < due[id] + Shift)

\* A session that was refused is accepted again only if the clock has been put
\* back since, and within the shift: purge, which may come too late, and the
\* methods that change a session do not bring one back (a refresh gives it new
\* time).
NeverRevived ==
  \A id \in SessionIds : refused[id] # None /\ Accepted(id) =>
    refused[id] \in Summer /\ now \notin Summer /\ now < refused[id] + Shift

\* A handler works for the user that logged in, even when the session it was
\* started with has expired or has been purged meanwhile.
OnBehalfOfOwner ==
  \A t \in Threads : pc[t] = "serve" => call[t].user = owner[call[t].id]

\* The map does not keep sessions for ever: each one that was ever created is
\* purged once it is no longer refreshed (MaxTime bounds the refreshes), unless
\* the renewing overload has taken the mutex, which it waits for for ever.
EventuallyPurged ==
  \A id \in SessionIds : sessions[id] # None ~> sessions[id] = None \/ mutex # None
===============================================================================
