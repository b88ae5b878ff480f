-------------------------------- MODULE Daemon --------------------------------
(***************************************************************************)
(* The life of zinpassd: it turns into a daemon, reads its configuration,   *)
(* creates the database, opens the connection pool, starts the control and  *)
(* the client server and the detached worker, waits for the two servers and *)
(* destroys its statics; the calls its servers accept meanwhile, among them *)
(* those of zinpassctl; and its death at any point of this.                 *)
(*                                                                          *)
(* Every call of LogManager::add_log is an action of its own: a thread goes *)
(* on only when it has come back from notify_one.                           *)
(***************************************************************************)
EXTENDS LogManager, AppConfig

CONSTANTS Files,      \* the configuration files to start from
          ControlCallers, ClientCallers, \* zinpassctl, the desktop client
          MaxPurges,  \* bound: rounds of the detached worker in a process
          CanDie,     \* whether the process may be killed
          TmpLog      \* LOG_DEFAULT_PATH

Servers == {"control", "client"}
Callers == ControlCallers \cup ClientCallers
DB == "database.path"
LOG == "log.path"

ASSUME DaemonAssumption ==
  /\ LogThreads = {"main", "timer"} \cup Servers \cup Callers
  /\ ({"main", "timer"} \cup Servers) \cap Callers = {}
  /\ ControlCallers \cap ClientCallers = {}
  /\ Files \subseteq ConfigFiles /\ Keys = {DB, LOG} /\ TmpLog \in Values
  /\ MaxPurges \in Nat /\ CanDie \in BOOLEAN

VARIABLES file,     \* service_config.yml
          disk,     \* disk[p]: the database file at path p: "absent", "empty", "ready"
          members,  \* AppConfig
          main,     \* what the main thread does next
          pool,     \* the path the connection pool has open, or Absent
          is_running,
          server,   \* server[s]: what the thread of server s does next
          purges,   \* rounds of the detached worker
          call,     \* call[c]: the call of c in its handler, "return", "idle"
          damaged   \* history: databases whose creation was cut off or failed

processVars == <<members, main, pool, is_running, server, purges, call>>
daemonVars == <<logVars, processVars, file, disk, damaged>>

Fresh == /\ members = DefaultMembers /\ main = "off" /\ pool = Absent
         /\ is_running = TRUE /\ server = [s \in Servers |-> "off"]
         /\ purges = 0 /\ call = [c \in Callers |-> "idle"]

InitDaemon == /\ InitLog /\ Fresh
              /\ file \in Files
              /\ disk = [p \in Values |-> "absent"]
              /\ damaged = {}

\* The memory of the process is gone: its threads, its statics, its calls.
Vanish == /\ ResetLog
          /\ members' = DefaultMembers /\ main' = "off" /\ pool' = Absent
          /\ is_running' = TRUE /\ server' = [s \in Servers |-> "off"]
          /\ purges' = 0 /\ call' = [c \in Callers |-> "idle"]
-------------------------------------------------------------------------------
\* daemonize: forks twice.  Any of its steps may fail: then the process is
\* gone with the messages it has kept, and nothing has changed.
daemonize ==
  /\ main = "off"
  /\ main' = "configure"
  /\ UNCHANGED <<logVars, members, pool, is_running, server, purges, call, file, disk, damaged>>

\* Application::init, its first step: the result of reading is not looked at.
configure ==
  /\ main = "configure"
  /\ members' = ReadConfig(DefaultMembers, file)
  /\ \E writable \in BOOLEAN : file' = WrittenBack(file, writable)
  /\ main' = "say_startup"
  /\ UNCHANGED <<logVars, pool, is_running, server, purges, call, disk, damaged>>

\* What the main thread logs, and where it goes on.
Script ==
  [say_startup     |-> <<"startup", "say_config">>,
   say_config      |-> <<"config", "find_db">>,
   say_creating    |-> <<"creating", "create">>,
   say_no_db       |-> <<"open failed", "open_pool">>,
   say_sql_error   |-> <<"SQL error", "say_created">>,
   say_created     |-> <<"created", "open_pool">>,
   say_pool_failed |-> <<"open failed", "throw">>,
   say_address     |-> <<"address", "say_started">>,
   say_started     |-> <<"started", "serve">>,
   say_completed   |-> <<"completed", "destroy_client">>,
   destroy_client  |-> <<"client destroyed", "destroy_control">>,
   destroy_control |-> <<"control destroyed", "exit">>]

main_logs ==
  /\ main \in DOMAIN Script
  /\ add_log("main", Script[main][1])
  /\ main' = Script[main][2]
  /\ UNCHANGED <<members, pool, is_running, server, purges, call, file, disk, damaged>>

\* The main thread executes what does not log.
MainAt(p) == /\ main = p /\ "main" \notin notifying
             /\ UNCHANGED <<logVars, members, call, file, purges>>

find_db ==
  /\ MainAt("find_db")
  /\ main' = IF disk[members[DB]] = "absent" THEN "say_creating" ELSE "open_pool"
  /\ UNCHANGED <<disk, damaged, pool, is_running, server>>

\* InitDatabase::init opens the file, which creates it.
create_db ==
  /\ MainAt("create")
  /\ \/ disk' = [disk EXCEPT ![members[DB]] = "empty"] /\ main' = "commit" /\ UNCHANGED damaged
     \/ main' = "say_no_db" /\ damaged' = damaged \cup {members[DB]} /\ UNCHANGED disk
  /\ UNCHANGED <<pool, is_running, server>>

\* Mutated form of commit_db: the connection is closed without COMMIT.
commit_nothing ==
  /\ MainAt("commit")
  /\ main' = "say_created"
  /\ UNCHANGED <<disk, damaged, pool, is_running, server>>

\* The statements of init and COMMIT.  A failure is logged, and init answers 0.
commit_db ==
  /\ MainAt("commit")
  /\ \/ /\ disk' = [disk EXCEPT ![members[DB]] = "ready"] /\ main' = "say_created"
        /\ damaged' = damaged \ {members[DB]}
     \/ main' = "say_sql_error" /\ damaged' = damaged \cup {members[DB]} /\ UNCHANGED disk
  /\ UNCHANGED <<pool, is_running, server>>

\* ConnectionPool::initialize: opening creates the file too.
open_pool ==
  /\ MainAt("open_pool")
  /\ \/ /\ pool' = members[DB] /\ main' = "say_address"
        /\ disk' = [disk EXCEPT ![members[DB]] = IF @ = "absent" THEN "empty" ELSE @]
     \/ main' = "say_pool_failed" /\ UNCHANGED <<pool, disk>>
  /\ UNCHANGED <<damaged, is_running, server>>

\* Nobody catches what the pool throws: the process ends, its log unwritten.
throw == /\ main = "throw" /\ "main" \notin notifying
         /\ Vanish
         /\ UNCHANGED <<file, disk, damaged>>

\* Application::run starts the three threads.
serve ==
  /\ MainAt("serve")
  /\ is_running' = TRUE
  /\ server' = [s \in Servers |-> "say_listening"]
  /\ main' = "join_control"
  /\ UNCHANGED <<disk, damaged, pool>>

Ended(s) == server[s] = "over" /\ s \notin notifying

join_control == /\ MainAt("join_control") /\ Ended("control")
                /\ main' = "join_client"
                /\ UNCHANGED <<disk, damaged, pool, is_running, server>>

\* Mutated form of join_client: only the control server is waited for.
join_nobody == /\ MainAt("join_client")
               /\ main' = "say_completed"
               /\ UNCHANGED <<disk, damaged, pool, is_running, server>>

join_client == /\ MainAt("join_client") /\ Ended("client")
               /\ main' = "say_completed"
               /\ UNCHANGED <<disk, damaged, pool, is_running, server>>

\* Mutated form of exit: the destructor joins the worker without stopping it.
exit_joining ==
  /\ MainAt("exit")
  /\ main' = "join_log"
  /\ UNCHANGED <<pool, is_running, server, disk, damaged>>

\* The destructor of the LogManager, after main has returned.
exit == /\ main = "exit"
        /\ stop("main")
        /\ main' = "join_log"
        /\ UNCHANGED <<members, pool, is_running, server, purges, call, file, disk, damaged>>

end_process == /\ main = "join_log" /\ "main" \notin notifying
               /\ log_thread = "gone"
               /\ Vanish
               /\ UNCHANGED <<file, disk, damaged>>

main_thread == \/ configure \/ main_logs \/ find_db \/ create_db \/ commit_db \/ open_pool \/ throw
               \/ serve \/ join_control \/ join_client \/ exit \/ end_process
-------------------------------------------------------------------------------
\* gRPCControlService::run and gRPCClientService::run are the same code.
ServerScript == [say_listening |-> <<"listening", "build">>,
                 say_failed    |-> <<"failed", "over">>,
                 say_stopped   |-> <<"stopped", "over">>]

\* What the queue may hold.
ASSUME MessagesAssumption ==
  /\ \A p \in DOMAIN Script : Script[p][1] \in Messages
  /\ \A p \in DOMAIN ServerScript : ServerScript[p][1] \in Messages
  /\ {"purged", "SQL error"} \subseteq Messages

server_logs(s) ==
  /\ server[s] \in DOMAIN ServerScript
  /\ add_log(s, ServerScript[server[s]][1])
  /\ server' = [server EXCEPT ![s] = ServerScript[server[s]][2]]
  /\ UNCHANGED <<members, main, pool, is_running, purges, call, file, disk, damaged>>

ServerAt(s, p) == /\ server[s] = p /\ s \notin notifying
                  /\ UNCHANGED <<logVars, members, main, pool, is_running, purges, call, file,
                                 disk, damaged>>

\* The address may be in use; the flag stays as it is then.
BuildAndStart(s) == /\ ServerAt(s, "build")
                    /\ \E p \in {"serving", "say_failed"} : server' = [server EXCEPT ![s] = p]

\* The poll finds the flag false: Server::Shutdown refuses further calls...
Shutdown(s) == /\ ServerAt(s, "serving") /\ ~is_running
               /\ server' = [server EXCEPT ![s] = "closing"]

InFlight(s) == {c \in IF s = "control" THEN ControlCallers ELSE ClientCallers : call[c] # "idle"}

\* Mutated form of drained: the server is reset while handlers run.
drained_at_once(s) == /\ ServerAt(s, "closing")
                      /\ server' = [server EXCEPT ![s] = "say_stopped"]

\* ... and waits for those it has accepted, without a time limit.
drained(s) == /\ ServerAt(s, "closing") /\ InFlight(s) = {}
              /\ server' = [server EXCEPT ![s] = "say_stopped"]

server_thread(s) == server_logs(s) \/ BuildAndStart(s) \/ Shutdown(s) \/ drained(s)
-------------------------------------------------------------------------------
\* periodic_task_worker, from run on: a round purges sessions and logs that.
\* The thread is detached, and nothing tells it to stop.
purge == /\ main \in {"join_control", "join_client", "say_completed", "destroy_client",
                      "destroy_control", "exit", "join_log"}
         /\ purges < MaxPurges /\ purges' = purges + 1
         /\ add_log("timer", "purged")
         /\ UNCHANGED <<members, main, pool, is_running, server, call, file, disk, damaged>>

\* The log worker, which lives from the first message on and tells the
\* configuration when it has fallen back to the default file.
log_thread_step ==
  /\ (log_thread = "new" => owed # <<>>) /\ log_worker
  /\ members' = IF log_file' = "default" /\ log_file # "default"
                THEN [members EXCEPT ![LOG] = TmpLog] ELSE members
  /\ UNCHANGED <<main, pool, is_running, server, purges, call, file, disk, damaged>>

\* The rest of add_log, and the wakeups of the operating system.
notification(t) == /\ notify_one(t)
                   /\ UNCHANGED <<processVars, file, disk, damaged>>
wakeup == /\ spurious_wakeup
          /\ UNCHANGED <<processVars, file, disk, damaged>>
-------------------------------------------------------------------------------
\* zinpassctl: stop calls Shutdown; restart, status, version and copyleft call
\* what changes nothing ("query"); start, reload and the rest only print.
\* Every caller of the client server wants the database ("work").
ControlCommands == {"stop", "query"}

\* A call that no server accepts changes nothing: zinpassctl does not look at
\* its status and prints an empty line.  Bound: no client calls while MaxBehind
\* messages wait, so that the queue stays finite when there is no log file.
Send(c, op) ==
  /\ call[c] = "idle" /\ (c \in ControlCallers \/ Len(log_queue_) < MaxBehind)
  /\ server[IF c \in ControlCallers THEN "control" ELSE "client"] = "serving"
  /\ call' = [call EXCEPT ![c] = op]
  /\ UNCHANGED <<logVars, members, main, pool, is_running, server, purges, file, disk, damaged>>

Answered(c) == /\ call' = [call EXCEPT ![c] = "return"]
               /\ UNCHANGED <<members, main, pool, server, purges, file, disk, damaged>>

\* StatusServiceImpl::Shutdown: a wrong key would not be refused either.
HandleShutdown(c) == /\ call[c] = "stop" /\ Answered(c)
                     /\ is_running' = FALSE
                     /\ UNCHANGED logVars

\* StatusServiceImpl::Restart restarts nothing.
HandleQuery(c) == /\ call[c] = "query" /\ Answered(c)
                  /\ UNCHANGED <<logVars, is_running>>

\* A handler of the client server: without the tables it logs and fails.
HandleWork(c) == /\ call[c] = "work" /\ Answered(c)
                 /\ \/ disk[pool] = "ready" /\ UNCHANGED logVars
                    \/ disk[pool] = "empty" /\ add_log(c, "SQL error")
                 /\ UNCHANGED is_running

Return(c) == /\ call[c] = "return" /\ c \notin notifying
             /\ call' = [call EXCEPT ![c] = "idle"]
             /\ UNCHANGED <<logVars, members, main, pool, is_running, server, purges, file, disk, damaged>>

handler(c) == HandleShutdown(c) \/ HandleQuery(c) \/ HandleWork(c) \/ Return(c)

\* The process is killed, or the detached worker uses a static that main has
\* destroyed, which the build may end in the same way.
Die == /\ CanDie /\ main # "off"
       /\ Vanish
       /\ damaged' = IF main = "commit" THEN damaged \cup {members[DB]} ELSE damaged
       /\ UNCHANGED <<file, disk>>
-------------------------------------------------------------------------------
NextDaemon ==
  \/ daemonize \/ main_thread \/ log_thread_step \/ purge \/ wakeup
  \/ \E s \in Servers : server_thread(s)
  \/ \E c \in Callers : handler(c)
  \/ \E t \in LogThreads : notification(t)
  \/ \E c \in ControlCallers, op \in ControlCommands : Send(c, op)
  \/ \E c \in ClientCallers : Send(c, "work")
  \/ Die

DaemonSpec == InitDaemon /\ [][NextDaemon]_daemonVars

\* The operating system lets every thread go on, and every handler ends.
FairDaemonSpec ==
  /\ DaemonSpec
  /\ WF_daemonVars(main_thread) /\ WF_daemonVars(log_thread_step)
  /\ \A s \in Servers : WF_daemonVars(server_thread(s))
  /\ \A c \in Callers : WF_daemonVars(handler(c))
  /\ \A t \in LogThreads : WF_daemonVars(notification(t))
-------------------------------------------------------------------------------
MainStates == DOMAIN Script \cup {"off", "configure", "find_db", "create", "commit", "open_pool",
                "throw", "serve", "join_control", "join_client", "exit", "join_log"}
ServerStates == DOMAIN ServerScript \cup {"off", "build", "serving", "closing", "over"}

DaemonTypeOK ==
  /\ LogTypeOK
  /\ file \in ConfigFiles /\ disk \in [Values -> {"absent", "empty", "ready"}]
  /\ members \in Members /\ main \in MainStates /\ pool \in Values \cup {Absent}
  /\ is_running \in BOOLEAN /\ server \in [Servers -> ServerStates]
  /\ call \in [Callers -> ControlCommands \cup {"idle", "work", "return"}]
  /\ damaged \subseteq Values
  /\ purges \in 0 .. MaxPurges

\* A call that was accepted has a server until it is answered, the call of
\* Shutdown that ends this very server included; main has destroyed nothing
\* that its handler could still use.
HandlersOutlived ==
  \A s \in Servers : InFlight(s) # {} =>
     /\ server[s] \in {"serving", "closing"}
     /\ main \in {"join_control", "join_client"} /\ pool # Absent

\* When the log worker has left with all it had to write, the only thread that
\* may still say something is the detached one.
LastWords ==
  log_file # "none" /\ log_thread = "gone" =>
     \A i \in DOMAIN log_queue_ : log_queue_[i] = "purged"

\* A database without tables is only ever left behind by an initialisation
\* that was cut off or failed (the next start finds the file and serves it).
EmptyOnlyIfDamaged ==
  \A p \in Values : disk[p] = "empty" /\ ~(main = "commit" /\ members[DB] = p) => p \in damaged

\* A configuration file that cannot be read to its end changes nothing, and
\* what zinpassctl is told to be the database is the one that is served.
AllOrNothing ==
  pool # Absent => pool = members[DB] /\ (~Readable(file) => pool = Default)

\* Once Shutdown has cleared the flag the process ends, whatever else is
\* called, logged or purged meanwhile, provided that its handlers end.
StopStops == (main # "off" /\ ~is_running) ~> (main = "off")
===============================================================================
