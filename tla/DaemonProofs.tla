----------------------------- MODULE DaemonProofs -----------------------------
(***************************************************************************)
(* Proofs about Daemon, for any callers, any configuration files, any       *)
(* number of rounds of the worker and a log queue of any length.            *)
(***************************************************************************)
EXTENDS Daemon, LogManagerProofs

\* What the daemon does to the log is what LogManager allows.
LEMMA DaemonLogStep ==
  ASSUME [NextDaemon]_daemonVars
  PROVE  [NextLog]_logVars
<1> USE DaemonAssumption, MessagesAssumption
<1>1. CASE UNCHANGED logVars
  BY <1>1
<1>2. ASSUME NEW t \in LogThreads, NEW m \in Messages, add_log(t, m) PROVE NextLog
  BY <1>2 DEF NextLog
<1>3. CASE main_thread
  <2>1. CASE main_logs
    BY <1>2, <2>1 DEF main_logs
  <2>2. CASE exit
    BY <2>2 DEF exit, NextLog
  <2>3. CASE throw \/ end_process
    BY <2>3 DEF throw, end_process, Vanish, NextLog
  <2> QED
    BY <1>3, <2>1, <2>2, <2>3
    DEF main_thread, configure, find_db, create_db, commit_db, open_pool, serve, join_control,
        join_client, MainAt, logVars
<1>4. CASE log_thread_step \/ wakeup
  BY <1>4 DEF log_thread_step, wakeup, NextLog
<1>5. CASE purge
  BY <1>2, <1>5 DEF purge
<1>6. ASSUME NEW s \in Servers, server_thread(s) PROVE [NextLog]_logVars
  <2>1. CASE server_logs(s)
    BY <1>2, <2>1 DEF server_logs
  <2> QED
    BY <1>6, <2>1 DEF server_thread, BuildAndStart, Shutdown, drained, ServerAt, logVars
<1>7. ASSUME NEW c \in Callers, handler(c) PROVE [NextLog]_logVars
  <2>1. CASE add_log(c, "SQL error")
    BY <1>2, <2>1
  <2> QED
    BY <1>7, <2>1 DEF handler, HandleShutdown, HandleQuery, HandleWork, Return, logVars
<1>8. ASSUME NEW t \in LogThreads, notification(t) PROVE NextLog
  BY <1>8 DEF notification, NextLog
<1>9. CASE Die
  BY <1>9 DEF Die, Vanish, NextLog
<1> QED
  BY <1>1, <1>3, <1>4, <1>5, <1>6, <1>7, <1>8, <1>9
  DEF NextDaemon, daemonVars, daemonize, Send, logVars

\* The daemon uses LogManager as LogManager may be used.
THEOREM DaemonImplementsLog == DaemonSpec => LogSpec
<1>1. InitDaemon => InitLog
  BY DEF InitDaemon
<1>2. [NextDaemon]_daemonVars => [NextLog]_logVars
  BY DaemonLogStep
<1> QED
  BY <1>1, <1>2, PTL DEF DaemonSpec, LogSpec
-------------------------------------------------------------------------------
\* The main thread before the pool is open, from there to the start of the
\* servers, while it waits for them, and after it has.
Early == {"off", "configure", "say_startup", "say_config", "find_db", "say_creating", "create",
          "commit", "say_sql_error", "say_no_db", "say_created", "open_pool", "say_pool_failed",
          "throw"}
Opened == {"say_address", "say_started", "serve"}
Waiting == {"join_control", "join_client"}
Late == {"say_completed", "destroy_client", "destroy_control", "exit", "join_log"}

\* How far the servers and their calls are, seen from the main thread.
StageInv ==
  /\ main \in Early => pool = Absent
  /\ main \notin Early => pool # Absent
  /\ main \in Early \cup Opened => \A s \in Servers : server[s] = "off"
  /\ main \in {"join_client"} \cup Late => server["control"] = "over"
  /\ main \in Late => server["client"] = "over"
  /\ \A s \in Servers : InFlight(s) # {} => server[s] \in {"serving", "closing"}

\* The main thread owns the configured path; only the log path changes later.
ConfigInv ==
  /\ main \in {"off", "configure"} => members[DB] = Default
  /\ ~Readable(file) => members[DB] = Default
  /\ pool # Absent => pool = members[DB]

\* A database whose file could not be filled is remembered as damaged.
DamageInv ==
  /\ EmptyOnlyIfDamaged
  /\ main \in {"say_no_db", "say_sql_error"} => members[DB] \in damaged
  /\ main \in {"say_created", "open_pool"} /\ disk[members[DB]] = "absent" => members[DB] \in damaged

\* stop() is the last thing the main thread does.
StopInv == stop_requested_ => main = "join_log"

DaemonInv == /\ LogInv /\ DaemonTypeOK
             /\ StageInv /\ ConfigInv /\ DamageInv /\ StopInv /\ LastWords

LEMMA ReadConfigType == \A f \in ConfigFiles : ReadConfig(DefaultMembers, f) \in Members
  BY ConfigAssumption DEF ReadConfig, DefaultMembers, Members, ConfigFiles, Readable

LEMMA WrittenBackType == \A f \in ConfigFiles, w \in BOOLEAN : WrittenBack(f, w) \in ConfigFiles
  BY ConfigAssumption DEF WrittenBack, DefaultMembers, ConfigFiles

LEMMA DaemonInitInv == InitDaemon => DaemonInv
<1> SUFFICES ASSUME InitDaemon
             PROVE  DaemonInv
  OBVIOUS
<1> USE DaemonAssumption, ConfigAssumption
<1>1. LogInv
  BY LogInit DEF InitDaemon
<1>2. DaemonTypeOK
  <2>1. members \in Members /\ main \in MainStates /\ pool = Absent /\ is_running \in BOOLEAN
        /\ purges \in 0 .. MaxPurges
    BY DEF InitDaemon, Fresh, DefaultMembers, Members, MainStates
  <2>2. server \in [Servers -> ServerStates] /\ call \in [Callers -> ControlCommands \cup {"idle", "work", "return"}]
    BY DEF InitDaemon, Fresh, ServerStates
  <2>3. file \in ConfigFiles /\ disk \in [Values -> {"absent", "empty", "ready"}] /\ damaged = {}
    BY DEF InitDaemon
  <2> QED
    BY <1>1, <2>1, <2>2, <2>3 DEF DaemonTypeOK, LogInv
<1>3. StageInv
  BY DEF InitDaemon, Fresh, StageInv, InFlight, Early, Opened, Late, Callers
<1>4. ConfigInv
  BY DEF InitDaemon, Fresh, ConfigInv, DefaultMembers
<1>5. DamageInv
  BY DEF InitDaemon, Fresh, DamageInv, EmptyOnlyIfDamaged, DefaultMembers
<1>6. StopInv /\ LastWords
  BY DEF InitDaemon, InitLog, StopInv, LastWords
<1> QED
  BY <1>1, <1>2, <1>3, <1>4, <1>5, <1>6 DEF DaemonInv

\* Where the main thread goes on when it has logged.
LEMMA ScriptSteps ==
  ASSUME main_logs
  PROVE  \/ main = "say_startup" /\ main' = "say_config"
         \/ main = "say_config" /\ main' = "find_db"
         \/ main = "say_creating" /\ main' = "create"
         \/ main = "say_no_db" /\ main' = "open_pool"
         \/ main = "say_sql_error" /\ main' = "say_created"
         \/ main = "say_created" /\ main' = "open_pool"
         \/ main = "say_pool_failed" /\ main' = "throw"
         \/ main = "say_address" /\ main' = "say_started"
         \/ main = "say_started" /\ main' = "serve"
         \/ main = "say_completed" /\ main' = "destroy_client"
         \/ main = "destroy_client" /\ main' = "destroy_control"
         \/ main = "destroy_control" /\ main' = "exit"
<1>1. DOMAIN Script = {"say_startup", "say_config", "say_creating", "say_no_db", "say_sql_error",
                       "say_created", "say_pool_failed", "say_address", "say_started",
                       "say_completed", "destroy_client", "destroy_control"}
  BY DEF Script
<1>2. /\ Script.say_startup[2] = "say_config"
      /\ Script.say_config[2] = "find_db"
      /\ Script.say_creating[2] = "create"
      /\ Script.say_no_db[2] = "open_pool"
      /\ Script.say_sql_error[2] = "say_created"
      /\ Script.say_created[2] = "open_pool"
      /\ Script.say_pool_failed[2] = "throw"
      /\ Script.say_address[2] = "say_started"
      /\ Script.say_started[2] = "serve"
      /\ Script.say_completed[2] = "destroy_client"
      /\ Script.destroy_client[2] = "destroy_control"
      /\ Script.destroy_control[2] = "exit"
  BY DEF Script
<1> QED
  BY <1>1, <1>2 DEF main_logs

LEMMA DaemonTypeStep ==
  ASSUME DaemonInv, [NextDaemon]_daemonVars
  PROVE  DaemonTypeOK'
<1> USE DaemonAssumption, ConfigAssumption
<1> DEFINE OwnTypes ==
      /\ file \in ConfigFiles /\ disk \in [Values -> {"absent", "empty", "ready"}]
      /\ members \in Members /\ main \in MainStates /\ pool \in Values \cup {Absent}
      /\ is_running \in BOOLEAN /\ server \in [Servers -> ServerStates]
      /\ call \in [Callers -> ControlCommands \cup {"idle", "work", "return"}]
      /\ damaged \subseteq Values
      /\ purges \in 0 .. MaxPurges
<1>0. OwnTypes /\ LogTypeOK'
  BY DaemonLogStep, LogTypeStep DEF DaemonInv, DaemonTypeOK
<1> SUFFICES OwnTypes'
  BY <1>0 DEF DaemonTypeOK
<1>1. CASE UNCHANGED <<processVars, file, disk, damaged>>
  BY <1>0, <1>1 DEF processVars
<1>2. CASE daemonize \/ find_db \/ serve \/ join_control \/ join_client \/ exit
  BY <1>0, <1>2
  DEF daemonize, find_db, serve, join_control, join_client, exit, MainAt, MainStates, Script, ServerStates,
      ServerScript
<1>3. CASE configure
  BY <1>0, <1>3, ReadConfigType, WrittenBackType DEF configure, MainStates, Script
<1>4. CASE main_logs
  <2>1. main' \in MainStates
    BY <1>4, ScriptSteps DEF MainStates, Script
  <2> QED
    BY <1>0, <1>4, <2>1 DEF main_logs
<1>5. CASE create_db \/ commit_db \/ open_pool
  <2>1. members[DB] \in Values
    BY <1>0 DEF Members
  <2> QED
    BY <1>0, <1>5, <2>1 DEF create_db, commit_db, open_pool, MainAt, MainStates, Script
<1>6. CASE throw \/ end_process \/ Die
  <2>1. members[DB] \in Values
    BY <1>0 DEF Members
  <2>2. damaged' \subseteq Values
    BY <1>0, <1>6, <2>1 DEF throw, end_process, Die
  <2>3. UNCHANGED <<file, disk>> /\ Vanish
    BY <1>6 DEF throw, end_process, Die
  <2>4. members' \in Members
    BY <2>3 DEF Vanish, DefaultMembers, Members
  <2>5. main' \in MainStates /\ pool' = Absent /\ is_running' = TRUE /\ purges' = 0
    BY <2>3 DEF Vanish, MainStates
  <2>6. /\ server' \in [Servers -> ServerStates]
        /\ call' \in [Callers -> ControlCommands \cup {"idle", "work", "return"}]
    BY <2>3 DEF Vanish, ServerStates
  <2> QED
    BY <1>0, <2>2, <2>3, <2>4, <2>5, <2>6
<1>7. ASSUME NEW s \in Servers, server_thread(s) PROVE OwnTypes'
  BY <1>0, <1>7
  DEF server_thread, server_logs, BuildAndStart, Shutdown, drained, ServerAt, ServerStates, ServerScript
<1>8. CASE purge
  BY <1>0, <1>8 DEF purge
<1>9. CASE log_thread_step
  BY <1>0, <1>9 DEF log_thread_step, Members
<1>10. ASSUME NEW c \in Callers, handler(c) PROVE OwnTypes'
  BY <1>0, <1>10 DEF handler, HandleShutdown, HandleQuery, HandleWork, Return, Answered
<1>11. ASSUME NEW c \in Callers, NEW op \in ControlCommands \cup {"work"}, Send(c, op) PROVE OwnTypes'
  BY <1>0, <1>11 DEF Send
<1> QED
  BY <1>1, <1>2, <1>3, <1>4, <1>5, <1>6, <1>7, <1>8, <1>9, <1>10, <1>11
  DEF NextDaemon, daemonVars, main_thread, wakeup, notification, processVars, Callers

\* main is in one of its states, which the four stages share out.
LEMMA Stages ==
  ASSUME DaemonTypeOK
  PROVE  main \in Early \cup Opened \cup Waiting \cup Late
  BY DEF DaemonTypeOK, MainStates, Script, Early, Opened, Waiting, Late

LEMMA StageStep ==
  ASSUME DaemonInv, [NextDaemon]_daemonVars
  PROVE  StageInv'
<1> USE DaemonAssumption, ConfigAssumption
<1>0. StageInv /\ server \in [Servers -> ServerStates] /\ members[DB] \in Values
      /\ call \in [Callers -> ControlCommands \cup {"idle", "work", "return"}]
  BY DEF DaemonInv, DaemonTypeOK, Members
\* Nothing about the servers changes, and the main thread stays in its stage.
<1>a. ASSUME UNCHANGED <<server, call, pool>>,
             \/ main \in Early /\ main' \in Early
             \/ main \in Opened /\ main' \in Opened
             \/ main \in Late /\ main' \in Late
             \/ main' = main
      PROVE  StageInv'
  <2>1. \A s \in Servers : InFlight(s)' = InFlight(s)
    BY <1>a DEF InFlight
  <2> QED
    BY <1>0, <1>a, <2>1 DEF StageInv, Early, Opened, Late
<1>1. CASE UNCHANGED <<main, pool, server, call>>
  BY <1>1, <1>a
<1>2. CASE daemonize \/ configure \/ find_db \/ create_db \/ commit_db \/ exit
  BY <1>2, <1>a DEF daemonize, configure, find_db, create_db, commit_db, exit, MainAt, Early, Late
<1>3. CASE main_logs
  <2>1. UNCHANGED <<pool, server, call>>
    BY <1>3 DEF main_logs
  <2> QED
    BY <1>3, <1>a, <2>1, ScriptSteps DEF Early, Opened, Late
<1>4. CASE open_pool
  <2>1. CASE UNCHANGED pool /\ main' = "say_pool_failed"
    BY <1>4, <1>a, <2>1, <1>0 DEF open_pool, MainAt, Early
  <2>2. CASE pool' = members[DB] /\ main' = "say_address"
    <3>1. UNCHANGED <<server, call>> /\ main \in Early
      BY <1>4 DEF open_pool, MainAt, Early
    <3>2. \A s \in Servers : InFlight(s)' = InFlight(s)
      BY <3>1 DEF InFlight
    <3> QED
      BY <1>0, <2>2, <3>1, <3>2 DEF StageInv, Early, Opened, Late
  <2> QED
    BY <1>4, <2>1, <2>2 DEF open_pool
<1>5. CASE throw \/ end_process \/ Die
  <2>1. Vanish
    BY <1>5 DEF throw, end_process, Die
  <2>2. /\ main' = "off" /\ pool' = Absent /\ server' = [s \in Servers |-> "off"]
        /\ call' = [c \in Callers |-> "idle"]
    BY <2>1 DEF Vanish
  <2>3. \A s \in Servers : InFlight(s)' = {}
    BY <2>2 DEF InFlight, Callers
  <2> QED
    BY <2>2, <2>3 DEF StageInv, Early, Opened, Late
<1>6. CASE serve
  <2>1. /\ main = "serve" /\ main' = "join_control" /\ UNCHANGED <<pool, call>>
    BY <1>6 DEF serve, MainAt
  <2>2. \A s \in Servers : InFlight(s)' = {}
    BY <1>0, <2>1 DEF InFlight, StageInv, Opened
  <2>3. pool' # Absent
    BY <1>0, <2>1 DEF StageInv, Early
  <2>4. main' \notin Early \cup Opened \cup {"join_client"} \cup Late
    BY <2>1 DEF Early, Opened, Late
  <2> QED
    BY <2>2, <2>3, <2>4 DEF StageInv
<1>7. CASE join_control \/ join_client
  <2>1. UNCHANGED <<server, pool, call>>
    BY <1>7 DEF join_control, join_client, MainAt
  <2>2. \A s \in Servers : InFlight(s)' = InFlight(s)
    BY <2>1 DEF InFlight
  <2>3. \/ main = "join_control" /\ main' = "join_client" /\ server["control"] = "over"
        \/ main = "join_client" /\ main' = "say_completed" /\ server["client"] = "over"
    BY <1>7 DEF join_control, join_client, MainAt, Ended
  <2> QED
    BY <1>0, <2>1, <2>2, <2>3 DEF StageInv, Early, Opened, Late
<1>8. ASSUME NEW s \in Servers, server_thread(s) PROVE StageInv'
  <2>1. UNCHANGED <<main, pool, call>>
    BY <1>8 DEF server_thread, server_logs, BuildAndStart, Shutdown, drained, ServerAt
  <2>2. server[s] \in {"say_listening", "build", "say_failed", "say_stopped", "serving", "closing"}
    BY <1>8 DEF server_thread, server_logs, BuildAndStart, Shutdown, drained, ServerAt, ServerScript
  <2>3. \A r \in Servers : InFlight(r)' = InFlight(r)
    BY <2>1 DEF InFlight
  <2>4. \A r \in Servers : r # s => server'[r] = server[r]
    BY <1>0, <1>8 DEF server_thread, server_logs, BuildAndStart, Shutdown, drained, ServerAt
  <2>5. InFlight(s) # {} => server'[s] \in {"serving", "closing"}
    <3>1. CASE InFlight(s) # {}
      <4>1. server[s] \in {"serving", "closing"}
        BY <1>0, <3>1 DEF StageInv
      <4>2. Shutdown(s)
        BY <1>8, <3>1, <4>1
        DEF server_thread, server_logs, BuildAndStart, Shutdown, drained, ServerAt, ServerScript
      <4> QED
        BY <1>0, <4>2 DEF Shutdown
    <3> QED
      BY <3>1
  <2>6. main \notin Early \cup Opened /\ server[s] # "over"
    BY <1>0, <2>2 DEF StageInv
  <2>7. s \in {"control", "client"}
    BY DEF Servers
  <2>8. main \in {"join_client"} \cup Late => s # "control" /\ server'["control"] = "over"
    BY <1>0, <2>4, <2>6 DEF StageInv, Servers
  <2>9. main \in Late => FALSE
    BY <1>0, <2>6, <2>7 DEF StageInv
  <2> QED
    BY <1>0, <2>1, <2>3, <2>4, <2>5, <2>6, <2>8, <2>9 DEF StageInv
<1>9. ASSUME NEW c \in Callers, handler(c) PROVE StageInv'
  <2>1. UNCHANGED <<main, pool, server>> /\ call[c] # "idle"
    BY <1>9 DEF handler, HandleShutdown, HandleQuery, HandleWork, Return, Answered
  <2>2. \A d \in Callers : d # c => call'[d] = call[d]
    BY <1>0, <1>9 DEF handler, HandleShutdown, HandleQuery, HandleWork, Return, Answered
  <2>3. \A s \in Servers : InFlight(s)' \subseteq InFlight(s)
    BY <2>1, <2>2 DEF InFlight, Callers
  <2> QED
    BY <1>0, <2>1, <2>3 DEF StageInv
<1>10. ASSUME NEW c \in Callers, NEW op, Send(c, op) PROVE StageInv'
  <2>1. /\ UNCHANGED <<main, pool, server>>
        /\ server[IF c \in ControlCallers THEN "control" ELSE "client"] = "serving"
    BY <1>10 DEF Send
  <2>2. \A d \in Callers : d # c => call'[d] = call[d]
    BY <1>0, <1>10 DEF Send
  <2>3. \A s \in Servers : server[s] = "serving" \/ InFlight(s)' = InFlight(s)
    BY <2>1, <2>2 DEF InFlight, Callers, Servers
  <2> QED
    BY <1>0, <2>1, <2>3 DEF StageInv
<1> QED
  BY <1>1, <1>2, <1>3, <1>4, <1>5, <1>6, <1>7, <1>8, <1>9, <1>10
  DEF NextDaemon, daemonVars, processVars, main_thread, wakeup, notification, purge, log_thread_step,
      Callers

LEMMA ConfigStep ==
  ASSUME DaemonInv, [NextDaemon]_daemonVars
  PROVE  ConfigInv'
<1> USE DaemonAssumption, ConfigAssumption
<1>0. /\ ConfigInv /\ StageInv /\ file \in ConfigFiles /\ members \in Members /\ DB # LOG
  BY DEF DaemonInv, DaemonTypeOK, DB, LOG
<1>1. CASE UNCHANGED <<file, pool>> /\ members'[DB] = members[DB] /\ main' \notin {"off", "configure"}
  BY <1>0, <1>1 DEF ConfigInv, Readable
<1>2. CASE UNCHANGED <<file, pool, main>> /\ members'[DB] = members[DB]
  BY <1>0, <1>2 DEF ConfigInv, Readable
<1>3. CASE daemonize
  BY <1>0, <1>3 DEF daemonize, ConfigInv, Readable
<1>4. CASE configure
  <2>1. DefaultMembers[DB] = Default
    BY DEF DefaultMembers
  <2>2. ~Readable(file) => members'[DB] = Default
    BY <1>4, <2>1 DEF configure, ReadConfig
  <2>3. file' = file \/ ~Readable(file)
    BY <1>4 DEF configure, WrittenBack, Readable
  <2>4. Readable(file)' <=> Readable(file')
    BY DEF Readable
  <2>5. main' = "say_startup" /\ pool' = pool /\ pool = Absent
    BY <1>0, <1>4 DEF configure, StageInv, Early
  <2> QED
    BY <2>2, <2>3, <2>4, <2>5 DEF ConfigInv
<1>5. CASE main_logs
  BY <1>1, <1>5, ScriptSteps DEF main_logs
<1>6. CASE open_pool
  BY <1>0, <1>6 DEF open_pool, MainAt, ConfigInv, Readable
<1>7. CASE throw \/ end_process \/ Die
  BY <1>7 DEF throw, end_process, Die, Vanish, DefaultMembers, ConfigInv
<1>8. CASE log_thread_step
  BY <1>0, <1>2, <1>8 DEF log_thread_step, Members
<1>9. CASE find_db \/ create_db \/ commit_db \/ serve \/ join_control \/ join_client \/ exit
  BY <1>1, <1>9 DEF find_db, create_db, commit_db, serve, join_control, join_client, exit, MainAt
<1>10. ASSUME NEW s \in Servers, server_thread(s) PROVE ConfigInv'
  BY <1>2, <1>10 DEF server_thread, server_logs, BuildAndStart, Shutdown, drained, ServerAt
<1>11. ASSUME NEW c \in Callers, handler(c) PROVE ConfigInv'
  BY <1>2, <1>11 DEF handler, HandleShutdown, HandleQuery, HandleWork, Return, Answered
<1>12. CASE purge \/ wakeup \/ UNCHANGED daemonVars
  BY <1>2, <1>12 DEF purge, wakeup, daemonVars, processVars
<1>13. ASSUME NEW t, notification(t) PROVE ConfigInv'
  BY <1>2, <1>13 DEF notification, processVars
<1>14. ASSUME NEW c, NEW op, Send(c, op) PROVE ConfigInv'
  BY <1>2, <1>14 DEF Send
<1> QED
  BY <1>3, <1>4, <1>5, <1>6, <1>7, <1>8, <1>9, <1>10, <1>11, <1>12, <1>13, <1>14
  DEF NextDaemon, main_thread

LEMMA DamageStep ==
  ASSUME DaemonInv, [NextDaemon]_daemonVars
  PROVE  DamageInv'
<1> USE DaemonAssumption, ConfigAssumption
<1>0. /\ DamageInv /\ disk \in [Values -> {"absent", "empty", "ready"}] /\ damaged \subseteq Values
      /\ members \in Members /\ members[DB] \in Values /\ DB # LOG
  BY DEF DaemonInv, DaemonTypeOK, DB, LOG, Members
\* The disk is left alone by a step that neither begins nor ends a creation.
<1>1. CASE /\ UNCHANGED <<disk, damaged>> /\ members'[DB] = members[DB]
           /\ main' = main \/ main \notin {"say_no_db", "say_sql_error", "say_created", "open_pool", "commit"}
           /\ main' = main \/ main' \notin {"say_no_db", "say_sql_error", "say_created", "open_pool", "commit"}
  BY <1>0, <1>1 DEF DamageInv, EmptyOnlyIfDamaged
<1>2. CASE configure
  BY <1>0, <1>2 DEF configure, DamageInv, EmptyOnlyIfDamaged
<1>3. CASE main_logs
  <2>1. UNCHANGED <<disk, damaged, members>>
    BY <1>3 DEF main_logs
  <2> QED
    BY <1>0, <1>3, <2>1, ScriptSteps DEF DamageInv, EmptyOnlyIfDamaged
<1>4. CASE find_db
  BY <1>0, <1>4 DEF find_db, MainAt, DamageInv, EmptyOnlyIfDamaged
<1>5. CASE create_db
  BY <1>0, <1>5 DEF create_db, MainAt, DamageInv, EmptyOnlyIfDamaged
<1>6. CASE commit_db
  BY <1>0, <1>6 DEF commit_db, MainAt, DamageInv, EmptyOnlyIfDamaged
<1>7. CASE open_pool
  BY <1>0, <1>7 DEF open_pool, MainAt, DamageInv, EmptyOnlyIfDamaged
<1>8. CASE throw \/ end_process
  BY <1>0, <1>8 DEF throw, end_process, Vanish, DamageInv, EmptyOnlyIfDamaged
<1>9. CASE Die
  BY <1>0, <1>9 DEF Die, Vanish, DamageInv, EmptyOnlyIfDamaged
<1>10. CASE daemonize \/ serve \/ join_control \/ join_client \/ exit
  BY <1>1, <1>10 DEF daemonize, serve, join_control, join_client, exit, MainAt
<1>11. ASSUME NEW s \in Servers, server_thread(s) PROVE DamageInv'
  BY <1>1, <1>11 DEF server_thread, server_logs, BuildAndStart, Shutdown, drained, ServerAt
<1>12. ASSUME NEW c \in Callers, handler(c) PROVE DamageInv'
  BY <1>1, <1>12 DEF handler, HandleShutdown, HandleQuery, HandleWork, Return, Answered
<1>13. CASE purge \/ wakeup \/ UNCHANGED daemonVars
  BY <1>1, <1>13 DEF purge, wakeup, daemonVars, processVars
<1>14. ASSUME NEW t, notification(t) PROVE DamageInv'
  BY <1>1, <1>14 DEF notification, processVars
<1>15. ASSUME NEW c, NEW op, Send(c, op) PROVE DamageInv'
  BY <1>1, <1>15 DEF Send
<1>16. CASE log_thread_step
  BY <1>0, <1>1, <1>16 DEF log_thread_step, Members
<1> QED
  BY <1>2, <1>3, <1>4, <1>5, <1>6, <1>7, <1>8, <1>9, <1>10, <1>11, <1>12, <1>13, <1>14, <1>15, <1>16
  DEF NextDaemon, main_thread

LEMMA StopStep ==
  ASSUME DaemonInv, [NextDaemon]_daemonVars
  PROVE  StopInv'
<1>0. StopInv
  BY DEF DaemonInv
<1>1. CASE UNCHANGED <<stop_requested_, main>>
  BY <1>0, <1>1 DEF StopInv
<1>2. CASE main_logs
  BY <1>0, <1>2, ScriptSteps DEF main_logs, add_log, StopInv
<1>3. CASE exit
  BY <1>3 DEF exit, StopInv
<1>4. CASE throw \/ end_process \/ Die
  BY <1>4 DEF throw, end_process, Die, Vanish, ResetLog, StopInv
<1>5. CASE daemonize \/ configure \/ find_db \/ create_db \/ commit_db \/ open_pool \/ serve
           \/ join_control \/ join_client
  BY <1>0, <1>5
  DEF daemonize, configure, find_db, create_db, commit_db, open_pool, serve, join_control, join_client,
      MainAt, logVars, StopInv
<1>6. CASE log_thread_step \/ purge \/ wakeup \/ UNCHANGED daemonVars
  BY <1>1, <1>6
  DEF log_thread_step, log_worker, open_file, next_message, write_message, purge, add_log, wakeup,
      spurious_wakeup, daemonVars, processVars, logVars
<1>7. ASSUME NEW s \in Servers, server_thread(s) PROVE StopInv'
  BY <1>1, <1>7 DEF server_thread, server_logs, add_log, BuildAndStart, Shutdown, drained, ServerAt, logVars
<1>8. ASSUME NEW c \in Callers, handler(c) PROVE StopInv'
  BY <1>1, <1>8 DEF handler, HandleShutdown, HandleQuery, HandleWork, add_log, Return, Answered, logVars
<1>9. ASSUME NEW t, notification(t) PROVE StopInv'
  BY <1>1, <1>9 DEF notification, notify_one, processVars
<1>10. ASSUME NEW c, NEW op, Send(c, op) PROVE StopInv'
  BY <1>1, <1>10 DEF Send, logVars
<1> QED
  BY <1>2, <1>3, <1>4, <1>5, <1>6, <1>7, <1>8, <1>9, <1>10 DEF NextDaemon, main_thread

\* Once stop() was called the servers are over and their calls answered, so that
\* none of their threads has a word left.
LEMMA LastWordsStep ==
  ASSUME DaemonInv, [NextDaemon]_daemonVars
  PROVE  LastWords'
<1>0. /\ LastWords /\ StopInv /\ StageInv /\ LogInv /\ LogTypeOK
      /\ call \in [Callers -> ControlCommands \cup {"idle", "work", "return"}]
  BY DEF DaemonInv, DaemonTypeOK
<1>1. SUFFICES ASSUME log_file' # "none", log_thread' = "gone"
               PROVE  \A i \in DOMAIN log_queue_' : log_queue_'[i] = "purged"
  BY DEF LastWords
<1>2. CASE log_thread # "gone"
  <2>1. log_queue_ = <<>> /\ log_queue_' = log_queue_
    <3>1. [NextLog]_logVars
      BY DaemonLogStep
    <3>2. next_message /\ log_queue_ = <<>>
      BY <1>0, <1>1, <1>2, <3>1
      DEF LogInv, NewHasNoFile, NextLog, logVars, add_log, notify_one, stop, log_worker, open_file,
          next_message, write_message, spurious_wakeup, ResetLog
    <3> QED
      BY <3>2 DEF next_message
  <2> QED
    BY <2>1, EmptySeq
<1>3. CASE log_thread = "gone"
  <2>1. [NextLog]_logVars
    BY DaemonLogStep
  <2>2. log_file' = log_file
    BY <1>1, <1>3, <2>1
    DEF NextLog, logVars, add_log, notify_one, stop, log_worker, open_file, next_message, write_message,
        spurious_wakeup, ResetLog
  <2>3. \A i \in DOMAIN log_queue_ : log_queue_[i] = "purged"
    BY <1>0, <1>1, <1>3, <2>2 DEF LastWords
  <2>4. CASE log_queue_' = log_queue_
    BY <2>3, <2>4
  <2>5. CASE log_queue_' = Append(log_queue_, "purged")
    <3>1. log_queue_ \in Seq(Messages) /\ "purged" \in Messages
      BY <1>0, MessagesAssumption DEF LogTypeOK
    <3>2. /\ DOMAIN log_queue_' = 1 .. Len(log_queue_) + 1 /\ DOMAIN log_queue_ = 1 .. Len(log_queue_)
          /\ \A i \in 1 .. Len(log_queue_) : log_queue_'[i] = log_queue_[i]
          /\ log_queue_'[Len(log_queue_) + 1] = "purged"
      BY <2>5, <3>1, AppendProperties, LenProperties
    <3>3. Len(log_queue_) \in Nat
      BY <3>1, LenProperties
    <3> QED
      BY <2>3, <3>2, <3>3
  <2>6. stop_requested_
    BY <1>0, <1>1, <1>3, <2>2 DEF LogInv, LeftWhenTold
  <2>7. main = "join_log" /\ \A s \in Servers : server[s] = "over" /\ InFlight(s) = {}
    BY <1>0, <2>6 DEF StopInv, StageInv, Late, Servers
  <2>8. CASE main_thread
    BY <2>4, <2>7, <2>8, <1>1
    DEF main_thread, configure, main_logs, Script, find_db, create_db, commit_db, open_pool, throw, serve,
        join_control, join_client, exit, end_process, MainAt, Vanish, ResetLog
  <2>9. ASSUME NEW s \in Servers, server_thread(s) PROVE FALSE
    BY <2>7, <2>9
    DEF server_thread, server_logs, BuildAndStart, Shutdown, drained, ServerAt, ServerScript
  <2>10. ASSUME NEW c \in Callers, handler(c) PROVE FALSE
    <3>1. call[c] = "idle"
      BY <2>7 DEF InFlight, Callers, Servers
    <3> QED
      BY <2>10, <3>1 DEF handler, HandleShutdown, HandleQuery, HandleWork, Return
  <2>11. CASE log_thread_step \/ wakeup \/ UNCHANGED daemonVars
    BY <1>3, <2>4, <2>11
    DEF log_thread_step, log_worker, open_file, next_message, write_message, wakeup, spurious_wakeup,
        daemonVars, logVars
  <2>12. CASE purge
    BY <2>5, <2>12 DEF purge, add_log
  <2>13. ASSUME NEW t, notification(t) PROVE log_queue_' = log_queue_
    BY <2>13 DEF notification, notify_one
  <2>14. CASE daemonize \/ Die
    BY <1>1, <2>7, <2>14 DEF daemonize, Die, Vanish, ResetLog
  <2>15. ASSUME NEW c, NEW op, Send(c, op) PROVE log_queue_' = log_queue_
    BY <2>15 DEF Send, logVars
  <2> QED
    BY <2>4, <2>8, <2>9, <2>10, <2>11, <2>12, <2>13, <2>14, <2>15 DEF NextDaemon
<1> QED
  BY <1>2, <1>3

LEMMA DaemonInvStep ==
  ASSUME DaemonInv, [NextDaemon]_daemonVars
  PROVE  DaemonInv'
<1>1. LogInv'
  BY DaemonLogStep, LogInvStep DEF DaemonInv
<1> QED
  BY <1>1, DaemonTypeStep, StageStep, ConfigStep, DamageStep, StopStep, LastWordsStep DEF DaemonInv

LEMMA DaemonInvHolds == DaemonSpec => []DaemonInv
<1>1. DaemonInv /\ [NextDaemon]_daemonVars => DaemonInv'
  BY DaemonInvStep
<1> QED
  BY <1>1, DaemonInitInv, PTL DEF DaemonSpec
-------------------------------------------------------------------------------
\* Every variable of the daemon keeps to its values.
THEOREM DaemonTypeCorrect == DaemonSpec => []DaemonTypeOK
<1>1. DaemonInv => DaemonTypeOK
  BY DEF DaemonInv
<1> QED
  BY <1>1, DaemonInvHolds, PTL

\* What LogManager promises on its own holds in the daemon: no message is lost,
\* doubled or overtaken, no wakeup is lost, and stop() waits for the last
\* message, whoever logs and whenever the daemon is stopped or dies.
THEOREM DaemonLogs == DaemonSpec => []LogConserved /\ []LogNoLostWakeup /\ LogDrains
  BY DaemonImplementsLog, LogKeepsMessages, LogWakesUp, LogStopDrains, PTL

\* Server::Shutdown and the two joins of Application::run keep a server, the
\* pool and the statics as long as a handler runs.
THEOREM DaemonOutlivesHandlers == DaemonSpec => []HandlersOutlived
<1>1. DaemonInv => HandlersOutlived
  <2> SUFFICES ASSUME DaemonInv, NEW s \in Servers, InFlight(s) # {}
               PROVE  /\ server[s] \in {"serving", "closing"}
                      /\ main \in {"join_control", "join_client"} /\ pool # Absent
    BY DEF HandlersOutlived
  <2>1. server[s] \in {"serving", "closing"} /\ s \in {"control", "client"}
    BY DEF DaemonInv, StageInv, Servers
  <2>2. main \in Waiting
    BY <2>1, Stages DEF DaemonInv, StageInv
  <2> QED
    BY <2>1, <2>2 DEF DaemonInv, StageInv, Waiting, Early
<1> QED
  BY <1>1, DaemonInvHolds, PTL

\* When LogManager::stop has come back, only the detached worker of
\* Application::run may still log.
THEOREM DaemonHasLastWords == DaemonSpec => []LastWords
<1>1. DaemonInv => LastWords
  BY DEF DaemonInv
<1> QED
  BY <1>1, DaemonInvHolds, PTL

\* A database without tables is one whose InitDatabase was cut off or failed.
THEOREM DaemonEmptyOnlyIfDamaged == DaemonSpec => []EmptyOnlyIfDamaged
<1>1. DaemonInv => EmptyOnlyIfDamaged
  BY DEF DaemonInv, DamageInv
<1> QED
  BY <1>1, DaemonInvHolds, PTL

\* AppConfig takes a file over as a whole or not at all.
THEOREM DaemonReadsAllOrNothing == DaemonSpec => []AllOrNothing
<1>1. DaemonInv => AllOrNothing
  BY DEF DaemonInv, ConfigInv, AllOrNothing
<1> QED
  BY <1>1, DaemonInvHolds, PTL
===============================================================================
