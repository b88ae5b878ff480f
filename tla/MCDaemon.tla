------------------------------- MODULE MCDaemon -------------------------------
(***************************************************************************)
(* The life cycle of the daemon for TLC: every kind of configuration file,  *)
(* two zinpassctl commands, one call of the desktop client, and a start     *)
(* after a death.                                                           *)
(***************************************************************************)
EXTENDS Daemon

MCThreads == {"main", "timer"} \cup Servers \cup Callers
MCKeys == {DB, LOG}
MCMessages == {Script[p][1] : p \in DOMAIN Script}
          \cup {ServerScript[p][1] : p \in DOMAIN ServerScript} \cup {"purged", "SQL error", "default log"}
MCValues == {"default", "other", "tmp"}
MCFiles == {Absent, Broken,
            [k \in Keys |-> IF k = DB THEN "other" ELSE Missing],
            [k \in Keys |-> IF k = DB THEN "other" ELSE Bad]}
===============================================================================
