------------------------------ MODULE LogManager ------------------------------
(***************************************************************************)
(* The log of the daemon: threads push messages on a queue under a mutex    *)
(* and notify a condition variable after they have given it up; one worker  *)
(* takes a message at a time, gives up the mutex and writes it.  stop()     *)
(* sets a flag, notifies and joins the worker.  The worker ends at once     *)
(* when neither the configured nor the default file opens.                  *)
(*                                                                          *)
(* A critical section of the mutex is one action.  The values of the        *)
(* messages are left to the modules that log them.                          *)
(***************************************************************************)
EXTENDS Sequences, Naturals

CONSTANTS LogThreads,  \* the threads that log, the worker apart
          Messages,    \* what they log
          UseDefault,  \* the message of the worker itself
          NoMsg,       \* "no message"
          MaxBehind    \* bound: messages in the queue of a worker that still runs

ASSUME LogAssumption ==
  /\ NoMsg \notin Messages /\ UseDefault \in Messages
  /\ MaxBehind \in Nat \ {0}

VARIABLES log_queue_,
          stop_requested_,
          log_file,   \* the open file: "none", "configured", "default"
          log_thread, \* "new", "check", "asleep", "write", "gone"
          msg,        \* the message the worker has taken and not yet written
          notifying,  \* threads between unlock and notify_one
          owed        \* history: what was given to add_log and is not in the file,
                      \* in the order of the calls

logVars == <<log_queue_, stop_requested_, log_file, log_thread, msg, notifying, owed>>

InitLog == /\ log_queue_ = <<>> /\ stop_requested_ = FALSE
           /\ log_file = "none" /\ log_thread = "new" /\ msg = NoMsg
           /\ notifying = {} /\ owed = <<>>
-------------------------------------------------------------------------------
WithinBound == log_thread = "gone" \/ Len(log_queue_) < MaxBehind

\* add_log: push under the mutex; the notification is still to come.
add_log(t, m) ==
  /\ t \notin notifying /\ WithinBound
  /\ log_queue_' = Append(log_queue_, m)
  /\ owed' = Append(owed, m)
  /\ notifying' = notifying \cup {t}
  /\ UNCHANGED <<stop_requested_, log_file, log_thread, msg>>

\* Mutated form of notify_one: a worker that writes is woken up as well.
notify_writing(t) ==
  /\ t \in notifying
  /\ notifying' = notifying \ {t}
  /\ log_thread' = IF log_thread \in {"asleep", "write"} THEN "check" ELSE log_thread
  /\ UNCHANGED <<log_queue_, stop_requested_, log_file, msg, owed>>

\* cv_.notify_one(): only the worker waits.
notify_one(t) ==
  /\ t \in notifying
  /\ notifying' = notifying \ {t}
  /\ log_thread' = IF log_thread = "asleep" THEN "check" ELSE log_thread
  /\ UNCHANGED <<log_queue_, stop_requested_, log_file, msg, owed>>

\* Mutated form of stop: only the flag is set.
stop_silently(t) ==
  /\ t \notin notifying
  /\ stop_requested_' = TRUE
  /\ UNCHANGED <<log_queue_, log_file, log_thread, msg, notifying, owed>>

\* stop(), up to its notification; the join is the caller's wait for "gone".
stop(t) ==
  /\ t \notin notifying
  /\ stop_requested_' = TRUE
  /\ notifying' = notifying \cup {t}
  /\ UNCHANGED <<log_queue_, log_file, log_thread, msg, owed>>
-------------------------------------------------------------------------------
\* log_worker: the file is opened, with the default one as a second choice.
\* With the default file the worker logs a message, which nobody needs to
\* announce to it.
open_file ==
  /\ log_thread = "new"
  /\ \/ /\ log_file' = "configured" /\ log_thread' = "check"
        /\ UNCHANGED <<log_queue_, owed>>
     \/ /\ log_file' = "default" /\ log_thread' = "check"
        /\ log_queue_' = Append(log_queue_, UseDefault)
        /\ owed' = Append(owed, UseDefault)
     \/ log_thread' = "gone" /\ UNCHANGED <<log_queue_, owed, log_file>>
  /\ UNCHANGED <<stop_requested_, msg, notifying>>

\* Mutated form of next_message: a stop request is looked at before the queue.
next_unless_stopped ==
  /\ log_thread = "check"
  /\ IF stop_requested_ THEN log_thread' = "gone" /\ UNCHANGED <<log_queue_, msg>>
     ELSE IF log_queue_ # <<>>
     THEN /\ msg' = Head(log_queue_) /\ log_queue_' = Tail(log_queue_)
          /\ log_thread' = "write"
     ELSE log_thread' = "asleep" /\ UNCHANGED <<log_queue_, msg>>
  /\ UNCHANGED <<stop_requested_, log_file, notifying, owed>>

\* With the mutex held: the queue is emptied first, then the worker leaves
\* when it shall stop, and sleeps otherwise.
next_message ==
  /\ log_thread = "check"
  /\ \/ /\ log_queue_ # <<>>
        /\ msg' = Head(log_queue_) /\ log_queue_' = Tail(log_queue_)
        /\ log_thread' = "write"
     \/ /\ log_queue_ = <<>>
        /\ log_thread' = IF stop_requested_ THEN "gone" ELSE "asleep"
        /\ UNCHANGED <<log_queue_, msg>>
  /\ UNCHANGED <<stop_requested_, log_file, notifying, owed>>

\* Mutated form of write_message: the message is popped when it is written, too.
write_and_pop ==
  /\ log_thread = "write"
  /\ log_queue_' = IF log_queue_ = <<>> THEN <<>> ELSE Tail(log_queue_)
  /\ owed' = Tail(owed)
  /\ msg' = NoMsg
  /\ log_thread' = "check"
  /\ UNCHANGED <<stop_requested_, log_file, notifying>>

\* Without the mutex.
write_message ==
  /\ log_thread = "write"
  /\ owed' = Tail(owed)
  /\ msg' = NoMsg
  /\ log_thread' = "check"
  /\ UNCHANGED <<log_queue_, stop_requested_, log_file, notifying>>

spurious_wakeup == /\ log_thread = "asleep"
                   /\ log_thread' = "check"
                   /\ UNCHANGED <<log_queue_, stop_requested_, log_file, msg, notifying, owed>>

log_worker == open_file \/ next_message \/ write_message

\* The process is gone; the next one starts with nothing in memory.
ResetLog == /\ log_queue_' = <<>> /\ stop_requested_' = FALSE
            /\ log_file' = "none" /\ log_thread' = "new" /\ msg' = NoMsg
            /\ notifying' = {} /\ owed' = <<>>

NextLog == \/ \E t \in LogThreads : \/ \E m \in Messages : add_log(t, m)
                                    \/ notify_one(t) \/ stop(t)
           \/ log_worker \/ spurious_wakeup \/ ResetLog

LogSpec == InitLog /\ [][NextLog]_logVars
-------------------------------------------------------------------------------
LogTypeOK ==
  /\ log_queue_ \in Seq(Messages) /\ owed \in Seq(Messages)
  /\ stop_requested_ \in BOOLEAN
  /\ log_file \in {"none", "configured", "default"}
  /\ log_thread \in {"new", "check", "asleep", "write", "gone"}
  /\ msg \in Messages \cup {NoMsg} /\ (msg # NoMsg <=> log_thread = "write")
  /\ notifying \subseteq LogThreads

\* What was logged and is not in the file is, in the order of the calls of
\* add_log, in the worker's hand and in the queue: none is lost, doubled or
\* overtaken while the worker has given up the mutex.
LogConserved == owed = (IF msg = NoMsg THEN <<>> ELSE <<msg>>) \o log_queue_

\* The worker never sleeps over a message or a stop request nobody is about to
\* tell it of, although notify_one is called without the mutex.
LogNoLostWakeup ==
  log_thread = "asleep" /\ (log_queue_ # <<>> \/ stop_requested_) => notifying # {}

\* A worker that has a file does not leave before it was told to stop and all
\* that was said until then is written: stop() loses no message.
LogDrains ==
  [][log_file # "none" /\ log_thread # "gone" /\ log_thread' = "gone" =>
       stop_requested_ /\ owed = <<>>]_logVars
===============================================================================
