--------------------------- MODULE LogManagerProofs ---------------------------
(***************************************************************************)
(* Proofs about LogManager, for any threads, any messages and a queue of    *)
(* any length.                                                              *)
(***************************************************************************)
EXTENDS LogManager, SequenceTheorems, TLAPS

\* What the worker has in its hand.
Hand == IF msg = NoMsg THEN <<>> ELSE <<msg>>

\* The worker opens its file before it does anything else.
NewHasNoFile == log_thread = "new" => log_file = "none"

\* With a file, the worker leaves only when it is told to.
LeftWhenTold == log_file # "none" /\ log_thread = "gone" => stop_requested_

LogInv == LogTypeOK /\ NewHasNoFile /\ LeftWhenTold /\ LogConserved

\* A sequence is its head before its tail.
LEMMA HeadBeforeTail ==
  ASSUME NEW S, NEW s \in Seq(S), s # <<>>
  PROVE  <<Head(s)>> \o Tail(s) = s
<1>1. Len(s) \in Nat \ {0} /\ Head(s) = s[1] /\ Tail(s) = SubSeq(s, 2, Len(s))
  BY EmptySeq, TailIsSubSeq, LenProperties
<1>2. SubSeq(s, 1, Len(s)) = <<s[1]>> \o SubSeq(s, 1 + 1, Len(s))
  BY <1>1, SubSeqRecursiveFirst
<1> QED
  BY <1>1, <1>2, SubSeqFull

\* What is behind the first element is the tail.
LEMMA TailBehindOne ==
  ASSUME NEW S, NEW e \in S, NEW s \in Seq(S)
  PROVE  Tail(<<e>> \o s) = s
<1> DEFINE c == <<e>> \o s
<1>1. <<e>> \in Seq(S) /\ Len(<<e>>) = 1
  OBVIOUS
<1>2. c \in Seq(S) /\ Len(c) = 1 + Len(s)
  BY <1>1, ConcatProperties
<1>3. Tail(c) \in Seq(S) /\ Len(Tail(c)) = Len(s) /\ \A i \in 1 .. Len(s) : Tail(c)[i] = c[i + 1]
  BY <1>2
<1>4. \A i \in 1 .. Len(s) : c[i + 1] = s[i]
  BY <1>1
<1> HIDE DEF c
<1>5. Tail(c) = s
  BY <1>3, <1>4, SeqEqual
<1> QED
  BY <1>5 DEF c

LEMMA LogInit == InitLog => LogInv /\ LogNoLostWakeup
<1> SUFFICES ASSUME InitLog
             PROVE  LogInv /\ LogNoLostWakeup
  OBVIOUS
<1>1. owed = <<>> /\ log_queue_ = <<>> /\ msg = NoMsg
  BY DEF InitLog
<1>2. LogTypeOK
  BY <1>1, LogAssumption, EmptySeq DEF InitLog, LogTypeOK
<1>3. LogConserved
  BY <1>1 DEF LogConserved
<1> QED
  BY <1>2, <1>3 DEF InitLog, LogInv, NewHasNoFile, LeftWhenTold, LogNoLostWakeup

\* Type correctness is inductive together with LogConserved, which says that a
\* worker with a message in its hand owes at least that one.
LEMMA LogTypeStep ==
  ASSUME LogInv, [NextLog]_logVars
  PROVE  LogTypeOK'
<1> USE LogAssumption DEF LogTypeOK, LogInv
<1>1. CASE UNCHANGED logVars
  BY <1>1 DEF logVars
<1>2. ASSUME NEW t \in LogThreads, NEW m \in Messages, add_log(t, m) PROVE LogTypeOK'
  BY <1>2, AppendProperties DEF add_log
<1>3. ASSUME NEW t \in LogThreads, notify_one(t) PROVE LogTypeOK'
  BY <1>3 DEF notify_one
<1>4. ASSUME NEW t \in LogThreads, stop(t) PROVE LogTypeOK'
  BY <1>4 DEF stop
<1>5. CASE open_file
  <2>0. Append(log_queue_, UseDefault) \in Seq(Messages) /\ Append(owed, UseDefault) \in Seq(Messages)
    BY AppendProperties
  <2>1. log_queue_' \in Seq(Messages) /\ owed' \in Seq(Messages)
    BY <1>5, <2>0 DEF open_file
  <2>2. /\ log_file' \in {"none", "configured", "default"} /\ log_thread' \in {"check", "gone"}
        /\ UNCHANGED <<stop_requested_, msg, notifying>> /\ log_thread = "new"
    BY <1>5 DEF open_file
  <2> QED
    BY <2>1, <2>2
<1>6. CASE next_message
  <2>1. CASE log_queue_ # <<>>
    <3>1. Head(log_queue_) \in Messages /\ Tail(log_queue_) \in Seq(Messages)
      BY <2>1, HeadTailProperties
    <3>2. /\ msg' \in Messages /\ log_queue_' \in Seq(Messages) /\ log_thread' = "write"
          /\ UNCHANGED <<stop_requested_, log_file, notifying, owed>>
      BY <1>6, <2>1, <3>1 DEF next_message
    <3> QED
      BY <3>2
  <2>2. CASE log_queue_ = <<>>
    BY <1>6, <2>2 DEF next_message
  <2> QED
    BY <2>1, <2>2
<1>7. CASE write_message
  <2>1. owed = <<msg>> \o log_queue_ /\ msg \in Messages
    BY <1>7 DEF write_message, LogConserved
  <2>2. owed' \in Seq(Messages)
    BY <1>7, <2>1, TailBehindOne DEF write_message
  <2> QED
    BY <1>7, <2>2 DEF write_message
<1>8. CASE spurious_wakeup
  BY <1>8 DEF spurious_wakeup
<1>9. CASE ResetLog
  BY <1>9, EmptySeq DEF ResetLog
<1> QED
  BY <1>1, <1>2, <1>3, <1>4, <1>5, <1>6, <1>7, <1>8, <1>9 DEF NextLog, log_worker

LEMMA LogConservedStep ==
  ASSUME LogInv, [NextLog]_logVars
  PROVE  LogConserved'
<1>0. /\ log_queue_ \in Seq(Messages) /\ owed \in Seq(Messages) /\ Hand \in Seq(Messages)
      /\ owed = Hand \o log_queue_ /\ (log_thread # "write" => msg = NoMsg)
  BY EmptySeq DEF LogInv, LogTypeOK, LogConserved, Hand
\* A message at the end of the queue is a message at the end of what is owed.
<1>1. ASSUME NEW m \in Messages PROVE Append(owed, m) = Hand \o Append(log_queue_, m)
  <2>1. Append(owed, m) = (Hand \o log_queue_) \o <<m>> /\ <<m>> \in Seq(Messages)
    BY <1>0, AppendIsConcat
  <2>2. Append(log_queue_, m) = log_queue_ \o <<m>>
    BY <1>0, AppendIsConcat
  <2> QED
    BY <1>0, <2>1, <2>2, ConcatAssociative
<1>2. LogConserved' <=> owed' = Hand' \o log_queue_'
  BY DEF LogConserved, Hand
<1>3. CASE UNCHANGED <<msg, owed, log_queue_>>
  BY <1>0, <1>2, <1>3 DEF Hand
<1>4. ASSUME NEW t \in LogThreads, NEW m \in Messages, add_log(t, m) PROVE LogConserved'
  BY <1>0, <1>1, <1>2, <1>4 DEF add_log, Hand
<1>5. CASE open_file
  BY <1>0, <1>1, <1>2, <1>5, LogAssumption DEF open_file, Hand
<1>6. CASE next_message /\ log_queue_ # <<>>
  <2>1. owed = log_queue_
    BY <1>0, <1>6, ConcatEmptySeq DEF next_message, Hand
  <2>2. msg' = Head(log_queue_) /\ log_queue_' = Tail(log_queue_) /\ owed' = owed /\ msg' \in Messages
    BY <1>0, <1>6, HeadTailProperties DEF next_message
  <2>3. Hand' = <<Head(log_queue_)>>
    BY <2>2, LogAssumption DEF Hand
  <2> QED
    BY <1>0, <1>2, <1>6, <2>1, <2>2, <2>3, HeadBeforeTail
<1>7. CASE write_message
  <2>1. owed = <<msg>> \o log_queue_ /\ msg \in Messages
    BY <1>0, <1>7 DEF write_message, LogInv, LogTypeOK, Hand
  <2>2. owed' = log_queue_ /\ log_queue_' = log_queue_ /\ Hand' = <<>>
    BY <1>0, <1>7, <2>1, TailBehindOne DEF write_message, Hand
  <2> QED
    BY <1>0, <1>2, <2>2, ConcatEmptySeq
<1>8. CASE ResetLog
  BY <1>8 DEF ResetLog, LogConserved
<1> QED
  BY <1>3, <1>4, <1>5, <1>6, <1>7, <1>8
  DEF NextLog, log_worker, logVars, notify_one, stop, spurious_wakeup, next_message

LEMMA LogInvStep ==
  ASSUME LogInv, [NextLog]_logVars
  PROVE  LogInv'
<1>1. NewHasNoFile' /\ LeftWhenTold'
  BY DEF LogInv, NewHasNoFile, LeftWhenTold, NextLog, logVars, add_log, notify_one, stop, log_worker, open_file,
         next_message, write_message, spurious_wakeup, ResetLog
<1> QED
  BY <1>1, LogTypeStep, LogConservedStep DEF LogInv

LEMMA LogWakeupStep ==
  ASSUME LogNoLostWakeup, [NextLog]_logVars
  PROVE  LogNoLostWakeup'
  BY DEF LogNoLostWakeup, NextLog, logVars, add_log, notify_one, stop, log_worker, open_file,
         next_message, write_message, spurious_wakeup, ResetLog

LEMMA LogDrainsStep ==
  ASSUME LogInv, [NextLog]_logVars,
         log_file # "none", log_thread # "gone", log_thread' = "gone"
  PROVE  stop_requested_ /\ owed = <<>>
<1>1. next_message /\ log_queue_ = <<>> /\ stop_requested_
  BY DEF LogInv, NewHasNoFile, NextLog, logVars, add_log, notify_one, stop, log_worker, open_file,
         next_message, write_message, spurious_wakeup, ResetLog
<1>2. msg = NoMsg
  BY <1>1 DEF next_message, LogInv, LogTypeOK
<1> QED
  BY <1>1, <1>2, EmptySeq, ConcatEmptySeq DEF LogInv, LogTypeOK, LogConserved
-------------------------------------------------------------------------------
LEMMA LogInvHolds == LogSpec => []LogInv
<1>1. LogInv /\ [NextLog]_logVars => LogInv'
  BY LogInvStep
<1> QED
  BY <1>1, LogInit, PTL DEF LogSpec

\* The queue, the file and the worker have the values the code gives them.
THEOREM LogTypeCorrect == LogSpec => []LogTypeOK
<1>1. LogInv => LogTypeOK
  BY DEF LogInv
<1> QED
  BY <1>1, LogInvHolds, PTL

\* LogManager neither loses, doubles nor reorders a message: what add_log was
\* given and log_worker has not written is in the queue and in its hand.
THEOREM LogKeepsMessages == LogSpec => []LogConserved
<1>1. LogInv => LogConserved
  BY DEF LogInv
<1> QED
  BY <1>1, LogInvHolds, PTL

\* notify_one after the mutex was given up loses no wakeup of log_worker.
THEOREM LogWakesUp == LogSpec => []LogNoLostWakeup
<1>1. LogNoLostWakeup /\ [NextLog]_logVars => LogNoLostWakeup'
  BY LogWakeupStep
<1> QED
  BY <1>1, LogInit, PTL DEF LogSpec

\* stop() waits for the last message: log_worker leaves an open file only when
\* it was told to and owes nothing.
THEOREM LogStopDrains == LogSpec => LogDrains
<1>1. LogInv /\ [NextLog]_logVars =>
        [log_file # "none" /\ log_thread # "gone" /\ log_thread' = "gone" =>
           stop_requested_ /\ owed = <<>>]_logVars
  BY LogDrainsStep
<1> QED
  BY <1>1, LogInvHolds, PTL DEF LogSpec, LogDrains
===============================================================================
