----------------------------- MODULE MCSessionMgr -----------------------------
(***************************************************************************)
(* Values for the constants of SessionMgr.                                  *)
(***************************************************************************)
EXTENDS SessionMgr, TLC

CONSTANTS u1, u2, s1, s2, t1, t2

\* Daylight saving time begins at 2 and ends at 5.
SummerTime == 2 .. 4

\* It lasts longer than a session and the shift of the clock: from 1 to 5.
LongSummer == 1 .. 4
===============================================================================
