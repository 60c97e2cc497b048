---------------------------- MODULE MCWaitUntil -----------------------------
(* A program of three threads: the main thread joins the third, two contend    *)
(* for a mutex, two wait for a count, and one sleeps.                         *)
EXTENDS WaitUntil

CONSTANTS l1, c1

ProgramWaits == <<{c1, 3}, {l1, TimerKey(2)}, {l1, c1}>>
=============================================================================
