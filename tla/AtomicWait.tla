----------------------------- MODULE AtomicWait -----------------------------
(***************************************************************************)
(* Atomic::wait and Atomic::notify_* (impl/std/sync.cb) over the runtime's    *)
(* wake counts (cb_atomic_wait, impl/cbrt/src/lib.rs), for one atomic.  A      *)
(* wait reads the wake count, then the value, and sleeps only while the count  *)
(* is the one it read.  Atomics of one bucket share their count, so a notify   *)
(* of another one wakes these waiters too.                                     *)
(*                                                                            *)
(* A count matters only as "moved since it was read": `current` holds the      *)
(* threads whose read of it is current.                                        *)
(***************************************************************************)
EXTENDS Integers, FiniteSets

CONSTANT Threads

VARIABLES
    at,      \* where in its call each thread stands
    current  \* the threads whose read of the wake count is current

waitVars == <<at, current>>

WaitPoints == {"seen", "check", "sleep"}

Go(t, from, to) == at[t] = from /\ at' = [at EXCEPT ![t] = to]

\* atomic_wait_op(a, 0): the wake count is read first ...
ReadSeen(t) ==
    /\ Go(t, "seen", "check")
    /\ current' = current \cup {t}

\* ... then the value: the wait is over if it is not the expected one.
Check(t, changed, to) ==
    /\ Go(t, "check", IF changed THEN to ELSE "sleep")
    /\ current' = IF changed THEN current \ {t} ELSE current

\* atomic_wait_op(a, 1) returns once the count has moved; then all again.
Wake(t) ==
    /\ t \notin current
    /\ Go(t, "sleep", "seen")
    /\ UNCHANGED current

\* That wait may end in a fault instead: the thread cancelled or deadlocked.
Stop(t, to) ==
    /\ t \in current
    /\ Go(t, "sleep", to)
    /\ current' = current \ {t}

\* atomic_wait_op(a, 2) and (a, 3): every waiter wakes.
Notify(t, from, to) ==
    /\ Go(t, from, to)
    /\ current' = {}

\* A notify of another atomic whose address falls in the same bucket.
NotifyOther == current # {} /\ current' = {} /\ UNCHANGED at

Asleep(t) == at[t] = "sleep" /\ t \in current
=============================================================================
