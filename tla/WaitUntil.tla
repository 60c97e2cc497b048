----------------------------- MODULE WaitUntil ------------------------------
(***************************************************************************)
(* How a thread of the compiled runtime falls asleep on a key and is woken:   *)
(* wait_until and signal (impl/cbrt/src/lib.rs).                             *)
(*                                                                         *)
(* A wait looks at the book under the book's lock and, before it lets that    *)
(* go, registers with EVENTS; it sleeps under EVENTS' own lock, 50 ms at      *)
(* most.  A change of the book is made under the book's lock, and signalled   *)
(* after: the key's event is moved under EVENTS' lock, and the sleepers are   *)
(* notified after that.  WaitBook says what the waits mean to the program;    *)
(* here they are conditions on keys, and the steps between look and sleep.    *)
(***************************************************************************)
EXTENDS Integers, FiniteSets

CONSTANTS
    N,       \* threads, all running at the start; 1 is the main thread
    Locks,   \* mutexes
    Counts,  \* counts of channels and atomics
    MayWait, \* the keys the program has each thread wait for
    NoKey

Threads == 1..N
Main == 1
Nobody == 0

\* A thread's end has its id as key; each thread has one for the clock.
TimerKey(t) == 0 - t
Timers == {TimerKey(t) : t \in Threads}
Keys == Threads \cup Timers \cup Locks \cup Counts

ASSUME KeysAssumption ==
    /\ N \in Nat \ {0}
    /\ (Locks \cup Counts) \cap Int = {} /\ Locks \cap Counts = {}
    /\ NoKey \notin Int \cup Locks \cup Counts
    /\ \A t \in Threads : MayWait[t] \subseteq Threads \cup {TimerKey(t)} \cup Locks \cup Counts

VARIABLES
    holder,      \* Book.locks
    poisoned,    \* the mutexes whose state cells say so
    ended,       \* the threads that no longer run
    moved,       \* the threads that wait for a count that has moved
    cancel,      \* Book.cancel
    deadlocked,  \* Book.deadlocked
    cunwind,     \* the threads that unwind a contained fault
    waits,       \* Book.waits and Book.wake
    waiting,     \* EVENTS: how many wait for a key; an entry is there while some do
    same,        \* the registered threads whose event has not been signalled since
    toSignal,    \* the keys a thread has yet to signal
    toNotify,    \* the key whose sleepers it has yet to notify
    at

book == <<holder, poisoned, ended, moved, cancel, deadlocked, cunwind, waits>>
events == <<waiting, same, toNotify>>
vars == <<book, events, toSignal, at>>

Places == {"run", "look", "registered", "asleep", "fault", "ended", "exit"}

TypeOK ==
    /\ holder \in [Locks -> Threads \cup {Nobody}]
    /\ poisoned \subseteq Locks
    /\ ended \subseteq Threads /\ moved \subseteq Threads /\ cancel \subseteq Threads
    /\ deadlocked \subseteq Threads /\ cunwind \subseteq Threads /\ same \subseteq Threads
    /\ waits \in [Threads -> Keys \cup {NoKey}]
    /\ waiting \in [Keys -> 0..N]
    /\ toSignal \in [Threads -> SUBSET Keys]
    /\ toNotify \in [Threads -> Keys \cup {NoKey}]
    /\ at \in [Threads -> Places]

Init ==
    /\ holder = [l \in Locks |-> Nobody]
    /\ poisoned = {} /\ ended = {} /\ moved = {} /\ cancel = {} /\ deadlocked = {} /\ cunwind = {}
    /\ waits = [t \in Threads |-> NoKey]
    /\ waiting = [k \in Keys |-> 0]
    /\ same = {}
    /\ toSignal = [t \in Threads |-> {}]
    /\ toNotify = [t \in Threads |-> NoKey]
    /\ at = [t \in Threads |-> "run"]

-----------------------------------------------------------------------------
(* The book.                                                                 *)

Running == Threads \ ended

\* A thread between two calls, with nothing left to signal.
Free(t) == at[t] = "run" /\ toSignal[t] = {} /\ toNotify[t] = NoKey

\* What the wait is for has come about.
Came(t, k) ==
    \/ k \in Threads /\ k \in ended
    \/ k \in Locks /\ (holder[k] = Nobody \/ k \in poisoned)
    \/ k \in Counts /\ t \in moved

\* ready, as each caller of wait_until has it: the main thread's wait for a count
\* ends as well when it is the last.
ready(t, k) ==
    \/ Came(t, k)
    \/ k \in Counts /\ t = Main /\ Main \notin deadlocked /\ Running \ {Main} = {}

\* ready, when it says yes to a mutex that is not poisoned, claims it.
Claim(t, k) ==
    holder' = IF k \in Locks \ poisoned THEN [holder EXCEPT ![k] = t] ELSE holder

Cancelled(t) == t \in cancel \ cunwind
stop_reason(t) == t \in deadlocked \/ Cancelled(t)

\* find_deadlock: when every running thread waits, none can go on and none is
\* about to stop, some are marked.  Which ones is WaitBook's matter.  A thread on
\* the clock never counts as stuck.
Stuck(t, w) == w[t] \notin Timers \cup {NoKey} /\ ~Came(t, w[t]) /\ t \notin cancel
find_deadlock(running, w) ==
    IF \A t \in running : Stuck(t, w)
    THEN \E ts \in SUBSET running \ {{}} : deadlocked' = deadlocked \cup ts
    ELSE UNCHANGED deadlocked

\* A wait is over: without need of it, or at a later look.  A main thread whose
\* count has not moved faults.
Return(t, k) ==
    /\ Claim(t, k)
    /\ waits' = [waits EXCEPT ![t] = NoKey]
    /\ at' = [at EXCEPT ![t] = IF k \in Counts /\ t \notin moved THEN "fault" ELSE "run"]
    /\ moved' = moved \ {t}
    /\ UNCHANGED deadlocked

Stop(t) ==
    /\ deadlocked' = deadlocked \ {t}
    /\ waits' = [waits EXCEPT ![t] = NoKey]
    /\ at' = [at EXCEPT ![t] = "fault"]
    /\ moved' = moved \ {t}
    /\ UNCHANGED holder

\* wait_until's first hold of the book.  A wait that closes a cycle of joins and
\* locks is refused (WaitBook).
Begin(t, k) ==
    /\ Free(t)
    /\ k \in MayWait[t] /\ k # t
    /\ k \in Locks => holder[k] # t
    /\ \/ /\ ready(t, k)
          /\ Return(t, k)
       \/ /\ ~ready(t, k) /\ stop_reason(t)
          /\ Stop(t)
       \/ /\ ~ready(t, k) /\ ~stop_reason(t)
          /\ waits' = [waits EXCEPT ![t] = k]
          /\ at' = [at EXCEPT ![t] = "look"]
          /\ find_deadlock(Running, waits')
          /\ UNCHANGED <<holder, moved>>
    /\ UNCHANGED <<poisoned, ended, cancel, cunwind, events, toSignal>>

\* Each later look, and the registration in the same hold.  A wait on the clock
\* may find that its moment has come.
Look(t) ==
    /\ at[t] = "look"
    /\ LET k == waits[t]
       IN \/ /\ ready(t, k) \/ k = TimerKey(t)
             /\ Return(t, k)
             /\ UNCHANGED events
          \/ /\ ~ready(t, k) /\ stop_reason(t)
             /\ Stop(t)
             /\ UNCHANGED events
          \/ /\ ~ready(t, k) /\ ~stop_reason(t)
             /\ at' = [at EXCEPT ![t] = "registered"]
             /\ waiting' = [waiting EXCEPT ![k] = @ + 1]
             /\ same' = same \cup {t}
             /\ UNCHANGED <<toNotify, holder, moved, deadlocked, waits>>
    /\ UNCHANGED <<poisoned, ended, cancel, cunwind, toSignal>>

-----------------------------------------------------------------------------
(* Sleeping and waking, under EVENTS' lock.                                  *)

\* With a bug: the entry goes with the first of its waiters.
LeaveEventsAll(t) ==
    /\ waiting' = [waiting EXCEPT ![waits[t]] = 0]
    /\ same' = same \ {t}
    /\ at' = [at EXCEPT ![t] = "look"]

LeaveEvents(t) ==
    /\ waiting' = [waiting EXCEPT ![waits[t]] = @ - 1]
    /\ same' = same \ {t}
    /\ at' = [at EXCEPT ![t] = "look"]

\* With a bug: a thread sleeps without another look at its event.
SleepBlindly(t) ==
    /\ at[t] = "registered"
    /\ at' = [at EXCEPT ![t] = "asleep"]
    /\ UNCHANGED <<book, events, toSignal>>

\* A thread that finds its event signalled since it registered does not sleep.
Sleep(t) ==
    /\ at[t] = "registered"
    /\ IF t \in same
       THEN at' = [at EXCEPT ![t] = "asleep"] /\ UNCHANGED <<waiting, same>>
       ELSE LeaveEvents(t)
    /\ UNCHANGED <<book, toSignal, toNotify>>

\* After 50 ms, or at the clock's moment.
Timeout(t) ==
    /\ at[t] = "asleep"
    /\ LeaveEvents(t)
    /\ UNCHANGED <<book, toSignal, toNotify>>

Registered(k) == {t \in Threads : at[t] \in {"registered", "asleep"} /\ waits[t] = k}

\* signal: the event moves if it has an entry, ...
Signal(t, k) ==
    /\ k \in toSignal[t] /\ toNotify[t] = NoKey
    /\ toSignal' = [toSignal EXCEPT ![t] = @ \ {k}]
    /\ IF waiting[k] > 0
       THEN same' = same \ Registered(k) /\ toNotify' = [toNotify EXCEPT ![t] = k]
       ELSE UNCHANGED <<same, toNotify>>
    /\ UNCHANGED <<book, waiting, at>>

\* ... and with EVENTS' lock let go, its sleepers are woken.  One that was not
\* signalled since it registered sleeps on.
NotifyAll(t) ==
    /\ toNotify[t] # NoKey
    /\ toNotify' = [toNotify EXCEPT ![t] = NoKey]
    /\ at' = [u \in Threads |->
                IF at[u] = "asleep" /\ waits[u] = toNotify[t] /\ u \notin same THEN "registered" ELSE at[u]]
    /\ UNCHANGED <<book, waiting, same, toSignal>>

-----------------------------------------------------------------------------
(* Changes of the book that others wait for.                                 *)

\* guard_drop, cb_unlock_bare.
Unlock(t, l) ==
    /\ Free(t) /\ holder[l] = t
    /\ holder' = [holder EXCEPT ![l] = Nobody]
    /\ toSignal' = [toSignal EXCEPT ![t] = {l}]
    /\ UNCHANGED <<poisoned, ended, moved, cancel, deadlocked, cunwind, waits, events, at>>

\* cb_event_op(3), cb_atomic_wait(2 and 3).
Notify(t, c) ==
    /\ Free(t)
    /\ moved' = moved \cup {u \in Threads : waits[u] = c}
    /\ toSignal' = [toSignal EXCEPT ![t] = {c}]
    /\ UNCHANGED <<holder, poisoned, ended, cancel, deadlocked, cunwind, waits, events, at>>

\* With a bug: nothing is signalled for a thread that is not asleep yet.
CancelAsleep(t, u) ==
    /\ Free(t) /\ u \in Running \ {t, Main} /\ u \notin cancel
    /\ cancel' = cancel \cup {u}
    /\ toSignal' = [toSignal EXCEPT ![t] = IF at[u] = "asleep" THEN {waits[u]} ELSE {}]
    /\ UNCHANGED <<holder, poisoned, ended, moved, deadlocked, cunwind, waits, events, at>>

\* request_cancel: the thread is told through the key it waits on, if it waits.
Cancel(t, u) ==
    /\ Free(t) /\ u \in Running \ {t, Main} /\ u \notin cancel
    /\ cancel' = cancel \cup {u}
    /\ toSignal' = [toSignal EXCEPT ![t] = {waits[u]} \ {NoKey}]
    /\ UNCHANGED <<holder, poisoned, ended, moved, deadlocked, cunwind, waits, events, at>>

\* A fault: the main thread's ends the program; another's is contained, its
\* mutexes released and poisoned, and its unwind goes on.
Fault(t) ==
    /\ at[t] = "fault" \/ (Free(t) /\ t \notin cunwind)
    /\ LET mine == {l \in Locks : holder[l] = t}
       IN IF t = Main \/ t \in cunwind
          THEN /\ at' = [at EXCEPT ![t] = "exit"]
               /\ UNCHANGED <<holder, poisoned, cunwind, toSignal>>
          ELSE /\ at' = [at EXCEPT ![t] = "run"]
               /\ cunwind' = cunwind \cup {t}
               /\ holder' = [l \in Locks |-> IF l \in mine THEN Nobody ELSE holder[l]]
               /\ poisoned' = poisoned \cup mine
               /\ toSignal' = [toSignal EXCEPT ![t] = mine]
    /\ UNCHANGED <<ended, moved, cancel, deadlocked, waits, events>>

\* cb_thread_done, cb_thread_failed.
End(t) ==
    /\ Free(t) /\ t # Main /\ \A l \in Locks : holder[l] # t
    /\ ended' = ended \cup {t}
    /\ find_deadlock(Running \ {t}, waits)
    /\ toSignal' = [toSignal EXCEPT ![t] = {t}]
    /\ at' = [at EXCEPT ![t] = "ended"]
    /\ UNCHANGED <<holder, poisoned, moved, cancel, cunwind, waits, events>>

\* The process ends with a fault that is not contained.
GoesOn == \A t \in Threads : at[t] # "exit"

Waits(t) == Look(t) \/ Sleep(t)
Signals(t) == NotifyAll(t) \/ \E k \in Keys : Signal(t, k)

Next ==
    /\ GoesOn
    /\ \E t \in Threads :
        \/ Waits(t) \/ Signals(t) \/ Timeout(t) \/ Fault(t) \/ End(t)
        \/ \E k \in Keys : Begin(t, k)
        \/ \E l \in Locks : Unlock(t, l)
        \/ \E c \in Counts : Notify(t, c)
        \/ \E u \in Threads : Cancel(t, u)

Spec == Init /\ [][Next]_vars

\* The OS runs every thread.  The timed sleep is assumed to end only where
\* nothing else would: no signal tells a thread that it has been found
\* deadlocked, nor the main thread that it is the last, nor the time.
Untold(t) ==
    \/ t \in deadlocked
    \/ waits[t] \in Timers
    \/ t = Main /\ Running = {Main}

FairSpec ==
    /\ Spec
    /\ \A t \in Threads :
        /\ WF_vars(GoesOn /\ Waits(t))
        /\ WF_vars(GoesOn /\ Signals(t))
        /\ WF_vars(GoesOn /\ Untold(t) /\ Timeout(t))

-----------------------------------------------------------------------------

\* "the waiter registers before that lock is let go, so no change made under it
\* is missed": a thread about to sleep or asleep, whose wait has come about or
\* who has been cancelled, has an event that was signalled or will be.
NoSignalLost ==
    \A t \in Threads :
        /\ at[t] \in {"registered", "asleep"} /\ t \in same
        /\ Came(t, waits[t]) \/ Cancelled(t)
        => \E u \in Threads : waits[t] \in toSignal[u]

\* A thread asleep on an event that was signalled is about to be notified.
SignalledAreNotified ==
    \A t \in Threads :
        at[t] = "asleep" /\ t \notin same => \E u \in Threads : toNotify[u] = waits[t]

\* A thread told to stop leaves its wait (stop_reason): cancelled, by a signal;
\* found deadlocked, by the timed sleep.
InWait(t) == at[t] \in {"look", "registered", "asleep"}
StopEndsWait == \A t \in Threads : []<>~(GoesOn /\ InWait(t) /\ stop_reason(t))

\* Nobody sleeps on for good while what it waits for is there.
CameEndsSleep ==
    \A t \in Threads : []<>~(GoesOn /\ at[t] = "asleep" /\ Came(t, waits[t]))
=============================================================================
