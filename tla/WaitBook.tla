------------------------------ MODULE WaitBook ------------------------------
(***************************************************************************)
(* The book of the compiled runtime (impl/cbrt/src/lib.rs): which threads   *)
(* run, who holds each mutex, what each waiting thread waits for, and the   *)
(* rules by which a wait ends -- its condition came true, the thread was    *)
(* cancelled, its wait would close a cycle, or it was found deadlocked.     *)
(*                                                                         *)
(* One action is one hold of the book's lock (`book()`).  The program is    *)
(* the most general one: a running thread may spawn, lock, wait, notify,    *)
(* cancel, fault or end its scopes whenever the calls it makes allow it.    *)
(*                                                                         *)
(* Abstractions.  A count (a channel's event count, an atomic's wake count) *)
(* is compared only with a value read from it, so the model keeps, per      *)
(* thread, the count it has read and that has not moved since (`seen`).     *)
(* The frames of a thread's stack are one set of handles: which of them the *)
(* innermost frame owns is chosen when that frame ends.                     *)
(***************************************************************************)
EXTENDS Integers, FiniteSets

CONSTANTS
    N,          \* thread ids are 1..N, given out in order; 1 is the main thread
    Locks,      \* the mutexes
    Events,     \* the channels' event counts
    Buckets,    \* the atomics' wake counts
    Timers,     \* TRUE when threads may also sleep on the clock
    MoveHandles, \* TRUE when a handle may be moved to another thread
    Lending     \* TRUE when a thread may be lent an exclusive reference

ASSUME NAssumption == N \in Nat \ {0}

Threads == 1..N
Main == 1
NoThread == 0
Counts == Events \cup Buckets
NoCount == "no count"

NoWait == [kind |-> "None", on |-> NoThread, then |-> "-"]
JoinWait(c, then) == [kind |-> "Join", on |-> c, then |-> then]
LockWait(l) == [kind |-> "Lock", on |-> l, then |-> "-"]
CountWait(c) == [kind |-> IF c \in Events THEN "Event" ELSE "Atomic", on |-> c, then |-> "-"]
TimerWait == [kind |-> "Timer", on |-> NoThread, then |-> "-"]

Waits == {NoWait, TimerWait} \cup {LockWait(l) : l \in Locks} \cup {CountWait(c) : c \in Counts}
           \cup {JoinWait(c, then) : c \in Threads, then \in {"join", "try_join", "drop"}}

VARIABLES
    ctl,        \* where each thread is: its own code, a wait, a fault on its way out
    why,        \* the diagnostic of the fault that ended or is ending it
    status,     \* Book.threads: the record each handle's thread has
    waits,      \* Book.waits: what each waiting thread waits for
    lockedBy,   \* Book.locks: each held mutex's holder
    poisoned,   \* the mutexes whose state cells say poisoned
    seen,       \* the count each thread has read and that has not moved since
    cancel,     \* Book.cancel: the threads asked to stop
    lent,       \* Book.lent: the threads lent an exclusive reference
    deadlocked, \* Book.deadlocked: the threads to fault as they wake
    cunwind,    \* the threads unwinding a contained fault
    owner,      \* the thread whose scopes own each thread's handle
    place,      \* where that handle is: on the owner's stack, in a frame being ended, ...
    guards,     \* the thread that has each mutex's guard
    over        \* how the program ended, if it did

vars == <<ctl, why, status, waits, lockedBy, poisoned, seen, cancel, lent,
          deadlocked, cunwind, owner, place, guards, over>>

TypeOK ==
    /\ ctl \in [Threads -> {"unborn", "start", "run", "wait", "fault", "ended"}]
    /\ why \in [Threads -> {"none", "fault", "cancelled", "deadlock"}]
    /\ status \in [Threads -> {"none", "Running", "Done", "Failed", "Taken"}]
    /\ waits \in [Threads -> Waits]
    /\ lockedBy \in [Locks -> Threads \cup {NoThread}]
    /\ poisoned \subseteq Locks
    /\ seen \in [Threads -> Counts \cup {NoCount}]
    /\ {cancel, lent, deadlocked, cunwind} \subseteq SUBSET Threads
    /\ owner \in [Threads -> Threads \cup {NoThread}]
    /\ place \in [Threads -> {"none", "stack", "sweep", "lost", "gone"}]
    /\ guards \in [Locks -> Threads \cup {NoThread}]
    /\ over \in {"no", "exit", "fault"}

Init ==
    /\ ctl = [t \in Threads |-> IF t = Main THEN "run" ELSE "unborn"]
    /\ why = [t \in Threads |-> "none"]
    /\ status = [t \in Threads |-> "none"]
    /\ waits = [t \in Threads |-> NoWait]
    /\ lockedBy = [l \in Locks |-> NoThread]
    /\ poisoned = {}
    /\ seen = [t \in Threads |-> NoCount]
    /\ cancel = {} /\ lent = {} /\ deadlocked = {} /\ cunwind = {}
    /\ owner = [t \in Threads |-> NoThread]
    /\ place = [t \in Threads |-> "none"]
    /\ guards = [l \in Locks |-> NoThread]
    /\ over = "no"

-----------------------------------------------------------------------------
(* The book's judgements.  `ws` and `st` are the waits and the records as    *)
(* they stand when the question is asked, in the middle of an action.        *)

LiveIn(st) == {Main} \cup {t \in Threads : st[t] = "Running"}

\* Asked to stop, as the book sees it: whatever the thread is doing.
Stopping == cancel \ lent

\* Whether a waiting thread's wait still holds it.
StillWaits(t, w, st) ==
    \/ w.kind = "Join" /\ st[w.on] = "Running"
    \/ w.kind = "Lock" /\ lockedBy[w.on] # NoThread
    \/ w.kind \in {"Event", "Atomic"} /\ seen[t] = w.on

\* The thread a join or a lock waits on.
WaitsOn(w) ==
    IF w.kind = "Join" THEN w.on
    ELSE IF w.kind = "Lock" THEN lockedBy[w.on]
    ELSE NoThread

\* The threads met in following the waits from `w`, cut at one asked to stop.
Chain(w, ws) ==
    LET next[i \in 0..N] ==
            IF i = 0 THEN WaitsOn(w)
            ELSE LET at == next[i - 1]
                 IN IF at = NoThread \/ at \in Stopping THEN NoThread ELSE WaitsOn(ws[at])
    IN {next[i] : i \in 0..N} \ {NoThread}

\* With a bug: only the thread waited on is looked at, not what it waits on.
closes_cycle_short(t, w, ws) == WaitsOn(w) = t

\* Whether `t` waiting for `w` would close a cycle of joins and locks.  The
\* code looks for `t` before it looks at whether `t` was asked to stop.
closes_cycle(t, w, ws) == t \in Chain(w, ws)

\* With a bug: a main thread alone is left to wait on an atomic as on a channel.
find_deadlock_lenient(ws, st) ==
    IF \/ LiveIn(st) = {Main} /\ ws[Main].kind \in {"Event", "Atomic"}
       \/ \E t \in LiveIn(st) : t \in Stopping \/ ~StillWaits(t, ws[t], st)
    THEN {}
    ELSE LET ends == {t \in LiveIn(st) : ws[t].kind \notin {"Join", "Lock"}}
         IN IF ends = {} THEN LiveIn(st) ELSE ends

\* The threads find_deadlock adds to `deadlocked`.
find_deadlock(ws, st) ==
    LET live == LiveIn(st)
        cycled == {t \in Threads : ws[t] # NoWait /\ closes_cycle(t, ws[t], ws)}
        ends == {t \in live : ws[t].kind \notin {"Join", "Lock"}}
    IN IF \/ live = {Main} /\ ws[Main].kind = "Event"
          \/ \E t \in live : t \in Stopping \/ ~StillWaits(t, ws[t], st)
       THEN {}
       ELSE IF cycled # {} THEN {t \in cycled : \A u \in cycled : u <= t}
       ELSE IF ends = {} THEN live ELSE ends

\* `ready`: what ends the wait of `t` for `w` as it should.
Ready(t, w) ==
    \/ w.kind = "Join" /\ status[w.on] # "Running"
    \/ w.kind = "Lock" /\ (w.on \in poisoned \/ lockedBy[w.on] = NoThread)
    \/ w.kind \in {"Event", "Atomic"} /\ seen[t] # w.on
    \/ w.kind = "Event" /\ t = Main /\ Main \notin deadlocked /\ LiveIn(status) = {Main}
    \/ w.kind = "Timer"

stop_reason(t) ==
    IF t \in deadlocked THEN "deadlock"
    ELSE IF t \in Stopping \ cunwind THEN "cancelled"
    ELSE "none"

-----------------------------------------------------------------------------
(* A thread's wait: wait_until and what its callers do once it returns.      *)

Running(t) == over = "no" /\ ctl[t] = "run"
Unread(t) == seen' = [seen EXCEPT ![t] = NoCount]

\* The thread leaves its code with a fault; fault_impl decides what follows.
Raise(t, d) ==
    /\ ctl' = [ctl EXCEPT ![t] = "fault"]
    /\ why' = [why EXCEPT ![t] = d]

\* free_env, then the handle's end.
TakeResult(c) == status' = [status EXCEPT ![c] = "Taken"]
EndHandle(c) ==
    /\ place' = [place EXCEPT ![c] = "gone"]
    /\ owner' = [owner EXCEPT ![c] = NoThread]

\* cb_join: a failure is raised again, the handle still a temporary of the
\* statement; a result is claimed and the handle consumed.
Joined(t, c) ==
    /\ TakeResult(c)
    /\ IF status[c] = "Failed"
       THEN Raise(t, why[c]) /\ UNCHANGED <<place, owner>>
       ELSE EndHandle(c) /\ ctl' = [ctl EXCEPT ![t] = "run"] /\ UNCHANGED why
    /\ UNCHANGED <<lockedBy, guards>>

\* try_join: a failure is a value.
TryJoined(t, c) ==
    /\ TakeResult(c)
    /\ EndHandle(c)
    /\ ctl' = [ctl EXCEPT ![t] = "run"]
    /\ UNCHANGED <<why, lockedBy, guards>>

\* With a bug: a failure that is discarded keeps its record.
DroppedKept(t, c) ==
    /\ status' = [status EXCEPT ![c] = IF status[c] = "Failed" THEN "Failed" ELSE "none"]
    /\ EndHandle(c)
    /\ IF status[c] = "Failed" /\ t \notin cunwind /\ ~(c \in cancel /\ why[c] = "cancelled")
       THEN Raise(t, why[c])
       ELSE ctl' = [ctl EXCEPT ![t] = "run"] /\ UNCHANGED why
    /\ UNCHANGED <<lockedBy, guards>>

\* handle_destructor: the record goes; a failure nobody took is raised again,
\* unless this thread is unwinding, or asked for the stop.
Dropped(t, c) ==
    /\ status' = [status EXCEPT ![c] = "none"]
    /\ EndHandle(c)
    /\ IF status[c] = "Failed" /\ t \notin cunwind /\ ~(c \in cancel /\ why[c] = "cancelled")
       THEN Raise(t, why[c])
       ELSE ctl' = [ctl EXCEPT ![t] = "run"] /\ UNCHANGED why
    /\ UNCHANGED <<lockedBy, guards>>

\* With a bug: a waiter that finds the mutex free claims it, poisoned or not.
LockedBlindly(t, l) ==
    /\ lockedBy' = [lockedBy EXCEPT ![l] = t]
    /\ guards' = [guards EXCEPT ![l] = t]
    /\ ctl' = [ctl EXCEPT ![t] = "run"]
    /\ UNCHANGED <<why, status, place, owner>>

\* claim_mutex: a poisoned mutex is not claimed, and faults.
Locked(t, l) ==
    /\ IF l \in poisoned
       THEN Raise(t, "fault") /\ UNCHANGED <<lockedBy, guards>>
       ELSE /\ lockedBy' = [lockedBy EXCEPT ![l] = t]
            /\ guards' = [guards EXCEPT ![l] = t]
            /\ ctl' = [ctl EXCEPT ![t] = "run"]
            /\ UNCHANGED why
    /\ UNCHANGED <<status, place, owner>>

\* cb_event_op(2): a wait that ended with its count unmoved is the main
\* thread waiting alone, [Channel-Deadlock].
Counted(t, w) ==
    /\ IF w.kind = "Event" /\ seen[t] = w.on
       THEN Raise(t, "fault")
       ELSE ctl' = [ctl EXCEPT ![t] = "run"] /\ UNCHANGED why
    /\ UNCHANGED <<status, place, owner, lockedBy, guards>>

Complete(t, w) ==
    \/ w.kind = "Join" /\ w.then = "join" /\ Joined(t, w.on)
    \/ w.kind = "Join" /\ w.then = "try_join" /\ TryJoined(t, w.on)
    \/ w.kind = "Join" /\ w.then = "drop" /\ Dropped(t, w.on)
    \/ w.kind = "Lock" /\ Locked(t, w.on)
    \/ w.kind \in {"Event", "Atomic", "Timer"} /\ Counted(t, w)

\* A wait's start: everything up to where the thread registers.
Begin(t, w) ==
    /\ UNCHANGED <<poisoned, cancel, lent, cunwind, over>>
    /\ \/ /\ Ready(t, w) /\ w.kind # "Timer"
          /\ Complete(t, w)
          /\ Unread(t)
          /\ UNCHANGED <<waits, deadlocked>>
       \/ /\ ~Ready(t, w) \/ w.kind = "Timer"
          /\ \/ /\ stop_reason(t) # "none"
                /\ Raise(t, stop_reason(t))
                /\ deadlocked' = deadlocked \ {t}
                /\ Unread(t)
                /\ UNCHANGED waits
             \/ /\ stop_reason(t) = "none"
                /\ closes_cycle(t, w, waits)
                /\ Raise(t, "deadlock")
                /\ Unread(t)
                /\ UNCHANGED <<waits, deadlocked>>
             \/ /\ stop_reason(t) = "none"
                /\ ~closes_cycle(t, w, waits)
                /\ ctl' = [ctl EXCEPT ![t] = "wait"]
                /\ waits' = [waits EXCEPT ![t] = w]
                /\ deadlocked' = deadlocked \cup find_deadlock(waits', status)
                /\ UNCHANGED <<why, seen>>
          /\ UNCHANGED <<status, place, owner, lockedBy, guards>>

\* With a bug: a cancelled thread that waits already is left waiting.
LookDeaf(t) ==
    LET w == waits[t]
    IN /\ over = "no" /\ ctl[t] = "wait"
       /\ \/ /\ Ready(t, w)
             /\ Complete(t, w)
             /\ UNCHANGED deadlocked
          \/ /\ ~Ready(t, w) /\ t \in deadlocked
             /\ Raise(t, "deadlock")
             /\ deadlocked' = deadlocked \ {t}
             /\ UNCHANGED <<status, place, owner, lockedBy, guards>>
       /\ waits' = [waits EXCEPT ![t] = NoWait]
       /\ Unread(t)
       /\ UNCHANGED <<poisoned, cancel, lent, cunwind, over>>

\* A waiting thread looks again: woken by a signal, or by its timed sleep.
Look(t) ==
    LET w == waits[t]
    IN /\ over = "no" /\ ctl[t] = "wait"
       /\ \/ /\ Ready(t, w)
             /\ Complete(t, w)
             /\ UNCHANGED deadlocked
          \/ /\ ~Ready(t, w) /\ stop_reason(t) # "none"
             /\ Raise(t, stop_reason(t))
             /\ deadlocked' = deadlocked \ {t}
             /\ UNCHANGED <<status, place, owner, lockedBy, guards>>
       /\ waits' = [waits EXCEPT ![t] = NoWait]
       /\ Unread(t)
       /\ UNCHANGED <<poisoned, cancel, lent, cunwind, over>>

-----------------------------------------------------------------------------
(* What a running thread's code calls.                                       *)

\* cb_spawn: the next id, in order.
Spawn(t, c) ==
    /\ Running(t)
    /\ ctl[c] = "unborn" /\ \A u \in Threads : u < c => ctl[u] # "unborn"
    /\ ctl' = [ctl EXCEPT ![c] = "start"]
    /\ status' = [status EXCEPT ![c] = "Running"]
    /\ owner' = [owner EXCEPT ![c] = t]
    /\ place' = [place EXCEPT ![c] = "stack"]
    /\ UNCHANGED <<why, waits, lockedBy, poisoned, seen, cancel, lent, deadlocked, cunwind, guards, over>>

\* cb_thread_start: whether its arguments lend it an exclusive reference.
Start(t) ==
    /\ over = "no" /\ ctl[t] = "start"
    /\ ctl' = [ctl EXCEPT ![t] = "run"]
    /\ \/ UNCHANGED lent
       \/ Lending /\ lent' = lent \cup {t}
    /\ UNCHANGED <<why, status, waits, lockedBy, poisoned, seen, cancel, deadlocked, cunwind, owner, place, guards, over>>

\* cb_thread_lent, and an exclusive path taken over ([Thread-Affine]).
BecomeLent(t) ==
    /\ Lending /\ Running(t) /\ t # Main /\ t \notin lent
    /\ lent' = lent \cup {t}
    /\ UNCHANGED <<ctl, why, status, waits, lockedBy, poisoned, seen, cancel, deadlocked, cunwind, owner, place, guards, over>>

\* cb_lock: a mutex this thread holds already faults at once.
Lock(t, l) ==
    /\ Running(t)
    /\ IF lockedBy[l] = t
       THEN /\ Raise(t, "fault")
            /\ UNCHANGED <<status, waits, lockedBy, poisoned, seen, cancel, lent, deadlocked,
                           cunwind, owner, place, guards, over>>
       ELSE Begin(t, LockWait(l))

\* guard_drop: whoever the book says holds the mutex.
Unlock(t, l) ==
    /\ Running(t) /\ guards[l] = t
    /\ lockedBy' = [lockedBy EXCEPT ![l] = NoThread]
    /\ guards' = [guards EXCEPT ![l] = NoThread]
    /\ UNCHANGED <<ctl, why, status, waits, poisoned, seen, cancel, lent, deadlocked, cunwind, owner, place, over>>

\* cb_event_op(1), cb_atomic_wait(0).
ReadCount(t, c) ==
    /\ Running(t)
    /\ seen' = [seen EXCEPT ![t] = c]
    /\ UNCHANGED <<ctl, why, status, waits, lockedBy, poisoned, cancel, lent, deadlocked, cunwind, owner, place, guards, over>>

\* cb_event_op(3), cb_atomic_wait(2), cb_atomic_wait(3).
Notify(t, c) ==
    /\ Running(t)
    /\ seen' = [u \in Threads |-> IF seen[u] = c THEN NoCount ELSE seen[u]]
    /\ UNCHANGED <<ctl, why, status, waits, lockedBy, poisoned, cancel, lent, deadlocked, cunwind, owner, place, guards, over>>

\* cb_event_op(2), cb_atomic_wait(1), with the value the thread has read.
WaitCount(t, c) == Running(t) /\ seen[t] = c /\ Begin(t, CountWait(c))

\* cb_sleep_ns.
Sleep(t) == Timers /\ Running(t) /\ Begin(t, TimerWait)

Has(t, c) == owner[c] = t /\ place[c] = "stack"

\* cb_join, cb_join_status(0), drop(h).
Join(t, c, then) == Running(t) /\ Has(t, c) /\ Begin(t, JoinWait(c, then))

\* cb_cancel, through a reference to the handle.
Cancel(t, c) ==
    /\ Running(t) /\ place[c] \in {"stack", "sweep"} /\ c \notin cancel
    /\ cancel' = cancel \cup {c}
    /\ UNCHANGED <<ctl, why, status, waits, lockedBy, poisoned, seen, lent, deadlocked, cunwind, owner, place, guards, over>>

\* A handle is moved to a thread that runs: an argument, a result, a channel.
Move(t, u, c) ==
    /\ MoveHandles /\ Running(t) /\ Has(t, c) /\ u # t /\ ctl[u] = "run"
    /\ owner' = [owner EXCEPT ![c] = u]
    /\ UNCHANGED <<ctl, why, status, waits, lockedBy, poisoned, seen, cancel, lent, deadlocked, cunwind, place, guards, over>>

-----------------------------------------------------------------------------
(* Scopes that end, faults, and the ends of threads.                         *)

\* cb_frame_pop, cb_stmt_pop and the fold of a contained fault: the entry
\* leaves the stack first, then what it owns is destroyed (end_owned).
PopFrame(t, h) ==
    /\ Running(t)
    /\ h # {} /\ \A c \in h : Has(t, c)
    /\ place' = [c \in Threads |-> IF c \in h THEN "sweep" ELSE place[c]]
    /\ UNCHANGED <<ctl, why, status, waits, lockedBy, poisoned, seen, cancel, lent, deadlocked, cunwind, owner, guards, over>>

\* handle_destructor in a contained fault's unwind: the thread is cancelled first.
UnwindCancel(t, c) ==
    /\ t \in cunwind /\ owner[c] = t
    /\ Cancel(t, c)

\* With a bug: the thread is let go, not waited for.
DestroyHandleDetached(t, c) ==
    /\ Running(t) /\ owner[c] = t /\ place[c] = "sweep"
    /\ EndHandle(c)
    /\ UNCHANGED <<ctl, why, status, waits, lockedBy, poisoned, seen, cancel, lent, deadlocked, cunwind, guards, over>>

\* handle_destructor: then waited for.
DestroyHandle(t, c) ==
    /\ Running(t) /\ owner[c] = t /\ place[c] = "sweep"
    /\ t \in cunwind => c \in cancel
    /\ Begin(t, JoinWait(c, "drop"))

\* Any diagnostic of the thread's own code.
Fault(t) ==
    /\ Running(t)
    /\ Raise(t, "fault")
    /\ UNCHANGED <<status, waits, lockedBy, poisoned, seen, cancel, lent, deadlocked, cunwind, owner, place, guards, over>>

\* With a bug: the mutexes are poisoned, and stay on record as held.
ContainHolding(t) ==
    /\ over = "no" /\ ctl[t] = "fault"
    /\ t # Main /\ t \notin cunwind /\ t \notin lent
    /\ poisoned' = poisoned \cup {l \in Locks : lockedBy[l] = t}
    /\ ctl' = [ctl EXCEPT ![t] = "run"]
    /\ cunwind' = cunwind \cup {t}
    /\ place' = [c \in Threads |-> IF owner[c] = t /\ place[c] = "sweep" THEN "lost" ELSE place[c]]
    /\ UNCHANGED <<why, status, waits, lockedBy, seen, cancel, lent, deadlocked, owner, guards, over>>

\* With a bug: the thread's own entries are the ones kept in the lock table.
ContainSwapped(t) ==
    /\ over = "no" /\ ctl[t] = "fault"
    /\ t # Main /\ t \notin cunwind /\ t \notin lent
    /\ LET mine == {l \in Locks : lockedBy[l] = t}
       IN lockedBy' = [l \in mine |-> t] /\ poisoned' = poisoned \cup mine
    /\ ctl' = [ctl EXCEPT ![t] = "run"]
    /\ cunwind' = cunwind \cup {t}
    /\ place' = [c \in Threads |-> IF owner[c] = t /\ place[c] = "sweep" THEN "lost" ELSE place[c]]
    /\ UNCHANGED <<why, status, waits, seen, cancel, lent, deadlocked, owner, guards, over>>

\* fault_impl, then the first steps of contained_fault: the thread's mutexes
\* released and poisoned in one hold of the book.  A frame that was being
\* ended has left the stack already: what it still owned is not found again.
Contain(t) ==
    /\ over = "no" /\ ctl[t] = "fault"
    /\ t # Main /\ t \notin cunwind /\ t \notin lent
    /\ LET mine == {l \in Locks : lockedBy[l] = t}
       IN /\ lockedBy' = [l \in Locks |-> IF l \in mine THEN NoThread ELSE lockedBy[l]]
          /\ poisoned' = poisoned \cup mine
    /\ ctl' = [ctl EXCEPT ![t] = "run"]
    /\ cunwind' = cunwind \cup {t}
    /\ place' = [c \in Threads |-> IF owner[c] = t /\ place[c] = "sweep" THEN "lost" ELSE place[c]]
    /\ UNCHANGED <<why, status, waits, seen, cancel, lent, deadlocked, owner, guards, over>>

\* fault_impl: any other fault ends the program; no thread takes another step.
Crash(t) ==
    /\ over = "no" /\ ctl[t] = "fault"
    /\ t = Main \/ t \in cunwind \/ t \in lent
    /\ over' = "fault"
    /\ UNCHANGED <<ctl, why, status, waits, lockedBy, poisoned, seen, cancel, lent, deadlocked, cunwind, owner, place, guards>>

OwnsNothing(t) ==
    /\ \A c \in Threads : owner[c] = t => place[c] \notin {"stack", "sweep"}
    /\ \A l \in Locks : guards[l] # t

\* cb_thread_done, and the end of contained_fault with cb_thread_failed: one
\* thread fewer, so the rest may all wait now.
End(t) ==
    /\ Running(t) /\ t # Main /\ OwnsNothing(t)
    /\ ctl' = [ctl EXCEPT ![t] = "ended"]
    /\ status' = [status EXCEPT ![t] = IF t \in cunwind THEN "Failed" ELSE "Done"]
    /\ cunwind' = cunwind \ {t}
    /\ deadlocked' = deadlocked \cup find_deadlock(waits, status')
    /\ Unread(t)
    /\ UNCHANGED <<why, waits, lockedBy, poisoned, cancel, lent, owner, place, guards, over>>

\* The main function's return.
Exit ==
    /\ Running(Main) /\ OwnsNothing(Main)
    /\ over' = "exit"
    /\ UNCHANGED <<ctl, why, status, waits, lockedBy, poisoned, seen, cancel, lent, deadlocked, cunwind, owner, place, guards>>

\* The program is over: nothing more happens.
Over == over # "no" /\ UNCHANGED vars

ThreadNext(t) ==
    \/ Look(t) \/ Start(t) \/ BecomeLent(t) \/ Sleep(t)
    \/ Fault(t) \/ Contain(t) \/ Crash(t) \/ End(t)
    \/ \E l \in Locks : Lock(t, l) \/ Unlock(t, l)
    \/ \E c \in Counts : ReadCount(t, c) \/ Notify(t, c) \/ WaitCount(t, c)
    \/ \E c \in Threads : \/ Spawn(t, c) \/ Cancel(t, c) \/ UnwindCancel(t, c) \/ DestroyHandle(t, c)
                          \/ \E then \in {"join", "try_join", "drop"} : Join(t, c, then)
                          \/ \E u \in Threads : Move(t, u, c)
    \/ \E h \in SUBSET Threads : PopFrame(t, h)

Next == Exit \/ Over \/ \E t \in Threads : ThreadNext(t)

Spec == Init /\ [][Next]_vars

\* A waiting thread looks again at least every 50 ms (`wait_timeout`).
FairSpec == Spec /\ \A t \in Threads : WF_vars(Look(t))

-----------------------------------------------------------------------------
(* Safety.                                                                   *)

\* The book and the guards agree: a mutex is on record as held exactly while
\* the holder has its guard, the holder still runs, and a mutex whose holder's
\* fault was contained is on record as held by nobody (claim_mutex, guard_drop,
\* contained_fault's release of the thread's locks).
LocksMatchGuards ==
    \A l \in Locks :
        /\ l \in poisoned => lockedBy[l] = NoThread
        /\ l \notin poisoned => lockedBy[l] = guards[l]
        /\ lockedBy[l] # NoThread => lockedBy[l] \in LiveIn(status)

\* What a step may do to the poisoned mutexes: end a guard, and no more.
ReachesNoPoisoned ==
    \A l \in poisoned : l \in poisoned' /\ guards'[l] \in {guards[l], NoThread}

\* What a faulted thread left half-changed is never reached through the mutex
\* again: once poisoned, no thread comes to hold it, whoever was waiting.
PoisonedStaysUnreached == [][ReachesNoPoisoned]_vars

\* No thread outlives its handle, but for a handle in a frame whose ending was
\* itself cut short by a fault: then the frame had left the stack, and the
\* unwind does not come back to it (end_owned, contained_fault).
OrphansComeFromCutFrames ==
    \A c \in Threads \ {Main} :
        status[c] = "Running" => \/ owner[c] \in LiveIn(status) /\ place[c] \in {"stack", "sweep"}
                                 \/ place[c] = "lost"

\* A thread, the one whose scopes own its handle, the one that owns that one's, ...
OwnersIn(S) == \A b \in S : owner[b] # NoThread => owner[b] \in S
Owners(c) == {b \in Threads : \A S \in SUBSET Threads : c \in S /\ OwnersIn(S) => b \in S}

\* When the main function returns, no thread still runs and no failure is left
\* untaken -- each was taken, raised, or discarded by a rule -- but where a frame
\* that owned the thread, or an owner of it, was cut short by a fault.
ExitLeavesNothing ==
    over = "exit" =>
        \A c \in Threads : status[c] \in {"Running", "Failed"} =>
            \E b \in Owners(c) : place[b] = "lost"

\* A thread whose wait nothing will end: not ready, and no reason to fault.
Hopeless(t) == ctl[t] = "wait" /\ ~Ready(t, waits[t]) /\ stop_reason(t) = "none"
AllHopeless == over = "no" /\ \A t \in LiveIn(status) : Hopeless(t)

\* The waits of threads nobody asked to stop never close a cycle of joins and
\* locks, however the mutexes changed hands since each wait began: the cycle is
\* found as its last wait starts (closes_cycle).
NoUndiagnosedCycle ==
    ~ \E S \in SUBSET (Threads \ Stopping) :
        /\ S # {}
        /\ \A t \in S : ctl[t] = "wait" /\ WaitsOn(waits[t]) \in S

\* When every live thread waits and none can go on, one is marked to fault --
\* unless one of them was asked to stop: the book takes it to be about to end,
\* even where it unwinds and its wait no longer looks at the request.
StuckIsDiagnosed == AllHopeless => Stopping \cap LiveIn(status) # {}

\* spec/19 [Deadlock]: "Deadlock is not ruled out, but it is diagnosed".
DeadlockIsDiagnosed == ~AllHopeless

\* spec/19 [Handle-Destructor]: "a thread can never outlive the frame that owns
\* its handle".
NoThreadOutlivesItsHandle ==
    \A c \in Threads \ {Main} :
        status[c] = "Running" => owner[c] \in LiveIn(status)

\* spec/19 [Deadlock]: "that wait" faults -- the wait the thread was found
\* deadlocked in, so it does not return to the thread's code.
MarkedWaitFaults ==
    [][\A t \in deadlocked : ctl[t] = "wait" => ctl'[t] # "run"]_vars

-----------------------------------------------------------------------------
(* Liveness.                                                                 *)

\* A waiting thread that was found deadlocked, or asked to stop while it may be
\* stopped, leaves its wait (or the program ends first).
StopReasonEndsWait ==
    \A t \in Threads :
        (ctl[t] = "wait" /\ stop_reason(t) # "none") ~> (ctl[t] # "wait" \/ over # "no")
=============================================================================
