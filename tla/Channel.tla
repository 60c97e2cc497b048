------------------------------ MODULE Channel -------------------------------
(***************************************************************************)
(* std::sync's Channel (impl/std/sync.cb): a ring of `Cap` slots under a     *)
(* mutex, and two event counts, `can_send` and `can_recv`, that waiting      *)
(* threads watch.  A call locks the ring, works on it, adds to the count the *)
(* other side watches, lets the mutex go, and -- when it could not go on --  *)
(* sleeps until its own count moves from the value it read under the lock.   *)
(*                                                                         *)
(* The runtime's part (impl/cbrt/src/lib.rs) is reduced to what the calls    *)
(* see of it: a mutex is claimed when it is free, a sleep ends when the      *)
(* count has moved, and either wait may end in a fault instead (the thread   *)
(* cancelled or deadlocked; see WaitBook).  A count matters only as "moved   *)
(* since it was read": `current` holds the threads whose read is current.    *)
(***************************************************************************)
EXTENDS Integers, Sequences, FiniteSets

CONSTANTS
    Threads, Values, NoThread,
    Cap,      \* the ring's slots
    MayCall   \* the calls the program has each thread make

ASSUME CapAssumption == Cap \in Nat \ {0}
ASSUME NoThreadAssumption == NoThread \notin Threads

NoValue == "no value"
Slots == 0..(Cap - 1)
Ops == {"send", "recv", "try_recv", "recv_timeout", "close"}
ASSUME MayCallAssumption == \A t \in Threads : MayCall[t] \subseteq Ops

Outcomes == {"none", "again", "ok", "err", "some", "end", "empty", "fault"}

VARIABLES
    slots, head, count, closed,  \* ChannelState
    dropped,    \* the channel's owner is destroying it
    holder,     \* the thread that holds the channel's mutex
    op,         \* the call each thread is in
    at,         \* and where in it
    value,      \* the value it sends, or has received
    outcome,    \* what it will return
    current     \* the threads whose read of the count they watch is current

ring == <<slots, head, count, closed>>
vars == <<slots, head, count, closed, dropped, holder, op, at, value, outcome, current>>

TypeOK ==
    /\ slots \in [Slots -> Values \cup {NoValue}]
    /\ head \in Slots
    /\ count \in 0..Cap
    /\ closed \in BOOLEAN /\ dropped \in BOOLEAN
    /\ holder \in Threads \cup {NoThread}
    /\ op \in [Threads -> Ops \cup {"none"}]
    /\ at \in [Threads -> {"idle", "lock", "body", "signal", "signal_recv", "unlock",
                           "sleep", "poll", "done"}]
    /\ value \in [Threads -> Values \cup {NoValue}]
    /\ outcome \in [Threads -> Outcomes]
    /\ current \subseteq Threads

\* Channel::new.
Init ==
    /\ slots = [i \in Slots |-> NoValue]
    /\ head = 0 /\ count = 0 /\ closed = FALSE /\ dropped = FALSE
    /\ holder = NoThread
    /\ op = [t \in Threads |-> "none"]
    /\ at = [t \in Threads |-> "idle"]
    /\ value = [t \in Threads |-> NoValue]
    /\ outcome = [t \in Threads |-> "none"]
    /\ current = {}

\* Where in its call a thread stands next, with what outcome.
Step(t, next, result) ==
    /\ at' = [at EXCEPT ![t] = next]
    /\ outcome' = [outcome EXCEPT ![t] = result]

-----------------------------------------------------------------------------
(* A call's start, its lock, and its end.                                    *)

\* A value is in one place: the program sends only what it has.
InProgram(v) ==
    /\ \A t \in Threads : value[t] # v
    /\ \A i \in Slots : slots[i] # v

Call(t, o, v) ==
    /\ at[t] = "idle" /\ ~dropped
    /\ IF o = "send" THEN v \in Values /\ InProgram(v) ELSE v = NoValue
    /\ op' = [op EXCEPT ![t] = o]
    /\ value' = [value EXCEPT ![t] = v]
    /\ Step(t, "lock", "none")
    /\ UNCHANGED <<ring, dropped, holder, current>>

Acquire(t) ==
    /\ at[t] = "lock" /\ holder = NoThread
    /\ holder' = t
    /\ Step(t, "body", "none")
    /\ UNCHANGED <<ring, dropped, op, value, current>>

\* The guard's end: then the call returns, or sleeps on its count.
Unlock(t) ==
    /\ at[t] = "unlock"
    /\ holder' = NoThread
    /\ IF outcome[t] = "again"
       THEN Step(t, IF op[t] = "recv_timeout" THEN "poll" ELSE "sleep", "none")
       ELSE Step(t, "done", outcome[t])
    /\ UNCHANGED <<ring, dropped, op, value, current>>

\* event_op(2) returns: the count moved.
Wake(t) ==
    /\ at[t] = "sleep" /\ t \notin current
    /\ Step(t, "lock", "none")
    /\ UNCHANGED <<ring, dropped, holder, op, value, current>>

\* A wait -- for the mutex, for the count, of the poll's sleep -- ends in a fault.
Stop(t) ==
    /\ \/ at[t] = "lock" /\ holder # NoThread
       \/ at[t] = "sleep" /\ t \in current
       \/ at[t] = "poll"
    /\ Step(t, "done", "fault")
    /\ current' = current \ {t}
    /\ UNCHANGED <<ring, dropped, holder, op, value>>

Return(t) ==
    /\ at[t] = "done"
    /\ op' = [op EXCEPT ![t] = "none"]
    /\ value' = [value EXCEPT ![t] = NoValue]
    /\ Step(t, "idle", "none")
    /\ UNCHANGED <<ring, dropped, holder, current>>

-----------------------------------------------------------------------------
(* What each call does under the mutex.                                      *)

\* event_op(1): the thread reads the count it will sleep on.
ReadsCount(t) == current' = current \cup {t}

Send(t) ==
    /\ at[t] = "body" /\ op[t] = "send"
    /\ \/ /\ closed
          /\ Step(t, "unlock", "err")
          /\ UNCHANGED <<ring, value, current>>
       \/ /\ ~closed /\ count < Cap
          /\ slots' = [slots EXCEPT ![(head + count) % Cap] = value[t]]
          /\ count' = count + 1
          /\ value' = [value EXCEPT ![t] = NoValue]
          /\ Step(t, "signal", "ok")
          /\ UNCHANGED <<head, closed, current>>
       \/ /\ ~closed /\ count >= Cap
          /\ ReadsCount(t)
          /\ Step(t, "unlock", "again")
          /\ UNCHANGED <<ring, value>>
    /\ UNCHANGED <<dropped, holder, op>>

\* With bugs: the head runs past the last slot; the newest value is taken first.
PopPastEnd(t) ==
    /\ value' = [value EXCEPT ![t] = slots[head]]
    /\ slots' = [slots EXCEPT ![head] = NoValue]
    /\ head' = head + 1
    /\ count' = count - 1
    /\ UNCHANGED closed

PopNewest(t) ==
    LET last == (head + count - 1) % Cap
    IN /\ value' = [value EXCEPT ![t] = slots[last]]
       /\ slots' = [slots EXCEPT ![last] = NoValue]
       /\ count' = count - 1
       /\ UNCHANGED <<head, closed>>

\* ChannelState::pop.
Pop(t) ==
    /\ value' = [value EXCEPT ![t] = slots[head]]
    /\ slots' = [slots EXCEPT ![head] = NoValue]
    /\ head' = (head + 1) % Cap
    /\ count' = count - 1
    /\ UNCHANGED closed

\* Channel::recv, try_recv, and one try of recv_timeout_ms.
Recv(t) ==
    /\ at[t] = "body" /\ op[t] \in {"recv", "try_recv", "recv_timeout"}
    /\ \/ /\ count > 0
          /\ Pop(t)
          /\ Step(t, "signal", "some")
          /\ UNCHANGED current
       \/ /\ count = 0 /\ closed
          /\ Step(t, "unlock", "end")
          /\ UNCHANGED <<ring, value, current>>
       \/ /\ count = 0 /\ ~closed
          /\ IF op[t] = "recv" THEN ReadsCount(t) ELSE UNCHANGED current
          /\ Step(t, "unlock", IF op[t] = "try_recv" THEN "empty" ELSE "again")
          /\ UNCHANGED <<ring, value>>
    /\ UNCHANGED <<dropped, holder, op>>

\* Channel::close.
Close(t) ==
    /\ at[t] = "body" /\ op[t] = "close"
    /\ closed' = TRUE
    /\ Step(t, "signal", "ok")
    /\ UNCHANGED <<slots, head, count, dropped, holder, op, value, current>>

\* The threads watching a count: send watches can_send, recv can_recv.
Watching(o) == {t \in Threads : op[t] = o}

\* With a bug: close wakes the receivers and forgets the senders.
SignalOneSide(t) ==
    /\ at[t] = "signal"
    /\ current' = current \ Watching(IF op[t] \in {"send", "close"} THEN "recv" ELSE "send")
    /\ Step(t, "unlock", outcome[t])
    /\ UNCHANGED <<ring, dropped, holder, op, value>>

\* event_op(3): the count the other side watches moves, and its waiters wake.
Signal(t) ==
    /\ \/ /\ at[t] = "signal" /\ op[t] # "close"
          /\ current' = current \ Watching(IF op[t] = "send" THEN "recv" ELSE "send")
          /\ Step(t, "unlock", outcome[t])
       \/ /\ at[t] = "signal" /\ op[t] = "close"
          /\ current' = current \ Watching("send")
          /\ Step(t, "signal_recv", outcome[t])
       \/ /\ at[t] = "signal_recv"
          /\ current' = current \ Watching("recv")
          /\ Step(t, "unlock", outcome[t])
    /\ UNCHANGED <<ring, dropped, holder, op, value>>

\* recv_timeout_ms between two tries: the deadline has passed, or it sleeps on.
Poll(t) ==
    /\ at[t] = "poll"
    /\ Step(t, "done", "empty") \/ Step(t, "lock", "none")
    /\ UNCHANGED <<ring, dropped, holder, op, value, current>>

InCall(t) ==
    \/ Acquire(t) \/ Unlock(t) \/ Wake(t) \/ Return(t)
    \/ Send(t) \/ Recv(t) \/ Close(t) \/ Signal(t) \/ Poll(t)

\* Channel::drop, through the one reference left: the values go oldest first.
Drop ==
    /\ \A t \in Threads : at[t] = "idle"
    /\ dropped' = TRUE
    /\ count > 0
    /\ slots' = [slots EXCEPT ![head] = NoValue]
    /\ head' = (head + 1) % Cap
    /\ count' = count - 1
    /\ UNCHANGED <<closed, holder, op, at, value, outcome, current>>

Next ==
    \/ Drop
    \/ \E t \in Threads :
        \/ \E o \in MayCall[t], v \in Values \cup {NoValue} : Call(t, o, v)
        \/ InCall(t) \/ Stop(t)

Spec == Init /\ [][Next]_vars

\* Every thread inside a call goes on when it can; nothing makes one call, and
\* the mutex, free now and then, may always go to another.
FairSpec == Spec /\ \A t \in Threads : WF_vars(InCall(t))

-----------------------------------------------------------------------------
(* What the channel promises.                                                *)

\* The values in the ring, oldest first.
Contents == [i \in 1..count |-> slots[(head + i - 1) % Cap]]

\* No wake-up is lost: a thread asleep on a count that has not moved since it
\* read it has nothing to do -- or the thread whose work it could use has not
\* yet moved the count, holds the mutex still, and is about to.
AboutToWake(o) ==
    \E s \in Threads :
        \/ at[s] = "signal" /\ (op[s] = "close" \/ (op[s] = "send") = (o = "recv"))
        \/ at[s] = "signal_recv" /\ o = "recv"

NoLostWakeup ==
    \A t \in current :
        \/ op[t] = "send" /\ ((count = Cap /\ ~closed) \/ AboutToWake("send"))
        \/ op[t] = "recv" /\ ((count = 0 /\ ~closed) \/ AboutToWake("recv"))

\* Every call takes effect at one moment, on a first-in first-out queue: the
\* moment it works on the ring under the mutex.
Effective(t) ==
    [op |-> op[t], value |-> value[t],
     outcome |-> IF outcome[t] = "again" THEN "none" ELSE outcome[t]]

Queue == INSTANCE BoundedQueue
    WITH queue <- Contents, closed <- closed, call <- [t \in Threads |-> Effective(t)]

ImplementsQueue == Queue!ASpec

\* A thread does not stay asleep while it could go on: it is woken, or another
\* thread takes what it could have used.
CouldGoOn(t) ==
    /\ at[t] = "sleep"
    /\ \/ op[t] = "recv" /\ (count > 0 \/ closed)
       \/ op[t] = "send" /\ (count < Cap \/ closed)

SleepersWake == \A t \in Threads : []<>~CouldGoOn(t)
=============================================================================
