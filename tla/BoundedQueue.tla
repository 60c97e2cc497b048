---------------------------- MODULE BoundedQueue ----------------------------
(***************************************************************************)
(* What a Channel promises its callers (spec/19 section 3, impl/std/sync.cb):*)
(* each call takes effect at one moment between its start and its return, on *)
(* a bounded first-in first-out queue that may be closed.  A call that has to *)
(* wait may be abandoned by a fault (the thread cancelled or deadlocked); it  *)
(* then has had no effect.                                                    *)
(***************************************************************************)
EXTENDS Integers, Sequences

CONSTANTS Threads, Values, Cap

Ops == {"send", "recv", "try_recv", "recv_timeout", "close"}
NoValue == "no value"

VARIABLES
    queue,   \* the values in the channel, oldest first
    closed,
    call     \* each thread's call: its operation, its value, and how it went

aVars == <<queue, closed, call>>

NoCall == [op |-> "none", value |-> NoValue, outcome |-> "none"]

AInit == queue = <<>> /\ closed = FALSE /\ call = [t \in Threads |-> NoCall]

Pending(t, o) == call[t].op = o /\ call[t].outcome = "none"
Outcome(t, x, v) == call' = [call EXCEPT ![t].outcome = x, ![t].value = v]

Invoke(t, o, v) ==
    /\ call[t] = NoCall
    /\ call' = [call EXCEPT ![t] = [op |-> o, value |-> v, outcome |-> "none"]]
    /\ UNCHANGED <<queue, closed>>

SendOk(t) ==
    /\ Pending(t, "send") /\ ~closed /\ Len(queue) < Cap
    /\ queue' = Append(queue, call[t].value)
    /\ Outcome(t, "ok", NoValue)
    /\ UNCHANGED closed

\* The value is handed back.
SendErr(t) ==
    /\ Pending(t, "send") /\ closed
    /\ Outcome(t, "err", call[t].value)
    /\ UNCHANGED <<queue, closed>>

Receives(t) == \E o \in {"recv", "try_recv", "recv_timeout"} : Pending(t, o)

RecvSome(t) ==
    /\ Receives(t) /\ queue # <<>>
    /\ queue' = Tail(queue)
    /\ Outcome(t, "some", Head(queue))
    /\ UNCHANGED closed

\* Closed and drained.
RecvEnd(t) ==
    /\ Receives(t) /\ queue = <<>> /\ closed
    /\ Outcome(t, "end", NoValue)
    /\ UNCHANGED <<queue, closed>>

\* try_recv finds the open channel empty.
RecvEmpty(t) ==
    /\ Pending(t, "try_recv") /\ queue = <<>> /\ ~closed
    /\ Outcome(t, "empty", NoValue)
    /\ UNCHANGED <<queue, closed>>

\* recv_timeout_ms gives up: nothing arrived in time.
RecvLate(t) ==
    /\ Pending(t, "recv_timeout")
    /\ Outcome(t, "empty", NoValue)
    /\ UNCHANGED <<queue, closed>>

Close(t) ==
    /\ Pending(t, "close")
    /\ closed' = TRUE
    /\ Outcome(t, "ok", NoValue)
    /\ UNCHANGED queue

Abandon(t) ==
    /\ call[t].op # "none" /\ call[t].outcome = "none"
    /\ Outcome(t, "fault", call[t].value)
    /\ UNCHANGED <<queue, closed>>

Return(t) ==
    /\ call[t].outcome # "none"
    /\ call' = [call EXCEPT ![t] = NoCall]
    /\ UNCHANGED <<queue, closed>>

\* The channel is destroyed, its values with it, oldest first.
Discard ==
    /\ \A t \in Threads : call[t] = NoCall
    /\ queue # <<>>
    /\ queue' = Tail(queue)
    /\ UNCHANGED <<closed, call>>

ANext == Discard \/ \E t \in Threads :
    \/ \E o \in Ops, v \in Values \cup {NoValue} : Invoke(t, o, v)
    \/ SendOk(t) \/ SendErr(t)
    \/ RecvSome(t) \/ RecvEnd(t) \/ RecvEmpty(t) \/ RecvLate(t)
    \/ Close(t) \/ Abandon(t) \/ Return(t)

ASpec == AInit /\ [][ANext]_aVars
=============================================================================
