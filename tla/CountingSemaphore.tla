-------------------------- MODULE CountingSemaphore -------------------------
(***************************************************************************)
(* What a Semaphore promises (impl/std/sync.cb): a number of free permits,   *)
(* each taken by one call and each given back by one call.                    *)
(***************************************************************************)
EXTENDS Integers

CONSTANTS Threads, MaxPermits

VARIABLES permits, call

Init == permits \in 0..MaxPermits /\ call = [t \in Threads |-> "idle"]

Becomes(t, from, to) == call[t] = from /\ call' = [call EXCEPT ![t] = to]

Invoke(t) == \E o \in {"acquire", "try", "release"} : Becomes(t, "idle", o) /\ UNCHANGED permits
Take(t) ==
    /\ permits > 0 /\ permits' = permits - 1
    /\ Becomes(t, "acquire", "taken") \/ Becomes(t, "try", "taken")
Refuse(t) == permits = 0 /\ Becomes(t, "try", "refused") /\ UNCHANGED permits
Give(t) == permits < MaxPermits /\ permits' = permits + 1 /\ Becomes(t, "release", "given")
Overflow(t) == permits = MaxPermits /\ Becomes(t, "release", "fault") /\ UNCHANGED permits
Abandon(t) == Becomes(t, "acquire", "fault") /\ UNCHANGED permits
Return(t) == \E r \in {"taken", "refused", "given", "fault"} : Becomes(t, r, "idle") /\ UNCHANGED permits

Next == \E t \in Threads :
    Invoke(t) \/ Take(t) \/ Refuse(t) \/ Give(t) \/ Overflow(t) \/ Abandon(t) \/ Return(t)

Spec == Init /\ [][Next]_<<permits, call>>
=============================================================================
