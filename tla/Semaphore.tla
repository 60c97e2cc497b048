----------------------------- MODULE Semaphore ------------------------------
(***************************************************************************)
(* std::sync's Semaphore (impl/std/sync.cb): one atomic, taken from by        *)
(* compare-and-exchange, waited on while it is 0.                             *)
(***************************************************************************)
EXTENDS AtomicWait

CONSTANTS Permits, \* the permits it is made with
          MaxPermits \* what usize counts

ASSUME PermitsAssumption == MaxPermits \in Nat /\ Permits \in 0..MaxPermits

VARIABLES
    permits,
    n,     \* the permits each thread last saw
    call   \* the operation each thread is in, or how it went

vars == <<permits, n, call, at, current>>

TypeOK ==
    /\ permits \in 0..MaxPermits
    /\ n \in [Threads -> 0..MaxPermits]
    /\ call \in [Threads -> {"idle", "acquire", "try", "release", "taken", "refused", "given", "fault"}]
    /\ at \in [Threads -> WaitPoints \cup {"idle", "load", "try", "add", "notify", "done"}]
    /\ current \subseteq Threads

Init ==
    /\ permits = Permits
    /\ n = [t \in Threads |-> 0]
    /\ call = [t \in Threads |-> "idle"]
    /\ at = [t \in Threads |-> "idle"]
    /\ current = {}

Sees(t, x) == n' = [n EXCEPT ![t] = x]
Ends(t, r) == call' = [call EXCEPT ![t] = r]

Invoke(t) == \E o \in {"acquire", "try", "release"} :
    /\ Go(t, "idle", IF o = "release" THEN "add" ELSE "load")
    /\ Ends(t, o)
    /\ UNCHANGED <<permits, n, current>>

\* Atomic::load: acquire then waits while it saw 0, try_acquire gives up.
Load(t) ==
    /\ \/ permits > 0 /\ Go(t, "load", "try") /\ UNCHANGED call
       \/ permits = 0 /\ call[t] = "acquire" /\ Go(t, "load", "seen") /\ UNCHANGED call
       \/ permits = 0 /\ call[t] = "try" /\ Go(t, "load", "done") /\ Ends(t, "refused")
    /\ Sees(t, permits)
    /\ UNCHANGED <<permits, current>>

\* With a bug: the permit is stored over whatever the count has become.
TryTakeStale(t) ==
    /\ Go(t, "try", "done")
    /\ permits' = n[t] - 1
    /\ Ends(t, "taken") /\ Sees(t, 0)
    /\ UNCHANGED current

\* compare_exchange(n, n - 1); on failure the value found is looked at as a
\* load is.
TryTake(t) ==
    /\ \/ /\ permits = n[t]
          /\ Go(t, "try", "done")
          /\ permits' = permits - 1
          /\ Ends(t, "taken") /\ Sees(t, 0)
       \/ /\ permits # n[t] /\ permits > 0
          /\ at[t] = "try" /\ Sees(t, permits)
          /\ UNCHANGED <<at, permits, call>>
       \/ /\ permits # n[t] /\ permits = 0 /\ call[t] = "acquire"
          /\ Go(t, "try", "seen") /\ Sees(t, 0)
          /\ UNCHANGED <<permits, call>>
       \/ /\ permits # n[t] /\ permits = 0 /\ call[t] = "try"
          /\ Go(t, "try", "done") /\ Sees(t, 0)
          /\ Ends(t, "refused")
          /\ UNCHANGED permits
    /\ UNCHANGED current

\* Atomic::wait(&s.permits, 0), inside acquire.
Wait(t) ==
    /\ ReadSeen(t) \/ Check(t, permits # 0, "load") \/ Wake(t)
    /\ UNCHANGED <<permits, n, call>>

Abandon(t) == Stop(t, "done") /\ Ends(t, "fault") /\ UNCHANGED <<permits, n>>

\* With a bug: nobody is told of the permit.
AddSilent(t) ==
    /\ IF permits < MaxPermits
       THEN permits' = permits + 1 /\ Ends(t, "given")
       ELSE UNCHANGED permits /\ Ends(t, "fault")
    /\ Go(t, "add", "done")
    /\ UNCHANGED <<n, current>>

\* release: fetch_add, which faults when the sum would not fit, then notify_one.
Add(t) ==
    /\ \/ /\ permits < MaxPermits
          /\ Go(t, "add", "notify")
          /\ permits' = permits + 1
          /\ Ends(t, "given")
       \/ /\ permits = MaxPermits
          /\ Go(t, "add", "done")
          /\ Ends(t, "fault")
          /\ UNCHANGED permits
    /\ UNCHANGED <<n, current>>

\* With a bug: the count moves for nobody.
NotifyNobody(t) == Go(t, "notify", "done") /\ UNCHANGED <<permits, n, call, current>>

NotifyOne(t) == Notify(t, "notify", "done") /\ UNCHANGED <<permits, n, call>>

Return(t) == Go(t, "done", "idle") /\ Ends(t, "idle") /\ Sees(t, 0) /\ UNCHANGED <<permits, current>>

InCall(t) == Load(t) \/ TryTake(t) \/ Wait(t) \/ Add(t) \/ NotifyOne(t) \/ Return(t)
Other == NotifyOther /\ UNCHANGED <<permits, n, call>>

Next == Other \/ \E t \in Threads : Invoke(t) \/ InCall(t) \/ Abandon(t)

Spec == Init /\ [][Next]_vars
FairSpec == Spec /\ \A t \in Threads : WF_vars(InCall(t))

-----------------------------------------------------------------------------

\* A permit is taken once and given once, and never made up: every call takes
\* effect at one moment on a plain count, though it works on a value it read
\* earlier (compare_exchange in Semaphore::acquire and try_acquire).
Count == INSTANCE CountingSemaphore
ImplementsCount == Count!Spec

\* No wake-up is lost: while a thread sleeps in acquire and a permit is free, a
\* thread that gave one has yet to notify (Atomic::wait reads the wake count
\* before the value, Semaphore::release adds before it notifies).
NoLostWakeup ==
    \A t \in Threads : Asleep(t) /\ permits > 0 => \E s \in Threads : at[s] = "notify"

\* A thread asleep in acquire while a permit stays free wakes.
SleepersWake ==
    \A t \in Threads : (at[t] = "sleep" /\ permits > 0) ~> (at[t] # "sleep" \/ permits = 0)
=============================================================================
