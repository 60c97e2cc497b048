-------------------------------- MODULE Once --------------------------------
(***************************************************************************)
(* std::sync's Once (impl/std/sync.cb): an atomic that is 0 while `f` has not *)
(* run, 1 while it runs and 2 once it has.  A fault unwinding through the run  *)
(* destroys its OnceRun, which gives the Once back.                           *)
(*                                                                            *)
(* The names that Barrier would have as well say Once, so that one module can  *)
(* hold the theorems about both.                                              *)
(***************************************************************************)
EXTENDS AtomicWait

VARIABLES
    state,
    done,      \* OnceRun.done, of each thread's run
    returned,  \* the threads some call of which has returned
    completed  \* how often `f` has run to its end, counted to 2

onceVars == <<state, done, returned, completed, at, current>>

OnceTypeOK ==
    /\ state \in 0..2
    /\ done \in [Threads -> BOOLEAN]
    /\ returned \subseteq Threads
    /\ completed \in 0..2
    /\ at \in [Threads -> WaitPoints \cup {"idle", "claim", "f", "store", "notify", "drop",
                                           "give_back", "notify_back", "faulted"}]
    /\ current \subseteq Threads

OnceInit ==
    /\ state = 0
    /\ done = [t \in Threads |-> FALSE]
    /\ returned = {}
    /\ completed = 0
    /\ at = [t \in Threads |-> "idle"]
    /\ current = {}

CallOnce(t) == Go(t, "idle", "claim") /\ UNCHANGED <<state, done, returned, completed, current>>

\* compare_exchange(&o.state, 0, 1).
Claim(t) ==
    /\ \/ state = 0 /\ Go(t, "claim", "f") /\ state' = 1 /\ UNCHANGED returned
       \/ state = 2 /\ Go(t, "claim", "idle") /\ returned' = returned \cup {t} /\ UNCHANGED state
       \/ state = 1 /\ Go(t, "claim", "seen") /\ UNCHANGED <<state, returned>>
    /\ UNCHANGED <<done, completed, current>>

\* f(); run.done = true.
Run(t) ==
    /\ Go(t, "f", "store")
    /\ done' = [done EXCEPT ![t] = TRUE]
    /\ completed' = IF completed < 2 THEN completed + 1 ELSE 2
    /\ UNCHANGED <<state, returned, current>>

\* f faults: the unwind of Once::call destroys the OnceRun.
FaultInF(t) == Go(t, "f", "drop") /\ UNCHANGED <<state, done, returned, completed, current>>

Store(t) ==
    /\ Go(t, "store", "notify")
    /\ state' = 2
    /\ UNCHANGED <<done, returned, completed, current>>

NotifyDone(t) == Notify(t, "notify", "drop") /\ UNCHANGED <<state, done, returned, completed>>

\* With bugs: the Once is given back whether or not f ran to its end; it is
\* never given back.
DropAlways(t) ==
    /\ Go(t, "drop", "give_back")
    /\ done' = [done EXCEPT ![t] = FALSE]
    /\ UNCHANGED <<state, returned, completed, current>>

DropNever(t) ==
    /\ Go(t, "drop", IF done[t] THEN "idle" ELSE "faulted")
    /\ returned' = IF done[t] THEN returned \cup {t} ELSE returned
    /\ done' = [done EXCEPT ![t] = FALSE]
    /\ UNCHANGED <<state, completed, current>>

\* OnceRun::drop.
Drop(t) ==
    /\ IF done[t]
       THEN Go(t, "drop", "idle") /\ returned' = returned \cup {t}
       ELSE Go(t, "drop", "give_back") /\ UNCHANGED returned
    /\ done' = [done EXCEPT ![t] = FALSE]
    /\ UNCHANGED <<state, completed, current>>

\* With a bug: it is given back and nobody is told.
GiveBackSilent(t) ==
    /\ Go(t, "give_back", "faulted")
    /\ state' = 0
    /\ UNCHANGED <<done, returned, completed, current>>

GiveBack(t) ==
    /\ Go(t, "give_back", "notify_back")
    /\ state' = 0
    /\ UNCHANGED <<done, returned, completed, current>>

NotifyBack(t) == Notify(t, "notify_back", "faulted") /\ UNCHANGED <<state, done, returned, completed>>

\* Atomic::wait(&o.state, 1).
WaitForRun(t) ==
    /\ ReadSeen(t) \/ Check(t, state # 1, "claim") \/ Wake(t)
    /\ UNCHANGED <<state, done, returned, completed>>

FaultInWait(t) == Stop(t, "faulted") /\ UNCHANGED <<state, done, returned, completed>>

InOnceCall(t) ==
    \/ Claim(t) \/ Store(t) \/ NotifyDone(t) \/ Drop(t) \/ GiveBack(t) \/ NotifyBack(t)
    \/ WaitForRun(t) \/ Run(t) \/ FaultInF(t)
OtherNotified == NotifyOther /\ UNCHANGED <<state, done, returned, completed>>

OnceNext == OtherNotified \/ \E t \in Threads : CallOnce(t) \/ InOnceCall(t) \/ FaultInWait(t)

OnceSpec == OnceInit /\ [][OnceNext]_onceVars

\* A thread in a call goes on while it can; `f` ends, in its end or in a fault.
OnceFairSpec == OnceSpec /\ \A t \in Threads : WF_onceVars(InOnceCall(t))

-----------------------------------------------------------------------------

\* f runs to its end at most once, runs on one thread at a time, and has run by
\* the time any call returns -- whichever runs faulted on the way.
RunsOnce ==
    /\ completed <= 1
    /\ \A t, u \in Threads : at[t] = "f" /\ at[u] = "f" => t = u
    /\ returned # {} => completed = 1 /\ state = 2

\* No caller sleeps on a run that is over: while it sleeps the Once is being done
\* and some thread is at that, or has done it and is about to notify.
SleeperHasRunner ==
    \A t \in Threads : Asleep(t) =>
        \E s \in Threads : \/ state = 1 /\ at[s] \in {"f", "store", "drop", "give_back"}
                           \/ at[s] \in {"notify", "notify_back"}

\* A thread that calls gets its answer, or faults, however often f faults first.
CallsEnd == \A t \in Threads : at[t] \notin {"idle", "faulted"} ~> at[t] \in {"idle", "faulted"}
=============================================================================
