------------------------------ MODULE Barrier -------------------------------
(***************************************************************************)
(* std::sync's Barrier (impl/std/sync.cb): a count of the threads that have   *)
(* arrived in the current round, and the number of the round, waited on.      *)
(* The round's number wraps at `Wrap` (fetch_add_wrapping on a usize).         *)
(* Each thread makes at most `MaxCalls` calls: the model's only bound.         *)
(***************************************************************************)
EXTENDS AtomicWait, FiniteSetsExt

CONSTANTS Parties, Wrap, MaxCalls

ASSUME PartiesAssumption ==
    /\ IsFiniteSet(Threads)
    /\ Parties \in Nat \ {0} /\ Wrap \in Nat \ {0, 1} /\ MaxCalls \in Nat

VARIABLES
    arrived, generation,
    round,     \* the generation each thread's call began in
    entered,   \* how many calls each thread has made,
    left,      \* how many have returned (none of it the program's own state),
    leader     \* and how many of those returned true

vars == <<arrived, generation, round, entered, left, leader, at, current>>
history == <<entered, left, leader>>

TypeOK ==
    /\ arrived \in 0..Cardinality(Threads)
    /\ generation \in 0..(Wrap - 1)
    /\ round \in [Threads -> 0..(Wrap - 1)]
    /\ {entered, left, leader} \subseteq [Threads -> 0..MaxCalls]
    /\ at \in [Threads -> WaitPoints \cup {"idle", "load", "arrive", "reset", "bump", "notify", "again", "gone"}]
    /\ current \subseteq Threads

Zero == [t \in Threads |-> 0]

Init ==
    /\ arrived = 0 /\ generation = 0 /\ round = Zero
    /\ entered = Zero /\ left = Zero /\ leader = Zero
    /\ at = [t \in Threads |-> "idle"]
    /\ current = {}

Tally(f, t) == [f EXCEPT ![t] = @ + 1]

Call(t) ==
    /\ Go(t, "idle", "load")
    /\ entered[t] < MaxCalls
    /\ entered' = Tally(entered, t)
    /\ UNCHANGED <<arrived, generation, round, left, leader, current>>

LoadRound(t) ==
    /\ Go(t, "load", "arrive")
    /\ round' = [round EXCEPT ![t] = generation]
    /\ UNCHANGED <<arrived, generation, history, current>>

\* With bugs: the last but one releases the others; every thread from the last
\* but one on does.
ArriveEarly(t) ==
    /\ Go(t, "arrive", IF arrived + 2 = Parties THEN "reset" ELSE "again")
    /\ arrived' = arrived + 1
    /\ UNCHANGED <<generation, round, history, current>>

ArriveAtLeast(t) ==
    /\ Go(t, "arrive", IF arrived + 2 >= Parties THEN "reset" ELSE "again")
    /\ arrived' = arrived + 1
    /\ UNCHANGED <<generation, round, history, current>>

\* fetch_add(&b.arrived, 1) + 1 == b.parties: the last one releases the others.
Arrive(t) ==
    /\ Go(t, "arrive", IF arrived + 1 = Parties THEN "reset" ELSE "again")
    /\ arrived' = arrived + 1
    /\ UNCHANGED <<generation, round, history, current>>

\* With a bug: the count runs on into the next round.
ResetForgotten(t) == Go(t, "reset", "bump") /\ UNCHANGED <<arrived, generation, round, history, current>>

Reset(t) ==
    /\ Go(t, "reset", "bump")
    /\ arrived' = 0
    /\ UNCHANGED <<generation, round, history, current>>

Bump(t) ==
    /\ Go(t, "bump", "notify")
    /\ generation' = (generation + 1) % Wrap
    /\ UNCHANGED <<arrived, round, history, current>>

Release(t) ==
    /\ Notify(t, "notify", "idle")
    /\ left' = Tally(left, t) /\ leader' = Tally(leader, t)
    /\ round' = [round EXCEPT ![t] = 0]
    /\ UNCHANGED <<arrived, generation, entered>>

\* while (load(&b.generation) == round) wait(&b.generation, round).
Again(t) ==
    /\ \/ generation = round[t] /\ Go(t, "again", "seen") /\ UNCHANGED <<left, round>>
       \/ /\ generation # round[t] /\ Go(t, "again", "idle")
          /\ left' = Tally(left, t)
          /\ round' = [round EXCEPT ![t] = 0]
    /\ UNCHANGED <<arrived, generation, entered, leader, current>>

Wait(t) ==
    /\ ReadSeen(t) \/ Check(t, generation # round[t], "again") \/ Wake(t)
    /\ UNCHANGED <<arrived, generation, round, history>>

\* The wait ends in a fault: the thread is gone, its arrival still counted.
Abandon(t) == Stop(t, "gone") /\ UNCHANGED <<arrived, generation, round, history>>

InCall(t) ==
    \/ LoadRound(t) \/ Arrive(t) \/ Reset(t) \/ Bump(t) \/ Release(t) \/ Again(t) \/ Wait(t)
Other == NotifyOther /\ UNCHANGED <<arrived, generation, round, history>>

Next == Other \/ \E t \in Threads : Call(t) \/ InCall(t) \/ Abandon(t)

Spec == Init /\ [][Next]_vars

\* A thread in a call goes on while it can.
FairSpec == Spec /\ \A t \in Threads : WF_vars(InCall(t))

-----------------------------------------------------------------------------

\* Every thread finishes a phase before any starts the next: a thread's k-th call
\* returns only after each of the Parties threads has begun its k-th.
NoPhaseOvertakes == \A t, u \in Threads : left[t] <= entered[u]

Total(f) == MapThenSumSet(LAMBDA t : f[t], Threads)
Leaders == Total(leader) + Cardinality({t \in Threads : at[t] = "notify"})

\* One thread of each round, and one only, is told it was the last: there are as
\* many leaders as rounds ended, neither fewer than any thread has left nor more
\* than any has begun.
OneLeaderEach == \A t \in Threads : left[t] <= Leaders /\ Leaders <= entered[t]

\* "Waits until `parties` threads have called it" (impl/std/sync.cb): calls return
\* in full rounds only.
FullRoundsOnly == Total(left) <= Parties * (Total(entered) \div Parties)

\* A round all the threads have reached ends, for each of them, unless a thread is
\* lost to a fault on the way (std::sync's Barrier::wait has no way out of that).
RoundsEnd ==
    \A t \in Threads :
        (\A u \in Threads : entered[u] >= entered[t])
        ~> (left[t] = entered[t] \/ \E u \in Threads : at[u] = "gone")
=============================================================================
