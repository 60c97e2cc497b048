------------------------------ MODULE Schedule ------------------------------
(***************************************************************************)
(* A seeded schedule (COBALTC_SCHEDULE_SEED) of the compiled runtime, and the *)
(* OS threads its program threads run on (impl/cbrt/src/lib.rs).             *)
(*                                                                         *)
(* One program thread runs at a time, the one with the turn.  It passes the   *)
(* turn on, to the seed's choice, where it enters the runtime, waits, ends or *)
(* goes outside (a call, a sleep); a thread that comes back from outside      *)
(* waits for the turn, or takes it when nobody has it.  A thread that waits   *)
(* for the turn is parked.  A spawned thread's job goes to an OS thread that  *)
(* has finished one, or to a new one.                                        *)
(*                                                                         *)
(* A destructor runs inside an entry, so with the runtime lock held; what it  *)
(* calls may wait or sleep.                                                  *)
(***************************************************************************)
EXTENDS Integers, Sequences, FiniteSets

CONSTANTS
    N,        \* program threads; 1 is the main thread
    IdleMax   \* IDLE_MAX

ASSUME ScheduleAssumption == N \in Nat \ {0} /\ IdleMax \in Nat

Threads == 1..N
Main == 1
Nobody == 0
Workers == 2..N      \* OS threads: as many as there are spawns at most

VARIABLES
    turn, members, io, parked,  \* SCHED
    token,    \* the parked threads that have been unparked
    lock,     \* the thread that holds the runtime lock
    held,     \* the threads that gave it up for a wait, to take it again
    at,
    idle,     \* IDLE, the last to offer itself at the end
    os,       \* what each OS thread does
    slot,     \* the job it has been handed
    job,      \* the job it runs
    giving    \* the OS thread and the job in a spawning thread's hands

sched == <<turn, members, io, parked, token>>
pool == <<idle, os, slot, job, giving>>
vars == <<sched, lock, held, at, pool>>

NoJob == <<Nobody, Nobody>>

TypeOK ==
    /\ turn \in Threads \cup {Nobody} /\ lock \in Threads \cup {Nobody}
    /\ members \subseteq Threads /\ io \subseteq Threads /\ parked \subseteq Threads
    /\ token \subseteq Threads /\ held \subseteq Threads
    /\ at \in [Threads -> {"unborn", "handed", "waiting", "run", "yield", "enter", "inside", "left", "out", "back",
                           "giving", "ended"}]
    /\ idle \in Seq(Workers) /\ Len(idle) <= IdleMax
    /\ os \in [Workers -> {"none", "starting", "running", "done", "offered", "gone"}]
    /\ slot \in [Workers -> Threads \cup {Nobody}] /\ job \in [Workers -> Threads \cup {Nobody}]
    /\ giving \in (Workers \cup {Nobody}) \X (Threads \cup {Nobody})

Init ==
    /\ turn = Main /\ members = {Main} /\ io = {} /\ parked = {} /\ token = {}
    /\ lock = Nobody /\ held = {}
    /\ at = [t \in Threads |-> IF t = Main THEN "run" ELSE "unborn"]
    /\ idle = <<>>
    /\ os = [w \in Workers |-> "none"]
    /\ slot = [w \in Workers |-> Nobody] /\ job = [w \in Workers |-> Nobody]
    /\ giving = NoJob

-----------------------------------------------------------------------------
(* The turn.                                                                 *)

Go(t, from, to) == at[t] = from /\ at' = [at EXCEPT ![t] = to]

\* With a bug: the first parked thread is unparked, not the one chosen.
pick_first(ms, outside, waiting) ==
    IF ms \subseteq outside
    THEN turn' = Nobody /\ UNCHANGED token
    ELSE /\ turn' \in ms \ outside
         /\ token' = token \cup {w \in waiting : \A v \in waiting : w <= v}

\* pick and wake, the thread itself among those parked or not.
pick(ms, outside, waiting) ==
    IF ms \subseteq outside
    THEN turn' = Nobody /\ UNCHANGED token
    ELSE \E m \in ms \ outside : turn' = m /\ token' = token \cup ({m} \cap waiting)

\* Where a thread goes on once it has the turn.
Resumed(t) == IF lock = t THEN "inside" ELSE IF t \in held THEN "enter" ELSE "run"

\* sched_wait, as a thread comes to it.
sched_wait(t) ==
    IF turn \in {t, Nobody}
    THEN turn' = t /\ at' = [at EXCEPT ![t] = Resumed(t)] /\ UNCHANGED parked
    ELSE at' = [at EXCEPT ![t] = "waiting"] /\ parked' = parked \cup {t} /\ UNCHANGED turn

\* sched_wait, once unparked: it looks again.
Unparked(t) ==
    /\ at[t] = "waiting" /\ t \in token
    /\ token' = token \ {t}
    /\ IF turn \in {t, Nobody}
       THEN parked' = parked \ {t} /\ turn' = t /\ at' = [at EXCEPT ![t] = Resumed(t)]
       ELSE UNCHANGED <<parked, turn, at>>
    /\ UNCHANGED <<members, io, lock, held, pool>>

\* sched_yield: at an entry, an atomic operation, in a wait.
Yield(t) ==
    /\ at[t] \in {"run", "yield"}
    /\ pick(members, io, parked)
    /\ IF turn' = t
       THEN at' = [at EXCEPT ![t] = Resumed(t)] /\ UNCHANGED parked
       ELSE at' = [at EXCEPT ![t] = "waiting"] /\ parked' = parked \cup {t}
    /\ UNCHANGED <<members, io, lock, held, pool>>

\* An entry, and its end.
Enter(t) == Go(t, "run", "enter") /\ UNCHANGED <<sched, lock, held, pool>>

\* A thread that sleeps in an entry takes the runtime and looks again.
GetLock(t) ==
    /\ Go(t, "enter", IF t \in io THEN "left" ELSE "inside")
    /\ lock = Nobody /\ lock' = t
    /\ held' = held \ {t}
    /\ UNCHANGED <<sched, pool>>

Leave(t) == Go(t, "inside", "run") /\ lock' = Nobody /\ UNCHANGED <<sched, held, pool>>

\* wait_until in an entry gives the runtime up before it passes the turn on.
WaitInside(t) ==
    /\ Go(t, "inside", "yield")
    /\ lock' = Nobody /\ held' = held \cup {t}
    /\ UNCHANGED <<sched, pool>>

\* With a bug: the turn is left to the first that comes back.
GoOutFree(t) ==
    /\ \/ Go(t, "run", "out")
       \/ Go(t, "inside", "left")
    /\ io' = io \cup {t}
    /\ turn' = IF turn = t THEN Nobody ELSE turn
    /\ UNCHANGED <<token, members, parked, lock, held, pool>>

\* sched_io(true): a call outside, made holding nothing (outside), or a sleep.
GoOut(t) ==
    /\ \/ Go(t, "run", "out")
       \/ Go(t, "inside", "left")
    /\ io' = io \cup {t}
    /\ IF turn = t THEN pick(members, io', parked) ELSE UNCHANGED <<turn, token>>
    /\ UNCHANGED <<members, parked, lock, held, pool>>

\* A sleep in an entry that is not over: only then is the runtime given up, ...
GiveUp(t) ==
    /\ Go(t, "left", "out")
    /\ lock' = Nobody /\ held' = held \cup {t}
    /\ UNCHANGED <<sched, pool>>

\* ... and it is taken again, before the turn, to see whether the sleep is over.
Return(t) ==
    /\ \/ Go(t, "out", IF t \in held THEN "enter" ELSE "back")
       \/ Go(t, "left", "back")
    /\ UNCHANGED <<sched, lock, held, pool>>

\* sched_io(false).
Back(t) ==
    /\ at[t] = "back"
    /\ io' = io \ {t}
    /\ sched_wait(t)
    /\ UNCHANGED <<members, token, lock, held, pool>>

\* With a bug: the next thread is chosen and not unparked.
EndUnwoken(t) ==
    /\ t # Main /\ Go(t, "run", "ended")
    /\ members' = members \ {t}
    /\ IF turn = t THEN pick(members', io, {}) ELSE UNCHANGED <<turn, token>>
    /\ os' = [w \in Workers |-> IF job[w] = t THEN "done" ELSE os[w]]
    /\ job' = [w \in Workers |-> IF job[w] = t THEN Nobody ELSE job[w]]
    /\ UNCHANGED <<io, parked, lock, held, idle, slot, giving>>

\* sched_leave: the last of run_job.
End(t) ==
    /\ t # Main /\ Go(t, "run", "ended")
    /\ members' = members \ {t}
    /\ IF turn = t THEN pick(members', io, parked) ELSE UNCHANGED <<turn, token>>
    /\ os' = [w \in Workers |-> IF job[w] = t THEN "done" ELSE os[w]]
    /\ job' = [w \in Workers |-> IF job[w] = t THEN Nobody ELSE job[w]]
    /\ UNCHANGED <<io, parked, lock, held, idle, slot, giving>>

-----------------------------------------------------------------------------
(* The OS threads.                                                           *)

New == CHOOSE w \in Workers : os[w] = "none"

\* With a bug: the idle thread is only looked at.
SpawnPeeking(t, c) ==
    /\ (Go(t, "run", "giving") \/ Go(t, "inside", "giving"))
    /\ at[c] = "unborn" /\ \A u \in Threads : u < c => at[u] # "unborn"
    /\ members' = members \cup {c}
    /\ giving' = <<IF idle = <<>> THEN Nobody ELSE idle[Len(idle)], c>>
    /\ UNCHANGED <<idle, turn, io, parked, token, lock, held, os, slot, job>>

\* cb_spawn: the thread is a member, and the last to offer itself is taken off IDLE.
Spawn(t, c) ==
    /\ (Go(t, "run", "giving") \/ Go(t, "inside", "giving"))
    /\ at[c] = "unborn" /\ \A u \in Threads : u < c => at[u] # "unborn"
    /\ members' = members \cup {c}
    /\ giving' = <<IF idle = <<>> THEN Nobody ELSE idle[Len(idle)], c>>
    /\ idle' = IF idle = <<>> THEN idle ELSE SubSeq(idle, 1, Len(idle) - 1)
    /\ UNCHANGED <<turn, io, parked, token, lock, held, os, slot, job>>

\* It is handed the job; or a new OS thread is.
Give(t) ==
    /\ at[t] = "giving"
    /\ at' = [at EXCEPT ![t] = Resumed(t), ![giving[2]] = "handed"]
    /\ LET w == IF giving[1] = Nobody THEN New ELSE giving[1]
       IN /\ slot' = [slot EXCEPT ![w] = giving[2]]
          /\ os' = IF giving[1] = Nobody THEN [os EXCEPT ![w] = "starting"] ELSE os
    /\ giving' = NoJob
    /\ UNCHANGED <<sched, lock, held, idle, job>>

\* With a bug: a job begins before its turn.
StartJobAtOnce(w) ==
    /\ os[w] \in {"starting", "offered"} /\ slot[w] # Nobody
    /\ os' = [os EXCEPT ![w] = "running"]
    /\ job' = [job EXCEPT ![w] = slot[w]]
    /\ slot' = [slot EXCEPT ![w] = Nobody]
    /\ at' = [at EXCEPT ![slot[w]] = "run"]
    /\ UNCHANGED <<sched, lock, held, idle, giving>>

\* run_job begins with its turn.
StartJob(w) ==
    /\ os[w] \in {"starting", "offered"} /\ slot[w] # Nobody
    /\ os' = [os EXCEPT ![w] = "running"]
    /\ job' = [job EXCEPT ![w] = slot[w]]
    /\ slot' = [slot EXCEPT ![w] = Nobody]
    /\ sched_wait(slot[w])
    /\ UNCHANGED <<members, io, token, lock, held, idle, giving>>

\* With a bug: more than IDLE_MAX offer themselves.
OfferOver(w) ==
    /\ os[w] = "done"
    /\ IF Len(idle) > IdleMax
       THEN os' = [os EXCEPT ![w] = "gone"] /\ UNCHANGED idle
       ELSE os' = [os EXCEPT ![w] = "offered"] /\ idle' = Append(idle, w)
    /\ UNCHANGED <<sched, lock, held, at, slot, job, giving>>

\* worker: it offers itself, or ends.
Offer(w) ==
    /\ os[w] = "done"
    /\ IF Len(idle) >= IdleMax
       THEN os' = [os EXCEPT ![w] = "gone"] /\ UNCHANGED idle
       ELSE os' = [os EXCEPT ![w] = "offered"] /\ idle' = Append(idle, w)
    /\ UNCHANGED <<sched, lock, held, at, slot, job, giving>>

\* What the runtime and the OS do for a thread, whatever the program does.
Goes(t) == Unparked(t) \/ GetLock(t) \/ GiveUp(t) \/ Back(t) \/ Give(t)

Next ==
    \/ \E t \in Threads :
        \/ Goes(t) \/ Return(t)
        \/ Yield(t) \/ Enter(t) \/ Leave(t) \/ WaitInside(t) \/ GoOut(t) \/ End(t)
        \/ \E c \in Threads : Spawn(t, c)
    \/ \E w \in Workers : StartJob(w) \/ Offer(w)

Spec == Init /\ [][Next]_vars

\* The OS runs every thread, calls outside and sleeps end, however often a sleeper
\* looks, a thread in a wait yields, and a program leaves its entries; that it ever
\* ends or spawns is not assumed.
FairSpec ==
    /\ Spec
    /\ \A t \in Threads :
        /\ WF_vars(Goes(t))
        /\ WF_vars(Return(t)) /\ SF_vars(at[t] = "left" /\ Return(t))
        /\ WF_vars(at[t] = "yield" /\ Yield(t))
        /\ WF_vars(Leave(t))
    /\ \A w \in Workers : WF_vars(StartJob(w)) /\ WF_vars(Offer(w))

-----------------------------------------------------------------------------

\* "one program thread runs at a time: the one holding the turn".
OneRuns == \A t \in Threads : at[t] \in {"run", "yield", "inside", "giving"} => turn = t

\* The turn is never with a thread that has ended or is outside: it would stay
\* there.  Nobody has it only while every thread is outside.
TurnIsWithMember ==
    /\ turn # Nobody => turn \in members \ io
    /\ turn = Nobody => members \subseteq io /\ parked = {}

\* A parked thread that is given the turn has been, or is, unparked (wake).
ChosenIsUnparked == \A t \in Threads : turn = t /\ at[t] = "waiting" => t \in token

\* A spawned thread's job is with one OS thread, which takes it (worker).
OneWorkerEach ==
    \A c \in Threads : at[c] = "handed" =>
        \E w \in Workers : slot[w] = c /\ os[w] \in {"starting", "offered"} /\ \A v \in Workers \ {w} : slot[v] # c

\* A thread holds the runtime while it waits for the turn: a sleep in a
\* destructor, which takes the runtime first.
HoldsOutOfTurn == lock # Nobody /\ at[lock] \in {"back", "waiting"}

\* The thread with the turn gets to run, unless the runtime is held by one that
\* waits for that turn.
ChosenRuns ==
    \A t \in Threads : turn = t /\ at[t] \in {"handed", "waiting", "enter"} ~> turn # t \/ at[t] \in {"run", "inside"} \/ HoldsOutOfTurn

\* "Only where this thread holds nothing of the runtime" (sched_yield): no thread
\* holds the runtime while the one it waits for waits for the runtime.
NeverStuckForTurn ==
    ~ \E t \in Threads : turn = t /\ at[t] = "enter" /\ lock # Nobody /\ at[lock] = "waiting"
=============================================================================
