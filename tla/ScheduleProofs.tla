--------------------------- MODULE ScheduleProofs ----------------------------
(***************************************************************************)
(* Proofs about Schedule, for any number of threads and any IDLE_MAX.         *)
(***************************************************************************)
EXTENDS Schedule, FiniteSetTheorems, SequenceTheorems, TLAPS

\* The turn is with whoever runs, an entry's wait for the runtime included.
TurnAt ==
    \A t \in Threads :
        at[t] \in {"run", "yield", "inside", "giving"} \/ (at[t] = "enter" /\ t \notin io) => turn = t

\* Where a thread is, and what SCHED says of it.
SchedAt ==
    /\ \A t \in io : at[t] \in {"left", "out", "back", "enter"}
    /\ \A t \in Threads : at[t] \in {"left", "out", "back"} => t \in io
    /\ \A t \in Threads : t \in parked <=> at[t] = "waiting"
    /\ \A t \in Threads : at[t] \notin {"unborn", "ended"} => t \in members
    /\ at[Main] \notin {"unborn", "handed"}

\* A spawn under way: what is to be handed over is in one thread's hands.
GivingAt ==
    /\ giving # NoJob => \E t \in Threads : at[t] = "giving"
    /\ \A t \in Threads : at[t] = "giving" =>
          /\ giving[2] \in Threads /\ at[giving[2]] = "unborn" /\ giving[2] \in members
          /\ giving[1] # Nobody => os[giving[1]] = "offered" /\ slot[giving[1]] = Nobody

\* An OS thread on offer has no job yet; and is offered once.
IdleAt ==
    /\ \A i \in 1..Len(idle) : os[idle[i]] = "offered" /\ slot[idle[i]] = Nobody /\ idle[i] # giving[1]
    /\ \A i, j \in 1..Len(idle) : idle[i] = idle[j] => i = j

\* A job handed over is in one OS thread's slot.
SlotsAt ==
    \A w \in Workers : slot[w] # Nobody =>
        /\ os[w] \in {"starting", "offered"} /\ at[slot[w]] = "handed"
        /\ \A v \in Workers \ {w} : slot[v] # slot[w]

\* What runs a job is running.
JobsAt == \A w \in Workers : job[w] # Nobody => os[w] = "running"

\* There are no more OS threads than threads spawned.
Used == {w \in Workers : os[w] # "none"}
Spawned == {c \in Workers : at[c] # "unborn"}
WorkersLast == Cardinality(Used) <= Cardinality(Spawned)

Turns == TurnAt /\ SchedAt /\ TurnIsWithMember
Jobs == GivingAt /\ IdleAt /\ SlotsAt /\ JobsAt /\ OneWorkerEach /\ WorkersLast
IInv == TypeOK /\ Turns /\ ChosenIsUnparked /\ Jobs

-----------------------------------------------------------------------------

LEMMA ThreadFacts ==
    /\ Main \in Threads /\ Nobody \notin Threads /\ Nobody \notin Workers
    /\ Workers \subseteq Threads /\ Workers = Threads \ {Main}
BY ScheduleAssumption DEF Threads, Main, Nobody, Workers

LEMMA WorkersFinite ==
    /\ IsFiniteSet(Workers)
    /\ IsFiniteSet(Used) /\ Cardinality(Used) \in Nat
    /\ IsFiniteSet(Spawned) /\ Cardinality(Spawned) \in Nat
<1>1. IsFiniteSet(Workers)
  BY FS_Interval, ScheduleAssumption DEF Workers
<1>2. Used \in SUBSET Workers /\ Spawned \in SUBSET Workers
  BY DEF Used, Spawned
<1> QED
  BY <1>1, <1>2, FS_Subset, FS_CardinalityType

\* As long as a thread is unborn there is an OS thread to be made.
LEMMA NewThere ==
    ASSUME WorkersLast, NEW c \in Workers, at[c] = "unborn"
    PROVE  New \in Workers /\ os[New] = "none"
<1>1. Cardinality(Spawned) < Cardinality(Workers)
  <2>1. Spawned \in SUBSET Workers /\ Spawned # Workers
    BY DEF Spawned
  <2>2. /\ Cardinality(Spawned) <= Cardinality(Workers)
        /\ Cardinality(Spawned) # Cardinality(Workers)
    BY <2>1, WorkersFinite, FS_Subset
  <2>3. Cardinality(Workers) \in Nat
    BY WorkersFinite, FS_CardinalityType
  <2> QED
    BY <2>2, <2>3, WorkersFinite
<1>2. Used # Workers
  <2> SUFFICES ASSUME Used = Workers PROVE FALSE
    OBVIOUS
  <2>1. Cardinality(Workers) <= Cardinality(Spawned) /\ Cardinality(Workers) \in Nat
    BY WorkersFinite DEF WorkersLast
  <2> QED
    BY <2>1, <1>1, WorkersFinite
<1>3. \E w \in Workers : os[w] = "none"
  BY <1>2 DEF Used
<1> QED
  BY <1>3 DEF New

LEMMA Shorter ==
    ASSUME idle \in Seq(Workers), idle # <<>>
    PROVE  LET s == SubSeq(idle, 1, Len(idle) - 1)
           IN  /\ s \in Seq(Workers) /\ Len(s) = Len(idle) - 1
               /\ \A i \in 1..Len(s) : s[i] = idle[i]
               /\ Len(idle) \in 1..Len(idle) /\ idle[Len(idle)] \in Workers
<1>1. Len(idle) \in Nat \ {0} /\ \A i \in 1..Len(idle) : idle[i] \in Workers
  BY EmptySeq, LenProperties
<1> DEFINE n == Len(idle) - 1
            s == SubSeq(idle, 1, n)
<1>2. 1 \in 1..(Len(idle) + 1) /\ n \in 0..Len(idle) /\ n - 1 + 1 = n /\ (1 > n => n = 0)
  <2>1. \A k \in Nat \ {0} :
          1 \in 1..(k + 1) /\ k - 1 \in 0..k /\ k - 1 - 1 + 1 = k - 1 /\ (1 > k - 1 => k - 1 = 0)
    OBVIOUS
  <2> QED
    BY <1>1, <2>1
<1>3. s \in Seq(Workers) /\ Len(s) = IF 1 <= n THEN n - 1 + 1 ELSE 0
  BY <1>2, SubSeqProperties
<1>4. \A i \in 1..(n - 1 + 1) : s[i] = idle[1 + i - 1]
  BY <1>2, SubSeqProperties
<1>5. Len(s) = n
  BY <1>2, <1>3
<1>6. \A i \in 1..Len(s) : s[i] = idle[i]
  BY <1>1, <1>4, <1>5
<1> QED
  BY <1>1, <1>3, <1>5, <1>6

LEMMA InitIInv == Init => IInv
<1> SUFFICES ASSUME Init PROVE IInv
  OBVIOUS
<1> USE ThreadFacts DEF Init
<1>1. TypeOK
  BY ScheduleAssumption DEF TypeOK, NoJob
<1>2. Turns /\ ChosenIsUnparked
  BY DEF Turns, TurnAt, SchedAt, TurnIsWithMember, ChosenIsUnparked
<1>3. Used = {}
  BY DEF Used
<1>4. WorkersLast
  BY <1>3, FS_EmptySet, WorkersFinite DEF WorkersLast
<1>5. GivingAt /\ IdleAt /\ SlotsAt /\ JobsAt /\ OneWorkerEach
  BY DEF GivingAt, IdleAt, SlotsAt, JobsAt, OneWorkerEach
<1> QED
  BY <1>1, <1>2, <1>4, <1>5 DEF IInv, Jobs

-----------------------------------------------------------------------------

LEMMA TypeStep == IInv /\ [Next]_vars => TypeOK'
<1> SUFFICES ASSUME IInv, [Next]_vars PROVE TypeOK'
  OBVIOUS
<1> USE ThreadFacts, ScheduleAssumption DEF IInv, TypeOK, sched, pool, Go, Resumed
<1>1. ASSUME NEW t \in Threads, Unparked(t) \/ Back(t) PROVE TypeOK'
  BY <1>1 DEF Unparked, Back, sched_wait
<1>2. ASSUME NEW t \in Threads, Yield(t) \/ GoOut(t) \/ End(t) PROVE TypeOK'
  BY <1>2 DEF Yield, GoOut, End, pick
<1>3. ASSUME NEW t \in Threads, Enter(t) \/ GetLock(t) \/ Leave(t) \/ WaitInside(t) \/ GiveUp(t) \/ Return(t)
      PROVE  TypeOK'
  BY <1>3 DEF Enter, GetLock, Leave, WaitInside, GiveUp, Return
<1>4. ASSUME NEW t \in Threads, NEW c \in Threads, Spawn(t, c) PROVE TypeOK'
  <2>1. idle' \in Seq(Workers) /\ Len(idle') <= IdleMax
    BY <1>4, Shorter, LenProperties DEF Spawn
  <2>2. giving' \in (Workers \cup {Nobody}) \X (Threads \cup {Nobody})
    BY <1>4, Shorter DEF Spawn
  <2> QED
    BY <1>4, <2>1, <2>2 DEF Spawn
<1>5. ASSUME NEW t \in Threads, Give(t) PROVE TypeOK'
  <2>1. giving[2] \in Threads /\ at[giving[2]] = "unborn" /\ giving[2] \in Workers
    BY <1>5 DEF Give, Jobs, GivingAt, Turns, SchedAt
  <2>2. New \in Workers
    BY <2>1, NewThere DEF Jobs
  <2> QED
    BY <1>5, <2>1, <2>2 DEF Give, NoJob
<1>6. ASSUME NEW w \in Workers, StartJob(w) PROVE TypeOK'
  BY <1>6 DEF StartJob, sched_wait
<1>7. ASSUME NEW w \in Workers, Offer(w) PROVE TypeOK'
  <2>1. idle' \in Seq(Workers) /\ Len(idle') <= IdleMax
    <3>1. Len(idle) \in Nat
      BY LenProperties
    <3>2. Append(idle, w) \in Seq(Workers) /\ Len(Append(idle, w)) = Len(idle) + 1
      BY AppendProperties
    <3>3. CASE Len(idle) >= IdleMax
      BY <1>7, <3>3 DEF Offer
    <3>4. CASE Len(idle) + 1 <= IdleMax
      BY <1>7, <3>1, <3>2, <3>4 DEF Offer
    <3> QED
      BY <3>1, <3>3, <3>4
  <2> QED
    BY <1>7, <2>1 DEF Offer
<1>8. CASE UNCHANGED vars
  BY <1>8 DEF vars
<1> QED
  BY <1>1, <1>2, <1>3, <1>4, <1>5, <1>6, <1>7, <1>8 DEF Next, Goes

\* Who runs has the turn, so nobody else passes it on.
LEMMA TurnsStep == IInv /\ [Next]_vars => Turns' /\ ChosenIsUnparked'
<1> DEFINE Goal == Turns' /\ ChosenIsUnparked'
<1> SUFFICES ASSUME IInv, [Next]_vars PROVE Goal
  OBVIOUS
<1> USE ThreadFacts DEF IInv, TypeOK, Turns, TurnAt, SchedAt, TurnIsWithMember, ChosenIsUnparked,
                        sched, pool, Go, Resumed
<1>1. ASSUME NEW t \in Threads, Unparked(t) PROVE Goal
  BY <1>1 DEF Unparked
<1>2. ASSUME NEW t \in Threads, Back(t) PROVE Goal
  BY <1>2 DEF Back, sched_wait
<1>3. ASSUME NEW t \in Threads, Yield(t) PROVE Goal
  BY <1>3 DEF Yield, pick
<1>4. ASSUME NEW t \in Threads, GoOut(t) PROVE Goal
  BY <1>4 DEF GoOut, pick
<1>5. ASSUME NEW t \in Threads, End(t) PROVE Goal
  BY <1>5 DEF End, pick
<1>6. ASSUME NEW t \in Threads, Enter(t) \/ GetLock(t) \/ Leave(t) \/ WaitInside(t) \/ GiveUp(t) \/ Return(t)
      PROVE  Goal
  BY <1>6 DEF Enter, GetLock, Leave, WaitInside, GiveUp, Return
<1>7. ASSUME NEW t \in Threads, NEW c \in Threads, Spawn(t, c) PROVE Goal
  BY <1>7 DEF Spawn
<1>8. ASSUME NEW t \in Threads, Give(t) PROVE Goal
  <2>1. giving[2] \in Workers /\ at[giving[2]] = "unborn" /\ giving[2] \in members
    BY <1>8 DEF Give, Jobs, GivingAt
  <2>2. /\ at' = [at EXCEPT ![t] = Resumed(t), ![giving[2]] = "handed"]
        /\ at[t] = "giving" /\ turn = t /\ t # giving[2] /\ t \notin io /\ giving[2] \notin io
        /\ UNCHANGED <<turn, members, io, parked, token>>
    BY <1>8, <2>1 DEF Give
  <2>3. at'[t] \in {"inside", "enter", "run"} /\ at'[giving[2]] = "handed"
    BY <2>1, <2>2
  <2>4. \A u \in Threads \ {t, giving[2]} : at'[u] = at[u]
    BY <2>2
  <2> HIDE DEF Resumed
  <2>5. SchedAt' /\ TurnAt'
    BY <2>1, <2>2, <2>3, <2>4
  <2>6. TurnIsWithMember' /\ ChosenIsUnparked'
    BY <2>1, <2>2, <2>3, <2>4
  <2> QED
    BY <2>5, <2>6
<1>9. ASSUME NEW w \in Workers, StartJob(w) PROVE Goal
  <2>1. slot[w] \in Threads /\ at[slot[w]] = "handed"
    BY <1>9 DEF StartJob, Jobs, SlotsAt
  <2> QED
    BY <1>9, <2>1 DEF StartJob, sched_wait
<1>10. ASSUME NEW w \in Workers, Offer(w) PROVE Goal
  BY <1>10 DEF Offer
<1>11. CASE UNCHANGED vars
  BY <1>11 DEF vars
<1> QED
  BY <1>1, <1>2, <1>3, <1>4, <1>5, <1>6, <1>7, <1>8, <1>9, <1>10, <1>11 DEF Next, Goes

-----------------------------------------------------------------------------
(* Jobs and OS threads.                                                      *)

Handing == GivingAt /\ IdleAt /\ SlotsAt /\ JobsAt /\ OneWorkerEach

\* A step of the threads that hands nothing over, and after which the same ones
\* are unborn, handed and giving.
LEMMA HandingStays ==
    ASSUME Handing, UNCHANGED <<idle, slot, giving>>,
           \A c \in members : at[c] = "unborn" => c \in members',
           \A w \in Workers : os[w] \in {"starting", "offered"} => os'[w] = os[w],
           JobsAt',
           \A t \in Threads : /\ at'[t] = "giving" <=> at[t] = "giving"
                              /\ at'[t] = "unborn" <=> at[t] = "unborn"
                              /\ at'[t] = "handed" <=> at[t] = "handed",
           TypeOK
    PROVE  Handing'
<1> USE ThreadFacts DEF Handing, TypeOK
<1>1. GivingAt'
  BY DEF GivingAt
<1>2. IdleAt'
  <2>1. \A i \in 1..Len(idle) : idle[i] \in Workers
    BY LenProperties
  <2> QED
    BY <2>1 DEF IdleAt
<1>3. SlotsAt'
  BY DEF SlotsAt
<1>4. OneWorkerEach'
  BY DEF OneWorkerEach
<1> QED
  BY <1>1, <1>2, <1>3, <1>4

\* Who gives has the turn: one at a time.
LEMMA GiverAlone == IInv => \A t, u \in Threads : at[t] = "giving" /\ turn = u => t = u
BY DEF IInv, Turns, TurnAt

LEMMA HandingStep == IInv /\ [Next]_vars => Handing'
<1> SUFFICES ASSUME IInv, [Next]_vars PROVE Handing'
  OBVIOUS
<1> USE ThreadFacts DEF IInv, TypeOK, Jobs, sched, pool, Go, Resumed
<1>0. Handing
  BY DEF Handing
<1>1. ASSUME NEW t \in Threads, \/ Unparked(t) \/ Back(t) \/ Yield(t) \/ GoOut(t) \/ Enter(t) \/ GetLock(t)
                                \/ Leave(t) \/ WaitInside(t) \/ GiveUp(t) \/ Return(t)
      PROVE  Handing'
  <2>1. /\ UNCHANGED <<idle, slot, giving, os, members>>
        /\ \A u \in Threads \ {t} : at'[u] = at[u]
        /\ {at[t], at'[t]} \cap {"giving", "unborn", "handed"} = {}
    BY <1>1 DEF Unparked, Back, Yield, GoOut, Enter, GetLock, Leave, WaitInside, GiveUp, Return, sched_wait
  <2>2. JobsAt'
    BY <1>0, <1>1, <2>1 DEF Handing, JobsAt, Unparked, Back, Yield, GoOut, Enter, GetLock, Leave, WaitInside, GiveUp, Return
  <2> QED
    BY <1>0, <2>1, <2>2, HandingStays
<1>2. ASSUME NEW t \in Threads, End(t) PROVE Handing'
  <2>1. /\ UNCHANGED <<idle, slot, giving>>
        /\ members' = members \ {t}
        /\ \A u \in Threads \ {t} : at'[u] = at[u]
        /\ at[t] = "run" /\ at'[t] = "ended"
    BY <1>2 DEF End
  <2>2. \A w \in Workers : os[w] \in {"starting", "offered"} => os'[w] = os[w]
    BY <1>2, <1>0 DEF End, Handing, JobsAt
  <2>3. JobsAt'
    BY <1>2, <1>0 DEF End, Handing, JobsAt
  <2> QED
    BY <1>0, <2>1, <2>2, <2>3, HandingStays
<1>3. ASSUME NEW t \in Threads, NEW c \in Threads, Spawn(t, c) PROVE Handing'
  <2>1. /\ at[t] \in {"run", "inside"} /\ at[c] = "unborn" /\ t # c
        /\ at' = [at EXCEPT ![t] = "giving"]
        /\ UNCHANGED <<os, slot, job>> /\ members' = members \cup {c}
        /\ giving' = <<IF idle = <<>> THEN Nobody ELSE idle[Len(idle)], c>>
        /\ idle' = IF idle = <<>> THEN idle ELSE SubSeq(idle, 1, Len(idle) - 1)
    BY <1>3 DEF Spawn
  <2>2. \A u \in Threads : at'[u] = "giving" => u = t
    BY <2>1, GiverAlone DEF Turns, TurnAt
  <2>3. idle # <<>> => Len(idle) \in 1..Len(idle) /\ idle[Len(idle)] \in Workers
    BY Shorter
  <2>4. GivingAt'
    BY <2>1, <2>2, <2>3 DEF GivingAt, IdleAt
  <2>5. IdleAt'
    <3>1. CASE idle = <<>>
      BY <2>1, <3>1 DEF IdleAt
    <3>2. CASE idle # <<>>
      <4>1. /\ Len(idle') = Len(idle) - 1 /\ Len(idle) \in Nat
            /\ \A i \in 1..Len(idle') : idle'[i] = idle[i]
        BY <2>1, <3>2, Shorter, LenProperties
      <4>2. \A i \in 1..Len(idle') : i \in 1..Len(idle) /\ i # Len(idle)
        BY <4>1
      <4> QED
        BY <2>1, <2>3, <3>2, <4>1, <4>2 DEF IdleAt
    <3> QED
      BY <3>1, <3>2
  <2>6. SlotsAt' /\ JobsAt' /\ OneWorkerEach'
    BY <2>1 DEF SlotsAt, JobsAt, OneWorkerEach
  <2> QED
    BY <2>4, <2>5, <2>6 DEF Handing
<1>4. ASSUME NEW t \in Threads, Give(t) PROVE Handing'
  <2> DEFINE c == giving[2]
             w == IF giving[1] = Nobody THEN New ELSE giving[1]
  <2>1. /\ at[t] = "giving" /\ c \in Workers /\ at[c] = "unborn"
        /\ giving[1] # Nobody => giving[1] \in Workers /\ os[giving[1]] = "offered" /\ slot[giving[1]] = Nobody
    BY <1>4 DEF Give, GivingAt, Turns, SchedAt
  <2>2. giving[1] = Nobody => New \in Workers /\ os[New] = "none" /\ slot[New] = Nobody
    BY <2>1, NewThere DEF SlotsAt
  <2>3. /\ w \in Workers /\ slot[w] = Nobody /\ os[w] \in {"none", "offered"}
        /\ \A v \in Workers : slot[v] # c
    BY <2>1, <2>2 DEF SlotsAt
  <2>4. /\ slot' = [slot EXCEPT ![w] = c]
        /\ os'[w] \in {"starting", "offered"} /\ \A v \in Workers \ {w} : os'[v] = os[v]
        /\ os[w] = "offered" => os'[w] = "offered"
        /\ giving' = NoJob /\ idle' = idle /\ job' = job
        /\ at'[t] \in {"inside", "enter", "run"} /\ at'[c] = "handed"
        /\ \A u \in Threads \ {t, c} : at'[u] = at[u]
    BY <1>4, <2>1, <2>2 DEF Give
  <2>5. \A u \in Threads : at[u] = "giving" => u = t
    BY <2>1, GiverAlone DEF Turns, TurnAt
  <2>6. \A i \in 1..Len(idle) : idle[i] \in Workers /\ idle[i] # w
    <3>1. \A i \in 1..Len(idle) : idle[i] \in Workers
      BY LenProperties
    <3> QED
      BY <3>1, <2>2 DEF IdleAt
  <2> HIDE DEF c, w
  <2>7. GivingAt'
    BY <2>4, <2>5 DEF GivingAt
  <2>8. IdleAt'
    BY <2>3, <2>4, <2>6 DEF IdleAt, NoJob
  <2>9. SlotsAt'
    BY <2>1, <2>3, <2>4 DEF SlotsAt
  <2>10. JobsAt'
    BY <2>3, <2>4 DEF JobsAt
  <2>11. OneWorkerEach'
    BY <2>1, <2>3, <2>4 DEF OneWorkerEach
  <2> QED
    BY <2>7, <2>8, <2>9, <2>10, <2>11 DEF Handing
<1>5. ASSUME NEW w \in Workers, StartJob(w) PROVE Handing'
  <2> DEFINE c == slot[w]
  <2>1. /\ c \in Threads /\ at[c] = "handed" /\ at'[c] \in {"waiting", "inside", "enter", "run"}
        /\ \A u \in Threads \ {c} : at'[u] = at[u]
        /\ slot' = [slot EXCEPT ![w] = Nobody] /\ os' = [os EXCEPT ![w] = "running"]
        /\ job' = [job EXCEPT ![w] = c]
        /\ UNCHANGED <<idle, giving, members>>
    BY <1>5 DEF StartJob, sched_wait, SlotsAt
  <2>2. c # Nobody /\ \A v \in Workers \ {w} : slot[v] # c
    BY <1>5 DEF StartJob, SlotsAt
  <2>3. \A i \in 1..Len(idle) : idle[i] \in Workers /\ idle[i] # w
    <3>1. \A i \in 1..Len(idle) : idle[i] \in Workers
      BY LenProperties
    <3> QED
      BY <3>1, <2>2 DEF IdleAt
  <2> HIDE DEF c
  <2>4. GivingAt'
    <3>1. \A u \in Threads : at'[u] = "giving" => at[u] = "giving"
      BY <2>1
    <3>2. ASSUME NEW u \in Threads, at[u] = "giving" PROVE giving[1] # w /\ giving[2] # c
      BY <2>1, <2>2, <3>2 DEF GivingAt, c
    <3>3. giving # NoJob => \E u \in Threads : at'[u] = "giving"
      BY <2>1 DEF GivingAt
    <3>4. \A v \in Workers \ {w} : os'[v] = os[v] /\ slot'[v] = slot[v]
      BY <2>1
    <3> QED
      BY <2>1, <3>1, <3>2, <3>3, <3>4 DEF GivingAt
  <2>5. IdleAt'
    BY <2>1, <2>3 DEF IdleAt
  <2>6. SlotsAt' /\ JobsAt'
    BY <2>1, <2>2 DEF SlotsAt, JobsAt, c
  <2>7. OneWorkerEach'
    BY <2>1, <2>2 DEF OneWorkerEach, c
  <2> QED
    BY <2>4, <2>5, <2>6, <2>7 DEF Handing
<1>6. ASSUME NEW w \in Workers, Offer(w) PROVE Handing'
  <2>1. /\ os[w] = "done" /\ os'[w] \in {"gone", "offered"} /\ \A v \in Workers \ {w} : os'[v] = os[v]
        /\ UNCHANGED <<at, slot, job, giving, members>>
    BY <1>6 DEF Offer
  <2>2. slot[w] = Nobody /\ giving[1] # w
    BY <2>1 DEF SlotsAt, GivingAt, NoJob
  <2>3. \A i \in 1..Len(idle) : idle[i] \in Workers /\ idle[i] # w
    <3>1. \A i \in 1..Len(idle) : idle[i] \in Workers
      BY LenProperties
    <3> QED
      BY <3>1, <2>1 DEF IdleAt
  <2>4. IdleAt'
    <3>1. CASE idle' = idle
      BY <2>1, <2>3, <3>1 DEF IdleAt
    <3>2. CASE idle' = Append(idle, w) /\ os'[w] = "offered"
      <4>1. /\ Len(idle) \in Nat /\ Len(idle') = Len(idle) + 1
            /\ \A i \in 1..Len(idle) : idle'[i] = idle[i]
            /\ idle'[Len(idle) + 1] = w
        BY <3>2, LenProperties, AppendProperties
      <4>2. \A i \in 1..Len(idle') : i \in 1..Len(idle) \/ i = Len(idle) + 1
        BY <4>1
      <4> QED
        BY <2>1, <2>2, <2>3, <3>2, <4>1, <4>2 DEF IdleAt
    <3> QED
      BY <1>6, <3>1, <3>2 DEF Offer
  <2>5. GivingAt' /\ SlotsAt' /\ JobsAt' /\ OneWorkerEach'
    BY <2>1, <2>2 DEF GivingAt, SlotsAt, JobsAt, OneWorkerEach
  <2> QED
    BY <2>4, <2>5 DEF Handing
<1>7. CASE UNCHANGED vars
  BY <1>0, <1>7, HandingStays DEF vars, Handing, JobsAt
<1> QED
  BY <1>1, <1>2, <1>3, <1>4, <1>5, <1>6, <1>7 DEF Next, Goes

\* A new OS thread is made only for a thread just spawned.
LEMMA WorkersLastStep == IInv /\ [Next]_vars => WorkersLast'
<1> SUFFICES ASSUME IInv, [Next]_vars PROVE WorkersLast'
  OBVIOUS
<1> USE ThreadFacts DEF IInv, TypeOK, Jobs, sched, pool, Go, Resumed
<1>1. ASSUME NEW t \in Threads, Give(t) PROVE WorkersLast'
  <2> DEFINE c == giving[2]
  <2>1. giving[1] # Nobody => os[giving[1]] = "offered"
    BY <1>1 DEF Give, GivingAt
  <2>2. c \in Workers /\ at[c] = "unborn" /\ c \notin Spawned
    BY <1>1 DEF Give, GivingAt, Turns, SchedAt, Spawned
  <2>3. Spawned' = Spawned \cup {c}
    BY <1>1, <2>2 DEF Give, Spawned
  <2>4. Cardinality(Spawned') = Cardinality(Spawned) + 1
    BY <2>2, <2>3, WorkersFinite, FS_AddElement
  <2>5. CASE giving[1] = Nobody
    <3>1. New \in Workers /\ os[New] = "none"
      BY <2>2, NewThere
    <3>2. New \notin Used /\ Used' = Used \cup {New}
      BY <1>1, <2>5, <3>1 DEF Give, Used
    <3>3. Cardinality(Used') = Cardinality(Used) + 1
      BY <3>2, WorkersFinite, FS_AddElement
    <3> QED
      BY <2>4, <3>3, WorkersFinite DEF WorkersLast
  <2>6. CASE giving[1] # Nobody
    <3>1. Used' = Used
      BY <1>1, <2>1, <2>6 DEF Give, Used
    <3> QED
      BY <2>4, <3>1, WorkersFinite DEF WorkersLast
  <2> QED
    BY <2>5, <2>6
<1>2. ASSUME Used' = Used, Spawned' = Spawned PROVE WorkersLast'
  BY <1>2 DEF WorkersLast
<1>3. ASSUME NEW t \in Threads, \/ Unparked(t) \/ Back(t) \/ Yield(t) \/ GoOut(t) \/ Enter(t) \/ GetLock(t)
                                \/ Leave(t) \/ WaitInside(t) \/ GiveUp(t) \/ Return(t) \/ End(t)
                                \/ \E c \in Threads : Spawn(t, c)
      PROVE  WorkersLast'
  <2>1. Used' = Used
    BY <1>3 DEF Used, Unparked, Back, Yield, GoOut, Enter, GetLock, Leave, WaitInside, GiveUp, Return, End, Spawn, JobsAt
  <2>2. Spawned' = Spawned
    BY <1>3 DEF Spawned, Unparked, Back, Yield, GoOut, Enter, GetLock, Leave, WaitInside, GiveUp, Return, End, Spawn, sched_wait
  <2> QED
    BY <1>2, <2>1, <2>2
<1>4. ASSUME NEW w \in Workers, StartJob(w) PROVE WorkersLast'
  <2>1. Used' = Used
    BY <1>4 DEF StartJob, Used
  <2>2. Spawned' = Spawned
    BY <1>4 DEF StartJob, sched_wait, Spawned, SlotsAt
  <2> QED
    BY <1>2, <2>1, <2>2
<1>5. ASSUME NEW w \in Workers, Offer(w) PROVE WorkersLast'
  <2>1. Used' = Used /\ Spawned' = Spawned
    BY <1>5 DEF Offer, Used, Spawned
  <2> QED
    BY <1>2, <2>1
<1>6. CASE UNCHANGED vars
  <2>1. Used' = Used /\ Spawned' = Spawned
    BY <1>6 DEF vars, Used, Spawned
  <2> QED
    BY <1>2, <2>1
<1> QED
  BY <1>1, <1>3, <1>4, <1>5, <1>6 DEF Next, Goes

LEMMA Invariance == Spec => []IInv
<1>1. IInv /\ [Next]_vars => IInv'
  BY TypeStep, TurnsStep, HandingStep, WorkersLastStep DEF IInv, Jobs, Handing
<1> QED
  BY InitIInv, <1>1, PTL DEF Spec

\* Types: there is an OS thread for every spawned thread, and IDLE keeps to its
\* limit.
THEOREM TypeCorrect == Spec => []TypeOK
BY Invariance, PTL DEF IInv

\* One program thread runs at a time, the one with the turn (SCHED).
THEOREM OneThreadRuns == Spec => []OneRuns
<1>1. IInv => OneRuns
  BY DEF IInv, Turns, TurnAt, OneRuns
<1> QED
  BY Invariance, <1>1, PTL

\* The turn is with a thread that can use it, if there is one (pick).
THEOREM TurnIsUsed == Spec => []TurnIsWithMember
<1>1. IInv => TurnIsWithMember
  BY DEF IInv, Turns
<1> QED
  BY Invariance, <1>1, PTL

\* A parked thread that is given the turn is unparked (wake).
THEOREM ChosenWakes == Spec => []ChosenIsUnparked
BY Invariance, PTL DEF IInv

\* A job handed over is with one OS thread, which has yet to take it (worker).
THEOREM JobsAreTaken == Spec => []OneWorkerEach
<1>1. IInv => OneWorkerEach
  BY DEF IInv, Jobs
<1> QED
  BY Invariance, <1>1, PTL
=============================================================================
