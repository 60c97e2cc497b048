--------------------------- MODULE WaitBookProofs --------------------------
(***************************************************************************)
(* Proofs about WaitBook, for any number of threads, mutexes and counts.      *)
(***************************************************************************)
EXTENDS WaitBook, FiniteSetTheorems, WellFoundedInduction, TLAPS

\* Facts about the operators.

LEMMA Ids == Threads \subseteq Nat /\ Main \in Threads /\ NoThread \notin Threads
BY NAssumption DEF Threads, Main, NoThread

LEMMA WaitsType ==
    /\ NoWait \in Waits /\ TimerWait \in Waits
    /\ \A l \in Locks : LockWait(l) \in Waits
    /\ \A c \in Counts : CountWait(c) \in Waits
    /\ \A c \in Threads : \A then \in {"join", "try_join", "drop"} : JoinWait(c, then) \in Waits
BY DEF Waits

LEMMA WaitsShape ==
    ASSUME NEW w \in Waits
    PROVE  /\ w.kind = "Join" => w.on \in Threads
           /\ w.kind = "Lock" => w.on \in Locks
BY DEF Waits, NoWait, TimerWait, LockWait, CountWait, JoinWait

LEMMA DeadlockedAreThreads ==
    ASSUME NEW ws, NEW st PROVE find_deadlock(ws, st) \subseteq Threads
BY Ids DEF find_deadlock, LiveIn

LEMMA StopReasons ==
    ASSUME NEW t PROVE stop_reason(t) \in {"deadlock", "cancelled", "none"}
BY DEF stop_reason

-----------------------------------------------------------------------------
\* What a wait's end changes.
LEMMA CompleteType ==
    ASSUME TypeOK, NEW t \in Threads, NEW w \in Waits, Complete(t, w)
    PROVE  /\ ctl' \in [Threads -> {"unborn", "start", "run", "wait", "fault", "ended"}]
           /\ why' \in [Threads -> {"none", "fault", "cancelled", "deadlock"}]
           /\ status' \in [Threads -> {"none", "Running", "Done", "Failed", "Taken"}]
           /\ lockedBy' \in [Locks -> Threads \cup {NoThread}]
           /\ owner' \in [Threads -> Threads \cup {NoThread}]
           /\ place' \in [Threads -> {"none", "stack", "sweep", "lost", "gone"}]
           /\ guards' \in [Locks -> Threads \cup {NoThread}]
<1> USE WaitsShape DEF TypeOK, Raise, EndHandle, TakeResult
<1>1. CASE w.kind = "Join" /\ Joined(t, w.on)
  BY <1>1 DEF Joined
<1>2. CASE w.kind = "Join" /\ TryJoined(t, w.on)
  BY <1>2 DEF TryJoined
<1>3. CASE w.kind = "Join" /\ Dropped(t, w.on)
  BY <1>3 DEF Dropped
<1>4. CASE w.kind = "Lock" /\ Locked(t, w.on)
  BY <1>4 DEF Locked
<1>5. CASE Counted(t, w)
  BY <1>5 DEF Counted
<1> QED
  BY <1>1, <1>2, <1>3, <1>4, <1>5 DEF Complete

LEMMA BeginType ==
    ASSUME TypeOK, NEW t \in Threads, NEW w \in Waits, Begin(t, w)
    PROVE  TypeOK'
<1> USE DEF TypeOK
<1>0. UNCHANGED <<poisoned, cancel, lent, cunwind, over>>
  BY DEF Begin
<1>1. CASE Complete(t, w) /\ Unread(t) /\ UNCHANGED <<waits, deadlocked>>
  BY <1>0, <1>1, CompleteType DEF Unread
<1>2. CASE /\ Raise(t, stop_reason(t)) /\ stop_reason(t) # "none"
           /\ deadlocked' = deadlocked \ {t} /\ Unread(t)
           /\ UNCHANGED <<waits, status, place, owner, lockedBy, guards>>
  BY <1>0, <1>2, StopReasons DEF Raise, Unread
<1>3. CASE /\ Raise(t, "deadlock") /\ Unread(t)
           /\ UNCHANGED <<waits, deadlocked, status, place, owner, lockedBy, guards>>
  BY <1>0, <1>3 DEF Raise, Unread
<1>4. CASE /\ ctl' = [ctl EXCEPT ![t] = "wait"]
           /\ waits' = [waits EXCEPT ![t] = w]
           /\ deadlocked' = deadlocked \cup find_deadlock(waits', status)
           /\ UNCHANGED <<why, seen, status, place, owner, lockedBy, guards>>
  BY <1>0, <1>4, DeadlockedAreThreads
<1> QED
  BY <1>1, <1>2, <1>3, <1>4 DEF Begin

LEMMA LookType ==
    ASSUME TypeOK, NEW t \in Threads, Look(t)
    PROVE  TypeOK'
<1> USE DEF TypeOK
<1>0. waits[t] \in Waits
  OBVIOUS
<1>1. /\ waits' = [waits EXCEPT ![t] = NoWait]
      /\ Unread(t) /\ UNCHANGED <<poisoned, cancel, lent, cunwind, over>>
  BY DEF Look
<1>2. CASE Complete(t, waits[t]) /\ UNCHANGED deadlocked
  BY <1>0, <1>1, <1>2, CompleteType, WaitsType DEF Unread
<1>3. CASE /\ Raise(t, stop_reason(t)) /\ stop_reason(t) # "none"
           /\ deadlocked' = deadlocked \ {t}
           /\ UNCHANGED <<status, place, owner, lockedBy, guards>>
  BY <1>1, <1>3, WaitsType, StopReasons DEF Raise, Unread
<1> QED
  BY <1>2, <1>3 DEF Look

LEMMA TypeStep == TypeOK /\ [Next]_vars => TypeOK'
<1> SUFFICES ASSUME TypeOK, [Next]_vars PROVE TypeOK'
  OBVIOUS
<1> USE DEF TypeOK
<1>1. ASSUME NEW t \in Threads, ThreadNext(t) PROVE TypeOK'
  <2>1. CASE Look(t)
    BY <2>1, LookType
  <2>2. CASE Start(t) \/ BecomeLent(t)
    BY <2>2 DEF Start, BecomeLent
  <2>3. CASE Sleep(t)
    BY <2>3, BeginType, WaitsType DEF Sleep
  <2>4. CASE Fault(t) \/ Crash(t)
    BY <2>4 DEF Fault, Crash, Raise
  <2>5. CASE Contain(t)
    BY <2>5 DEF Contain
  <2>6. CASE End(t)
    BY <2>6, DeadlockedAreThreads DEF End, Unread
  <2>7. ASSUME NEW l \in Locks, Lock(t, l) PROVE TypeOK'
    <3>1. CASE lockedBy[l] = t
      BY <2>7, <3>1 DEF Lock, Raise
    <3>2. CASE lockedBy[l] # t
      BY <2>7, <3>2, BeginType, WaitsType DEF Lock
    <3> QED
      BY <3>1, <3>2
  <2>8. ASSUME NEW l \in Locks, Unlock(t, l) PROVE TypeOK'
    BY <2>8 DEF Unlock
  <2>9. ASSUME NEW c \in Counts, ReadCount(t, c) \/ Notify(t, c) PROVE TypeOK'
    BY <2>9 DEF ReadCount, Notify
  <2>10. ASSUME NEW c \in Counts, WaitCount(t, c) PROVE TypeOK'
    BY <2>10, BeginType, WaitsType DEF WaitCount
  <2>11. ASSUME NEW c \in Threads, Spawn(t, c) PROVE TypeOK'
    BY <2>11 DEF Spawn
  <2>12. ASSUME NEW c \in Threads, Cancel(t, c) \/ UnwindCancel(t, c) PROVE TypeOK'
    BY <2>12 DEF Cancel, UnwindCancel
  <2>13. ASSUME NEW c \in Threads, DestroyHandle(t, c) PROVE TypeOK'
    BY <2>13, BeginType, WaitsType DEF DestroyHandle
  <2>14. ASSUME NEW c \in Threads, NEW then \in {"join", "try_join", "drop"}, Join(t, c, then)
         PROVE TypeOK'
    BY <2>14, BeginType, WaitsType DEF Join
  <2>15. ASSUME NEW c \in Threads, NEW u \in Threads, Move(t, u, c) PROVE TypeOK'
    BY <2>15 DEF Move
  <2>16. ASSUME NEW h \in SUBSET Threads, PopFrame(t, h) PROVE TypeOK'
    BY <2>16 DEF PopFrame
  <2> QED
    BY <1>1, <2>1, <2>2, <2>3, <2>4, <2>5, <2>6, <2>7, <2>8, <2>9, <2>10, <2>11, <2>12,
       <2>13, <2>14, <2>15, <2>16 DEF ThreadNext
<1>2. CASE Exit
  BY <1>2 DEF Exit
<1>3. CASE UNCHANGED vars
  BY <1>3 DEF vars
<1> QED
  BY <1>1, <1>2, <1>3 DEF Next, Over

LEMMA InitType == Init => TypeOK
BY Ids, WaitsType DEF Init, TypeOK

-----------------------------------------------------------------------------
\* The inductive invariant: what the book says of the mutexes and of the handles
\* holds because a thread that takes a step is on record as running.
Alive ==
    \A t \in Threads :
        t # Main /\ ctl[t] \in {"start", "run", "wait", "fault"} => status[t] = "Running"

IInv == TypeOK /\ Alive /\ LocksMatchGuards /\ OrphansComeFromCutFrames

\* A wait ends with the record of a thread that runs untouched.
LEMMA CompleteHolds ==
    ASSUME IInv, NEW t \in Threads, NEW w \in Waits, ctl[t] \in {"run", "wait"},
           Ready(t, w), Complete(t, w), UNCHANGED poisoned
    PROVE  Alive' /\ LocksMatchGuards' /\ OrphansComeFromCutFrames'
<1> USE WaitsShape, Ids
    DEF IInv, TypeOK, Alive, LocksMatchGuards, OrphansComeFromCutFrames, LiveIn
<1>1. CASE w.kind = "Join"
  <2>1. /\ w.on \in Threads /\ status[w.on] # "Running"
        /\ UNCHANGED <<lockedBy, guards>>
    BY <1>1 DEF Complete, Ready, Joined, TryJoined, Dropped
  <2>2. \A c \in Threads : c # w.on =>
           status'[c] = status[c] /\ place'[c] = place[c] /\ owner'[c] = owner[c]
    BY <1>1 DEF Complete, Joined, TryJoined, Dropped, TakeResult, EndHandle
  <2>3. status'[w.on] # "Running"
    BY <1>1 DEF Complete, Joined, TryJoined, Dropped, TakeResult
  <2>4. \A c \in Threads : ctl'[c] = ctl[c] \/ (c = t /\ ctl'[c] \in {"run", "fault"})
    BY <1>1 DEF Complete, Joined, TryJoined, Dropped, Raise
  <2> QED
    BY <2>1, <2>2, <2>3, <2>4
<1>2. CASE w.kind = "Lock"
  BY <1>2 DEF Complete, Locked, Raise
<1>3. CASE w.kind \notin {"Join", "Lock"}
  BY <1>3 DEF Complete, Counted, Raise
<1> QED
  BY <1>1, <1>2, <1>3

\* A wait that does not end changes nothing of it.
LEMMA StillHolds ==
    ASSUME IInv, NEW t \in Threads, NEW x \in {"run", "wait", "fault"}, ctl[t] \in {"run", "wait"},
           ctl' = [ctl EXCEPT ![t] = x],
           UNCHANGED <<status, place, owner, lockedBy, guards, poisoned>>
    PROVE  Alive' /\ LocksMatchGuards' /\ OrphansComeFromCutFrames'
BY DEF IInv, TypeOK, Alive, LocksMatchGuards, OrphansComeFromCutFrames, LiveIn

LEMMA BeginHolds ==
    ASSUME IInv, NEW t \in Threads, NEW w \in Waits, ctl[t] = "run", Begin(t, w)
    PROVE  Alive' /\ LocksMatchGuards' /\ OrphansComeFromCutFrames'
BY CompleteHolds, StillHolds DEF Begin, Raise

LEMMA LookHolds ==
    ASSUME IInv, NEW t \in Threads, Look(t)
    PROVE  Alive' /\ LocksMatchGuards' /\ OrphansComeFromCutFrames'
<1>1. waits[t] \in Waits /\ ctl[t] = "wait" /\ UNCHANGED poisoned
  BY DEF IInv, TypeOK, Look
<1>2. CASE Ready(t, waits[t]) /\ Complete(t, waits[t])
  BY <1>1, <1>2, CompleteHolds
<1>3. CASE /\ Raise(t, stop_reason(t))
           /\ UNCHANGED <<status, place, owner, lockedBy, guards>>
  BY <1>1, <1>3, StillHolds DEF Raise
<1> QED
  BY <1>2, <1>3 DEF Look

LEMMA HoldsStep == IInv /\ [Next]_vars => Alive' /\ LocksMatchGuards' /\ OrphansComeFromCutFrames'
<1> DEFINE Goal == Alive' /\ LocksMatchGuards' /\ OrphansComeFromCutFrames'
<1> SUFFICES ASSUME IInv, [Next]_vars PROVE Goal
  OBVIOUS
<1> USE Ids DEF IInv, TypeOK, Alive, LocksMatchGuards, OrphansComeFromCutFrames, LiveIn
<1>1. ASSUME NEW t \in Threads, ThreadNext(t) PROVE Goal
  <2>1. CASE Look(t)
    BY <2>1, LookHolds
  <2>2. CASE Start(t) \/ BecomeLent(t)
    BY <2>2 DEF Start, BecomeLent
  <2>3. CASE Sleep(t)
    BY <2>3, BeginHolds, WaitsType DEF Sleep, Running
  <2>4. CASE Fault(t) \/ Crash(t)
    BY <2>4 DEF Fault, Crash, Raise, Running
  <2>5. CASE Contain(t)
    BY <2>5 DEF Contain
  <2>6. CASE End(t)
    BY <2>6 DEF End, OwnsNothing, Running
  <2>7. ASSUME NEW l \in Locks, Lock(t, l) PROVE Goal
    <3>1. CASE lockedBy[l] = t
      BY <2>7, <3>1, StillHolds DEF Lock, Raise, Running
    <3>2. CASE lockedBy[l] # t
      BY <2>7, <3>2, BeginHolds, WaitsType DEF Lock, Running
    <3> QED
      BY <3>1, <3>2
  <2>8. ASSUME NEW l \in Locks, Unlock(t, l) PROVE Goal
    BY <2>8 DEF Unlock
  <2>9. ASSUME NEW c \in Counts, ReadCount(t, c) \/ Notify(t, c) PROVE Goal
    BY <2>9 DEF ReadCount, Notify
  <2>10. ASSUME NEW c \in Counts, WaitCount(t, c) PROVE Goal
    BY <2>10, BeginHolds, WaitsType DEF WaitCount, Running
  <2>11. ASSUME NEW c \in Threads, Spawn(t, c) PROVE Goal
    BY <2>11 DEF Spawn, Running
  <2>12. ASSUME NEW c \in Threads, Cancel(t, c) \/ UnwindCancel(t, c) PROVE Goal
    BY <2>12 DEF Cancel, UnwindCancel
  <2>13. ASSUME NEW c \in Threads, DestroyHandle(t, c) PROVE Goal
    BY <2>13, BeginHolds, WaitsType DEF DestroyHandle, Running
  <2>14. ASSUME NEW c \in Threads, NEW then \in {"join", "try_join", "drop"}, Join(t, c, then)
         PROVE Goal
    BY <2>14, BeginHolds, WaitsType DEF Join, Running
  <2>15. ASSUME NEW c \in Threads, NEW u \in Threads, Move(t, u, c) PROVE Goal
    <3>1. /\ owner' = [owner EXCEPT ![c] = u]
          /\ UNCHANGED <<ctl, status, place, lockedBy, guards, poisoned>>
          /\ place[c] = "stack" /\ u \in LiveIn(status)
      BY <2>15 DEF Move, Has
    <3>2. Alive' /\ LocksMatchGuards'
      BY <3>1
    <3>3. ASSUME NEW x \in Threads \ {Main}, status[x] = "Running"
          PROVE  \/ owner'[x] \in LiveIn(status) /\ place[x] \in {"stack", "sweep"}
                 \/ place[x] = "lost"
      BY <3>1, <3>3
    <3> QED
      BY <3>1, <3>2, <3>3
  <2>16. ASSUME NEW h \in SUBSET Threads, PopFrame(t, h) PROVE Goal
    BY <2>16 DEF PopFrame, Has
  <2> QED
    BY <1>1, <2>1, <2>2, <2>3, <2>4, <2>5, <2>6, <2>7, <2>8, <2>9, <2>10, <2>11, <2>12,
       <2>13, <2>14, <2>15, <2>16 DEF ThreadNext
<1>2. CASE Exit
  BY <1>2 DEF Exit
<1>3. CASE UNCHANGED vars
  BY <1>3 DEF vars
<1> QED
  BY <1>1, <1>2, <1>3 DEF Next, Over

LEMMA InitHolds == Init => Alive /\ LocksMatchGuards /\ OrphansComeFromCutFrames
BY DEF Init, Alive, LocksMatchGuards, OrphansComeFromCutFrames

LEMMA Invariance == Spec => []IInv
<1>1. Init => IInv
  BY InitType, InitHolds DEF IInv
<1>2. IInv /\ [Next]_vars => IInv'
  BY TypeStep, HoldsStep DEF IInv
<1> QED
  BY <1>1, <1>2, PTL DEF Spec

\* Types.
THEOREM TypeCorrect == Spec => []TypeOK
BY Invariance, PTL DEF IInv

\* The book's record of who holds a mutex and the guards in the program agree.
THEOREM LocksAgree == Spec => []LocksMatchGuards
BY Invariance, PTL DEF IInv

\* A thread that runs has an owner that runs, but for handles of cut frames.
THEOREM OrphansExplained == Spec => []OrphansComeFromCutFrames
BY Invariance, PTL DEF IInv

-----------------------------------------------------------------------------
\* No step comes to hold a poisoned mutex.

LEMMA CompleteReaches ==
    ASSUME TypeOK, NEW t \in Threads, NEW w \in Waits, Complete(t, w), UNCHANGED poisoned
    PROVE  ReachesNoPoisoned
<1>1. CASE w.kind = "Lock"
  BY <1>1, WaitsShape DEF Complete, Locked, TypeOK, ReachesNoPoisoned
<1>2. CASE w.kind # "Lock"
  BY <1>2 DEF Complete, Joined, TryJoined, Dropped, Counted, ReachesNoPoisoned
<1> QED
  BY <1>1, <1>2

LEMMA BeginReaches ==
    ASSUME TypeOK, NEW t \in Threads, NEW w \in Waits, Begin(t, w) PROVE ReachesNoPoisoned
<1>1. CASE Complete(t, w)
  BY <1>1, CompleteReaches DEF Begin
<1>2. CASE UNCHANGED <<guards, poisoned>>
  BY <1>2 DEF ReachesNoPoisoned
<1> QED
  BY <1>1, <1>2 DEF Begin

LEMMA StepReaches == TypeOK /\ [Next]_vars => ReachesNoPoisoned
<1> SUFFICES ASSUME TypeOK, [Next]_vars PROVE ReachesNoPoisoned
  OBVIOUS
<1>1. ASSUME NEW t \in Threads, ThreadNext(t) PROVE ReachesNoPoisoned
  <2>1. CASE Look(t)
    <3>1. waits[t] \in Waits /\ UNCHANGED poisoned
      BY <2>1 DEF TypeOK, Look
    <3>2. CASE Complete(t, waits[t])
      BY <3>1, <3>2, CompleteReaches
    <3>3. CASE UNCHANGED guards
      BY <3>1, <3>3 DEF ReachesNoPoisoned
    <3> QED
      BY <2>1, <3>2, <3>3 DEF Look
  <2>2. CASE Start(t) \/ BecomeLent(t) \/ Fault(t) \/ Crash(t) \/ End(t)
    BY <2>2 DEF Start, BecomeLent, Fault, Crash, End, ReachesNoPoisoned
  <2>3. CASE Sleep(t)
    BY <2>3, BeginReaches, WaitsType DEF Sleep
  <2>4. CASE Contain(t)
    BY <2>4 DEF Contain, ReachesNoPoisoned
  <2>5. ASSUME NEW l \in Locks, Lock(t, l) PROVE ReachesNoPoisoned
    <3>1. CASE lockedBy[l] = t
      BY <2>5, <3>1 DEF Lock, ReachesNoPoisoned
    <3>2. CASE lockedBy[l] # t
      BY <2>5, <3>2, BeginReaches, WaitsType DEF Lock
    <3> QED
      BY <3>1, <3>2
  <2>6. ASSUME NEW l \in Locks, Unlock(t, l) PROVE ReachesNoPoisoned
    BY <2>6 DEF Unlock, ReachesNoPoisoned, TypeOK
  <2>7. ASSUME NEW c \in Counts, ReadCount(t, c) \/ Notify(t, c) PROVE ReachesNoPoisoned
    BY <2>7 DEF ReadCount, Notify, ReachesNoPoisoned
  <2>8. ASSUME NEW c \in Counts, WaitCount(t, c) PROVE ReachesNoPoisoned
    BY <2>8, BeginReaches, WaitsType DEF WaitCount
  <2>9. ASSUME NEW c \in Threads, Spawn(t, c) \/ Cancel(t, c) \/ UnwindCancel(t, c) PROVE ReachesNoPoisoned
    BY <2>9 DEF Spawn, Cancel, UnwindCancel, ReachesNoPoisoned
  <2>10. ASSUME NEW c \in Threads, DestroyHandle(t, c) PROVE ReachesNoPoisoned
    BY <2>10, BeginReaches, WaitsType DEF DestroyHandle
  <2>11. ASSUME NEW c \in Threads, NEW then \in {"join", "try_join", "drop"}, Join(t, c, then)
         PROVE ReachesNoPoisoned
    BY <2>11, BeginReaches, WaitsType DEF Join
  <2>12. ASSUME NEW c \in Threads, NEW u \in Threads, Move(t, u, c) PROVE ReachesNoPoisoned
    BY <2>12 DEF Move, ReachesNoPoisoned
  <2>13. ASSUME NEW h \in SUBSET Threads, PopFrame(t, h) PROVE ReachesNoPoisoned
    BY <2>13 DEF PopFrame, ReachesNoPoisoned
  <2> QED
    BY <1>1, <2>1, <2>2, <2>3, <2>4, <2>5, <2>6, <2>7, <2>8, <2>9, <2>10, <2>11, <2>12, <2>13
    DEF ThreadNext
<1>2. CASE Exit \/ UNCHANGED vars
  BY <1>2 DEF Exit, vars, ReachesNoPoisoned
<1> QED
  BY <1>1, <1>2 DEF Next, Over

\* A poisoned mutex stays poisoned, and no thread comes to hold it again.
THEOREM PoisonHolds == Spec => PoisonedStaysUnreached
<1>1. TypeOK /\ [Next]_vars => [ReachesNoPoisoned]_vars
  BY StepReaches
<1> QED
  BY <1>1, TypeCorrect, PTL DEF Spec, PoisonedStaysUnreached

-----------------------------------------------------------------------------
(* Who waits, and what a step of a thread makes of it.                       *)

\* The book has a wait for a thread exactly while the thread waits.
WaitsAt == \A t \in Threads : waits[t] # NoWait <=> ctl[t] = "wait"

\* The thread stays in its own code, or leaves it with a fault.
Runs(t) ==
    /\ ctl'[t] \in {"run", "fault"} /\ waits'[t] = NoWait
    /\ \A u \in Threads \ {t} :
          waits'[u] = waits[u] /\ (ctl'[u] = ctl[u] \/ (ctl[u] = "unborn" /\ ctl'[u] = "start"))
    /\ \A l \in Locks : lockedBy'[l] \in {lockedBy[l], NoThread, t}
    /\ cancel \subseteq cancel' /\ lent' \subseteq lent \cup {t}

\* It registers a wait, which closes no cycle, and looks whether all wait now.
Registers(t) ==
    \E w \in Waits \ {NoWait} :
        /\ ctl[t] = "run"
        /\ ctl' = [ctl EXCEPT ![t] = "wait"]
        /\ waits' = [waits EXCEPT ![t] = w]
        /\ ~closes_cycle(t, w, waits)
        /\ deadlocked' = deadlocked \cup find_deadlock(waits', status)
        /\ UNCHANGED <<seen, status, lockedBy, poisoned, cancel, lent, cunwind, over>>

LEMMA CompleteRuns ==
    ASSUME TypeOK, NEW t \in Threads, NEW w \in Waits, Complete(t, w)
    PROVE  /\ \E x \in {"run", "fault"} : ctl' = [ctl EXCEPT ![t] = x]
           /\ \A l \in Locks : lockedBy'[l] \in {lockedBy[l], t}
<1> USE DEF TypeOK, Raise
<1>1. CASE w.kind = "Join" /\ Joined(t, w.on)
  BY <1>1 DEF Joined
<1>2. CASE w.kind = "Join" /\ TryJoined(t, w.on)
  BY <1>2 DEF TryJoined
<1>3. CASE w.kind = "Join" /\ Dropped(t, w.on)
  BY <1>3 DEF Dropped
<1>4. CASE w.kind = "Lock" /\ Locked(t, w.on)
  BY <1>4 DEF Locked
<1>5. CASE Counted(t, w)
  BY <1>5 DEF Counted
<1> QED
  BY <1>1, <1>2, <1>3, <1>4, <1>5 DEF Complete

LEMMA BeginDoes ==
    ASSUME TypeOK, WaitsAt, NEW t \in Threads, ctl[t] = "run", NEW w \in Waits \ {NoWait}, Begin(t, w)
    PROVE  Runs(t) \/ Registers(t)
<1>1. CASE Complete(t, w) /\ UNCHANGED <<waits, cancel, lent>>
  BY <1>1, CompleteRuns DEF TypeOK, WaitsAt, Runs
<1>2. CASE (\E d : Raise(t, d)) /\ UNCHANGED <<waits, lockedBy, cancel, lent>>
  BY <1>2 DEF TypeOK, WaitsAt, Runs, Raise
<1>3. CASE /\ ~closes_cycle(t, w, waits)
           /\ ctl' = [ctl EXCEPT ![t] = "wait"]
           /\ waits' = [waits EXCEPT ![t] = w]
           /\ deadlocked' = deadlocked \cup find_deadlock(waits', status)
           /\ UNCHANGED <<seen, status, lockedBy, poisoned, cancel, lent, cunwind, over>>
  BY <1>3 DEF Registers
<1> QED
  BY <1>1, <1>2, <1>3 DEF Begin

LEMMA WaitsKinds ==
    /\ TimerWait # NoWait
    /\ \A l : LockWait(l) # NoWait
    /\ \A c : CountWait(c) # NoWait
    /\ \A c, then : JoinWait(c, then) # NoWait
<1>1. TimerWait.kind = "Timer" /\ NoWait.kind = "None"
  BY DEF TimerWait, NoWait
<1>2. \A l : LockWait(l).kind = "Lock"
  BY DEF LockWait
<1>3. \A c : CountWait(c).kind \in {"Event", "Atomic"}
  BY DEF CountWait
<1>4. \A c, then : JoinWait(c, then).kind = "Join"
  BY DEF JoinWait
<1> QED
  BY <1>1, <1>2, <1>3, <1>4

\* What a step of a thread comes to.
LEMMA StepDoes ==
    ASSUME TypeOK, WaitsAt, NEW t \in Threads, ThreadNext(t)
    PROVE  Runs(t) \/ Registers(t) \/ End(t) \/ Crash(t)
<1> DEFINE Goal == Runs(t) \/ Registers(t) \/ End(t) \/ Crash(t)
<1> SUFFICES Goal
  OBVIOUS
<1>1. CASE Look(t)
  <2>1. /\ ctl[t] = "wait" /\ waits[t] \in Waits
        /\ waits' = [waits EXCEPT ![t] = NoWait] /\ UNCHANGED <<cancel, lent>>
    BY <1>1 DEF Look, TypeOK
  <2>2. CASE Complete(t, waits[t])
    BY <2>1, <2>2, CompleteRuns DEF TypeOK, Runs
  <2>3. CASE Raise(t, stop_reason(t)) /\ UNCHANGED lockedBy
    BY <2>1, <2>3 DEF TypeOK, Runs, Raise
  <2> QED
    BY <1>1, <2>2, <2>3 DEF Look
<1>2. CASE Start(t) \/ BecomeLent(t)
  BY <1>2 DEF Start, BecomeLent, Running, TypeOK, WaitsAt, Runs
<1>3. CASE Sleep(t)
  BY <1>3, BeginDoes, WaitsType, WaitsKinds DEF Sleep, Running
<1>4. CASE Fault(t) \/ Contain(t)
  BY <1>4 DEF Fault, Contain, Raise, Running, TypeOK, WaitsAt, Runs
<1>5. ASSUME NEW l \in Locks, Lock(t, l) PROVE Goal
  <2>1. CASE lockedBy[l] = t
    BY <1>5, <2>1 DEF Lock, Raise, Running, TypeOK, WaitsAt, Runs
  <2>2. CASE lockedBy[l] # t
    BY <1>5, <2>2, BeginDoes, WaitsType, WaitsKinds DEF Lock, Running
  <2> QED
    BY <2>1, <2>2
<1>6. ASSUME NEW l \in Locks, Unlock(t, l) PROVE Goal
  BY <1>6 DEF Unlock, Running, TypeOK, WaitsAt, Runs
<1>7. ASSUME NEW c \in Counts, ReadCount(t, c) \/ Notify(t, c) PROVE Goal
  BY <1>7 DEF ReadCount, Notify, Running, TypeOK, WaitsAt, Runs
<1>8. ASSUME NEW c \in Counts, WaitCount(t, c) PROVE Goal
  BY <1>8, BeginDoes, WaitsType, WaitsKinds DEF WaitCount, Running
<1>9. ASSUME NEW c \in Threads, Spawn(t, c) PROVE Goal
  BY <1>9 DEF Spawn, Running, TypeOK, WaitsAt, Runs
<1>10. ASSUME NEW c \in Threads, Cancel(t, c) \/ UnwindCancel(t, c) PROVE Goal
  BY <1>10 DEF Cancel, UnwindCancel, Running, TypeOK, WaitsAt, Runs
<1>11. ASSUME NEW c \in Threads, DestroyHandle(t, c) PROVE Goal
  BY <1>11, BeginDoes, WaitsType, WaitsKinds DEF DestroyHandle, Running
<1>12. ASSUME NEW c \in Threads, NEW then \in {"join", "try_join", "drop"}, Join(t, c, then)
       PROVE  Goal
  BY <1>12, BeginDoes, WaitsType, WaitsKinds DEF Join, Running
<1>13. ASSUME NEW c \in Threads, NEW u \in Threads, Move(t, u, c) PROVE Goal
  BY <1>13 DEF Move, Running, TypeOK, WaitsAt, Runs
<1>14. ASSUME NEW h \in SUBSET Threads, PopFrame(t, h) PROVE Goal
  BY <1>14 DEF PopFrame, Running, TypeOK, WaitsAt, Runs
<1> QED
  BY <1>1, <1>2, <1>3, <1>4, <1>5, <1>6, <1>7, <1>8, <1>9, <1>10, <1>11, <1>12, <1>13, <1>14
  DEF ThreadNext

LEMMA WaitsAtStep == TypeOK /\ WaitsAt /\ [Next]_vars => WaitsAt'
<1> SUFFICES ASSUME TypeOK, WaitsAt, [Next]_vars PROVE WaitsAt'
  OBVIOUS
<1>1. ASSUME NEW t \in Threads, ThreadNext(t) PROVE WaitsAt'
  <2>1. CASE Runs(t)
    BY <2>1 DEF Runs, WaitsAt
  <2>2. CASE Registers(t)
    BY <2>2 DEF Registers, WaitsAt, TypeOK
  <2>3. CASE End(t) \/ Crash(t)
    BY <2>3 DEF End, Crash, Running, WaitsAt, TypeOK
  <2> QED
    BY <1>1, <2>1, <2>2, <2>3, StepDoes
<1>2. CASE Exit \/ UNCHANGED vars
  BY <1>2 DEF Exit, vars, WaitsAt
<1> QED
  BY <1>1, <1>2 DEF Next, Over

LEMMA WaitsInvariance == Spec => []WaitsAt
<1>1. Init => WaitsAt
  BY DEF Init, WaitsAt
<1> QED
  BY <1>1, WaitsAtStep, TypeCorrect, PTL DEF Spec

-----------------------------------------------------------------------------
(* When all wait, one is marked.                                             *)

LEMMA LeastOf ==
    ASSUME NEW S \in SUBSET Nat, S # {} PROVE \E x \in S : \A y \in S : x <= y
<1>1. PICK x \in S : \A y \in S : ~(<<y, x>> \in OpToRel(<, Nat))
  BY WFMin, NatLessThanWellFounded
<1>2. ASSUME NEW y \in S, y < x PROVE FALSE
  <2>1. <<y, x>> \in Nat \X Nat /\ <<y, x>>[1] = y /\ <<y, x>>[2] = x
    OBVIOUS
  <2>2. <<y, x>> \in OpToRel(<, Nat)
    BY <1>2, <2>1 DEF OpToRel
  <2> QED
    BY <1>1, <2>2
<1> QED
  BY <1>2

LEMMA GreatestOf ==
    ASSUME NEW S \in SUBSET Threads, S # {} PROVE \E x \in S : \A y \in S : y <= x
<1> DEFINE T == {n \in 0..N : \E s \in S : n = N - s}
<1>1. \A s \in S : s \in Nat /\ s <= N /\ N - s \in T
  BY NAssumption DEF Threads
<1>2. T \in SUBSET Nat /\ T # {}
  BY <1>1
<1> HIDE DEF T
<1>3. PICK n \in T : \A m \in T : n <= m
  BY <1>2, LeastOf
<1>4. PICK x \in S : n = N - x
  BY <1>3 DEF T
<1>5. \A y \in S : N - x <= N - y
  BY <1>1, <1>3, <1>4
<1> QED
  BY <1>1, <1>4, <1>5, NAssumption

\* With every live thread held by its wait and none asked to stop, find_deadlock
\* finds one of them -- but for the main thread alone on a channel.
LEMMA FindsOne ==
    ASSUME NEW ws \in [Threads -> Waits], NEW st,
           \A u \in Threads : ws[u] # NoWait => u \in LiveIn(st),
           \A u \in LiveIn(st) : u \notin Stopping /\ StillWaits(u, ws[u], st),
           ~(LiveIn(st) = {Main} /\ ws[Main].kind = "Event")
    PROVE  find_deadlock(ws, st) \cap LiveIn(st) # {}
<1> DEFINE cycled == {u \in Threads : ws[u] # NoWait /\ closes_cycle(u, ws[u], ws)}
           live == LiveIn(st)
           ends == {u \in live : ws[u].kind \notin {"Join", "Lock"}}
           top == {u \in cycled : \A v \in cycled : v <= u}
<1>1. find_deadlock(ws, st) = IF cycled # {} THEN top ELSE IF ends = {} THEN live ELSE ends
  BY DEF find_deadlock
<1>2. Main \in live /\ cycled \in SUBSET Threads /\ cycled \subseteq live
  BY Ids DEF LiveIn
<1> HIDE DEF cycled
<1>3. cycled # {} => top # {}
  BY <1>2, GreatestOf
<1> HIDE DEF live
<1> QED
  BY <1>1, <1>2, <1>3 DEF live

\* A thread that no judgement ends, after a step, is held by what it waits for.
LEMMA HopelessWaits ==
    ASSUME TypeOK', WaitsAt', AllHopeless', NEW u \in LiveIn(status')
    PROVE  /\ StillWaits(u, waits[u], status)'
           /\ ~(LiveIn(status') = {Main} /\ u = Main /\ waits'[u].kind = "Event")
           /\ u \notin deadlocked'
<1>1. u \in Threads /\ ctl'[u] = "wait" /\ ~Ready(u, waits[u])' /\ stop_reason(u)' = "none"
  BY Ids DEF AllHopeless, Hopeless, LiveIn
<1>2. u \notin deadlocked'
  BY <1>1 DEF stop_reason
<1>3. waits'[u] \in Waits \ {NoWait}
  BY <1>1 DEF WaitsAt, TypeOK
<1>4. waits'[u].kind \in {"Join", "Lock", "Event", "Atomic", "Timer"}
  BY <1>3 DEF Waits, LockWait, CountWait, JoinWait, TimerWait
<1> QED
  BY <1>1, <1>2, <1>4 DEF Ready, StillWaits

\* A thread that stays in its code, or faults, is live and does not wait.
LEMMA RunnerIsLive ==
    ASSUME Alive', NEW t \in Threads, ctl'[t] \in {"run", "fault"} PROVE ~AllHopeless'
BY DEF Alive, AllHopeless, Hopeless, LiveIn

LEMMA StuckStep == IInv /\ WaitsAt /\ StuckIsDiagnosed /\ [Next]_vars => StuckIsDiagnosed'
<1> SUFFICES ASSUME IInv, WaitsAt, StuckIsDiagnosed, [Next]_vars, AllHopeless',
                    Stopping' \cap LiveIn(status') = {}
             PROVE  FALSE
  BY DEF StuckIsDiagnosed
<1>1. TypeOK /\ TypeOK' /\ Alive' /\ WaitsAt'
  BY TypeStep, HoldsStep, WaitsAtStep DEF IInv
<1>2. over' = "no"
  BY DEF AllHopeless
<1>3. \A u \in LiveIn(status') :
         /\ StillWaits(u, waits[u], status)' /\ u \notin deadlocked' /\ u \notin Stopping'
         /\ ~(LiveIn(status') = {Main} /\ u = Main /\ waits'[u].kind = "Event")
  BY <1>1, HopelessWaits
<1>4. \A u \in Threads : waits'[u] # NoWait => u \in LiveIn(status')
  BY <1>1 DEF WaitsAt, Alive, LiveIn
<1>5. waits' \in [Threads -> Waits] /\ Main \in LiveIn(status') /\ LiveIn(status') \subseteq Threads
  BY <1>1, Ids DEF TypeOK, LiveIn
<1>6. ASSUME NEW t \in Threads, ThreadNext(t) PROVE FALSE
  <2>1. CASE Runs(t)
    BY <1>1, <2>1, RunnerIsLive DEF Runs
  <2>2. CASE Registers(t)
    <3>1. /\ UNCHANGED <<seen, status, lockedBy, cancel, lent>>
          /\ find_deadlock(waits', status) \subseteq deadlocked'
      BY <2>2 DEF Registers
    <3>2. LiveIn(status') = LiveIn(status) /\ Stopping' = Stopping
      BY <3>1 DEF LiveIn, Stopping
    <3>3. \A u \in LiveIn(status) : u \notin Stopping /\ StillWaits(u, waits'[u], status)
      BY <1>3, <3>1, <3>2 DEF StillWaits
    <3>4. find_deadlock(waits', status) \cap LiveIn(status) # {}
      BY <1>3, <1>4, <1>5, <3>2, <3>3, FindsOne
    <3> QED
      BY <1>3, <3>1, <3>2, <3>4
  <2>3. CASE End(t)
    <3>1. /\ UNCHANGED <<waits, lockedBy, cancel, lent>>
          /\ find_deadlock(waits, status') \subseteq deadlocked'
          /\ t # Main /\ \A u \in Threads \ {t} : seen'[u] = seen[u]
      BY <1>1, <2>3 DEF End, Unread, TypeOK
    <3>2. t \notin LiveIn(status')
      BY <1>1, <2>3, <3>1 DEF End, LiveIn, TypeOK
    <3>3. Stopping' = Stopping
      BY <3>1 DEF Stopping
    <3>4. \A u \in LiveIn(status') : u \notin Stopping /\ StillWaits(u, waits[u], status')
      BY <1>3, <1>5, <3>1, <3>2, <3>3 DEF StillWaits, LiveIn
    <3>5. find_deadlock(waits, status') \cap LiveIn(status') # {}
      BY <1>3, <1>4, <1>5, <3>1, <3>4, FindsOne DEF LiveIn
    <3> QED
      BY <1>3, <3>1, <3>5 DEF LiveIn
  <2>4. CASE Crash(t)
    BY <1>2, <2>4 DEF Crash
  <2> QED
    BY <1>1, <1>6, <2>1, <2>2, <2>3, <2>4, StepDoes
<1>7. CASE Exit
  BY <1>2, <1>7 DEF Exit
<1>8. CASE UNCHANGED vars
  <2>1. AllHopeless /\ Stopping \cap LiveIn(status) = {}
    BY <1>8 DEF vars, AllHopeless, Hopeless, Ready, stop_reason, Stopping, LiveIn
  <2> QED
    BY <2>1 DEF StuckIsDiagnosed
<1> QED
  BY <1>6, <1>7, <1>8 DEF Next, Over

\* When all live threads wait and none can go on, one is marked to fault, unless
\* one was asked to stop (find_deadlock, as the last wait starts or a thread ends).
THEOREM StuckAreDiagnosed == Spec => []StuckIsDiagnosed
<1>1. Init => StuckIsDiagnosed
  <2>1. Init => ctl[Main] = "run"
    BY Ids DEF Init
  <2> QED
    BY <2>1 DEF StuckIsDiagnosed, AllHopeless, Hopeless, LiveIn
<1> QED
  BY <1>1, StuckStep, Invariance, WaitsInvariance, PTL DEF Spec

\* Only one thing hides a deadlock of all live threads from the book: a thread that
\* waits while it unwinds a fault of its own, and was asked to stop -- which
\* find_deadlock takes for about to end, and stop_reason leaves in its wait.
HiddenByUnwind ==
    AllHopeless => \E t \in LiveIn(status) \cap Stopping \cap cunwind :
                      ctl[t] = "wait" /\ ~Ready(t, waits[t])

THEOREM OnlyUnwindsHideDeadlock == Spec => []HiddenByUnwind
<1>1. StuckIsDiagnosed => HiddenByUnwind
  <2> SUFFICES ASSUME AllHopeless, NEW t \in Stopping \cap LiveIn(status)
               PROVE  t \in cunwind /\ ctl[t] = "wait" /\ ~Ready(t, waits[t])
    BY DEF StuckIsDiagnosed, HiddenByUnwind
  <2> QED
    BY DEF AllHopeless, Hopeless, stop_reason
<1> QED
  BY <1>1, StuckAreDiagnosed, PTL

-----------------------------------------------------------------------------
(* What is left when the main function returns.                              *)

\* Ids are given out in order, and the main thread's is on no record.
BornInOrder ==
    /\ ctl[Main] # "unborn" /\ status[Main] \notin {"Running", "Failed"}
    /\ \A t, u \in Threads : t < u /\ ctl[t] = "unborn" => ctl[u] = "unborn"

\* A thread that runs, or whose failure nobody took, has its handle with a live
\* thread -- one spawned before it, where handles do not move -- or in a cut frame.
HandleKept(c) ==
    \/ place[c] = "lost"
    \/ /\ place[c] \in {"stack", "sweep"} /\ owner[c] \in LiveIn(status)
       /\ ~MoveHandles => owner[c] < c
Untaken(c) == status[c] \in {"Running", "Failed"}

ExitInv ==
    /\ BornInOrder
    /\ \A c \in Threads : Untaken(c) => HandleKept(c)
    /\ over = "exit" => OwnsNothing(Main)

\* The handles and the records as they were: nothing of it changes.
LEMMA StillExit ==
    ASSUME IInv, ExitInv, NEW t \in Threads, NEW x \in {"run", "wait", "fault"}, ctl[t] # "unborn",
           ctl' = [ctl EXCEPT ![t] = x], UNCHANGED <<status, place, owner>>, over' # "exit"
    PROVE  ExitInv'
BY DEF IInv, TypeOK, ExitInv, BornInOrder, Untaken, HandleKept, LiveIn

LEMMA CompleteExit ==
    ASSUME IInv, ExitInv, NEW t \in Threads, NEW w \in Waits, ctl[t] \in {"run", "wait"},
           Ready(t, w), Complete(t, w), over' = "no"
    PROVE  ExitInv'
<1>1. CASE w.kind = "Join"
  <2> USE WaitsShape, Ids
      DEF IInv, TypeOK, ExitInv, BornInOrder, Untaken, HandleKept, LiveIn
  <2>1. w.on \in Threads /\ status[w.on] # "Running" /\ status'[w.on] \in {"Taken", "none"}
    BY <1>1 DEF Complete, Ready, Joined, TryJoined, Dropped, TakeResult
  <2>2. \A c \in Threads : c # w.on =>
           status'[c] = status[c] /\ place'[c] = place[c] /\ owner'[c] = owner[c]
    BY <1>1 DEF Complete, Joined, TryJoined, Dropped, TakeResult, EndHandle
  <2>3. \A c \in Threads : ctl'[c] = ctl[c] \/ (c = t /\ ctl'[c] \in {"run", "fault"})
    BY <1>1 DEF Complete, Joined, TryJoined, Dropped, Raise
  <2>4. BornInOrder'
    BY <2>1, <2>2, <2>3
  <2>5. ASSUME NEW c \in Threads, Untaken(c)' PROVE HandleKept(c)'
    <3>1. c # w.on /\ HandleKept(c)
      BY <2>1, <2>2, <2>5
    <3>2. owner[c] \in LiveIn(status) => owner[c] \in LiveIn(status')
      BY <2>1, <2>2
    <3> QED
      BY <2>2, <3>1, <3>2
  <2> QED
    BY <2>4, <2>5
<1>2. CASE w.kind # "Join"
  <2>1. UNCHANGED <<status, place, owner>>
    BY <1>2 DEF Complete, Locked, Counted
  <2>2. \E x \in {"run", "fault"} : ctl' = [ctl EXCEPT ![t] = x]
    BY CompleteRuns DEF IInv
  <2> QED
    BY <2>1, <2>2, StillExit
<1> QED
  BY <1>1, <1>2

LEMMA BeginExit ==
    ASSUME IInv, ExitInv, NEW t \in Threads, NEW w \in Waits, Running(t), Begin(t, w)
    PROVE  ExitInv'
BY CompleteExit, StillExit DEF Begin, Raise, Running

LEMMA ExitStep == IInv /\ ExitInv /\ [Next]_vars => ExitInv'
<1> SUFFICES ASSUME IInv, ExitInv, [Next]_vars PROVE ExitInv'
  OBVIOUS
<1> USE Ids DEF IInv, TypeOK
<1>1. ASSUME NEW t \in Threads, ThreadNext(t) PROVE ExitInv'
  <2>1. CASE Look(t)
    <3>1. waits[t] \in Waits /\ ctl[t] = "wait" /\ over' = "no"
      BY <2>1 DEF Look
    <3>2. CASE Ready(t, waits[t]) /\ Complete(t, waits[t])
      BY <3>1, <3>2, CompleteExit
    <3>3. CASE Raise(t, stop_reason(t)) /\ UNCHANGED <<status, place, owner>>
      BY <3>1, <3>3, StillExit DEF Raise
    <3> QED
      BY <2>1, <3>2, <3>3 DEF Look
  <2>2. CASE Start(t)
    BY <2>2, StillExit DEF Start
  <2>3. CASE BecomeLent(t)
    BY <2>3 DEF BecomeLent, ExitInv, BornInOrder, Untaken, HandleKept, LiveIn, Running
  <2>4. CASE Sleep(t)
    BY <2>4, BeginExit, WaitsType DEF Sleep
  <2>5. CASE Fault(t)
    BY <2>5, StillExit DEF Fault, Raise, Running
  <2>6. CASE Contain(t)
    BY <2>6 DEF Contain, ExitInv, BornInOrder, Untaken, HandleKept, LiveIn
  <2>7. CASE Crash(t)
    BY <2>7 DEF Crash, ExitInv, BornInOrder, Untaken, HandleKept, LiveIn
  <2>8. CASE End(t)
    <3>1. /\ over' = "no" /\ t # Main /\ ctl[t] = "run" /\ status[t] = "Running"
          /\ \A c \in Threads : owner[c] = t => place[c] \notin {"stack", "sweep"}
          /\ \A c \in Threads \ {t} : status'[c] = status[c] /\ ctl'[c] = ctl[c]
          /\ ctl'[t] = "ended" /\ UNCHANGED <<place, owner>>
      BY <2>8 DEF End, OwnsNothing, Running, Alive
    <3>2. BornInOrder'
      BY <3>1 DEF ExitInv, BornInOrder
    <3>3. ASSUME NEW c \in Threads, Untaken(c)' PROVE HandleKept(c)'
      <4>1. Untaken(c)
        BY <3>1, <3>3 DEF Untaken
      <4>2. HandleKept(c)
        BY <4>1 DEF ExitInv
      <4> QED
        BY <3>1, <4>2 DEF HandleKept, LiveIn
    <3> QED
      BY <3>1, <3>2, <3>3 DEF ExitInv
  <2>9. ASSUME NEW l \in Locks, Lock(t, l) PROVE ExitInv'
    <3>1. CASE lockedBy[l] = t
      BY <2>9, <3>1, StillExit DEF Lock, Raise, Running
    <3>2. CASE lockedBy[l] # t
      BY <2>9, <3>2, BeginExit, WaitsType DEF Lock
    <3> QED
      BY <3>1, <3>2
  <2>10. ASSUME NEW l \in Locks, Unlock(t, l) PROVE ExitInv'
    BY <2>10 DEF Unlock, ExitInv, BornInOrder, Untaken, HandleKept, LiveIn, Running
  <2>11. ASSUME NEW c \in Counts, ReadCount(t, c) \/ Notify(t, c) PROVE ExitInv'
    BY <2>11 DEF ReadCount, Notify, ExitInv, BornInOrder, Untaken, HandleKept, LiveIn, Running
  <2>12. ASSUME NEW c \in Counts, WaitCount(t, c) PROVE ExitInv'
    BY <2>12, BeginExit, WaitsType DEF WaitCount
  <2>13. ASSUME NEW c \in Threads, Spawn(t, c) PROVE ExitInv'
    <3>1. t < c /\ c # Main
      <4>1. ctl[t] = "run" /\ ctl[c] = "unborn" /\ t \in Nat /\ c \in Nat
        BY <2>13 DEF Spawn, Running
      <4> QED
        BY <4>1 DEF ExitInv, BornInOrder
    <3>2. t \in LiveIn(status)
      BY <2>13 DEF Spawn, Running, Alive, LiveIn
    <3>3. BornInOrder'
      BY <2>13, <3>1 DEF Spawn, ExitInv, BornInOrder
    <3>4. ASSUME NEW d \in Threads, Untaken(d)' PROVE HandleKept(d)'
      BY <2>13, <3>1, <3>2, <3>4 DEF Spawn, ExitInv, Untaken, HandleKept, LiveIn
    <3> QED
      BY <2>13, <3>3, <3>4 DEF Spawn, ExitInv, Running
  <2>14. ASSUME NEW c \in Threads, Cancel(t, c) \/ UnwindCancel(t, c) PROVE ExitInv'
    BY <2>14 DEF Cancel, UnwindCancel, ExitInv, BornInOrder, Untaken, HandleKept, LiveIn, Running
  <2>15. ASSUME NEW c \in Threads, DestroyHandle(t, c) PROVE ExitInv'
    BY <2>15, BeginExit, WaitsType DEF DestroyHandle
  <2>16. ASSUME NEW c \in Threads, NEW then \in {"join", "try_join", "drop"}, Join(t, c, then)
         PROVE ExitInv'
    BY <2>16, BeginExit, WaitsType DEF Join
  <2>17. ASSUME NEW c \in Threads, NEW u \in Threads, Move(t, u, c) PROVE ExitInv'
    <3>1. u \in LiveIn(status)
      BY <2>17 DEF Move, Alive, LiveIn
    <3> QED
      BY <2>17, <3>1 DEF Move, Running, ExitInv, BornInOrder, Untaken, HandleKept, LiveIn
  <2>18. ASSUME NEW h \in SUBSET Threads, PopFrame(t, h) PROVE ExitInv'
    BY <2>18 DEF PopFrame, Has, Running, ExitInv, BornInOrder, Untaken, HandleKept, LiveIn
  <2> QED
    BY <1>1, <2>1, <2>2, <2>3, <2>4, <2>5, <2>6, <2>7, <2>8, <2>9, <2>10, <2>11, <2>12,
       <2>13, <2>14, <2>15, <2>16, <2>17, <2>18 DEF ThreadNext
<1>2. CASE Exit
  BY <1>2 DEF Exit, OwnsNothing, ExitInv, BornInOrder, Untaken, HandleKept, LiveIn
<1>3. CASE UNCHANGED vars
  BY <1>3 DEF vars, OwnsNothing, ExitInv, BornInOrder, Untaken, HandleKept, LiveIn
<1> QED
  BY <1>1, <1>2, <1>3 DEF Next, Over

\* The least of a left thread's owners that is itself left would have its handle with
\* a thread left before it, or with the main thread, which owns nothing as it returns.
LEMMA ExitLeaves == TypeOK /\ ExitInv /\ ~MoveHandles => ExitLeavesNothing
<1> SUFFICES ASSUME TypeOK, ExitInv, ~MoveHandles, over = "exit",
                    NEW c \in Threads, Untaken(c), \A b \in Owners(c) : place[b] # "lost"
             PROVE  FALSE
  BY DEF ExitLeavesNothing, Untaken
<1> DEFINE left == {x \in Owners(c) : Untaken(x)}
<1>1. left \in SUBSET Nat /\ left # {}
  <2>1. Owners(c) \subseteq Threads /\ c \in Owners(c)
    BY DEF Owners
  <2> QED
    BY <2>1, Ids
<1>2. PICK x \in left : \A y \in left : x <= y
  BY <1>1, LeastOf
<1>3. x \in Threads /\ x \in Nat /\ x \in Owners(c) /\ place[x] # "lost" /\ HandleKept(x)
  BY <1>2, Ids DEF ExitInv, Owners
<1>4. /\ owner[x] \in LiveIn(status) /\ owner[x] < x /\ owner[x] \in Threads /\ owner[x] \in Nat
      /\ place[x] \in {"stack", "sweep"}
  BY <1>3, Ids DEF HandleKept, LiveIn
<1>5. owner[x] # Main
  BY <1>3, <1>4 DEF ExitInv, OwnsNothing
<1>6. owner[x] \in left
  <2>1. Untaken(owner[x])
    BY <1>4, <1>5 DEF LiveIn, Untaken
  <2>2. owner[x] # NoThread
    BY <1>4, Ids DEF NoThread, Threads
  <2>3. owner[x] \in Owners(c)
    BY <1>3, <1>4, <2>2 DEF Owners, OwnersIn
  <2> QED
    BY <2>1, <2>3
<1> QED
  BY <1>2, <1>3, <1>4, <1>6

\* Where no handle moves to another thread, the main function returns with no thread
\* still running and no failure untaken, but those whose handle, or an owner's of
\* theirs, was in a frame that a fault cut short (end_owned, handle_destructor, cb_join).
THEOREM ExitIsClean == ASSUME ~MoveHandles PROVE Spec => []ExitLeavesNothing
<1>1. Init => ExitInv
  <2>1. \A t, u \in Threads : t < u => u # Main
    BY NAssumption DEF Threads, Main
  <2> QED
    BY <2>1, Ids DEF Init, ExitInv, BornInOrder, Untaken
<1>2. TypeOK /\ ExitInv => ExitLeavesNothing
  BY ExitLeaves
<1> QED
  BY <1>1, <1>2, ExitStep, Invariance, TypeCorrect, PTL DEF Spec

-----------------------------------------------------------------------------
(* Cycles of waits.                                                          *)

\* One step along the waits, and the first of them, as closes_cycle follows them.
Onward(at, ws) == IF at = NoThread \/ at \in Stopping THEN NoThread ELSE WaitsOn(ws[at])
Follows(f, n, w, ws) == f = [i \in 0..n |-> IF i = 0 THEN WaitsOn(w) ELSE Onward(f[i - 1], ws)]

LEMMA FollowsOn ==
    ASSUME NEW w, NEW ws, NEW n \in Nat \ {0}, NEW f, Follows(f, n - 1, w, ws)
    PROVE  \E g : Follows(g, n, w, ws)
<1> DEFINE g == [i \in 0..n |-> IF i = n THEN Onward(f[n - 1], ws) ELSE f[i]]
<1>1. ASSUME NEW i \in 0..n PROVE g[i] = IF i = 0 THEN WaitsOn(w) ELSE Onward(g[i - 1], ws)
  <2>1. CASE i = n
    BY <2>1
  <2>2. CASE i # n
    <3>1. i \in 0..(n - 1) /\ g[i] = f[i] /\ (i # 0 => g[i - 1] = f[i - 1])
      BY <2>2
    <3>2. f[i] = IF i = 0 THEN WaitsOn(w) ELSE Onward(f[i - 1], ws)
      BY <3>1 DEF Follows
    <3> QED
      BY <3>1, <3>2
  <2> QED
    BY <2>1, <2>2
<1>2. g = [i \in 0..n |-> IF i = 0 THEN WaitsOn(w) ELSE Onward(g[i - 1], ws)]
  BY <1>1
<1> QED
  BY <1>2 DEF Follows

LEMMA FollowsExists == ASSUME NEW w, NEW ws PROVE \E f : Follows(f, N, w, ws)
<1> DEFINE bad == {n \in Nat : ~ \E f : Follows(f, n, w, ws)}
<1>1. SUFFICES ASSUME bad # {} PROVE FALSE
  BY NAssumption
<1>2. PICK n \in bad : \A m \in bad : n <= m
  BY <1>1, LeastOf
<1>3. n # 0
  <2>1. Follows([i \in 0..0 |-> WaitsOn(w)], 0, w, ws)
    BY DEF Follows
  <2> QED
    BY <1>2, <2>1
<1>4. n - 1 \in Nat /\ n - 1 \notin bad
  BY <1>2, <1>3
<1>5. PICK f : Follows(f, n - 1, w, ws)
  BY <1>4
<1> QED
  BY <1>2, <1>3, <1>5, FollowsOn

LEMMA ChainIs ==
    ASSUME NEW w, NEW ws
    PROVE  \E f : Follows(f, N, w, ws) /\ Chain(w, ws) = {f[i] : i \in 0..N} \ {NoThread}
<1> DEFINE f == CHOOSE f : Follows(f, N, w, ws)
<1>1. Follows(f, N, w, ws)
  BY FollowsExists
<1>2. Chain(w, ws) = {f[i] : i \in 0..N} \ {NoThread}
  BY DEF Chain, Follows, Onward
<1> QED
  BY <1>1, <1>2

\* N + 1 steps among N threads meet one twice.
LEMMA MetTwice ==
    ASSUME NEW f \in [0..N -> 1..N] PROVE \E x, y \in 0..N : x < y /\ f[x] = f[y]
<1> DEFINE S == 0..N
           T == 1..N
<1>1. IsFiniteSet(S) /\ IsFiniteSet(T) /\ Cardinality(T) < Cardinality(S)
  BY FS_Interval, NAssumption
<1>2. f \in [S -> T]
  OBVIOUS
<1> HIDE DEF S, T
<1>3. PICK x, y \in S : x # y /\ f[x] = f[y]
  BY <1>1, <1>2, FS_PigeonHole
<1> QED
  BY <1>3 DEF S

\* A set of waiting threads nobody asked to stop, each waiting on one of them.
Cycle(S) ==
    /\ S \subseteq Threads \ Stopping /\ S # {}
    /\ \A u \in S : ctl[u] = "wait" /\ WaitsOn(waits[u]) \in S

LEMMA CyclesAre == NoUndiagnosedCycle <=> ~ \E S : Cycle(S)
BY DEF NoUndiagnosedCycle, Cycle

\* A wait that would complete such a set is found by closes_cycle: what it follows
\* stays in the set, and by the time it has taken N steps has met a thread twice.
LEMMA CloserIsFound ==
    ASSUME NoUndiagnosedCycle, NEW t \in Threads, NEW w, ~closes_cycle(t, w, waits),
           NEW S \in SUBSET (Threads \ Stopping), WaitsOn(w) \in S,
           \A u \in S \ {t} : ctl[u] = "wait" /\ WaitsOn(waits[u]) \in S
    PROVE  FALSE
<1>1. PICK f : Follows(f, N, w, waits) /\ Chain(w, waits) = {f[i] : i \in 0..N} \ {NoThread}
  BY ChainIs
<1>2. N \in Nat /\ S \subseteq Threads /\ t # NoThread /\ NoThread \notin S
  BY NAssumption, Ids
<1>3. /\ f \in [0..N -> {f[i] : i \in 0..N}]
      /\ \A i \in 0..N : f[i] = IF i = 0 THEN WaitsOn(w) ELSE Onward(f[i - 1], waits)
  <2>1. f = [i \in 0..N |-> IF i = 0 THEN WaitsOn(w) ELSE Onward(f[i - 1], waits)]
    BY <1>1 DEF Follows
  <2> QED
    BY <2>1
<1>4. \A i \in 0..N : f[i] # t
  BY <1>1, <1>2 DEF closes_cycle
<1>5. \A i \in 0..(N - 1) : f[i] \in S \ {t} => f[i + 1] = WaitsOn(waits[f[i]])
  <2> SUFFICES ASSUME NEW i \in 0..(N - 1), f[i] \in S \ {t} PROVE f[i + 1] = WaitsOn(waits[f[i]])
    OBVIOUS
  <2>1. i + 1 \in 0..N /\ i + 1 # 0 /\ (i + 1) - 1 = i
    BY <1>2
  <2>2. f[i + 1] = Onward(f[i], waits)
    BY <1>3, <2>1
  <2> QED
    BY <1>2, <2>2 DEF Onward
<1>6. \A i \in 0..N : f[i] \in S \ {t}
  <2> DEFINE bad == {i \in 0..N : f[i] \notin S \ {t}}
  <2>1. SUFFICES ASSUME bad # {} PROVE FALSE
    OBVIOUS
  <2>2. PICK i \in bad : \A j \in bad : i <= j
    <3>1. bad \in SUBSET Nat
      OBVIOUS
    <3> QED
      BY <2>1, <3>1, LeastOf
  <2>3. i # 0
    BY <1>2, <1>3, <1>4, <2>2
  <2>4. i - 1 \in 0..(N - 1) /\ f[i - 1] \in S \ {t}
    BY <2>2, <2>3, <1>2
  <2>5. f[i] = WaitsOn(waits[f[i - 1]])
    BY <1>5, <2>4
  <2> QED
    BY <1>4, <2>2, <2>4, <2>5
<1>7. PICK x, y \in 0..N : x < y /\ f[x] = f[y]
  <2>1. f \in [0..N -> 1..N]
    BY <1>2, <1>3, <1>6 DEF Threads
  <2> QED
    BY <2>1, MetTwice
<1> DEFINE C == {f[i] : i \in x..(y - 1)}
<1>8. C \subseteq Threads \ Stopping /\ C # {}
  <2>1. x \in x..(y - 1) /\ x..(y - 1) \subseteq 0..N
    BY <1>2, <1>7
  <2> QED
    BY <1>6, <2>1
<1>9. ASSUME NEW u \in C PROVE ctl[u] = "wait" /\ WaitsOn(waits[u]) \in C
  <2>1. PICK i \in x..(y - 1) : u = f[i]
    OBVIOUS
  <2>2. i \in 0..(N - 1) /\ u \in S \ {t}
    <3>1. i \in 0..(N - 1) /\ i \in 0..N
      BY <1>2, <1>7
    <3> QED
      BY <1>6, <2>1, <3>1
  <2>3. f[i + 1] \in C
    <3>1. CASE i + 1 = y
      BY <1>7, <3>1
    <3>2. CASE i + 1 # y
      <4>1. i + 1 \in x..(y - 1)
        BY <1>7, <3>2
      <4> QED
        BY <4>1
    <3> QED
      BY <3>1, <3>2
  <2> QED
    BY <1>5, <2>1, <2>2, <2>3
<1>10. Cycle(C)
  BY <1>8, <1>9 DEF Cycle
<1> QED
  BY <1>10, CyclesAre

\* What a thread waits on, seen from a set that has none of those that move.
LEMMA SameWait ==
    ASSUME TypeOK, NEW t \in Threads, NEW u \in Threads, NEW S, t \notin S, NoThread \notin S,
           waits'[u] = waits[u], WaitsOn(waits[u])' \in S,
           \A l \in Locks : lockedBy'[l] \in {lockedBy[l], NoThread, t}
    PROVE  WaitsOn(waits[u]) \in S
<1>1. waits[u] \in Waits
  BY DEF TypeOK
<1> QED
  BY <1>1, WaitsShape DEF WaitsOn

LEMMA CycleStep == TypeOK /\ WaitsAt /\ NoUndiagnosedCycle /\ [Next]_vars => NoUndiagnosedCycle'
<1> SUFFICES ASSUME TypeOK, WaitsAt, NoUndiagnosedCycle, [Next]_vars,
                    NEW S \in SUBSET (Threads \ Stopping'), S # {},
                    \A u \in S : ctl'[u] = "wait" /\ WaitsOn(waits[u])' \in S
             PROVE  FALSE
  BY DEF NoUndiagnosedCycle
<1>1. NoThread \notin S /\ S \subseteq Threads
  BY Ids
<1>2. ASSUME NEW t \in Threads, ThreadNext(t) PROVE FALSE
  <2>1. CASE Runs(t)
    <3>1. t \notin S
      BY <2>1 DEF Runs
    <3>2. S \subseteq Threads \ Stopping
      BY <1>1, <2>1, <3>1 DEF Runs, Stopping
    <3>3. ASSUME NEW u \in S PROVE ctl[u] = "wait" /\ WaitsOn(waits[u]) \in S
      BY <1>1, <2>1, <3>1, SameWait DEF Runs
    <3>4. Cycle(S)
      BY <3>2, <3>3 DEF Cycle
    <3> QED
      BY <3>4, CyclesAre
  <2>2. CASE Registers(t)
    <3>1. PICK w \in Waits : /\ ctl' = [ctl EXCEPT ![t] = "wait"]
                             /\ waits' = [waits EXCEPT ![t] = w]
                             /\ ~closes_cycle(t, w, waits)
                             /\ UNCHANGED <<lockedBy, cancel, lent>>
      BY <2>2 DEF Registers
    <3>2. S \subseteq Threads \ Stopping
      BY <3>1 DEF Stopping
    <3>3. \A u \in S \ {t} : ctl[u] = "wait" /\ WaitsOn(waits[u]) \in S
      BY <1>1, <3>1 DEF TypeOK, WaitsOn
    <3>4. CASE t \in S
      <4>1. WaitsOn(w) \in S
        BY <3>1, <3>4 DEF TypeOK, WaitsOn
      <4> QED
        BY <3>1, <3>2, <3>3, <4>1, CloserIsFound
    <3>5. CASE t \notin S
      <4>1. Cycle(S)
        BY <3>2, <3>3, <3>5 DEF Cycle
      <4> QED
        BY <4>1, CyclesAre
    <3> QED
      BY <3>4, <3>5
  <2>3. CASE End(t) \/ Crash(t)
    <3>1. \A u \in S : ctl[u] = "wait" /\ WaitsOn(waits[u]) \in S
      BY <1>1, <2>3 DEF End, Crash, TypeOK, WaitsOn
    <3>2. Cycle(S)
      BY <2>3, <3>1 DEF End, Crash, Cycle, Stopping
    <3> QED
      BY <3>2, CyclesAre
  <2> QED
    BY <1>2, <2>1, <2>2, <2>3, StepDoes
<1>3. CASE Exit \/ UNCHANGED vars
  <2>1. Cycle(S)
    BY <1>1, <1>3 DEF Exit, vars, Cycle, Stopping, WaitsOn
  <2> QED
    BY <2>1, CyclesAre
<1> QED
  BY <1>2, <1>3 DEF Next, Over

\* However the mutexes changed hands since each wait began, the waits of threads
\* nobody asked to stop close no cycle of joins and locks (closes_cycle).
THEOREM CyclesAreDiagnosed == Spec => []NoUndiagnosedCycle
<1>1. Init => NoUndiagnosedCycle
  BY DEF Init, NoUndiagnosedCycle
<1> QED
  BY <1>1, CycleStep, TypeCorrect, WaitsInvariance, PTL DEF Spec
=============================================================================
