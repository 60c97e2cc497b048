---------------------------- MODULE RuntimeLock -----------------------------
(***************************************************************************)
(* How a thread gets into the compiled runtime (impl/cbrt/src/lib.rs).       *)
(*                                                                         *)
(* While the main thread is alone nothing is locked.  The first spawn turns  *)
(* locking on (go_multi) while the main thread may be inside the runtime     *)
(* already; after the last spawned thread has ended, the main thread's next  *)
(* entry turns it off (go_solo).  With locking on an entry is exclusive (the *)
(* runtime lock, then every heap's lock), local (the locks of some heaps) or *)
(* shared (the runtime lock, shared).  An entry may run a destructor of the  *)
(* program, which enters again.                                             *)
(*                                                                         *)
(* A thread's stack of entries is a sequence of tags: "solo" and "excl" for  *)
(* entries begun with locking off and on, "local", "nested" (inside the      *)
(* thread's own exclusive hold), "read", "free" (a shared entry that took    *)
(* nothing), "unwind" (a contained fault's), and between two entries the     *)
(* destructor, "callback", or "counted" when CALLBACK_DEPTH counts it.       *)
(* A lock is given back in one step: giving it back piece by piece lets      *)
(* nobody do what they could not do later.                                   *)
(***************************************************************************)
EXTENDS Integers, Sequences, FiniteSets

CONSTANTS
    N,         \* thread ids are 1..N, given out in order; 1 is the main thread
    MaxHeaps,  \* MAX_HEAPS
    MaxDepth   \* bound: how long a stack of entries and destructors may get

ASSUME SizesAssumption == N \in Nat \ {0} /\ MaxHeaps \in Nat \ {0, 1} /\ MaxDepth \in Nat

Threads == 1..N
Main == 1
Nobody == 0
Heaps == 0..(MaxHeaps - 1)

VARIABLES
    multi,         \* MULTI: whether entries lock
    solo_pending,  \* SOLO_PENDING: the last spawned thread has ended
    alive,         \* the threads cb_live_threads counts
    depth,         \* CALLBACK_DEPTH
    writer,        \* RTLOCK: the thread that has it exclusively
    readers,       \* and those that have it shared
    owner,         \* OWNER: the thread whose exclusive hold is complete
    held,          \* HELD: how many times it holds it
    heapLock,      \* HEAP_LOCKS: the thread that has each
    heap,          \* HEAP: each thread's heap
    heaps_n,       \* HEAPS_N
    users,         \* heap_users
    shared,        \* HEAP_SHARED
    at,            \* where each thread is
    goal,          \* what its exclusive entry is for
    want,          \* the heaps its local entry is to lock
    saved,         \* the holds a blocked thread gave up
    stack          \* its entries and destructors

locks == <<writer, readers, owner, held, heapLock>>
heaps == <<heap, heaps_n, users, shared>>
vars == <<multi, solo_pending, alive, depth, locks, heaps, at, goal, want, saved, stack>>

Tags == {"solo", "excl", "local", "nested", "read", "free", "unwind", "callback", "counted"}

TypeOK ==
    /\ multi \in BOOLEAN /\ solo_pending \in BOOLEAN
    /\ alive \subseteq Threads /\ readers \subseteq Threads
    /\ depth \in Nat
    /\ {writer, owner} \subseteq Threads \cup {Nobody}
    /\ held \in [Threads -> Nat] /\ saved \in [Threads -> Nat]
    /\ heapLock \in [Heaps -> Threads \cup {Nobody}]
    /\ heap \in [Threads -> Heaps]
    /\ heaps_n \in 1..MaxHeaps
    /\ users \in [Heaps -> Nat] /\ shared \in [Heaps -> BOOLEAN]
    /\ at \in [Threads -> {"unborn", "job", "program", "lock", "heaps", "local", "plan", "inside",
                           "pool", "blocked", "ended"}]
    /\ goal \in [Threads -> {"work", "claim", "claimed", "final", "leave", "unwind", "resume"}]
    /\ want \in [Threads -> SUBSET Heaps]
    /\ stack \in [Threads -> Seq(Tags)]

Init ==
    /\ multi = FALSE /\ solo_pending = FALSE
    /\ alive = {Main} /\ depth = 0
    /\ writer = Nobody /\ readers = {} /\ owner = Nobody
    /\ held = [t \in Threads |-> 0]
    /\ heapLock = [h \in Heaps |-> Nobody]
    /\ heap = [t \in Threads |-> 0]
    /\ heaps_n = 1
    /\ users = [h \in Heaps |-> IF h = 0 THEN 1 ELSE 0]
    /\ shared = [h \in Heaps |-> FALSE]
    /\ at = [t \in Threads |-> IF t = Main THEN "program" ELSE "unborn"]
    /\ goal = [t \in Threads |-> "work"]
    /\ want = [t \in Threads |-> {}]
    /\ saved = [t \in Threads |-> 0]
    /\ stack = [t \in Threads |-> <<>>]

-----------------------------------------------------------------------------
(* Taking and giving back the locks.                                         *)

Go(t, from, to) == at[t] = from /\ at' = [at EXCEPT ![t] = to]
Push(t, tag) == stack' = [stack EXCEPT ![t] = Append(@, tag)]
Top(t, tags) == stack[t] # <<>> /\ stack[t][Len(stack[t])] \in tags
Pop(t) == stack' = [stack EXCEPT ![t] = SubSeq(@, 1, Len(@) - 1)]

\* An entry is the innermost of what the thread has under way.
InEntry(t) == Top(t, Tags \ {"callback", "counted"})

Existing == 0..(heaps_n - 1)
Locked(t) == {h \in Heaps : heapLock[h] = t}
Lowest(hs) == CHOOSE h \in hs : \A g \in hs : h <= g

LockHeap(t, h) == heapLock[h] = Nobody /\ heapLock' = [heapLock EXCEPT ![h] = t]
UnlockHeaps(t) == heapLock' = [h \in Heaps |-> IF heapLock[h] = t THEN Nobody ELSE heapLock[h]]

\* lock_release_all
ReleaseAll(t) ==
    /\ held' = [held EXCEPT ![t] = 0]
    /\ owner' = Nobody /\ writer' = Nobody
    /\ UnlockHeaps(t)
    /\ UNCHANGED readers

\* lock_release: the last of the holds gives the locks back.
Release(t) ==
    IF held[t] = 1 THEN ReleaseAll(t)
    ELSE held' = [held EXCEPT ![t] = @ - 1] /\ UNCHANGED <<writer, readers, owner, heapLock>>

\* With a bug: the word of the last thread that ended is enough, though another
\* has been spawned since.
SwitchOffSoon(t) ==
    IF solo_pending /\ t = Main
    THEN multi' = FALSE /\ solo_pending' = FALSE
    ELSE UNCHANGED <<multi, solo_pending>>

\* go_solo: on the main thread, with the lock held and no spawned thread left.
SwitchOff(t) ==
    IF solo_pending /\ t = Main /\ alive = {Main}
    THEN multi' = FALSE /\ solo_pending' = FALSE
    ELSE UNCHANGED <<multi, solo_pending>>

\* enter: nothing to do alone; one hold more; or the locks are to be taken.
Enter(t, g) ==
    /\ at[t] \in {"program", "job"}
    /\ goal' = [goal EXCEPT ![t] = g]
    /\ \/ /\ ~multi
          /\ at' = [at EXCEPT ![t] = "inside"] /\ Push(t, "solo")
          /\ UNCHANGED <<locks, multi, solo_pending>>
       \/ /\ multi /\ owner = t
          /\ at' = [at EXCEPT ![t] = "inside"] /\ Push(t, "excl")
          /\ held' = [held EXCEPT ![t] = @ + 1]
          /\ SwitchOff(t)
          /\ UNCHANGED <<writer, readers, owner, heapLock>>
       \/ /\ multi /\ owner # t
          /\ at' = [at EXCEPT ![t] = "lock"]
          /\ UNCHANGED <<locks, stack, multi, solo_pending>>
    /\ UNCHANGED <<alive, depth, heaps, want, saved>>

\* lock_acquire: the runtime lock, ...
GetLock(t) ==
    /\ Go(t, "lock", "heaps")
    /\ writer = Nobody /\ readers = {}
    /\ writer' = t
    /\ UNCHANGED <<readers, owner, held, heapLock, multi, solo_pending, alive, depth, heaps, goal, want, saved, stack>>

\* ... then every heap's, in order; with the last, the hold is complete, and
\* what the thread wanted it for goes on.
GetHeap(t) ==
    /\ at[t] = "heaps"
    /\ LET left == Existing \ Locked(t)
       IN /\ LockHeap(t, Lowest(left))
          /\ IF Cardinality(left) > 1
             THEN UNCHANGED <<owner, held, at, goal, saved, stack, multi, solo_pending>>
             ELSE /\ owner' = t
                  /\ held' = [held EXCEPT ![t] = IF goal[t] = "resume" THEN saved[t] ELSE 1]
                  /\ saved' = [saved EXCEPT ![t] = 0]
                  /\ at' = [at EXCEPT ![t] = IF goal[t] = "resume" /\ ~InEntry(t) THEN "program" ELSE "inside"]
                  /\ goal' = [goal EXCEPT ![t] = IF @ \in {"resume", "unwind"} THEN "work" ELSE @]
                  /\ \/ goal[t] = "resume" /\ UNCHANGED <<stack, multi, solo_pending>>
                     \/ goal[t] = "unwind" /\ Push(t, "unwind") /\ UNCHANGED <<multi, solo_pending>>
                     \/ goal[t] \notin {"resume", "unwind"} /\ Push(t, "excl") /\ SwitchOff(t)
    /\ UNCHANGED <<writer, readers, alive, depth, heaps, want>>

-----------------------------------------------------------------------------
(* Local and shared entries.                                                 *)

\* A heap just made has no record yet: no entry but its maker's reckons it.
Known == {h \in Existing : owner # Nobody => heapLock[h] = owner}

\* enter_set_multi: the heaps an entry is given, the thread's own among them.
EnterLocal(t, hs) ==
    /\ at[t] = "program" /\ multi
    /\ \/ /\ owner = t
          /\ hs = {heap[t]}
          /\ at' = [at EXCEPT ![t] = "inside"] /\ Push(t, "nested")
          /\ UNCHANGED want
       \/ /\ owner # t
          /\ at' = [at EXCEPT ![t] = "local"]
          /\ want' = [want EXCEPT ![t] = hs]
          /\ UNCHANGED stack
    /\ UNCHANGED <<locks, multi, solo_pending, alive, depth, heaps, goal, saved>>

\* With a bug: a local entry takes its heaps from the last to the first.
LockSetDownwards(t) ==
    /\ at[t] = "local"
    /\ LET left == want[t] \ Locked(t)
       IN /\ LockHeap(t, CHOOSE h \in left : \A g \in left : h >= g)
          /\ at' = [at EXCEPT ![t] = IF Cardinality(left) > 1 THEN "local" ELSE "plan"]
    /\ UNCHANGED <<writer, readers, owner, held, multi, solo_pending, alive, depth, heaps, goal, want, saved, stack>>

\* lock_set: in ascending order.
LockSet(t) ==
    /\ at[t] = "local"
    /\ LET left == want[t] \ Locked(t)
       IN /\ LockHeap(t, Lowest(left))
          /\ at' = [at EXCEPT ![t] = IF Cardinality(left) > 1 THEN "local" ELSE "plan"]
    /\ UNCHANGED <<writer, readers, owner, held, multi, solo_pending, alive, depth, heaps, goal, want, saved, stack>>

\* enter_planned: the heaps locked cover the work; or more are needed, and
\* all are given back first; or the work cannot be local.
Planned(t) ==
    /\ Go(t, "plan", "inside")
    /\ Push(t, "local")
    /\ UNCHANGED <<locks, multi, solo_pending, alive, depth, heaps, goal, want, saved>>

Widen(t, hs) ==
    /\ Go(t, "plan", "local")
    /\ want[t] \subseteq hs /\ want[t] # hs
    /\ want' = [want EXCEPT ![t] = hs]
    /\ UnlockHeaps(t)
    /\ UNCHANGED <<writer, readers, owner, held, multi, solo_pending, alive, depth, heaps, goal, saved, stack>>

GiveUpLocal(t) ==
    /\ Go(t, "plan", "lock")
    /\ goal' = [goal EXCEPT ![t] = "work"]
    /\ UnlockHeaps(t)
    /\ UNCHANGED <<writer, readers, owner, held, multi, solo_pending, alive, depth, heaps, want, saved, stack>>

\* enter_read.
EnterRead(t) ==
    /\ Go(t, "program", "inside")
    /\ IF ~multi \/ owner = t
       THEN Push(t, "free") /\ UNCHANGED readers
       ELSE writer = Nobody /\ readers' = readers \cup {t} /\ Push(t, "read")
    /\ UNCHANGED <<writer, owner, held, heapLock, multi, solo_pending, alive, depth, heaps, goal, want, saved>>

\* own_heap: a step on the thread's own stack and its heap's pool, without a
\* lock unless the heap is shared.
OwnStep(t) ==
    /\ at[t] = "program"
    /\ IF multi /\ shared[heap[t]] THEN EnterLocal(t, {heap[t]})
       ELSE /\ Go(t, "program", "pool")
            /\ UNCHANGED <<locks, multi, solo_pending, alive, depth, heaps, goal, want, saved, stack>>

OwnStepDone(t) ==
    /\ Go(t, "pool", "program")
    /\ UNCHANGED <<locks, multi, solo_pending, alive, depth, heaps, goal, want, saved, stack>>

-----------------------------------------------------------------------------
(* Ends of entries, destructors, waits.                                      *)

\* Drop of Entered, Held and ReadEntered.
Leave(t) ==
    /\ at[t] = "inside" /\ goal[t] \in {"work", "claimed", "leave"}
    /\ Top(t, {"solo", "excl", "local", "nested", "read", "free"})
    /\ \/ Top(t, {"excl"}) /\ Release(t)
       \/ Top(t, {"solo"}) /\ IF multi THEN Release(t) ELSE UNCHANGED locks
       \/ Top(t, {"local"}) /\ UnlockHeaps(t) /\ UNCHANGED <<writer, readers, owner, held>>
       \/ Top(t, {"read"}) /\ readers' = readers \ {t} /\ UNCHANGED <<writer, owner, held, heapLock>>
       \/ Top(t, {"nested", "free"}) /\ UNCHANGED locks
    /\ at' = [at EXCEPT ![t] = IF goal[t] = "leave" THEN "ended" ELSE "program"]
    /\ want' = [want EXCEPT ![t] = {}]
    /\ goal' = [goal EXCEPT ![t] = "work"]
    /\ Pop(t)
    /\ UNCHANGED <<multi, solo_pending, alive, depth, heaps, saved>>

\* drop_in_place calls a destructor of the program; an entry that may do so is
\* not local.  CALLBACK_DEPTH counts it while locking is off.
Callback(t) ==
    /\ Go(t, "inside", "program")
    /\ goal[t] = "work" /\ Top(t, {"solo", "excl", "nested", "unwind"})
    /\ Len(stack[t]) < MaxDepth
    /\ Push(t, IF multi THEN "callback" ELSE "counted")
    /\ depth' = IF multi THEN depth ELSE depth + 1
    /\ UNCHANGED <<locks, multi, solo_pending, alive, heaps, goal, want, saved>>

CallbackEnds(t) ==
    /\ Go(t, "program", "inside")
    /\ Top(t, {"callback", "counted"})
    /\ Pop(t)
    /\ depth' = IF Top(t, {"counted"}) THEN depth - 1 ELSE depth
    /\ UNCHANGED <<locks, multi, solo_pending, alive, heaps, goal, want, saved>>

\* wait_until, in an entry (a join) or in a destructor that one runs: an exclusive
\* hold is given up for the wait and taken again after.
Block(t) ==
    /\ Go(t, "inside", "blocked") \/ Go(t, "program", "blocked")
    /\ multi /\ owner = t /\ goal[t] = "work"
    /\ saved' = [saved EXCEPT ![t] = held[t]]
    /\ ReleaseAll(t)
    /\ UNCHANGED <<multi, solo_pending, alive, depth, heaps, goal, want, stack>>

Unblock(t) ==
    /\ Go(t, "blocked", "lock")
    /\ goal' = [goal EXCEPT ![t] = "resume"]
    /\ UNCHANGED <<locks, multi, solo_pending, alive, depth, heaps, want, saved, stack>>

\* fault_lock: whatever a spawned thread holds but an exclusive hold is given
\* up, and the exclusive hold taken; the entries under way are never ended.
Fault(t) ==
    /\ t # Main /\ at[t] \in {"inside", "program"} /\ goal[t] = "work"
    /\ \A i \in 1..Len(stack[t]) : stack[t][i] # "unwind"
    /\ IF owner = t
       THEN /\ at' = [at EXCEPT ![t] = "inside"]
            /\ stack' = [stack EXCEPT ![t] = <<"unwind">>]
            /\ UNCHANGED <<locks, goal>>
       ELSE /\ at' = [at EXCEPT ![t] = "lock"]
            /\ goal' = [goal EXCEPT ![t] = "unwind"]
            /\ stack' = [stack EXCEPT ![t] = <<>>]
            /\ readers' = readers \ {t}
            /\ UnlockHeaps(t)
            /\ UNCHANGED <<writer, owner, held>>
    /\ want' = [want EXCEPT ![t] = {}]
    /\ UNCHANGED <<multi, solo_pending, alive, depth, heaps, saved>>

\* With a bug: one hold is given up, as an entry's end does.
ContainedOnce(t) ==
    /\ Go(t, "inside", "program")
    /\ Top(t, {"unwind"})
    /\ Release(t)
    /\ stack' = [stack EXCEPT ![t] = <<>>]
    /\ UNCHANGED <<multi, solo_pending, alive, depth, heaps, goal, want, saved>>

\* The end of contained_fault: every hold given up, and back to the trampoline.
Contained(t) ==
    /\ Go(t, "inside", "program")
    /\ Top(t, {"unwind"})
    /\ ReleaseAll(t)
    /\ stack' = [stack EXCEPT ![t] = <<>>]
    /\ UNCHANGED <<multi, solo_pending, alive, depth, heaps, goal, want, saved>>

-----------------------------------------------------------------------------
(* Threads begin and end.                                                    *)

\* With a bug: only the spawn's own entry is counted.
go_multi_once(t) ==
    /\ multi' = TRUE
    /\ held' = [held EXCEPT ![t] = @ + 1]
    /\ owner' = t /\ writer' = t
    /\ heapLock' = [h \in Heaps |-> IF h \in Existing THEN t ELSE Nobody]
    /\ UNCHANGED readers

\* go_multi: the lock is taken for the spawn's entry and each one under way.
go_multi(t) ==
    /\ multi' = TRUE
    /\ held' = [held EXCEPT ![t] = @ + 1 + depth]
    /\ owner' = t /\ writer' = t
    /\ heapLock' = [h \in Heaps |-> IF h \in Existing THEN t ELSE Nobody]
    /\ UNCHANGED readers

\* cb_spawn: with threads running, no entry; else the main thread's own, which
\* turns locking on.
Spawn(t, c) ==
    /\ at[t] = "program"
    /\ at[c] = "unborn" /\ \A u \in Threads : u < c => at[u] # "unborn"
    /\ alive' = alive \cup {c}
    /\ IF multi
       THEN at' = [at EXCEPT ![c] = "job"] /\ UNCHANGED <<locks, multi, stack>>
       ELSE /\ at' = [at EXCEPT ![c] = "job", ![t] = "inside"]
            /\ Push(t, "solo")
            /\ go_multi(t)
    /\ UNCHANGED <<solo_pending, depth, heaps, goal, want, saved>>

\* run_job begins: it enters to claim a heap.
Begin(t) == at[t] = "job" /\ Enter(t, "claim")

\* claim_heap: one without users (and empty, which the model leaves open), else
\* a new one, else the one with fewest users, shared from now on.
Free == {h \in Existing \ {0} : users[h] = 0}
Fewest == {h \in Existing \ {0} : \A g \in Existing \ {0} : users[h] <= users[g]}

ClaimHeap(t) ==
    /\ at[t] = "inside" /\ goal[t] = "claim"
    /\ \E h \in Heaps \ {0} :
        /\ \/ h \in Free /\ UNCHANGED <<heaps_n, shared>>
           \/ h = heaps_n /\ heaps_n' = heaps_n + 1 /\ UNCHANGED shared
           \/ /\ heaps_n = MaxHeaps /\ h = Lowest(Fewest)
              /\ shared' = [shared EXCEPT ![h] = TRUE]
              /\ UNCHANGED heaps_n
        /\ heap' = [heap EXCEPT ![t] = h]
        /\ users' = [users EXCEPT ![h] = @ + 1]
    /\ goal' = [goal EXCEPT ![t] = "claimed"]
    /\ UNCHANGED <<locks, multi, solo_pending, alive, depth, at, want, saved, stack>>

\* run_job ends: one more entry, ...
Finish(t) == t # Main /\ at[t] = "program" /\ stack[t] = <<>> /\ Enter(t, "final")

\* With a bug: the last thread to end leaves no word for the main thread.
FinalQuietly(t) ==
    /\ at[t] = "inside" /\ goal[t] = "final"
    /\ alive' = alive \ {t}
    /\ solo_pending' = (solo_pending \/ alive = {Main})
    /\ users' = [users EXCEPT ![heap[t]] = @ - 1]
    /\ shared' = [shared EXCEPT ![heap[t]] = @ /\ users[heap[t]] > 2]
    /\ goal' = [goal EXCEPT ![t] = "leave"]
    /\ UNCHANGED <<locks, multi, depth, heap, heaps_n, at, want, saved, stack>>

\* ... in which it gives its heap back, and says so if it is the last.
Final(t) ==
    /\ at[t] = "inside" /\ goal[t] = "final"
    /\ alive' = alive \ {t}
    /\ solo_pending' = (solo_pending \/ alive' = {Main})
    /\ users' = [users EXCEPT ![heap[t]] = @ - 1]
    /\ shared' = [shared EXCEPT ![heap[t]] = @ /\ users[heap[t]] > 2]
    /\ goal' = [goal EXCEPT ![t] = "leave"]
    /\ UNCHANGED <<locks, multi, depth, heap, heaps_n, at, want, saved, stack>>

ThreadNext(t) ==
    \/ at[t] = "program" /\ Len(stack[t]) < MaxDepth /\ Enter(t, "work")
    \/ GetLock(t) \/ GetHeap(t) \/ LockSet(t) \/ Planned(t) \/ GiveUpLocal(t)
    \/ Len(stack[t]) < MaxDepth /\ (EnterRead(t) \/ OwnStep(t) \/ \E c \in Threads : Spawn(t, c))
    \/ \E hs \in SUBSET Known :
        /\ heap[t] \in hs
        /\ \/ Len(stack[t]) < MaxDepth /\ EnterLocal(t, hs)
           \/ Widen(t, hs)
    \/ OwnStepDone(t) \/ Leave(t) \/ Callback(t) \/ CallbackEnds(t)
    \/ Block(t) \/ Unblock(t) \/ Fault(t) \/ Contained(t)
    \/ Begin(t) \/ ClaimHeap(t) \/ Finish(t) \/ Final(t)

Next == \E t \in Threads : ThreadNext(t)

Spec == Init /\ [][Next]_vars

-----------------------------------------------------------------------------

Inside(t) == at[t] = "inside"

\* What an entry may write: its heaps' records, or any heap's and the tables
\* that are no heap's.
Tables == -1
Writes(t) ==
    IF Top(t, {"local"}) THEN Locked(t)
    ELSE IF Top(t, {"read", "free"}) THEN {}
    ELSE Existing \cup {Tables}

\* What it reads besides: every table, and a shared entry the records as well,
\* unless it is a local one.
Reads(t) == IF Top(t, {"local"}) THEN {} ELSE {Tables}

\* Nobody works on what another thread changes, whatever entries they came in by
\* and whenever locking was switched (enter, enter_on, go_multi, go_solo).
RecordsAlone ==
    \A t, u \in Threads :
        t # u /\ Inside(t) /\ Inside(u) => Writes(t) \cap (Writes(u) \cup Reads(u)) = {}

\* The holds counted cover the entries that will each give one back: none gives
\* back a hold it never had, and the last to end, not an earlier one, unlocks.
Returns(t) ==
    Cardinality({i \in 1..Len(stack[t]) : stack[t][i] = "excl" \/ (stack[t][i] = "solo" /\ multi)})

HoldsCoverEntries ==
    \A t \in Threads : Returns(t) > 0 /\ at[t] \in {"inside", "program"} => owner = t /\ held[t] >= Returns(t)

\* A spawned thread in its own code, with no entry under way, holds nothing
\* (Entered's, Held's and ReadEntered's Drop, contained_fault).
NothingLeftHeld ==
    \A t \in Threads \ {Main} :
        at[t] \in {"program", "pool", "ended"} /\ stack[t] = <<>> =>
            held[t] = 0 /\ owner # t /\ t \notin readers /\ Locked(t) = {}

\* "the lock is taken once for each, so each of their exits releases one"
\* (go_multi): the same of the main thread.
MainHoldsNothing == at[Main] = "program" /\ stack[Main] = <<>> => held[Main] = 0

\* Whom a thread waits for, for a lock.
WaitsFor(t) ==
    CASE at[t] = "lock" -> (readers \cup {writer}) \ {Nobody}
      [] at[t] = "heaps" -> {heapLock[Lowest(Existing \ Locked(t))]} \ {Nobody}
      [] at[t] = "local" -> {heapLock[Lowest(want[t] \ Locked(t))]} \ {Nobody}
      [] OTHER -> {}

\* "no two entries wait for each other in a cycle" (D-0202).
NoLockCycle ==
    \A ts \in SUBSET Threads : ts # {} => \E t \in ts : WaitsFor(t) \cap ts = {}

\* Locking is not left on for good: with no spawned thread left, the main
\* thread's next entry is told to switch it off.
SoloIsPending == multi /\ alive = {Main} => solo_pending

\* "their users lock them even where a thread's own heap needs no lock"
\* (HEAP_SHARED): two threads never use one heap's pool at once.
UsesPool(t) == at[t] = "pool" \/ (Inside(t) /\ goal[t] = "work")
PoolsAlone ==
    \A t, u \in Threads : t # u /\ UsesPool(t) /\ at[u] = "pool" => heap[t] # heap[u]
=============================================================================
