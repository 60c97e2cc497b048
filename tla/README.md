# A specification of CobaltC's concurrency

CobaltC is a language without garbage collection whose threads, mutexes, channels and
atomics are part of the language: a wait that can never end is a diagnostic, a fault in
a spawned thread stays in that thread, and no thread outlives the frame that owns its
handle. This directory holds TLA+ specifications of the code that keeps those promises,
the runs that model-check them, and proofs of the most important ones for every number
of threads.

The reference is the code: the compiled runtime `impl/cbrt/src/lib.rs`, the library
`impl/std/sync.cb` and, where a thread's trampoline is generated, the lowering
(`impl/cobc/src/lower/intrinsics.rs`). Where the written specification (`spec/`) or a comment says
something else, the code is modelled and the difference is listed below.

## 1. The system

| part | state | operations | how it meets the others |
|---|---|---|---|
| the book (`cbrt` `Book`) | threads' records, mutexes' holders, counts of channels and atomics, who waits for what, who is cancelled, lent, deadlocked | spawn, join, try_join, cancel, lock, unlock, read/notify/wait for a count, sleep, end of a thread | one lock (`book()`); every wait of every library type ends up here |
| waiting (`wait_until`, `signal`, `EVENTS`) | waiters per key | register, sleep at most 50 ms, wake | under the book's lock to register, under its own to sleep |
| faults (`fault_impl`, `contained_fault`, `handle_destructor`) | the stack of frames and statement scopes of a thread | unwind, release and poison mutexes, cancel and wait for the thread's threads | destructors run program code, which may wait or fault again |
| the runtime lock and heap locks (`enter`, `go_multi`, `go_solo`, `enter_planned`) | one lock, a single-thread mode, one lock per heap | enter, enter to read, lock some heaps in order | every primitive that touches objects or paths |
| worker threads (`worker`, `run_job`) | idle OS threads, at most `IDLE_MAX` | take a job, wait for one | `cb_spawn` hands jobs over |
| aliasing (objects, paths, tokens) | who may reach which part of what | mint, check, retire, migrate, lend | stale and clashing references fault; exclusive paths make a thread "lent" |
| `Channel` | a ring under a mutex, two counts | send, recv, try_recv, recv_timeout_ms, close, drop | lock, read a count, sleep on it; the other side moves it |
| `Atomic::wait`/`notify` | the runtime's wake counts, shared by address | wait, notify_one, notify_all | the semaphore, the barrier and the once |
| `Semaphore`, `Barrier`, `Once` | one or two atomics each | acquire/try_acquire/release; wait; call | by compare-and-exchange and `Atomic::wait` |
| the interpreter (`impl/src/interp`) | the same rules a second time, one step at a time | as above | the conformance suite compares it with the compiler |
| front end, lowering, formatter, self-hosted compiler, `cobmodel` | trees and tables | translation, exhaustive search of small programs | sequential |
| `collections`, `net`, `tls`, `http`, `postgres`, encodings | their own | their own | on top of the rest |

What is hard here, and what the properties are for:

* **Deadlock is diagnosed, not prevented.** The book must see a cycle of joins and locks
  however the mutexes changed hands, and must see that every live thread is stuck when
  the last one that was not ends. It looks only as waits start and as threads end.
* **A fault is contained.** A spawned thread's fault releases and poisons its mutexes,
  cancels and waits for its threads, destroys its frames, and becomes the result of the
  thread. Each of these steps runs destructors that may themselves wait, be found
  deadlocked, or fault; and other threads go on all the while.
* **Falling asleep.** A waiter looks under the book's lock and sleeps under another; a
  change made in between must still wake it.
* **Locks that come and go.** While the main thread is alone nothing is locked; the first
  spawn and the last end switch locking on and off while entries are under way, some of
  them several deep through destructors. With it on, heaps are locked one by one.
* **Turns.** Under a seeded schedule one thread runs at a time: the turn must never be left
  with one that cannot use it, nor a wake fall between finding it taken and parking.
* **References that move.** A path is held by frames, cells, flights and handoffs, and listed
  by statements; it must end with the last of them and not before, on whatever thread, and
  though a contained fault cuts one of them short.
* **Wake-ups.** A thread reads a count under a mutex, lets the mutex go and then sleeps
  until the count moves. Every path that changes what it is waiting for must move the
  count afterwards.
* **Lock-free counting** in the semaphore, the barrier and the once works on values read
  earlier; the barrier's round number wraps.

`PROJECT.json` lists the hazards one by one, each at its line.

## 2. The modules

Each action is one indivisible step of the code: a hold of the book's lock, a hold of a
channel's mutex where nothing else can come between, one operation on an atomic.

**`WaitBook`** is the book with the most general program: a running thread may make any
call it is allowed to make, in any order. Correspondence of the state:
`status` = `Book.threads[..].status`, `waits` = `Book.waits`, `lockedBy` = `Book.locks`,
`poisoned` = the mutexes' state cells, `cancel`, `lent`, `deadlocked` = the sets of those
names, `cunwind` = `TState.cunwind`; `ctl` is the place of a thread in its code; `why` its
failure's diagnostic. The stack of frames and scopes is one set of handles per thread
(`owner`, `place`): `PopFrame` picks which of them the innermost frame owns and takes
them off the stack, as `cb_frame_pop`, `cb_stmt_pop` and the fold in `contained_fault`
do, and `DestroyHandle` ends them one by one, as `end_owned` does. `guards` is the
program's side of a locked mutex. `Begin` and `Look` are `wait_until`: its first look and
registration in one hold of the book, and each later look; `Complete` is what each caller
does once its wait is over. `Ready`, `stop_reason`, `closes_cycle` and `find_deadlock` are
the code's predicates, in the code's order: a wait that is over returns before it looks
at a cancellation or a deadlock mark.

A count is compared only with a value read from it, so a thread keeps which count it has
read and that has not moved since (`seen`). Signals are left out: a waiting thread may
look again at any time, which its 50 ms timed sleep allows; that a signal is enough
where one is sent is `WaitUntil`'s.

**`WaitUntil`** is the protocol below those waits. `waits` is `Book.waits` with `Book.wake`,
`waiting` the count in an entry of `EVENTS` (0: no entry), `same` the registered threads
whose event has not moved since; `toSignal` and `toNotify` are what a thread that changed
the book has yet to do, since `signal` moves the event under `EVENTS`' lock and notifies
after it. `Begin`, `Look` (a look and the registration, in one hold of the book), `Sleep`,
`Timeout` are `wait_until`; `Unlock`, `Notify`, `Cancel`, `Fault`, `End` are the calls that
signal. What a wait is for is reduced to whether it has come about; which threads a
deadlock marks, and the cycles a wait is refused for, are `WaitBook`'s.

**`RuntimeLock`** is the way into the runtime. A thread's `stack` is its entries and, between
them, the destructors they run; each tag says what the entry's end will give back
(`Entered.0`, the tag of `Held`, `ReadEntered`). `Enter`, `GetLock`, `GetHeap` are `enter` and
`lock_acquire`, a heap at a time; `EnterLocal`, `LockSet`, `Planned`, `Widen`, `GiveUpLocal` the
local entries and `enter_planned`'s three ends; `EnterRead`, `OwnStep` the shared entry and
the steps that take nothing; `Leave` the destructors of the guards; `Block`, `Unblock` a wait
that gives an exclusive hold up; `Fault`, `Contained` a contained fault's. `SwitchOff` is
`go_solo`, `go_multi` itself; `Begin`, `ClaimHeap`, `Finish`, `Final` are `run_job` with
`claim_heap`. Locks are given back in one step, which lets nobody do less than the code
does: who waits for several takes them in order.

**`Schedule`** is the seeded schedule and the pool of OS threads. `turn`, `members`, `io`,
`parked` are `SCHED`'s; `token` holds the parked threads that were unparked, so that a
thread may be unparked before it parks. `Yield`, `GoOut`, `Back`, `End` pass the turn on, the
seed's number being any choice; `lock` and `held` keep the runtime lock in view, since a
thread may hold it while it waits for the turn. `idle`, `os`, `slot`, `job` and `giving` are
`IDLE` and `worker`, the handing over of a job being two steps.

**`Paths`** is the life of the access paths of one object. `paths` is `Rt.paths` (`exclusive`,
`ancestors`, `occ`, `scope`, `thread`), `slots` the cells that hold a reference, `stack` the
frames with their holds and the statements with their lists, `flight` what a call is
returning, `reg` the token the program passes along in a register. `Borrow`, `Access` check
and form; `Store`, `Load`, `LocalEnds`, `FrameHold`, `FrameUnhold`, `StmtPop`, `FramePop` hold and
let go; `Result`, `SendRef`, `RecvRef` take a reference out of a statement and out of a
function; `Spawn`, `ChannelSend`, `ChannelRecv`, `StoreResult`, `EnvForget`, `Join` out of a
thread, an exclusive one by `Lend`. A spawned thread's fault is contained, unless it was lent
an exclusive reference (`lent`, `Book.lent`): `Fault` in the program or a call, `StmtPopFault` in
a temporary's destructor as a statement ends, with the statement off the stack and what it
lists not yet ended, `FramePopFault` in a destructor of what a frame owns, with the frame off
the stack and some of its holds, or a body's local, not yet let go of. `Unwind` folds the rest of
the stack an entry at a time, `Contained` clears the flights, and `EnvForget` is the
trampoline's. Two histories, which no guard reads, keep what this loses: `lost` the holds that no
count was told of, `cut` the paths of statements cut short. Each call is one step, which
`RuntimeLock`'s `RecordsAlone` is the ground for. What it abstracts is in section 6.

**`Channel`** is `std::sync`'s channel: `Acquire`, the body under the mutex (`Send`, `Recv`
with `ChannelState::pop`, `Close`), `Signal` (`event_op(3)`, once per count), `Unlock`,
then the sleep (`event_op(2)`) and round again; `Poll` is `recv_timeout_ms` between two
tries; `Stop` is a wait that ends in a fault. `current` holds the threads whose read of
the count they watch is current. **`BoundedQueue`** is what it promises: every call takes
effect at one moment on a bounded first-in first-out queue. `Channel!ImplementsQueue`
shows it, the queue being the ring's contents from `head`.

**`AtomicWait`** is one atomic's `wait` and `notify` over the runtime's wake counts:
read the count (`ReadSeen`), then the value (`Check`), then sleep while the count has not
moved (`Wake`). `NotifyOther` is a notify of another atomic of the same bucket. `notify_one`
wakes everybody, as the runtime does. Three modules extend it:
**`Semaphore`** (with **`CountingSemaphore`**, the count of permits it implements),
**`Barrier`** and **`Once`**. Each compare-and-exchange, store and fetch-and-add is an
action. In `Barrier` the round's number is a number modulo `Wrap`; `entered`, `left` and
`leader` only count calls for the properties. In `Once`, `FaultInF` is a fault of `f`,
whose unwind runs `OnceRun::drop`; `completed` counts how often `f` ran to its end.

**`WaitBookProofs`, `WaitUntilProofs`, `RuntimeLockProofs`, `ScheduleProofs`, `PathsProofs`,
`ChannelProofs`, `SemaphoreProofs`, `AtomicProofs`** hold the theorems; the last is about the
barrier and the once, whose names differ for that (`OnceSpec`, `CallOnce`). **`MCChannel`**,
**`MCWaitUntil`** and **`MCPaths`** give the constants that are functions: which calls each
thread makes of the channel, which keys each waits for, how deep each stack may get.

Definitions whose comment begins "With a bug" are variants of the definition that
follows: a mistake one could make in that code, each of which makes some property fail.
They take part in no specification.

## 3. The runs

| run | instance | what it shows |
|---|---|---|
| `book_locks` | 3 threads, 1 mutex | types; the book and the guards agree; orphans come only from cut frames; a returning main leaves nothing but what a frame cut short owned, or owned an owner of; no undiagnosed cycle; a poisoned mutex is never held again. 765 thousand states |
| `book_waits` | 2 threads, 1 mutex, 1 count of each kind, the clock, handles move; fairness | when all are stuck, one is marked; a marked or cancelled thread leaves its wait. 117 thousand states |
| `wait_until` | 3 threads, a mutex, a count, a join, the clock; fairness | no signal falls between a look and a sleep; who was signalled is notified; nobody sleeps on what has come about; a stopped wait ends. 323 thousand states |
| `runtime_lock` | 3 threads, 2 heaps, stacks of 3 | nobody works on what another changes; the holds counted cover the entries; spawned threads leave nothing held; no cycle of locks; locking gets switched off. 1.4 million states |
| `rt_leak` | the same | the main thread keeps a hold no entry gives back, section 5 |
| `schedule` | 4 threads, 1 idle OS thread; fairness | one thread runs; the turn is with one that can use it; the chosen is unparked and gets to run; each job is taken once. 51 thousand states |
| `paths` | 2 threads, 2 paths at a time, stacks of 4 and 2 | counts of holders are right; no path is left over; exclusive paths stay with one thread; none ends in use; contained faults at every point, which alone leave a count too high or a path over. 1.1 million states |
| `paths_received` | the same | a path received from another thread ends with the sender's statement, section 5 |
| `channel` | 3 threads, 3 values, 2 slots, one thread closing, one trying, one with a time limit; fairness | types, wake-ups, the queue; sleepers wake. 198 thousand states |
| `semaphore` | 3 threads, 1 permit, at most 2; fairness | wake-ups, the count, sleepers wake; no deadlock. 15 thousand states |
| `barrier` | 3 threads, 3 parties, 3 calls each, numbers modulo 2; fairness | phases do not mix, one leader per round, a round all have reached ends unless a thread is lost. 32 thousand states |
| `once` | 3 threads; fairness | runs once, sleepers are remembered, calls end. 2 thousand states |

**Bounds.** Three threads are the fewest in which a third comes between two: a cycle of
three, a mutex passed on while another waits, a thread that ends as two others are stuck,
an orphan of a thread that was itself owned. Thread ids are given once, so `N` also
bounds how many threads a run of the program starts. One mutex is enough for a mutex to
close a cycle, since joins supply the other edges; two mutexes were tried with two
threads. A ring of two slots wraps, holds two values of different ages, and with three
values makes both sides wait. `MaxPermits` stands for the largest `usize`, `Wrap` for its
wrapping: two is the smallest at which a late thread could mistake a round for its own.
`MaxCalls` bounds the barrier's calls, `completed` stops at two. `Locks`, `Events`, `Buckets` may be
empty, and `Timers`, `MoveHandles` (a handle given to another thread) and `Lending` (a thread
lent an exclusive reference, which exempts it from cancellation and containment) off, to keep
an instance small: `book_waits` has them all, with two threads. Handles do not move in
`book_locks` because `ExitLeavesNothing` speaks of the frames of one thread: a moved handle
belongs to a thread that may still run as `main` returns.

In `RuntimeLock`, two heaps are the main thread's and one that two spawned threads come to
share; a stack of three is an entry, the destructor it runs and that one's entry. In
`Schedule`, four threads and `IdleMax` 1 let an OS thread be kept, another be sent away, and
one job be handed over while a second OS thread offers itself. In `Paths`, `MaxPaths` bounds
what is named at once, not what is ever formed: a path and one borrowed from it are the
fewest that can clash, and a lend is such a pair; `MaxOcc` 2 lets a path be held twice, so
that one holder's end is not the path's; `MaxListed` 1 keeps a statement to one path formed
or received; the main thread's stack of four is a function called from a statement. One
thread sends and the other receives (`Sends`), and one has a local it assigns (`Assigns`).

**Deadlock checking** is off where the program really may stop: in `WaitBook` (the hang of
section 5, and waits that end only by a notify nobody makes), in the channel (receivers
with nobody to send, in `Drop`'s wake), in the barrier (calls used up, or a thread gone),
in the once (a thread that faulted makes no further call) in `WaitUntil` (all wait, or the
program has ended) and in `Schedule` (the sleep of section 5). It is on elsewhere: entries and
paths never get stuck.

**Fairness.** `WaitBook!FairSpec`: each waiting thread looks again, which the timed sleep of
`wait_until` guarantees. `WaitUntil!FairSpec` assumes less: that a thread goes on with its look
and its signals, and that the timed sleep ends only where no signal is ever sent (`Untold`: a
thread marked as deadlocked, one on the clock, the main thread left as the last). So
`CameEndsSleep` says that signals suffice everywhere else. `Schedule!FairSpec`: the OS runs
every thread, calls outside end, a waiting thread yields, entries are left; nothing of a
program's own steps. A thread asleep may come up, look, take the runtime lock for that and sleep
on, and it is out of its sleep only in between: that the sleep ends (`Return`) is strong
fairness, since its time runs out however often it looks. `Channel`, `Semaphore`, `Barrier` and
`Once`: a thread inside a call takes its next step when it can, since the OS runs every thread;
nothing is assumed of a thread starting a call, of cancellation, or of who gets a mutex that
keeps being taken (weak fairness only). In the barrier a thread cancelled in mid-round can leave
the rest waiting for good, so `RoundsEnd` excepts it. In `Once`, that `f` ends, in its end or in
a fault, is assumed of the program.

## 4. What is proved

The proof modules hold theorems for any number of threads, heaps, mutexes, counts, slots,
values, permits, paths and frames. The only assumptions are the named ones on the constants:
`NAssumption`, `KeysAssumption`, `SizesAssumption`, `ScheduleAssumption`, `BoundsAssumption`,
`CapAssumption`, `NoThreadAssumption`, `MayCallAssumption`, `PermitsAssumption`,
`PartiesAssumption`. Two hypotheses stand in theorems themselves: `ExitIsClean` is about
programs that hand no handle to another thread, and the barrier's theorems about barriers no
more threads use than there are parties, or just as many where they say so. With more
threads they are false, section 5.

* `WaitBookProofs`: `TypeCorrect`, `LocksAgree`, `OrphansExplained`, `PoisonHolds`. The
  inductive invariant is the three properties with `Alive`: a thread that can take a step is
  on record as running. It is needed because a join takes a record only of a thread that
  no longer runs, so neither a mutex's holder nor a handle's owner loses its record. A wait's
  end (`Complete`) is treated once, by a lemma, and cited for `Begin` and `Look`, and so for
  each call that waits.
  Three more theorems are about who waits for whom; the invariant under them is that the
  book has a wait for a thread exactly while the thread waits (`WaitsAt`).
  `CyclesAreDiagnosed`: a cycle is a set of waiting threads, none asked to stop, each of which
  waits on one of the set, so that chains need no induction. Only a thread that starts to
  wait could complete one. What `closes_cycle` follows from it then stays in the set; by `N`
  steps it has met the thread itself, or some thread twice, which would be a cycle without
  it (`CloserIsFound`). Passing a mutex on or ending a thread only takes edges away.
  `StuckAreDiagnosed`: a step after which all are stuck is one that starts a wait or ends a
  thread, the two at which `find_deadlock` looks, and what it looks at is then what stuck
  means (`HopelessWaits`). `OnlyUnwindsHideDeadlock` follows: the thread asked to stop that
  keeps the book from telling is one that waits while it unwinds.
  `ExitIsClean`: with ids given out in order, a thread on record as running or as failed with
  nobody having taken its failure has its handle with a live thread spawned before it, or in
  a cut frame (`HandleKept`). When the main thread returns it owns none. The owners of a thread
  that is left, and theirs (`Owners`), are as many ids; the least of them that is left has no
  live owner, so a cut frame had its handle. No other exception is made: each thread left has
  such a one among its own owners. It assumes `~MoveHandles`, as `book_locks` does: a
  moved handle may belong to a thread that still runs.
* `WaitUntilProofs`: `TypeCorrect`, `SignalsAreNotLost`, `SleepersAreNotified`. The invariant
  adds that a thread in a wait is on record under its key (`OnKey`), one that is not waiting
  has no record (`QuietWaits`), and that an entry of `EVENTS` counts exactly those registered
  with it (`CountsRegistered`, by cardinality): so a signal that finds no entry passes over
  nobody.
* `RuntimeLockProofs`: `TypeCorrect`, `RecordsAloneHolds`, `HoldsCoverEntriesHolds`,
  `NothingLeftHeldHolds`, `NoLockCycleHolds`, `SoloIsPendingHolds`. The invariant says, of each
  thread and by what it is about to do, what its entries are (`StackOf`, `GoalOf`), which holds
  of the lock they come to (`HoldsOf`) and which heaps it has (`HeapsOf`). Four arguments carry
  it. An owner of the lock that works on the records has every heap that exists, so a thread
  in a local entry, which has a heap, works beside no owner. While locking is off only the
  main thread is in the runtime. When a spawn turns it on, the entries that were made without a
  hold are the ones `CALLBACK_DEPTH` counts, by an injection of the one into the other, so
  `go_multi` takes enough holds; it may take one too many, which is the difference `rt_leak`
  shows, and `HoldsCoverEntries` is stated with at least. Heaps are claimed in ascending order
  and the lock before them, so in a cycle of waits the highest heap waited for would be held
  by a thread that waits for a higher one.
* `ScheduleProofs`: `TypeCorrect`, `OneThreadRuns`, `TurnIsUsed`, `ChosenWakes`, `JobsAreTaken`. The
  invariant says where a thread may be when it has the turn and when it does not, what the
  pool's slots and jobs are in each state of an OS thread, and, by counting, that there are
  never more OS threads than threads spawned, so that `Give` always finds one to start.
* `ChannelProofs`: `TypeCorrect`, `WakeupsAreNotLost`. The invariant adds that exactly the
  thread on record is inside the mutex (`OneInside`), and that a thread has a current read
  only between finding nothing to do and the end of its sleep (`CurrentWaits`): so the
  thread that makes the ring fit for a sleeper is inside, and stays there until it has
  moved the sleeper's count. `Refinement`: the channel implements the bounded queue. To write
  at `(head + count) % Cap` is to append (`PutIsAppend`), to move `head` is to drop the first
  (`TakeIsTail`), and every other step leaves the queue and every pending call as it was or
  decides one call (`Decides`); `CallsMatch` says which answers a place in a call allows.
* `SemaphoreProofs`: `TypeCorrect`, `WakeupsAreNotLost`, and `Refinement`: the semaphore
  implements the count of permits. The invariant adds what each place in a call says of the
  call and of the permits last seen (`CallsMatch`): a thread tries to take only when it saw a
  permit, so the count never goes below 0.
* `AtomicProofs`, the once: `RunsAtMostOnce`, `SleepersAreRemembered`. The invariant `OnceInv`
  adds that the state is 1 exactly while one thread runs (`OneRunner`), when `done` is set
  (`DoneMatches`) and how often `f` completed, by the state (`CompletedMatches`).
* `AtomicProofs`, the barrier: `PhasesKeepApart`, `EachRoundHasOneLeader`,
  `SleepersAreReleased`, and with as many threads as parties `NeverAllAsleep` and
  `RoundsAreFull`. The round under way has a number that does not wrap, `Leaders`, the rounds
  ended so far. The invariant `BarrierInv` tells the program's two numbers from it (`Counted`:
  `generation` is `Leaders` modulo `Wrap`, `arrived` the number of threads arrived in this
  round); says from a thread's place whether it is in this round or was released from the last
  one (`PlaceSays`), so that the number it compares is this round's or another's; and has all
  the others arrived while one ends the round (`LastIn`). That last part is what the count of
  arrivals gives only if no more threads arrive than there are parties, and it is what keeps
  anybody from arriving between the reset and the move of the number. A round's number and
  the next differ modulo `Wrap` (`Wraps`), and nobody is two rounds behind, so that wrapping is
  harmless. `Leaders` and `FullRoundsOnly` are sums over the threads; what a step does to one
  (`TotalOfTally`) and how large it gets (`TotalBounds`) are proved of all subsets of the
  threads, by a least subset for which it fails (`AllSubsets`).
  `NeverAllAsleep` is as much of `RoundsEnd` as is a property of states: a sleeper waits for a
  thread that can go on, has yet to call, or was lost to a fault.
* `PathsProofs`: `TypeCorrect`, `CountsAreRight`, `NoPathIsLeft`, `ExclusivesStayApart`,
  `EndsAreLast`. The invariant `IInv` has five parts, and a contained fault enters each. A
  thread's stack is frames, each but the first called from a statement, and where the thread is
  says what it may still have on it, in its cells and in a register (`Shape`, `Placed`); a
  thread that unwinds has any part of it left. Each count is right (`OccIsHolds`), of sets that
  are finite (`HoldsFinite`); what a fault makes the runtime forget counts as one holder more,
  so that the argument is the same with it. A path that is in a statement's scope is on some
  statement's list, and one that nothing holds is on a list or about to be stored (`Owned`):
  without the first half a step that drops the last hold could pass over a path no list would
  end; a path of a statement cut short is excepted from both. And an exclusive path is one
  thread's or the channel's, never both (`Apart`); the channel's half is what a receive needs.
  The holders are a cardinality over cells, flights and frames, so the argument goes by
  differences: a step changes one cell, one flight and one frame at most (`Moved`), which moves
  a path's holders by what those gain and lose (`Change`, `CountStep`), and each action's lemma
  shows that the table does the same (`Follows`). The end of a frame and of a statement drop
  many holds at once and get lemmas of their own (`DropHoldsIs`, `EndScopeIs`; `FrameEndsStep`,
  `StatementEndsStep`), which the ordinary ends, those that a fault cuts short and the unwind
  share. A path formed is new to everybody (`UnnamedIs`), and a lend keeps the lent path with
  its lender while the thread has a path of its own (`LendIs`). `EndsAreLast` is the clause of
  `Follows` on the paths that end: nothing holds them any more, and they were in no statement's
  scope or on the list of a thread whose stack the step changes.

Every invariant and every action property that a passing run checks is so proved. The
liveness properties (`SleepersWake`, `RoundsEnd`, `CallsEnd`, `ChosenRuns`, `CameEndsSleep`,
`StopEndsWait`, `StopReasonEndsWait`) are only model-checked, being beyond the prover;
the theorems on who sleeps (`WakeupsAreNotLost`, `SleepersAreRemembered`, `NeverAllAsleep`,
`SignalsAreNotLost`, `ChosenWakes`) say for every instance that a thread that could go on has
not been forgotten.

## 5. Where the code and its documents differ

Two differences have runs of their own:

* **A hold that is never given back** (`rt_leak`). `go_solo` turns locking off inside an entry
  that took the lock and will release it. If that entry runs a destructor, `CALLBACK_DEPTH`
  counts it, and a spawn in the destructor makes `go_multi` take a hold for the same entry
  again. The entry gives one back; the main thread goes on in its own code with the runtime
  lock held, and spawned threads get in only while the main thread waits. The comment at
  `impl/cbrt/src/lib.rs:3079`: "the lock is taken once for each, so each of their exits
  releases one".
* **A path that ends under its receiver** (`paths_received`). `PathRec.scope` is a place on a
  stack and does not say on whose. `detach_tok` looks on the calling thread's, so a shared
  reference received from a channel stays on the list of the sender's statement, whose end
  ends the path, or clears the receiver's mark. `spec/19-concurrency.md:487` moves it into
  the receiver's scope; `impl/conformance/19-concurrency/channel_lent_ref_received_ok.cb:10`:
  "The value moves into the receiver's statement ... so the sender's later statement exits
  do not end it, whatever the schedule." A lent exclusive reference, that case's own, is in
  no statement and stays. `EndsWhenLetGo` is what does hold, and is proved.

The others are stated as definitions beside the properties; putting the definition in a .cfg
with the constants given reproduces each:

* **A hold that a contained fault forgets** (`Paths!HeldHaveHolders`, an invariant; the
  constants of `paths`). A function returns a reference: the flight holds it (`cb_send_ref`)
  while the frame ends. A destructor of the frame faults, the thread's unwind folds the stack
  and empties `inflight` (`impl/cbrt/src/lib.rs:3901`), and the hold stays in the count. So do
  the holds a frame had not let go of when a destructor in `end_owned` cut it short (4991),
  since it is off the stack by then. The path never ends and counts as held in every later
  `check_access`: the owner's next write faults with `diag.aliasing-conflict`, and any access if
  the path was exclusive. `lib.rs:5004`: "A held path lives on past its statement (`end_scope`)
  and ends with its last holder (`drop_occ`)"; `spec/23-preservation.md:191` of the unwind:
  "every obligation they own is discharged before the thread stops". `OccIsHolds` and
  `EveryPathIsOwned` say what does hold, and are proved: counts are never too low, and a path is
  left over by nothing but such a fault.
* **A hang that is not diagnosed** (`WaitBook!DeadlockIsDiagnosed`, an invariant; 2 threads, 1
  mutex). The main thread holds a mutex, cancels thread 2, and joins it. Thread 2 faults; its
  unwind runs a destructor that waits for the mutex. `closes_cycle` and `find_deadlock` take
  a thread that was asked to stop as about to end; `stop_reason` ignores the request while
  it unwinds. `spec/19-concurrency.md:569`: "Deadlock is not ruled out, but it is diagnosed".
  `StuckIsDiagnosed` is what does hold, and is proved; so is that this is the only way
  (`OnlyUnwindsHideDeadlock`).
* **A thread that outlives its handle** (`WaitBook!NoThreadOutlivesItsHandle`, an invariant; 3
  threads, nothing else). A frame leaves the stack before it is destroyed; a fault in the
  middle of that, contained, does not come back to the rest of it.
  `spec/19-concurrency.md:154`: "a thread can never outlive the frame that owns its handle".
  `OrphansComeFromCutFrames` is what does hold, and is proved.
* **A mark that outlives its wait** (`WaitBook!MarkedWaitFaults`, a property; 3 threads, 1 count
  in `Events`). Threads found deadlocked together are all marked; if the first to unwind
  notifies another, that one's wait returns and the mark stays for some later wait.
  `spec/19-concurrency.md:557` says "that wait" faults, and the comment in `find_deadlock`
  "One outcome, whatever the timing."
* **A barrier with more threads than parties** (`Barrier!FullRoundsOnly`, an invariant; 3
  threads, 2 parties). A thread that calls between the reset of `arrived` and the move of
  `generation` is counted in the next round but leaves with the old one.
  `impl/std/sync.cb:899`: "Waits until `parties` threads have called it, then lets them all go
  on." With as many threads as parties it cannot happen, as `RoundsAreFull` proves.
* **A pool two threads use at once** (`RuntimeLock!PoolsAlone`, an invariant; the constants of
  `runtime_lock`). `own_heap` looks at `HEAP_SHARED` and then works on the pool without a
  lock; a thread that starts in between makes the heap shared and works on the same pool
  under the heap's lock, which the first never took. The comment at
  `impl/cbrt/src/lib.rs:2488` has "their users lock them".
* **A sleep that keeps the runtime** (`Schedule!NeverStuckForTurn`, an invariant; 3 threads,
  `IdleMax` 1). A sleep in a destructor goes outside with the runtime lock held; if its time
  is past at once it waits for the turn with the lock, and the thread with the turn waits
  for the lock. The comment before `sched_yield`: "Only where this thread holds nothing of
  the runtime". `ChosenRuns` excepts this case alone.

## 6. What is not modelled, and the plan

In `WaitBook`: waits outside the runtime (`IN_IO`: sockets, input), library mode (`cobc
--lib`), `exit`, a guard moved to another thread (the book keeps its first holder), the fault
before a trampoline registered, the creation and end of event counts. An uncontained fault
ends the model: no other thread takes a step, and the unwinding of the one that faulted
waits for nothing. In `WaitUntil`: the chains of waits (`WaitBook` has them), the spinning
before the first look (a look that comes too early changes nothing), the schedule. In
`RuntimeLock`: library mode, the debug flavour's own checks, what a plan reads (any superset
of its heaps may come out of it), and which heaps are empty when one is claimed (any may be).
In `Schedule`: an OS that refuses to start a thread, the count `IN_IO`, tokens left over from an
earlier park (a thread looks again, and parks again), the seed's numbers and the one entry in
32 that yields (any choice, any entry), the short sleep of a thread that is alone. In `Channel`:
`lend_places`, the capacity of 0 (a fault in `new`), and the clock's arithmetic; `Poll` may give
up at any try. In `Semaphore` and `Once`, the operations that only read.

In `Paths`: there is one object, which lives throughout, and each path is to the whole of it, so
fields, ranges and the end of an object (`valid`) are left out; so are lock-derived paths and
light references, which keep no record. A token's number is taken again once nothing names
it, where the code counts up; nobody can tell. A statement's result is a reference the
statement itself formed or one of a binding's. Of faults, those that end the program are left
out (the main thread's, a second one on a thread that unwinds, and one of a thread lent an
exclusive reference), and library mode's; a destructor may fault in the middle of a frame's or
a statement's end, and does nothing else to the paths there.

Share of the code: the compiler (type checker, parser, lowering: four fifths of the Rust lines)
is a sequential translation and the map does not reach it; what it covers is the part of the
runtime and of `sync.cb` where threads meet.

The plan, what is left, most important first:

1. `WaitUntil` shown to implement `WaitBook`'s `Begin` and `Look`.
2. `Paths` with objects that end, fields, and lock-derived paths, against `cobmodel`'s machine.
3. `InterpThreads`: the interpreter's threads against the same properties as `WaitBook`.
4. Ring buffer, hash map and slot map of `std::collections`, as functions against reference
   definitions; the connection pool of `postgres`.
5. Library mode and waits outside the runtime.

The front end, the lowering, the formatter, the self-hosted compiler, the encodings and the
tests are left out: sequential translations and pure functions, whose correctness is not a
matter of states and steps. `PROJECT.json` gives the reason for each.
