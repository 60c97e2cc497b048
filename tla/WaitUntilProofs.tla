--------------------------- MODULE WaitUntilProofs ---------------------------
(***************************************************************************)
(* Proofs about WaitUntil, for any threads, mutexes and counts, and whatever  *)
(* each thread waits for.                                                    *)
(***************************************************************************)
EXTENDS WaitUntil, FiniteSetTheorems, TLAPS

\* A thread registered or asleep is on record with the key it waits for.
OnKey == \A t \in Threads : InWait(t) => waits[t] \in Keys

\* A thread begins a call only when it has signalled all that it owes, and none
\* is owed by a thread in a wait, or in a fault.
QuietWaits ==
    \A t \in Threads : at[t] \notin {"run", "ended", "exit"} => toSignal[t] = {} /\ toNotify[t] = NoKey

\* EVENTS: a key's count is the number of its registered threads, so an entry is
\* there as long as one of them needs it.
CountsRegistered == \A k \in Keys : waiting[k] = Cardinality(Registered(k))

\* The types, without the bound of `waiting`: that comes of the count.
Types ==
    /\ holder \in [Locks -> Threads \cup {Nobody}]
    /\ poisoned \subseteq Locks
    /\ ended \subseteq Threads /\ moved \subseteq Threads /\ cancel \subseteq Threads
    /\ deadlocked \subseteq Threads /\ cunwind \subseteq Threads /\ same \subseteq Threads
    /\ waits \in [Threads -> Keys \cup {NoKey}]
    /\ waiting \in [Keys -> Int]
    /\ toSignal \in [Threads -> SUBSET Keys]
    /\ toNotify \in [Threads -> Keys \cup {NoKey}]
    /\ at \in [Threads -> Places]

IInv == Types /\ OnKey /\ QuietWaits /\ CountsRegistered /\ NoSignalLost /\ SignalledAreNotified

-----------------------------------------------------------------------------
(* Keys and counts.                                                          *)

LEMMA KeyKinds ==
    /\ NoKey \notin Keys
    /\ Threads \subseteq Keys /\ Locks \subseteq Keys /\ Counts \subseteq Keys /\ Timers \subseteq Keys
    /\ \A t \in Threads : t \notin Locks \cup Counts /\ TimerKey(t) \in Timers /\ MayWait[t] \subseteq Keys
    /\ Locks \cap Counts = {}
BY KeysAssumption DEF Keys, Threads, Timers, TimerKey

LEMMA RegisteredFinite == \A k : /\ IsFiniteSet(Registered(k))
                                 /\ Cardinality(Registered(k)) \in 0..N
<1> TAKE k
<1>1. IsFiniteSet(Threads) /\ Cardinality(Threads) = N
  BY FS_Interval, KeysAssumption DEF Threads
<1>2. Registered(k) \in SUBSET Threads
  BY DEF Registered
<1>3. IsFiniteSet(Registered(k)) /\ Cardinality(Registered(k)) <= N
  BY <1>1, <1>2, FS_Subset
<1> QED
  BY <1>3, FS_CardinalityType, KeysAssumption

LEMMA TypeFromCounts == Types /\ CountsRegistered => TypeOK
<1> SUFFICES ASSUME Types, CountsRegistered PROVE TypeOK
  OBVIOUS
<1>1. waiting \in [Keys -> 0..N]
  BY RegisteredFinite DEF Types, CountsRegistered
<1> QED
  BY <1>1 DEF Types, TypeOK

LEMMA InitIInv == Init => IInv
<1> SUFFICES ASSUME Init PROVE IInv
  OBVIOUS
<1>1. Types
  BY DEF Init, Types, Places
<1>2. \A k \in Keys : Registered(k) = {}
  BY DEF Init, Registered
<1>3. CountsRegistered
  BY <1>2, FS_EmptySet DEF CountsRegistered, Init
<1>4. OnKey /\ QuietWaits /\ NoSignalLost /\ SignalledAreNotified
  BY DEF Init, OnKey, InWait, QuietWaits, NoSignalLost, SignalledAreNotified
<1> QED
  BY <1>1, <1>3, <1>4 DEF IInv

-----------------------------------------------------------------------------
(* Types and places.                                                         *)

LEMMA TypesStep == IInv /\ [Next]_vars => Types'
<1> SUFFICES ASSUME IInv, [Next]_vars PROVE Types'
  OBVIOUS
<1> USE KeyKinds DEF IInv, Types, Places, book, events, Return, Stop, Claim, LeaveEvents, Free
<1>1. ASSUME NEW t \in Threads, NEW k \in Keys, Begin(t, k) PROVE Types'
  <2>1. deadlocked' \subseteq Threads
    BY <1>1 DEF Begin, find_deadlock, Running
  <2> QED
    BY <1>1, <2>1 DEF Begin
<1>2. ASSUME NEW t \in Threads, Look(t) PROVE Types'
  BY <1>2 DEF Look, OnKey, InWait
<1>3. ASSUME NEW t \in Threads, Sleep(t) \/ Timeout(t) PROVE Types'
  BY <1>3 DEF Sleep, Timeout, OnKey, InWait
<1>4. ASSUME NEW t \in Threads, NEW k \in Keys, Signal(t, k) PROVE Types'
  BY <1>4 DEF Signal
<1>5. ASSUME NEW t \in Threads, NotifyAll(t) PROVE Types'
  BY <1>5 DEF NotifyAll
<1>6. ASSUME NEW t \in Threads, NEW l \in Locks, Unlock(t, l) PROVE Types'
  BY <1>6 DEF Unlock
<1>7. ASSUME NEW t \in Threads, NEW c \in Counts, Notify(t, c) PROVE Types'
  BY <1>7 DEF Notify
<1>8. ASSUME NEW t \in Threads, NEW u \in Threads, Cancel(t, u) PROVE Types'
  BY <1>8 DEF Cancel, Running
<1>9. ASSUME NEW t \in Threads, Fault(t) PROVE Types'
  BY <1>9 DEF Fault
<1>10. ASSUME NEW t \in Threads, End(t) PROVE Types'
  <2>1. deadlocked' \subseteq Threads
    BY <1>10 DEF End, find_deadlock, Running
  <2> QED
    BY <1>10, <2>1 DEF End
<1>11. CASE UNCHANGED vars
  BY <1>11 DEF vars
<1> QED
  BY <1>1, <1>2, <1>3, <1>4, <1>5, <1>6, <1>7, <1>8, <1>9, <1>10, <1>11 DEF Next, Waits, Signals

LEMMA PlacesStep == IInv /\ [Next]_vars => OnKey' /\ QuietWaits'
<1> DEFINE Goal == OnKey' /\ QuietWaits'
<1> SUFFICES ASSUME IInv, [Next]_vars PROVE Goal
  OBVIOUS
<1> USE KeyKinds DEF IInv, Types, OnKey, QuietWaits, InWait, book, events, Return, Stop, LeaveEvents, Free
<1>1. ASSUME NEW t \in Threads, NEW k \in Keys, Begin(t, k) PROVE Goal
  BY <1>1 DEF Begin
<1>2. ASSUME NEW t \in Threads, Look(t) PROVE Goal
  BY <1>2 DEF Look
<1>3. ASSUME NEW t \in Threads, Sleep(t) \/ Timeout(t) PROVE Goal
  BY <1>3 DEF Sleep, Timeout
<1>4. ASSUME NEW t \in Threads, NEW k \in Keys, Signal(t, k) PROVE Goal
  BY <1>4 DEF Signal
<1>5. ASSUME NEW t \in Threads, NotifyAll(t) PROVE Goal
  BY <1>5 DEF NotifyAll
<1>6. ASSUME NEW t \in Threads, NEW l \in Locks, Unlock(t, l) PROVE Goal
  BY <1>6 DEF Unlock
<1>7. ASSUME NEW t \in Threads, NEW c \in Counts, Notify(t, c) PROVE Goal
  BY <1>7 DEF Notify
<1>8. ASSUME NEW t \in Threads, NEW u \in Threads, Cancel(t, u) PROVE Goal
  BY <1>8 DEF Cancel
<1>9. ASSUME NEW t \in Threads, Fault(t) PROVE Goal
  BY <1>9 DEF Fault
<1>10. ASSUME NEW t \in Threads, End(t) PROVE Goal
  BY <1>10 DEF End
<1>11. CASE UNCHANGED vars
  BY <1>11 DEF vars
<1> QED
  BY <1>1, <1>2, <1>3, <1>4, <1>5, <1>6, <1>7, <1>8, <1>9, <1>10, <1>11 DEF Next, Waits, Signals

-----------------------------------------------------------------------------
(* The counts of EVENTS: only a registration and the end of a sleep change    *)
(* who is registered.                                                        *)

Stays == waiting' = waiting /\ \A k \in Keys : Registered(k)' = Registered(k)

LEMMA CountsStay == CountsRegistered /\ Stays => CountsRegistered'
BY DEF CountsRegistered, Stays

LEMMA OneMore ==
    ASSUME IInv, NEW t \in Threads, at[t] = "look", at' = [at EXCEPT ![t] = "registered"],
           waiting' = [waiting EXCEPT ![waits[t]] = @ + 1], waits' = waits
    PROVE  CountsRegistered'
<1> USE DEF IInv, Types, CountsRegistered
<1>1. waits[t] \in Keys
  BY DEF OnKey, InWait
<1>2. t \notin Registered(waits[t]) /\ Registered(waits[t])' = Registered(waits[t]) \cup {t}
  BY DEF Registered
<1>3. \A k \in Keys \ {waits[t]} : Registered(k)' = Registered(k)
  BY DEF Registered
<1>4. Cardinality(Registered(waits[t]) \cup {t}) = waiting[waits[t]] + 1
  <2>1. /\ IsFiniteSet(Registered(waits[t]))
        /\ waiting[waits[t]] = Cardinality(Registered(waits[t]))
    BY <1>1, RegisteredFinite
  <2> QED
    BY <2>1, <1>2, FS_AddElement
<1>5. Cardinality(Registered(waits[t])') = waiting[waits[t]] + 1
  BY <1>2, <1>4
<1> QED
  BY <1>1, <1>3, <1>5

LEMMA OneLess ==
    ASSUME IInv, NEW t \in Threads, at[t] \in {"registered", "asleep"}, LeaveEvents(t), waits' = waits
    PROVE  CountsRegistered'
<1> USE DEF IInv, Types, CountsRegistered, LeaveEvents
<1>1. waits[t] \in Keys
  BY DEF OnKey, InWait
<1>2. t \in Registered(waits[t]) /\ Registered(waits[t])' = Registered(waits[t]) \ {t}
  BY DEF Registered
<1>3. \A k \in Keys \ {waits[t]} : Registered(k)' = Registered(k)
  BY DEF Registered
<1>4. Cardinality(Registered(waits[t]) \ {t}) = waiting[waits[t]] - 1
  <2> DEFINE R == Registered(waits[t])
  <2>1. IsFiniteSet(R) /\ t \in R /\ waiting[waits[t]] = Cardinality(R)
    BY <1>1, <1>2, RegisteredFinite
  <2> HIDE DEF R
  <2>2. Cardinality(R \ {t}) = IF t \in R THEN Cardinality(R) - 1 ELSE Cardinality(R)
    BY <2>1, FS_RemoveElement
  <2>3. Cardinality(R \ {t}) = waiting[waits[t]] - 1
    BY <2>1, <2>2
  <2> QED
    BY <2>3 DEF R
<1>5. Cardinality(Registered(waits[t])') = waiting[waits[t]] - 1
  BY <1>2, <1>4
<1> QED
  BY <1>1, <1>3, <1>5

LEMMA CountsStep == IInv /\ [Next]_vars => CountsRegistered'
<1> SUFFICES ASSUME IInv, [Next]_vars PROVE CountsRegistered'
  OBVIOUS
<1> USE KeyKinds DEF IInv, Types, book, events, Return, Stop, Free, Stays, Registered
<1>1. ASSUME NEW t \in Threads, NEW k \in Keys, Begin(t, k) PROVE CountsRegistered'
  <2>1. Stays
    BY <1>1 DEF Begin
  <2> QED
    BY <2>1, CountsStay
<1>2. ASSUME NEW t \in Threads, Look(t) PROVE CountsRegistered'
  <2>1. CASE at' = [at EXCEPT ![t] = "registered"]
    <3>1. waiting' = [waiting EXCEPT ![waits[t]] = @ + 1] /\ waits' = waits
      BY <1>2, <2>1 DEF Look
    <3> QED
      BY <1>2, <2>1, <3>1, OneMore DEF Look
  <2>2. CASE at' # [at EXCEPT ![t] = "registered"]
    <3>1. Stays
      BY <1>2, <2>2 DEF Look
    <3> QED
      BY <3>1, CountsStay
  <2> QED
    BY <2>1, <2>2
<1>3. ASSUME NEW t \in Threads, Sleep(t) PROVE CountsRegistered'
  <2>1. CASE t \in same
    <3>1. Stays
      BY <1>3, <2>1 DEF Sleep
    <3> QED
      BY <3>1, CountsStay
  <2>2. CASE t \notin same
    BY <1>3, <2>2, OneLess DEF Sleep
  <2> QED
    BY <2>1, <2>2
<1>4. ASSUME NEW t \in Threads, Timeout(t) PROVE CountsRegistered'
  BY <1>4, OneLess DEF Timeout
<1>5. ASSUME NEW t \in Threads, NEW k \in Keys, Signal(t, k) PROVE CountsRegistered'
  <2>1. Stays
    BY <1>5 DEF Signal
  <2> QED
    BY <2>1, CountsStay
<1>6. ASSUME NEW t \in Threads, NotifyAll(t) PROVE CountsRegistered'
  <2>1. Stays
    BY <1>6 DEF NotifyAll
  <2> QED
    BY <2>1, CountsStay
<1>7. ASSUME NEW t \in Threads, \/ Fault(t) \/ End(t)
                                \/ \E l \in Locks : Unlock(t, l)
                                \/ \E c \in Counts : Notify(t, c)
                                \/ \E u \in Threads : Cancel(t, u)
      PROVE  CountsRegistered'
  <2>1. Stays
    BY <1>7 DEF Unlock, Notify, Cancel, Fault, End
  <2> QED
    BY <2>1, CountsStay
<1>8. CASE UNCHANGED vars
  <2>1. Stays
    BY <1>8 DEF vars
  <2> QED
    BY <2>1, CountsStay
<1> QED
  BY <1>1, <1>2, <1>3, <1>4, <1>5, <1>6, <1>7, <1>8 DEF Next, Waits, Signals

-----------------------------------------------------------------------------
(* Signals.                                                                  *)

\* An event that has an entry is moved; one that has none has nobody registered.
LEMMA SignalReaches ==
    ASSUME IInv, NEW t \in Threads, NEW k \in Keys, Signal(t, k)
    PROVE  same' \cap Registered(k) = {}
<1>1. CASE waiting[k] > 0
  BY <1>1 DEF Signal
<1>2. CASE ~(waiting[k] > 0)
  <2>1. Cardinality(Registered(k)) = 0
    BY <1>2, RegisteredFinite DEF IInv, Types, CountsRegistered
  <2>2. Registered(k) = {}
    BY <2>1, RegisteredFinite, FS_EmptySet
  <2> QED
    BY <2>2
<1> QED
  BY <1>1, <1>2

\* What a registered thread waits for comes about, or it is cancelled, only in a
\* step whose thread then owes its key a signal.
LEMMA NoSignalLostStep == IInv /\ [Next]_vars => NoSignalLost'
<1> SUFFICES ASSUME IInv, [Next]_vars PROVE NoSignalLost'
  OBVIOUS
<1> USE KeyKinds DEF IInv, Types, NoSignalLost, QuietWaits, Came, Cancelled, book, events,
                     Return, Stop, Claim, Free
<1>1. ASSUME NEW t \in Threads, NEW k \in Keys, Begin(t, k) PROVE NoSignalLost'
  <2>1. /\ at'[t] \notin {"registered", "asleep"}
        /\ \A u \in Threads \ {t} : at'[u] = at[u] /\ waits'[u] = waits[u] /\ (u \in moved' => u \in moved)
        /\ UNCHANGED <<same, toSignal, ended, poisoned, cancel, cunwind>>
    BY <1>1 DEF Begin
  <2>2. \A l \in Locks : holder'[l] = Nobody => holder[l] = Nobody
    BY <1>1, KeysAssumption DEF Begin, Threads, Nobody
  <2> QED
    BY <2>1, <2>2
<1>2. ASSUME NEW t \in Threads, Look(t) PROVE NoSignalLost'
  <2>1. /\ \A u \in Threads \ {t} : /\ at'[u] = at[u] /\ waits'[u] = waits[u]
                                    /\ u \in moved' => u \in moved
                                    /\ u \in same' => u \in same
        /\ UNCHANGED <<toSignal, ended, poisoned, cancel, cunwind>>
    BY <1>2 DEF Look
  <2>2. \A l \in Locks : holder'[l] = Nobody => holder[l] = Nobody
    BY <1>2, KeysAssumption DEF Look, Threads, Nobody
  <2>3. \/ at'[t] \notin {"registered", "asleep"}
        \/ /\ ~Came(t, waits[t]) /\ ~Cancelled(t)
           /\ UNCHANGED <<holder, moved, waits>>
    BY <1>2 DEF Look, ready, stop_reason
  <2> QED
    BY <2>1, <2>2, <2>3
<1>3. ASSUME NEW t \in Threads, Sleep(t) \/ Timeout(t) PROVE NoSignalLost'
  BY <1>3 DEF Sleep, Timeout, LeaveEvents
<1>4. ASSUME NEW t \in Threads, NEW k \in Keys, Signal(t, k) PROVE NoSignalLost'
  <2>1. /\ same' \subseteq same
        /\ \A u \in Threads : toSignal[u] \ {k} \subseteq toSignal'[u]
        /\ UNCHANGED <<holder, poisoned, ended, moved, cancel, cunwind, waits, at>>
    BY <1>4 DEF Signal
  <2>2. \A u \in Threads : at[u] \in {"registered", "asleep"} /\ waits[u] = k => u \notin same'
    BY <1>4, SignalReaches DEF Registered
  <2> QED
    BY <2>1, <2>2
<1>5. ASSUME NEW t \in Threads, NotifyAll(t) PROVE NoSignalLost'
  BY <1>5 DEF NotifyAll
<1>6. ASSUME NEW t \in Threads, NEW l \in Locks, Unlock(t, l) PROVE NoSignalLost'
  BY <1>6 DEF Unlock
<1>7. ASSUME NEW t \in Threads, NEW c \in Counts, Notify(t, c) PROVE NoSignalLost'
  BY <1>7 DEF Notify
<1>8. ASSUME NEW t \in Threads, NEW u \in Threads, Cancel(t, u) PROVE NoSignalLost'
  <2>1. /\ UNCHANGED <<holder, poisoned, ended, moved, cunwind, waits, same, at>>
        /\ cancel' = cancel \cup {u} /\ toSignal[t] = {}
        /\ \A v \in Threads \ {t} : toSignal'[v] = toSignal[v]
        /\ toSignal'[t] = {waits[u]} \ {NoKey}
    BY <1>8 DEF Cancel
  <2>2. at[u] \in {"registered", "asleep"} => waits[u] \in toSignal'[t]
    BY <2>1 DEF OnKey, InWait
  <2> QED
    BY <2>1, <2>2
<1>9. ASSUME NEW t \in Threads, Fault(t) PROVE NoSignalLost'
  <2>1. /\ \A u \in Threads \ {t} : at'[u] = at[u] /\ toSignal'[u] = toSignal[u]
        /\ at'[t] \notin {"registered", "asleep"}
        /\ UNCHANGED <<ended, moved, cancel, waits, same>>
        /\ cunwind \subseteq cunwind'
    BY <1>9 DEF Fault
  <2>2. toSignal[t] = {}
    BY <1>9 DEF Fault
  <2>3. \A l \in Locks : (holder'[l] = Nobody \/ l \in poisoned') =>
                             holder[l] = Nobody \/ l \in poisoned \/ l \in toSignal'[t]
    BY <1>9 DEF Fault
  <2> QED
    BY <2>1, <2>2, <2>3
<1>10. ASSUME NEW t \in Threads, End(t) PROVE NoSignalLost'
  BY <1>10 DEF End
<1>11. CASE UNCHANGED vars
  BY <1>11 DEF vars
<1> QED
  BY <1>1, <1>2, <1>3, <1>4, <1>5, <1>6, <1>7, <1>8, <1>9, <1>10, <1>11 DEF Next, Waits, Signals

\* A thread's event moves in its sleep only in a step whose thread then notifies
\* its key, and that thread moves no other event before it has.
LEMMA SignalledStep == IInv /\ [Next]_vars => SignalledAreNotified'
<1> SUFFICES ASSUME IInv, [Next]_vars PROVE SignalledAreNotified'
  OBVIOUS
<1> USE KeyKinds DEF IInv, Types, SignalledAreNotified, QuietWaits, OnKey, InWait, book, events, Return, Stop, Free
<1>1. ASSUME NEW t \in Threads, NEW k \in Keys, Begin(t, k) PROVE SignalledAreNotified'
  BY <1>1 DEF Begin
<1>2. ASSUME NEW t \in Threads, Look(t) PROVE SignalledAreNotified'
  BY <1>2 DEF Look
<1>3. ASSUME NEW t \in Threads, Sleep(t) \/ Timeout(t) PROVE SignalledAreNotified'
  BY <1>3 DEF Sleep, Timeout, LeaveEvents
<1>4. ASSUME NEW t \in Threads, NEW k \in Keys, Signal(t, k) PROVE SignalledAreNotified'
  BY <1>4 DEF Signal, Registered
<1>5. ASSUME NEW t \in Threads, NotifyAll(t) PROVE SignalledAreNotified'
  BY <1>5 DEF NotifyAll
<1>6. ASSUME NEW t \in Threads, \/ Fault(t) \/ End(t)
                                \/ \E l \in Locks : Unlock(t, l)
                                \/ \E c \in Counts : Notify(t, c)
                                \/ \E u \in Threads : Cancel(t, u)
      PROVE  SignalledAreNotified'
  BY <1>6 DEF Unlock, Notify, Cancel, Fault, End
<1>7. CASE UNCHANGED vars
  BY <1>7 DEF vars
<1> QED
  BY <1>1, <1>2, <1>3, <1>4, <1>5, <1>6, <1>7 DEF Next, Waits, Signals

LEMMA Invariance == Spec => []IInv
<1>1. IInv /\ [Next]_vars => IInv'
  BY TypesStep, PlacesStep, CountsStep, NoSignalLostStep, SignalledStep DEF IInv
<1> QED
  BY InitIInv, <1>1, PTL DEF Spec

\* Types: EVENTS counts no more waiters than there are threads, and never fewer
\* than none.
THEOREM TypeCorrect == Spec => []TypeOK
<1>1. IInv => TypeOK
  BY TypeFromCounts DEF IInv
<1> QED
  BY Invariance, <1>1, PTL

\* No change that a registered thread waits for goes without its signal
\* (wait_until registers before it lets the book go).
THEOREM SignalsAreNotLost == Spec => []NoSignalLost
BY Invariance, PTL DEF IInv

\* A thread asleep on an event that has moved is about to be notified (signal).
THEOREM SleepersAreNotified == Spec => []SignalledAreNotified
BY Invariance, PTL DEF IInv
=============================================================================
