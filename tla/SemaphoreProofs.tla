--------------------------- MODULE SemaphoreProofs --------------------------
(***************************************************************************)
(* Proofs about Semaphore, for any set of threads and any number of permits.  *)
(***************************************************************************)
EXTENDS Semaphore, TLAPS

\* What each place in a call says of the call, and of the permits it last saw.
CallsMatch ==
    \A t \in Threads :
        /\ at[t] = "idle" <=> call[t] = "idle"
        /\ at[t] \in WaitPoints => call[t] = "acquire"
        /\ at[t] \in {"load", "try"} => call[t] \in {"acquire", "try"}
        /\ at[t] = "try" => n[t] > 0
        /\ at[t] = "add" => call[t] = "release"
        /\ at[t] = "notify" => call[t] = "given"
        /\ at[t] = "done" => call[t] \in {"taken", "refused", "given", "fault"}

\* The inductive invariant.
IInv == TypeOK /\ CallsMatch /\ NoLostWakeup

LEMMA InitIInv == Init => IInv
BY PermitsAssumption DEF Init, IInv, TypeOK, CallsMatch, NoLostWakeup, Asleep, WaitPoints

\* Types are kept by every step: the count stays in range because a thread tries
\* to take a permit only when it last saw one.
LEMMA TypeStep == TypeOK /\ CallsMatch /\ [Next]_vars => TypeOK'
<1> SUFFICES ASSUME TypeOK, CallsMatch, [Next]_vars PROVE TypeOK'
  OBVIOUS
<1> USE PermitsAssumption DEF TypeOK, WaitPoints
<1>1. CASE Other
  BY <1>1 DEF Other, NotifyOther
<1>2. ASSUME NEW t \in Threads, Invoke(t) PROVE TypeOK'
  BY <1>2 DEF Invoke, Go, Ends
<1>3. ASSUME NEW t \in Threads, Load(t) PROVE TypeOK'
  BY <1>3 DEF Load, Go, Ends, Sees
<1>4. ASSUME NEW t \in Threads, TryTake(t) PROVE TypeOK'
  <2>1. at[t] = "try" /\ n[t] > 0
    BY <1>4 DEF TryTake, Go, CallsMatch
  <2>2. permits' \in 0..MaxPermits
    BY <1>4, <2>1 DEF TryTake
  <2> QED
    BY <1>4, <2>2 DEF TryTake, Go, Ends, Sees
<1>5. ASSUME NEW t \in Threads, Wait(t) PROVE TypeOK'
  BY <1>5 DEF Wait, ReadSeen, Check, Wake, Go
<1>6. ASSUME NEW t \in Threads, Add(t) PROVE TypeOK'
  BY <1>6 DEF Add, Go, Ends
<1>7. ASSUME NEW t \in Threads, NotifyOne(t) \/ Return(t) \/ Abandon(t) PROVE TypeOK'
  BY <1>7 DEF NotifyOne, Notify, Return, Abandon, Stop, Go, Ends, Sees
<1>8. CASE UNCHANGED vars
  BY <1>8 DEF vars
<1> QED
  BY <1>1, <1>2, <1>3, <1>4, <1>5, <1>6, <1>7, <1>8 DEF Next, InCall

\* A step moves one thread's call along, and keeps the match.
LEMMA CallsStep == TypeOK /\ CallsMatch /\ [Next]_vars => CallsMatch'
<1> SUFFICES ASSUME TypeOK, CallsMatch, [Next]_vars PROVE CallsMatch'
  OBVIOUS
<1> USE PermitsAssumption DEF TypeOK, CallsMatch, WaitPoints
<1>1. CASE Other
  BY <1>1 DEF Other, NotifyOther
<1>2. ASSUME NEW t \in Threads, Invoke(t) PROVE CallsMatch'
  BY <1>2 DEF Invoke, Go, Ends
<1>3. ASSUME NEW t \in Threads, Load(t) PROVE CallsMatch'
  BY <1>3 DEF Load, Go, Ends, Sees
<1>4. ASSUME NEW t \in Threads, TryTake(t) PROVE CallsMatch'
  BY <1>4 DEF TryTake, Go, Ends, Sees
<1>5. ASSUME NEW t \in Threads, Wait(t) PROVE CallsMatch'
  BY <1>5 DEF Wait, ReadSeen, Check, Wake, Go
<1>6. ASSUME NEW t \in Threads, Add(t) PROVE CallsMatch'
  BY <1>6 DEF Add, Go, Ends
<1>7. ASSUME NEW t \in Threads, NotifyOne(t) \/ Return(t) \/ Abandon(t) PROVE CallsMatch'
  BY <1>7 DEF NotifyOne, Notify, Return, Abandon, Stop, Go, Ends, Sees
<1>8. CASE UNCHANGED vars
  BY <1>8 DEF vars
<1> QED
  BY <1>1, <1>2, <1>3, <1>4, <1>5, <1>6, <1>7, <1>8 DEF Next, InCall

\* No step puts a sleeper to rest beside a free permit: a thread goes to sleep on
\* finding none, and one that adds a permit has yet to notify.
LEMMA WakeupStep == TypeOK /\ NoLostWakeup /\ [Next]_vars => NoLostWakeup'
<1> SUFFICES ASSUME TypeOK, NoLostWakeup, [Next]_vars PROVE NoLostWakeup'
  OBVIOUS
<1> USE PermitsAssumption DEF TypeOK, NoLostWakeup, Asleep, WaitPoints
<1>1. CASE Other
  BY <1>1 DEF Other, NotifyOther
<1>2. ASSUME NEW t \in Threads, Invoke(t) \/ Return(t) \/ Abandon(t) PROVE NoLostWakeup'
  BY <1>2 DEF Invoke, Return, Abandon, Stop, Go
<1>3. ASSUME NEW t \in Threads, Load(t) PROVE NoLostWakeup'
  BY <1>3 DEF Load, Go
<1>4. ASSUME NEW t \in Threads, TryTake(t) PROVE NoLostWakeup'
  BY <1>4 DEF TryTake, Go
<1>5. ASSUME NEW t \in Threads, Wait(t) PROVE NoLostWakeup'
  BY <1>5 DEF Wait, ReadSeen, Check, Wake, Go
<1>6. ASSUME NEW t \in Threads, Add(t) PROVE NoLostWakeup'
  BY <1>6 DEF Add, Go
<1>7. ASSUME NEW t \in Threads, NotifyOne(t) PROVE NoLostWakeup'
  BY <1>7 DEF NotifyOne, Notify, Go
<1>8. CASE UNCHANGED vars
  BY <1>8 DEF vars
<1> QED
  BY <1>1, <1>2, <1>3, <1>4, <1>5, <1>6, <1>7, <1>8 DEF Next, InCall

LEMMA Invariance == Spec => []IInv
<1>1. IInv /\ [Next]_vars => IInv'
  BY TypeStep, CallsStep, WakeupStep DEF IInv
<1> QED
  BY InitIInv, <1>1, PTL DEF Spec

\* Types: the count of permits never leaves the range of its integer.
THEOREM TypeCorrect == Spec => []TypeOK
BY Invariance, PTL DEF IInv

\* While a thread sleeps in acquire and a permit is free, a notify is on its way.
THEOREM WakeupsAreNotLost == Spec => []NoLostWakeup
BY Invariance, PTL DEF IInv

\* The semaphore implements a plain count of permits.
LEMMA InitCount == Init => Count!Init
BY PermitsAssumption DEF Init, Count!Init

LEMMA StepCount == IInv /\ [Next]_vars => [Count!Next]_<<permits, call>>
<1> SUFFICES ASSUME IInv, [Next]_vars PROVE [Count!Next]_<<permits, call>>
  OBVIOUS
<1> USE PermitsAssumption DEF IInv, TypeOK, CallsMatch, WaitPoints, Count!Next, Count!Becomes
<1>1. CASE Other
  BY <1>1 DEF Other, NotifyOther
<1>2. ASSUME NEW t \in Threads, Invoke(t) PROVE Count!Invoke(t)
  BY <1>2 DEF Invoke, Go, Ends, Count!Invoke
<1>3. ASSUME NEW t \in Threads, Load(t) PROVE Count!Refuse(t) \/ UNCHANGED <<permits, call>>
  BY <1>3 DEF Load, Go, Ends, Count!Refuse
<1>4. ASSUME NEW t \in Threads, TryTake(t)
      PROVE Count!Take(t) \/ Count!Refuse(t) \/ UNCHANGED <<permits, call>>
  BY <1>4 DEF TryTake, Go, Ends, Count!Take, Count!Refuse
<1>5. ASSUME NEW t \in Threads, Wait(t) \/ NotifyOne(t) PROVE UNCHANGED <<permits, call>>
  BY <1>5 DEF Wait, NotifyOne
<1>6. ASSUME NEW t \in Threads, Add(t) PROVE Count!Give(t) \/ Count!Overflow(t)
  BY <1>6 DEF Add, Go, Ends, Count!Give, Count!Overflow
<1>7. ASSUME NEW t \in Threads, Return(t) PROVE Count!Return(t)
  BY <1>7 DEF Return, Go, Ends, Count!Return
<1>8. ASSUME NEW t \in Threads, Abandon(t) PROVE Count!Abandon(t)
  BY <1>8 DEF Abandon, Stop, Go, Ends, Count!Abandon
<1>9. CASE UNCHANGED vars
  BY <1>9 DEF vars
<1> QED
  BY <1>1, <1>2, <1>3, <1>4, <1>5, <1>6, <1>7, <1>8, <1>9 DEF Next, InCall

\* Every call on the semaphore takes effect at one moment, on a plain count.
THEOREM Refinement == Spec => ImplementsCount
BY InitCount, StepCount, Invariance, PTL DEF Spec, ImplementsCount, Count!Spec
=============================================================================
