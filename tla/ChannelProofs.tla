---------------------------- MODULE ChannelProofs --------------------------
(***************************************************************************)
(* Proofs about Channel, for any threads, values and capacity.                *)
(***************************************************************************)
EXTENDS Channel, SequenceTheorems, TLAPS

\* The places a thread stands in while it holds the channel's mutex.
Inside == {"body", "signal", "signal_recv", "unlock"}

\* The mutex: the thread inside is the one on record.
OneInside == \A t \in Threads : at[t] \in Inside <=> holder = t

\* A thread has a current read from the moment it found nothing to do to the
\* moment its sleep ends.
CurrentWaits ==
    /\ \A t \in Threads : at[t] = "signal_recv" => op[t] = "close"
    /\ \A t \in current : /\ op[t] \in {"send", "recv"}
                          /\ \/ at[t] = "unlock" /\ outcome[t] = "again"
                             \/ at[t] = "sleep"
    /\ \A t \in Threads : at[t] = "unlock" /\ outcome[t] = "again" =>
                             op[t] \in {"send", "recv", "recv_timeout"}
    /\ \A t \in Threads : at[t] \in {"signal", "signal_recv"} => outcome[t] # "again"

IInv == TypeOK /\ OneInside /\ CurrentWaits /\ NoLostWakeup

LEMMA InitIInv == Init => IInv
<1> SUFFICES ASSUME Init PROVE IInv
  OBVIOUS
<1> USE DEF Init
<1>1. TypeOK
  <2>1. head \in Slots /\ count \in 0..Cap
    BY CapAssumption DEF Slots
  <2> QED
    BY <2>1 DEF TypeOK, Outcomes
<1>2. OneInside /\ CurrentWaits /\ NoLostWakeup
  BY NoThreadAssumption DEF OneInside, Inside, CurrentWaits, NoLostWakeup
<1> QED
  BY <1>1, <1>2 DEF IInv

LEMMA SlotRange == \A i \in Nat : i % Cap \in Slots
BY CapAssumption DEF Slots

LEMMA TypeStep == TypeOK /\ [Next]_vars => TypeOK'
<1> SUFFICES ASSUME TypeOK, [Next]_vars PROVE TypeOK'
  OBVIOUS
<1> USE CapAssumption, SlotRange DEF TypeOK, Step, ring, Ops, Outcomes
<1>0. head + count \in Nat /\ head + 1 \in Nat
  BY DEF Slots
<1>1. ASSUME NEW t \in Threads, NEW o \in Ops, NEW v \in Values \cup {NoValue}, Call(t, o, v)
      PROVE  TypeOK'
  BY <1>1 DEF Call
<1>2. ASSUME NEW t \in Threads, Acquire(t) \/ Unlock(t) \/ Wake(t) \/ Stop(t) PROVE TypeOK'
  BY <1>2 DEF Acquire, Unlock, Wake, Stop
<1>3. ASSUME NEW t \in Threads, Return(t) \/ Close(t) \/ Poll(t) PROVE TypeOK'
  BY <1>3 DEF Return, Close, Poll
<1>4. ASSUME NEW t \in Threads, Signal(t) PROVE TypeOK'
  BY <1>4 DEF Signal
<1>5. ASSUME NEW t \in Threads, Send(t) PROVE TypeOK'
  BY <1>0, <1>5 DEF Send, ReadsCount
<1>6. ASSUME NEW t \in Threads, Recv(t) PROVE TypeOK'
  BY <1>0, <1>6 DEF Recv, Pop, ReadsCount
<1>7. CASE Drop
  BY <1>0, <1>7 DEF Drop
<1>8. CASE UNCHANGED vars
  BY <1>8 DEF vars
<1> QED
  BY <1>1, <1>2, <1>3, <1>4, <1>5, <1>6, <1>7, <1>8, MayCallAssumption DEF Next, InCall

LEMMA InsideStep == IInv /\ [Next]_vars => OneInside' /\ CurrentWaits'
<1> DEFINE Goal == OneInside' /\ CurrentWaits'
<1> SUFFICES ASSUME IInv, [Next]_vars PROVE Goal
  OBVIOUS
<1> USE NoThreadAssumption DEF IInv, TypeOK, OneInside, Inside, CurrentWaits, Step
<1>1. ASSUME NEW t \in Threads, NEW o \in Ops, NEW v \in Values \cup {NoValue}, Call(t, o, v)
      PROVE  Goal
  BY <1>1 DEF Call
<1>2. ASSUME NEW t \in Threads, Acquire(t) PROVE Goal
  BY <1>2 DEF Acquire
<1>3. ASSUME NEW t \in Threads, Unlock(t) PROVE Goal
  BY <1>3 DEF Unlock
<1>4. ASSUME NEW t \in Threads, Wake(t) \/ Stop(t) \/ Poll(t) PROVE Goal
  BY <1>4 DEF Wake, Stop, Poll
<1>5. ASSUME NEW t \in Threads, Return(t) PROVE Goal
  BY <1>5 DEF Return
<1>6. ASSUME NEW t \in Threads, Send(t) PROVE Goal
  BY <1>6 DEF Send, ReadsCount
<1>7. ASSUME NEW t \in Threads, Recv(t) PROVE Goal
  BY <1>7 DEF Recv, ReadsCount
<1>8. ASSUME NEW t \in Threads, Close(t) PROVE Goal
  BY <1>8 DEF Close
<1>9. ASSUME NEW t \in Threads, Signal(t) PROVE Goal
  <2>1. /\ current' \subseteq current /\ UNCHANGED <<holder, op, outcome>>
        /\ at[t] \in {"signal", "signal_recv"}
        /\ \/ at' = [at EXCEPT ![t] = "unlock"]
           \/ at' = [at EXCEPT ![t] = "signal_recv"] /\ op[t] = "close"
    BY <1>9 DEF Signal
  <2>2. OneInside'
    BY <2>1
  <2>3. t \notin current /\ outcome[t] # "again"
    BY <2>1
  <2> QED
    BY <2>1, <2>2, <2>3
<1>10. CASE Drop \/ UNCHANGED vars
  BY <1>10 DEF Drop, vars
<1> QED
  BY <1>1, <1>2, <1>3, <1>4, <1>5, <1>6, <1>7, <1>8, <1>9, <1>10, MayCallAssumption DEF Next, InCall

\* Only the thread inside makes the ring fit for a sleeper, and it moves the
\* sleeper's count before it leaves.
LEMMA WakeupStep == IInv /\ [Next]_vars => NoLostWakeup'
<1> SUFFICES ASSUME IInv, [Next]_vars PROVE NoLostWakeup'
  OBVIOUS
<1> USE CapAssumption, NoThreadAssumption
    DEF IInv, TypeOK, OneInside, Inside, CurrentWaits, NoLostWakeup, AboutToWake, Step, ring
<1>1. ASSUME NEW t \in Threads, NEW o \in Ops, NEW v \in Values \cup {NoValue}, Call(t, o, v)
      PROVE  NoLostWakeup'
  BY <1>1 DEF Call
<1>2. ASSUME NEW t \in Threads, Acquire(t) \/ Unlock(t) PROVE NoLostWakeup'
  BY <1>2 DEF Acquire, Unlock
<1>3. ASSUME NEW t \in Threads, Wake(t) \/ Stop(t) \/ Poll(t) PROVE NoLostWakeup'
  BY <1>3 DEF Wake, Stop, Poll
<1>4. ASSUME NEW t \in Threads, Return(t) PROVE NoLostWakeup'
  BY <1>4 DEF Return
<1>5. ASSUME NEW t \in Threads, Send(t) PROVE NoLostWakeup'
  BY <1>5 DEF Send, ReadsCount
<1>6. ASSUME NEW t \in Threads, Recv(t) PROVE NoLostWakeup'
  BY <1>6 DEF Recv, Pop, ReadsCount
<1>7. ASSUME NEW t \in Threads, Close(t) PROVE NoLostWakeup'
  BY <1>7 DEF Close
<1>8. ASSUME NEW t \in Threads, Signal(t) PROVE NoLostWakeup'
  BY <1>8 DEF Signal, Watching
<1>9. CASE Drop \/ UNCHANGED vars
  BY <1>9 DEF Drop, vars
<1> QED
  BY <1>1, <1>2, <1>3, <1>4, <1>5, <1>6, <1>7, <1>8, <1>9, MayCallAssumption DEF Next, InCall

LEMMA Invariance == Spec => []IInv
<1>1. IInv /\ [Next]_vars => IInv'
  BY TypeStep, InsideStep, WakeupStep DEF IInv
<1> QED
  BY InitIInv, <1>1, PTL DEF Spec

\* Types: the ring's indices stay inside it.
THEOREM TypeCorrect == Spec => []TypeOK
BY Invariance, PTL DEF IInv

\* A thread asleep on a count that has not moved has nothing to do, or is about
\* to be told.
THEOREM WakeupsAreNotLost == Spec => []NoLostWakeup
BY Invariance, PTL DEF IInv
-----------------------------------------------------------------------------
(* The ring is a queue.                                                      *)

LEMMA Wraps ==
    ASSUME NEW i \in 0..(2 * Cap - 1)
    PROVE  i % Cap = IF i < Cap THEN i ELSE i - Cap
<1>1. /\ i = Cap * (i \div Cap) + (i % Cap)
      /\ i % Cap \in 0..(Cap - 1) /\ i \div Cap \in Int
  BY CapAssumption
<1> QED
  BY <1>1, CapAssumption

Value == Values \cup {NoValue}

\* What `c` slots from `h` on make up.
Ring(s, h, c) == [i \in 1..c |-> s[(h + i - 1) % Cap]]

LEMMA RingIsSeq ==
    ASSUME NEW s \in [Slots -> Value], NEW h \in Slots, NEW c \in 0..Cap
    PROVE  /\ Ring(s, h, c) \in Seq(Value) /\ Len(Ring(s, h, c)) = c
           /\ \A i \in 1..c : Ring(s, h, c)[i] = s[(h + i - 1) % Cap]
<1>1. c \in Nat
  BY CapAssumption
<1>2. ASSUME NEW i \in 1..c PROVE s[(h + i - 1) % Cap] \in Value
  <2>1. h + i - 1 \in Nat
    BY <1>1, CapAssumption DEF Slots
  <2>2. (h + i - 1) % Cap \in Slots
    BY <2>1, SlotRange
  <2> QED
    BY <2>2
<1> QED
  BY <1>1, <1>2 DEF Ring

LEMMA ContentsIsSeq ==
    ASSUME TypeOK
    PROVE  /\ Contents \in Seq(Value) /\ Len(Contents) = count
           /\ \A i \in 1..count : Contents[i] = slots[(head + i - 1) % Cap]
<1>1. Contents = Ring(slots, head, count)
  BY DEF Contents, Ring
<1> QED
  BY <1>1, RingIsSeq DEF TypeOK, Value

\* A value put behind the last one is the queue's last.
LEMMA PutIsAppend ==
    ASSUME TypeOK, TypeOK', NEW v \in Value, count < Cap, head' = head, count' = count + 1,
           slots' = [slots EXCEPT ![(head + count) % Cap] = v]
    PROVE  Contents' = Append(Contents, v)
<1>1. /\ Contents \in Seq(Value) /\ Len(Contents) = count
      /\ \A i \in 1..count : Contents[i] = slots[(head + i - 1) % Cap]
  BY ContentsIsSeq
<1>2. /\ Contents' \in Seq(Value) /\ Len(Contents') = count + 1
      /\ \A i \in 1..(count + 1) : Contents'[i] = slots'[(head + i - 1) % Cap]
  <2>1. Contents' = Ring(slots', head', count')
    BY DEF Contents, Ring
  <2> DEFINE s == slots'
             h == head'
             c == count'
  <2>2. s \in [Slots -> Value] /\ h \in Slots /\ c \in 0..Cap
    BY DEF TypeOK, Value
  <2> HIDE DEF s, h, c
  <2>3. /\ Ring(s, h, c) \in Seq(Value) /\ Len(Ring(s, h, c)) = c
        /\ \A i \in 1..c : Ring(s, h, c)[i] = s[(h + i - 1) % Cap]
    BY <2>2, RingIsSeq
  <2> QED
    BY <2>1, <2>3 DEF s, h, c
<1> DEFINE q == Append(Contents, v)
<1>3. /\ q \in Seq(Value) /\ Len(q) = count + 1
      /\ \A i \in 1..count : q[i] = Contents[i]
      /\ q[count + 1] = v
  BY <1>1, AppendProperties
<1>4. \A i \in 1..(count + 1) : Contents'[i] = q[i]
  <2> SUFFICES ASSUME NEW i \in 1..(count + 1) PROVE Contents'[i] = q[i]
    OBVIOUS
  <2> DEFINE a == head + count
             b == head + i - 1
             last == a % Cap
             here == b % Cap
  <2>1. /\ a \in 0..(2 * Cap - 1) /\ b \in 0..(2 * Cap - 1)
        /\ head \in 0..(Cap - 1) /\ count \in Nat
    BY CapAssumption DEF TypeOK, Slots
  <2>2. /\ last = IF a < Cap THEN a ELSE a - Cap
        /\ here = IF b < Cap THEN b ELSE b - Cap
    <3> HIDE DEF a, b
    <3> QED
      BY <2>1, Wraps
  <2>3. here = last <=> i = count + 1
    BY <2>1, <2>2, CapAssumption
  <2>4. last \in Slots /\ here \in Slots
    BY <2>1, <2>2, CapAssumption DEF Slots
  <2>5. Contents'[i] = IF i = count + 1 THEN v ELSE slots[here]
    BY <1>2, <2>3, <2>4 DEF TypeOK
  <2>6. CASE i = count + 1
    BY <1>3, <2>5, <2>6
  <2>7. CASE i # count + 1
    <3>1. i \in 1..count
      BY <2>1, <2>7
    <3> QED
      BY <1>1, <1>3, <2>5, <2>7, <3>1
  <2> QED
    BY <2>6, <2>7
<1> HIDE DEF q
<1>5. Contents' = q
  BY <1>2, <1>3, <1>4, SeqEqual
<1> QED
  BY <1>5 DEF q

\* What is taken from the head was the queue's first.
LEMMA TakeIsTail ==
    ASSUME TypeOK, TypeOK', count > 0, head' = (head + 1) % Cap, count' = count - 1,
           slots' = [slots EXCEPT ![head] = NoValue]
    PROVE  /\ Contents # <<>> /\ Contents' = Tail(Contents)
           /\ Head(Contents) = slots[head]
<1>1. /\ Contents \in Seq(Value) /\ Len(Contents) = count
      /\ \A i \in 1..count : Contents[i] = slots[(head + i - 1) % Cap]
  BY ContentsIsSeq
<1>2. /\ Contents' \in Seq(Value) /\ Len(Contents') = count - 1
      /\ \A i \in 1..(count - 1) : Contents'[i] = slots'[(((head + 1) % Cap) + i - 1) % Cap]
  <2>1. Contents' = Ring(slots', head', count')
    BY DEF Contents, Ring
  <2> DEFINE s == slots'
             h == head'
             c == count'
  <2>2. s \in [Slots -> Value] /\ h \in Slots /\ c \in 0..Cap
    BY DEF TypeOK, Value
  <2> HIDE DEF s, h, c
  <2>3. /\ Ring(s, h, c) \in Seq(Value) /\ Len(Ring(s, h, c)) = c
        /\ \A i \in 1..c : Ring(s, h, c)[i] = s[(h + i - 1) % Cap]
    BY <2>2, RingIsSeq
  <2> QED
    BY <2>1, <2>3 DEF s, h, c
<1>3. head \in 0..(Cap - 1) /\ count \in 1..Cap /\ head % Cap = head
  BY CapAssumption, Wraps DEF TypeOK, Slots
<1>4. Contents # <<>> /\ Head(Contents) = slots[head]
  <2>1. Contents # <<>> /\ Head(Contents) = Contents[1]
    BY <1>1, <1>3
  <2>2. Contents[1] = slots[(head + 1 - 1) % Cap]
    BY <1>1, <1>3
  <2>3. head + 1 - 1 = head
    BY <1>3
  <2> QED
    BY <1>3, <2>1, <2>2, <2>3
<1> DEFINE q == Tail(Contents)
<1>5. /\ q \in Seq(Value) /\ Len(q) = count - 1
      /\ \A i \in 1..(count - 1) : q[i] = Contents[i + 1]
  BY <1>1, <1>4, HeadTailProperties
<1>6. \A i \in 1..(count - 1) : Contents'[i] = q[i]
  <2> SUFFICES ASSUME NEW i \in 1..(count - 1) PROVE Contents'[i] = q[i]
    OBVIOUS
  <2> DEFINE next == (head + 1) % Cap
             a == next + i - 1
             b == head + (i + 1) - 1
             here == a % Cap
             there == b % Cap
  <2>1. next = IF head + 1 < Cap THEN head + 1 ELSE head + 1 - Cap
    <3> DEFINE c == head + 1
    <3>1. c \in 0..(2 * Cap - 1)
      BY <1>3, CapAssumption
    <3>2. next = c % Cap
      OBVIOUS
    <3>3. c = head + 1
      OBVIOUS
    <3> HIDE DEF next, c
    <3>4. c % Cap = IF c < Cap THEN c ELSE c - Cap
      BY <3>1, Wraps
    <3> QED
      BY <1>3, <3>2, <3>3, <3>4, CapAssumption
  <2> HIDE DEF next
  <2>2. /\ a \in 0..(2 * Cap - 1) /\ b \in 0..(2 * Cap - 1)
        /\ b = head + i /\ i \in 1..(Cap - 1)
    BY <1>3, <2>1, CapAssumption
  <2>3. /\ here = IF a < Cap THEN a ELSE a - Cap
        /\ there = IF b < Cap THEN b ELSE b - Cap
    <3> HIDE DEF a, b
    <3> QED
      BY <2>2, Wraps
  <2>4. here \in Slots
    BY <2>2, <2>3, CapAssumption DEF Slots
  <2> HIDE DEF here, there
  <2>5. here = there /\ there # head
    BY <1>3, <2>1, <2>2, <2>3, CapAssumption
  <2>6. Contents'[i] = slots'[here]
    BY <1>2 DEF here, next
  <2>7. slots'[here] = slots[there]
    BY <2>4, <2>5 DEF TypeOK
  <2>8. q[i] = slots[there]
    <3>1. i + 1 \in 1..count
      BY <1>3
    <3> QED
      BY <1>1, <1>5, <3>1 DEF there
  <2> QED
    BY <2>6, <2>7, <2>8
<1> HIDE DEF q
<1>7. Contents' = q
  BY <1>2, <1>5, <1>6, SeqEqual
<1> QED
  BY <1>4, <1>7 DEF q

\* What each place in a call says of the call's value and outcome.
CallsMatch ==
    \A t \in Threads :
        /\ at[t] = "idle" <=> op[t] = "none"
        /\ at[t] = "idle" => value[t] = NoValue
        /\ at[t] \in {"idle", "lock", "body", "sleep", "poll"} => outcome[t] = "none"
        /\ at[t] \in {"signal", "signal_recv"} => outcome[t] \in {"ok", "some"}
        /\ at[t] = "unlock" => outcome[t] # "none"
        /\ at[t] = "done" => outcome[t] \notin {"none", "again"}
        /\ at[t] = "poll" => op[t] = "recv_timeout"
        /\ op[t] # "send" /\ outcome[t] \in {"none", "again"} => value[t] = NoValue

LEMMA CallsStep == IInv /\ CallsMatch /\ [Next]_vars => CallsMatch'
<1> SUFFICES ASSUME IInv, CallsMatch, [Next]_vars PROVE CallsMatch'
  OBVIOUS
<1> USE DEF IInv, TypeOK, CurrentWaits, CallsMatch, Step
<1>1. ASSUME NEW t \in Threads, NEW o \in Ops, NEW v \in Values \cup {NoValue}, Call(t, o, v)
      PROVE  CallsMatch'
  BY <1>1 DEF Call, Ops
<1>2. ASSUME NEW t \in Threads, Acquire(t) \/ Unlock(t) PROVE CallsMatch'
  BY <1>2 DEF Acquire, Unlock
<1>3. ASSUME NEW t \in Threads, Wake(t) \/ Stop(t) \/ Poll(t) PROVE CallsMatch'
  BY <1>3 DEF Wake, Stop, Poll
<1>4. ASSUME NEW t \in Threads, Return(t) PROVE CallsMatch'
  BY <1>4 DEF Return
<1>5. ASSUME NEW t \in Threads, Send(t) PROVE CallsMatch'
  BY <1>5 DEF Send, ReadsCount
<1>6. ASSUME NEW t \in Threads, Recv(t) PROVE CallsMatch'
  BY <1>6 DEF Recv, Pop, ReadsCount
<1>7. ASSUME NEW t \in Threads, Close(t) PROVE CallsMatch'
  BY <1>7 DEF Close
<1>8. ASSUME NEW t \in Threads, Signal(t) PROVE CallsMatch'
  BY <1>8 DEF Signal
<1>9. CASE Drop \/ UNCHANGED vars
  BY <1>9 DEF Drop, vars
<1> QED
  BY <1>1, <1>2, <1>3, <1>4, <1>5, <1>6, <1>7, <1>8, <1>9, MayCallAssumption DEF Next, InCall

-----------------------------------------------------------------------------
(* Every step is one of the queue's, or none.                                *)

calls == [t \in Threads |-> Effective(t)]

LEMMA InitQueue == Init => Queue!AInit
<1> SUFFICES ASSUME Init PROVE Queue!AInit
  OBVIOUS
<1>1. Contents = <<>>
  BY DEF Init, Contents
<1> QED
  BY <1>1 DEF Init, Queue!AInit, Queue!NoCall, Queue!NoValue, NoValue, Effective

Same == Contents' = Contents /\ closed' = closed

LEMMA RingUnchanged == UNCHANGED ring => Same
BY DEF ring, Same, Contents

\* What the queue sees of an outcome: a call that will try again has none yet.
Told(x) == IF x = "again" THEN "none" ELSE x

LEMMA CallOf ==
    ASSUME NEW t \in Threads
    PROVE  calls[t] = [op |-> op[t], value |-> value[t], outcome |-> Told(outcome[t])]
BY DEF calls, Effective, Told

LEMMA CallFields ==
    ASSUME NEW t \in Threads
    PROVE  calls[t].op = op[t] /\ calls[t].value = value[t] /\ calls[t].outcome = Told(outcome[t])
BY DEF calls, Effective, Told

\* A step of one thread changes that thread's call alone.
LEMMA CallChanges ==
    ASSUME NEW t \in Threads,
           \A s \in Threads \ {t} : /\ op'[s] = op[s] /\ value'[s] = value[s]
                                    /\ outcome'[s] = outcome[s]
    PROVE  calls' = [calls EXCEPT ![t] =
               [op |-> op'[t], value |-> value'[t], outcome |-> Told(outcome'[t])]]
<1> DEFINE r == [op |-> op'[t], value |-> value'[t], outcome |-> Told(outcome'[t])]
<1>2. \A s \in Threads : calls'[s] = [op |-> op'[s], value |-> value'[s], outcome |-> Told(outcome'[s])]
  BY DEF calls, Effective, Told
<1>3. \A s \in Threads : calls'[s] = IF s = t THEN r ELSE calls[s]
  <2> SUFFICES ASSUME NEW s \in Threads
               PROVE  calls'[s] = IF s = t THEN r ELSE calls[s]
    OBVIOUS
  <2>1. calls'[s] = [op |-> op'[s], value |-> value'[s], outcome |-> Told(outcome'[s])]
    BY <1>2
  <2>2. calls[s] = [op |-> op[s], value |-> value[s], outcome |-> Told(outcome[s])]
    BY CallOf
  <2>3. CASE s = t
    BY <2>1, <2>3
  <2>4. CASE s # t
    <3>1. op'[s] = op[s] /\ value'[s] = value[s] /\ outcome'[s] = outcome[s]
      BY <2>4
    <3> QED
      BY <2>1, <2>2, <2>4, <3>1
  <2> QED
    BY <2>3, <2>4
<1>4. calls = [s \in Threads |-> calls[s]] /\ calls' = [s \in Threads |-> calls'[s]]
  BY DEF calls
<1> DEFINE c == calls
           d == calls'
<1> HIDE DEF c, d, r
<1>5. d = [c EXCEPT ![t] = r]
  BY <1>3, <1>4 DEF c, d
<1> QED
  BY <1>5 DEF c, d, r

LEMMA CallsSame ==
    ASSUME IInv, UNCHANGED <<op, value>>, \A s \in Threads : Told(outcome'[s]) = Told(outcome[s])
    PROVE  calls' = calls
<1>1. \A s \in Threads : calls'[s] = [op |-> op'[s], value |-> value'[s], outcome |-> Told(outcome'[s])]
  BY DEF calls, Effective, Told
<1>2. \A s \in Threads : calls'[s] = calls[s]
  BY <1>1, CallOf
<1>3. calls = [s \in Threads |-> calls[s]] /\ calls' = [s \in Threads |-> calls'[s]]
  BY DEF calls
<1> QED
  BY <1>2, <1>3

LEMMA ToldSame ==
    ASSUME NEW t \in Threads, NEW x, IInv, outcome' = [outcome EXCEPT ![t] = x],
           x = outcome[t] \/ (x = "none" /\ outcome[t] = "again")
           \/ (x = "again" /\ outcome[t] = "none"), UNCHANGED <<op, value>>
    PROVE  calls' = calls
<1>1. \A s \in Threads : Told(outcome'[s]) = Told(outcome[s])
  <2> SUFFICES ASSUME NEW s \in Threads PROVE Told(outcome'[s]) = Told(outcome[s])
    OBVIOUS
  <2>1. CASE s = t
    <3>1. outcome'[s] = x
      BY <2>1 DEF IInv, TypeOK
    <3> QED
      BY <2>1, <3>1 DEF Told
  <2>2. CASE s # t
    <3>1. outcome'[s] = outcome[s]
      BY <2>2 DEF IInv, TypeOK
    <3> QED
      BY <3>1
  <2> QED
    BY <2>1, <2>2
<1> QED
  BY <1>1, CallsSame

\* The queue's Outcome, as the step of one thread.
LEMMA Decides ==
    ASSUME NEW t \in Threads, NEW v, NEW x, IInv, x # "again", op' = op,
           value' = [value EXCEPT ![t] = v], outcome' = [outcome EXCEPT ![t] = x]
    PROVE  Queue!Outcome(t, x, v)
<1>2. calls' = [calls EXCEPT ![t] = [op |-> op[t], value |-> v, outcome |-> x]]
  <2>1. \A s \in Threads \ {t} : /\ op'[s] = op[s] /\ value'[s] = value[s]
                                /\ outcome'[s] = outcome[s]
    BY DEF IInv, TypeOK
  <2>2. calls' = [calls EXCEPT ![t] =
            [op |-> op'[t], value |-> value'[t], outcome |-> Told(outcome'[t])]]
    BY <2>1, CallChanges
  <2>3. op'[t] = op[t] /\ value'[t] = v /\ outcome'[t] = x
    BY DEF IInv, TypeOK
  <2>4. Told(x) = x
    BY DEF Told
  <2> QED
    BY <2>2, <2>3, <2>4
<1>3. calls[t] = [op |-> op[t], value |-> value[t], outcome |-> Told(outcome[t])]
  BY CallOf
<1>4. calls = [s \in Threads |-> calls[s]]
  BY DEF calls
<1> DEFINE c == calls
<1> HIDE DEF c
<1>5. [c EXCEPT ![t] = [op |-> op[t], value |-> v, outcome |-> x]]
      = [c EXCEPT ![t].outcome = x, ![t].value = v]
  <2> DEFINE y == Told(outcome[t])
  <2> HIDE DEF y
  <2>1. c[t] = [op |-> op[t], value |-> value[t], outcome |-> y] /\ c = [s \in Threads |-> c[s]]
    BY <1>3, <1>4 DEF c, y
  <2> DEFINE o == op[t]
             d == [c EXCEPT ![t].outcome = x]
             e == [d EXCEPT ![t].value = v]
  <2> HIDE DEF o
  <2>2. d = [s \in Threads |-> d[s]] /\ e = [s \in Threads |-> e[s]]
    BY <2>1
  <2>3. d[t] = [op |-> o, value |-> value[t], outcome |-> x]
    BY <2>1 DEF o
  <2>4. \A s \in Threads \ {t} : e[s] = c[s]
    BY <2>1
  <2>5. e[t] = [op |-> o, value |-> v, outcome |-> x]
    <3> HIDE DEF d
    <3> QED
      BY <2>2, <2>3
  <2> HIDE DEF e
  <2>6. [c EXCEPT ![t] = [op |-> o, value |-> v, outcome |-> x]] = e
    BY <2>1, <2>2, <2>4, <2>5
  <2> QED
    BY <2>6 DEF o, e
<1> QED
  BY <1>2, <1>5 DEF Queue!Outcome, c, calls

LEMMA StepQueue ==
    IInv /\ TypeOK' /\ CallsMatch /\ [Next]_vars => [Queue!ANext]_<<Contents, closed, calls>>
<1> DEFINE Stutter == UNCHANGED <<Contents, closed, calls>>
<1> SUFFICES ASSUME IInv, TypeOK', CallsMatch, [Next]_vars
             PROVE  Queue!ANext \/ Stutter
  OBVIOUS
<1> USE DEF Queue!NoValue, NoValue
<1>0. ASSUME NEW t \in Threads
      PROVE  /\ op[t] \in Ops \cup {"none"} /\ outcome[t] \in Outcomes
             /\ value[t] \in Values \cup {NoValue}
             /\ op = [op EXCEPT ![t] = op[t]] /\ value = [value EXCEPT ![t] = value[t]]
  BY DEF IInv, TypeOK
<1>1. ASSUME NEW t \in Threads, NEW o \in Ops, NEW v \in Values \cup {NoValue}, Call(t, o, v)
      PROVE  Queue!Invoke(t, o, v)
  <2>1. Same
    BY <1>1, RingUnchanged DEF Call
  <2>2. calls[t] = Queue!NoCall
    BY <1>0, <1>1, CallOf DEF Call, CallsMatch, Queue!NoCall, Told
  <2>3. calls' = [calls EXCEPT ![t] = [op |-> o, value |-> v, outcome |-> "none"]]
    <3>1. /\ \A s \in Threads \ {t} : /\ op'[s] = op[s] /\ value'[s] = value[s]
                                     /\ outcome'[s] = outcome[s]
          /\ op'[t] = o /\ value'[t] = v /\ outcome'[t] = "none"
      <4>1. /\ op' = [op EXCEPT ![t] = o] /\ value' = [value EXCEPT ![t] = v]
            /\ outcome' = [outcome EXCEPT ![t] = "none"]
        BY <1>1 DEF Call, Step
      <4>2. op \in [Threads -> Ops \cup {"none"}] /\ value \in [Threads -> Values \cup {NoValue}]
            /\ outcome \in [Threads -> Outcomes]
        BY DEF IInv, TypeOK
      <4> QED
        BY <4>1, <4>2
    <3>2. calls' = [calls EXCEPT ![t] =
              [op |-> op'[t], value |-> value'[t], outcome |-> Told(outcome'[t])]]
      BY <3>1, CallChanges
    <3> QED
      BY <3>1, <3>2 DEF Told
  <2> QED
    BY <2>1, <2>2, <2>3 DEF Queue!Invoke, Same, calls, Told
<1>2. ASSUME NEW t \in Threads, Acquire(t) \/ Unlock(t) \/ Wake(t) \/ Signal(t) PROVE Stutter
  <2>1. Same
    BY <1>2, RingUnchanged DEF Acquire, Unlock, Wake, Signal
  <2>2. /\ UNCHANGED <<op, value>>
        /\ \/ outcome' = [outcome EXCEPT ![t] = "none"] /\ outcome[t] \in {"none", "again"}
           \/ outcome' = [outcome EXCEPT ![t] = outcome[t]]
    BY <1>0, <1>2 DEF Acquire, Unlock, Wake, Signal, Step, CallsMatch
  <2>3. calls' = calls
    BY <2>2, ToldSame
  <2> QED
    BY <2>1, <2>3 DEF Same
<1>3. ASSUME NEW t \in Threads, Return(t) PROVE Queue!Return(t)
  <2>1. Same
    BY <1>3, RingUnchanged DEF Return
  <2>2. calls[t].outcome # "none"
    BY <1>0, <1>3, CallFields DEF Return, CallsMatch, Told
  <2>3. calls' = [calls EXCEPT ![t] = [op |-> "none", value |-> NoValue, outcome |-> "none"]]
    <3>1. /\ \A s \in Threads \ {t} : /\ op'[s] = op[s] /\ value'[s] = value[s]
                                     /\ outcome'[s] = outcome[s]
          /\ op'[t] = "none" /\ value'[t] = NoValue /\ outcome'[t] = "none"
      <4>1. /\ op' = [op EXCEPT ![t] = "none"] /\ value' = [value EXCEPT ![t] = NoValue]
            /\ outcome' = [outcome EXCEPT ![t] = "none"]
        BY <1>3 DEF Return, Step
      <4>2. op \in [Threads -> Ops \cup {"none"}] /\ value \in [Threads -> Values \cup {NoValue}]
            /\ outcome \in [Threads -> Outcomes]
        BY DEF IInv, TypeOK
      <4> QED
        BY <4>1, <4>2
    <3>2. calls' = [calls EXCEPT ![t] =
              [op |-> op'[t], value |-> value'[t], outcome |-> Told(outcome'[t])]]
      BY <3>1, CallChanges
    <3> QED
      BY <3>1, <3>2 DEF Told
  <2> QED
    BY <2>1, <2>2, <2>3 DEF Queue!Return, Same, calls, Told, Queue!NoCall
<1>4. ASSUME NEW t \in Threads, Stop(t) PROVE Queue!Abandon(t)
  <2>1. Same
    BY <1>4, RingUnchanged DEF Stop
  <2>2. calls[t].op # "none" /\ calls[t].outcome = "none" /\ calls[t].value = value[t]
    <3>1. at[t] \in {"lock", "sleep", "poll"}
      BY <1>4 DEF Stop
    <3>2. op[t] # "none" /\ outcome[t] = "none"
      BY <3>1 DEF CallsMatch
    <3> QED
      BY <3>2, CallFields DEF Told
  <2>3. Queue!Outcome(t, "fault", value[t])
    <3>1. /\ op' = op /\ value' = [value EXCEPT ![t] = value[t]]
          /\ outcome' = [outcome EXCEPT ![t] = "fault"]
      BY <1>0, <1>4 DEF Stop, Step
    <3> QED
      BY <3>1, Decides
  <2> QED
    BY <2>1, <2>2, <2>3 DEF Queue!Abandon, Same, calls
<1>5. ASSUME NEW t \in Threads, Poll(t) PROVE Queue!RecvLate(t) \/ Stutter
  <2>1. Same
    BY <1>5, RingUnchanged DEF Poll
  <2>2. calls[t].op = "recv_timeout" /\ calls[t].outcome = "none" /\ value[t] = NoValue
    BY <1>0, <1>5, CallFields DEF Poll, CallsMatch, Told
  <2>3. CASE Step(t, "done", "empty")
    <3>1. Queue!Outcome(t, "empty", value[t])
      BY <1>0, <1>5, <2>3, Decides DEF Poll, Step
    <3> QED
      BY <2>1, <2>2, <3>1 DEF Queue!RecvLate, Queue!Pending, Same, calls
  <2>4. CASE Step(t, "lock", "none")
    <3>1. calls' = calls
      BY <1>5, <2>4, ToldSame DEF Step, Poll, CallsMatch
    <3> QED
      BY <2>1, <3>1 DEF Same
  <2> QED
    BY <1>5, <2>3, <2>4 DEF Poll
<1>6. ASSUME NEW t \in Threads, Close(t) PROVE Queue!Close(t)
  <2>1. Contents' = Contents
    BY <1>6 DEF Close, Contents
  <2>2. calls[t].op = "close" /\ calls[t].outcome = "none" /\ value[t] = NoValue
    BY <1>0, <1>6, CallFields DEF Close, CallsMatch, Told
  <2>3. Queue!Outcome(t, "ok", NoValue)
    BY <1>0, <1>6, <2>2, Decides DEF Close, Step
  <2> QED
    BY <1>6, <2>1, <2>2, <2>3 DEF Close, Queue!Close, Queue!Pending, calls
<1>7. ASSUME NEW t \in Threads, Send(t)
      PROVE  Queue!SendOk(t) \/ Queue!SendErr(t) \/ Stutter
  <2>1. /\ calls[t].op = "send" /\ calls[t].outcome = "none" /\ calls[t].value = value[t]
        /\ op' = op
    BY <1>0, <1>7, CallFields DEF Send, CallsMatch, Told
  <2>2. CASE closed /\ Step(t, "unlock", "err") /\ UNCHANGED <<ring, value, current>>
    <3>1. Queue!Outcome(t, "err", value[t])
      BY <1>0, <2>1, <2>2, Decides DEF Step
    <3> QED
      BY <2>1, <2>2, <3>1, RingUnchanged DEF Queue!SendErr, Queue!Pending, Same, calls
  <2>3. CASE /\ ~closed /\ count < Cap
             /\ slots' = [slots EXCEPT ![(head + count) % Cap] = value[t]]
             /\ count' = count + 1
             /\ value' = [value EXCEPT ![t] = NoValue]
             /\ Step(t, "signal", "ok")
             /\ UNCHANGED <<head, closed, current>>
    <3>1. Contents' = Append(Contents, value[t])
      BY <1>0, <2>3, PutIsAppend DEF IInv, Value
    <3>2. Len(Contents) < Cap
      BY <2>3, ContentsIsSeq DEF IInv
    <3>3. Queue!Outcome(t, "ok", NoValue)
      BY <2>1, <2>3, Decides DEF Step
    <3> QED
      BY <2>1, <2>3, <3>1, <3>2, <3>3 DEF Queue!SendOk, Queue!Pending, calls
  <2>4. CASE Step(t, "unlock", "again") /\ UNCHANGED <<ring, value>>
    <3>1. calls' = calls
      BY <1>7, <2>4, ToldSame DEF Step, Send, CallsMatch
    <3> QED
      BY <2>4, <3>1, RingUnchanged DEF Same
  <2> QED
    BY <1>7, <2>2, <2>3, <2>4 DEF Send
<1>8. ASSUME NEW t \in Threads, Recv(t)
      PROVE  Queue!RecvSome(t) \/ Queue!RecvEnd(t) \/ Queue!RecvEmpty(t) \/ Stutter
  <2>1. /\ calls[t].op = op[t] /\ op[t] \in {"recv", "try_recv", "recv_timeout"}
        /\ calls[t].outcome = "none" /\ value[t] = NoValue
        /\ op' = op
    BY <1>0, <1>8, CallFields DEF Recv, CallsMatch, Told
  <2>2. Contents = <<>> <=> count = 0
    BY ContentsIsSeq DEF IInv
  <2>3. CASE count > 0 /\ Pop(t) /\ Step(t, "signal", "some")
    <3>1. Contents # <<>> /\ Contents' = Tail(Contents) /\ Head(Contents) = slots[head]
      BY <2>3, TakeIsTail DEF IInv, Pop
    <3>2. Queue!Outcome(t, "some", slots[head])
      BY <2>1, <2>3, Decides DEF Step, Pop
    <3> QED
      BY <2>1, <2>3, <3>1, <3>2 DEF Queue!RecvSome, Queue!Receives, Queue!Pending, Pop, calls
  <2>4. CASE count = 0 /\ closed /\ Step(t, "unlock", "end") /\ UNCHANGED <<ring, value, current>>
    <3>1. Queue!Outcome(t, "end", NoValue)
      BY <1>0, <2>1, <2>4, Decides DEF Step
    <3> QED
      BY <2>1, <2>2, <2>4, <3>1, RingUnchanged
         DEF Queue!RecvEnd, Queue!Receives, Queue!Pending, Same, calls
  <2>5. CASE /\ count = 0 /\ ~closed /\ op[t] = "try_recv"
             /\ Step(t, "unlock", "empty") /\ UNCHANGED <<ring, value>>
    <3>1. Queue!Outcome(t, "empty", NoValue)
      BY <1>0, <2>1, <2>5, Decides DEF Step
    <3> QED
      BY <2>1, <2>2, <2>5, <3>1, RingUnchanged
         DEF Queue!RecvEmpty, Queue!Receives, Queue!Pending, Same, calls
  <2>6. CASE Step(t, "unlock", "again") /\ UNCHANGED <<ring, value>>
    <3>1. calls' = calls
      BY <1>8, <2>6, ToldSame DEF Step, Recv, CallsMatch
    <3> QED
      BY <2>6, <3>1, RingUnchanged DEF Same
  <2> QED
    BY <1>8, <2>3, <2>4, <2>5, <2>6 DEF Recv
<1>9. CASE Drop
  <2>1. \A t \in Threads : calls[t] = Queue!NoCall
    BY <1>0, <1>9, CallOf DEF Drop, CallsMatch, Queue!NoCall, Told
  <2>2. Contents # <<>> /\ Contents' = Tail(Contents)
    BY <1>9, TakeIsTail DEF IInv, Drop
  <2>3. calls' = calls
    BY <1>9, CallsSame DEF Drop
  <2> QED
    BY <1>9, <2>1, <2>2, <2>3 DEF Queue!Discard, Queue!ANext, Drop, calls
<1>10. CASE UNCHANGED vars
  BY <1>10, CallsSame, RingUnchanged DEF vars, ring, Same
<1> QED
  BY <1>1, <1>2, <1>3, <1>4, <1>5, <1>6, <1>7, <1>8, <1>9, <1>10, MayCallAssumption
     DEF Next, InCall, Queue!ANext, Queue!Ops, Ops

\* The ring, its mutex and its counts implement a first-in first-out queue on
\* which every call takes effect at one moment, for any number of threads and
\* any capacity.
THEOREM Refinement == Spec => ImplementsQueue
<1>1. Init => CallsMatch
  BY DEF Init, CallsMatch
<1>2. IInv /\ CallsMatch /\ [Next]_vars => CallsMatch'
  BY CallsStep
<1>3. Spec => []CallsMatch
  BY <1>1, <1>2, Invariance, PTL DEF Spec
<1>4. IInv' => TypeOK'
  BY DEF IInv
<1>5. IInv /\ IInv' /\ CallsMatch /\ [Next]_vars => [Queue!ANext]_<<Contents, closed, calls>>
  BY <1>4, StepQueue
<1>6. IInv /\ IInv' /\ CallsMatch /\ [Next]_vars
      => [Queue!ANext]_<<Contents, closed, [t \in Threads |-> Effective(t)]>>
  BY <1>5 DEF calls
<1> QED
  BY <1>3, <1>6, InitQueue, Invariance, PTL DEF Spec, ImplementsQueue, Queue!ASpec, Queue!aVars
=============================================================================
