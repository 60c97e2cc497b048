---------------------------- MODULE AtomicProofs ----------------------------
(***************************************************************************)
(* Proofs about two users of AtomicWait: Barrier, for any finite set of        *)
(* threads, any number of parties, of calls, and any number to wrap at; and    *)
(* Once, for any set of threads.  They share `at` and `current`, but no        *)
(* formula is about the two at once.                                          *)
(***************************************************************************)
EXTENDS Barrier, Once, FiniteSetTheorems, WellFoundedInduction, TLAPS

-----------------------------------------------------------------------------
(* Sums over a finite set.                                                   *)

\* Induction over the numbers, of a set of them.
LEMMA AllNumbers ==
    ASSUME NEW Q, 0 \in Q, \A n \in Nat : n \in Q => n + 1 \in Q
    PROVE  Nat \subseteq Q
<1> SUFFICES ASSUME Nat \ Q # {} PROVE FALSE
  OBVIOUS
<1>1. PICK x \in Nat \ Q : \A y \in Nat \ Q : ~(<<y, x>> \in OpToRel(<, Nat))
  BY WFMin, NatLessThanWellFounded
<1>2. x \in Nat /\ x \notin Q
  BY <1>1, Zenon
<1>3. x - 1 \in Nat
  BY <1>2
<1> DEFINE y == x - 1
<1>4. y \in Nat /\ y < x /\ y + 1 = x
  BY <1>2, <1>3
<1> HIDE DEF y
<1>5. <<y, x>> \in OpToRel(<, Nat)
  <2>1. /\ <<y, x>> \in Nat \X Nat
        /\ <<y, x>>[1] = y /\ <<y, x>>[2] = x
    BY <1>2, <1>4
  <2> QED
    BY <1>4, <2>1 DEF OpToRel
<1>6. y \in Q
  BY <1>1, <1>4, <1>5, Zenon
<1> QED
  BY <1>2, <1>4, <1>6

\* The sum takes one element after another out of the set.
First(s) == CHOOSE x \in s : TRUE
Rest(s) == s \ {First(s)}
Term(g, f, s) == IF s = {} THEN 0 ELSE f[First(s)] + g[Rest(s)]
Sums(g, f, T) == g = [s \in SUBSET T |-> Term(g, f, s)]

LEMMA RestIs ==
    ASSUME NEW T, IsFiniteSet(T), NEW s \in SUBSET T
    PROVE  /\ Cardinality(s) \in Nat
           /\ s = {} <=> Cardinality(s) = 0
           /\ s # {} => /\ First(s) \in s /\ Rest(s) \in SUBSET T
                        /\ Cardinality(Rest(s)) + 1 = Cardinality(s)
<1>1. IsFiniteSet(s) /\ Cardinality(s) \in Nat
  BY FS_Subset, FS_CardinalityType
<1>2. s = {} <=> Cardinality(s) = 0
  BY <1>1, FS_EmptySet
<1>3. ASSUME s # {} PROVE First(s) \in s
  BY <1>3 DEF First
<1>4. ASSUME s # {} PROVE Cardinality(Rest(s)) = Cardinality(s) - 1
  BY <1>1, <1>3, <1>4, FS_RemoveElement DEF Rest
<1> QED
  BY <1>1, <1>2, <1>3, <1>4 DEF Rest

LEMMA AllSubsets ==
    ASSUME NEW T, IsFiniteSet(T), NEW Q,
           \A s \in SUBSET T : (s # {} => Rest(s) \in Q) => s \in Q
    PROVE  SUBSET T \subseteq Q
<1> DEFINE R == {n \in Nat : \A s \in SUBSET T : Cardinality(s) = n => s \in Q}
<1>1. 0 \in R
  BY RestIs
<1>2. \A n \in Nat : n \in R => n + 1 \in R
  <2> SUFFICES ASSUME NEW n \in Nat, n \in R, NEW s \in SUBSET T, Cardinality(s) = n + 1
               PROVE  s \in Q
    OBVIOUS
  <2>1. /\ s # {} /\ Rest(s) \in SUBSET T
        /\ Cardinality(Rest(s)) + 1 = n + 1 /\ Cardinality(Rest(s)) \in Nat
    <3>1. s # {}
      BY RestIs
    <3> QED
      BY <3>1, RestIs
  <2>2. Cardinality(Rest(s)) = n
    BY <2>1
  <2> QED
    BY <2>1, <2>2
<1> HIDE DEF R
<1>3. Nat \subseteq R
  BY <1>1, <1>2, AllNumbers
<1> QED
  BY <1>3, RestIs DEF R

LEMMA SumsExist == ASSUME NEW T, IsFiniteSet(T), NEW f PROVE \E g : Sums(g, f, T)
<1> DEFINE D(n) == {s \in SUBSET T : Cardinality(s) <= n}
           Q == {n \in Nat : \E g : g = [s \in D(n) |-> Term(g, f, s)]}
<1>1. 0 \in Q
  <2> DEFINE g == [s \in D(0) |-> 0]
  <2>1. \A s \in D(0) : s = {}
    BY RestIs
  <2>2. g = [s \in D(0) |-> Term(g, f, s)]
    BY <2>1, Zenon DEF Term
  <2> QED
    BY <2>2
<1>2. \A n \in Nat : n \in Q => n + 1 \in Q
  <2> SUFFICES ASSUME NEW n \in Nat, n \in Q PROVE n + 1 \in Q
    OBVIOUS
  <2>1. PICK g : g = [s \in D(n) |-> Term(g, f, s)]
    OBVIOUS
  <2> DEFINE h == [s \in D(n + 1) |-> Term(g, f, s)]
  <2>2. \A s \in D(n) : s \in D(n + 1)
    BY RestIs
  <2>3. \A s \in D(n + 1) : s # {} => Rest(s) \in D(n)
    BY RestIs
  <2>4. \A s \in D(n) : h[s] = g[s]
    BY <2>1, <2>2
  <2>5. \A s \in D(n + 1) : Term(g, f, s) = Term(h, f, s)
    BY <2>3, <2>4 DEF Term
  <2>6. h = [s \in D(n + 1) |-> Term(h, f, s)]
    BY <2>5
  <2> HIDE DEF h, D
  <2>7. \E k : k = [s \in D(n + 1) |-> Term(k, f, s)]
    BY <2>6
  <2> QED
    BY <2>7
<1> HIDE DEF Q
<1>3. Cardinality(T) \in Nat /\ Cardinality(T) \in Q
  BY <1>1, <1>2, AllNumbers, FS_CardinalityType
<1>4. D(Cardinality(T)) = SUBSET T
  BY FS_Subset
<1> QED
  BY <1>3, <1>4 DEF Q, Sums

\* The sums of a function over the sets of threads.
SumOf(f) == CHOOSE g : Sums(g, f, Threads)

LEMMA TotalIs ==
    ASSUME NEW f
    PROVE  /\ Total(f) = SumOf(f)[Threads]
           /\ SumOf(f)[{}] = 0
           /\ \A s \in SUBSET Threads : s # {} => SumOf(f)[s] = f[First(s)] + SumOf(f)[Rest(s)]
<1>1. Sums(SumOf(f), f, Threads)
  BY SumsExist, PartiesAssumption DEF SumOf
<1>2. Total(f) = SumOf(f)[Threads]
  BY DEF Total, MapThenSumSet, MapThenFoldSet, SumOf, Sums, Term, First, Rest
<1>3. \A s \in SUBSET Threads : SumOf(f)[s] = Term(SumOf(f), f, s)
  BY <1>1 DEF Sums
<1> QED
  BY <1>2, <1>3 DEF Term

LEMMA TotalIsNat == ASSUME NEW f \in [Threads -> Nat] PROVE Total(f) \in Nat
<1> DEFINE Q == {s \in SUBSET Threads : SumOf(f)[s] \in Nat}
<1>1. ASSUME NEW s \in SUBSET Threads, s # {} => Rest(s) \in Q PROVE s \in Q
  <2>1. CASE s = {}
    BY <2>1, TotalIs
  <2>2. CASE s # {}
    <3>1. First(s) \in Threads
      BY <2>2, RestIs, PartiesAssumption
    <3>2. SumOf(f)[Rest(s)] \in Nat /\ SumOf(f)[s] = f[First(s)] + SumOf(f)[Rest(s)]
      BY <1>1, <2>2, TotalIs
    <3> QED
      BY <3>1, <3>2
  <2> QED
    BY <2>1, <2>2
<1> HIDE DEF Q
<1>2. SUBSET Threads \subseteq Q
  BY <1>1, AllSubsets, PartiesAssumption
<1> QED
  BY <1>2, TotalIs DEF Q

LEMMA TotalOfZero == Total(Zero) = 0
<1> DEFINE Q == {s \in SUBSET Threads : SumOf(Zero)[s] = 0}
<1>1. ASSUME NEW s \in SUBSET Threads, s # {} => Rest(s) \in Q PROVE s \in Q
  BY <1>1, TotalIs, RestIs, PartiesAssumption DEF Zero
<1> HIDE DEF Q
<1>2. SUBSET Threads \subseteq Q
  BY <1>1, AllSubsets, PartiesAssumption
<1> QED
  BY <1>2, TotalIs DEF Q

LEMMA TotalOfTally ==
    ASSUME NEW f \in [Threads -> Nat], NEW t \in Threads
    PROVE  Total(Tally(f, t)) = Total(f) + 1
<1> DEFINE h == Tally(f, t)
           Q == {s \in SUBSET Threads : /\ SumOf(f)[s] \in Nat
                                        /\ SumOf(h)[s] = SumOf(f)[s] + (IF t \in s THEN 1 ELSE 0)}
<1>1. \A u \in Threads : f[u] \in Nat /\ h[u] = f[u] + (IF u = t THEN 1 ELSE 0)
  BY DEF Tally
<1> HIDE DEF h
<1>2. ASSUME NEW s \in SUBSET Threads, s # {} => Rest(s) \in Q PROVE s \in Q
  <2>1. CASE s = {}
    BY <2>1, TotalIs
  <2>2. CASE s # {}
    <3>1. /\ First(s) \in s /\ First(s) \in Threads /\ Rest(s) = s \ {First(s)}
      BY <2>2, RestIs, PartiesAssumption DEF Rest
    <3>2. /\ SumOf(f)[Rest(s)] \in Nat
          /\ SumOf(h)[Rest(s)] = SumOf(f)[Rest(s)] + (IF t \in Rest(s) THEN 1 ELSE 0)
      BY <1>2, <2>2
    <3>3. /\ SumOf(f)[s] = f[First(s)] + SumOf(f)[Rest(s)]
          /\ SumOf(h)[s] = h[First(s)] + SumOf(h)[Rest(s)]
      BY <2>2, TotalIs
    <3>4. (IF t \in s THEN 1 ELSE 0)
            = (IF First(s) = t THEN 1 ELSE 0) + (IF t \in Rest(s) THEN 1 ELSE 0)
      BY <3>1
    <3> QED
      BY <1>1, <3>1, <3>2, <3>3, <3>4
  <2> QED
    BY <2>1, <2>2
<1> HIDE DEF Q
<1>3. SUBSET Threads \subseteq Q
  BY <1>2, AllSubsets, PartiesAssumption
<1> QED
  BY <1>3, TotalIs DEF Q, h

-----------------------------------------------------------------------------
(* The barrier.                                                              *)

\* A thread waits for the end of a round, on the value or in the wake count.
Held == WaitPoints \cup {"again"}

\* Who has arrived in the round under way; it is round `Leaders`, from 0.
Arrivals == {t \in Threads : at[t] \in Held \cup {"reset", "gone"} /\ left[t] = Leaders}

\* The program's two numbers, told from the calls; a round all have arrived in is
\* being ended.
Counted ==
    /\ generation = Leaders % Wrap
    /\ arrived = IF \E t \in Threads : at[t] = "bump" THEN 0 ELSE Cardinality(Arrivals)
    /\ Cardinality(Arrivals) = Parties => \E t \in Threads : at[t] \in {"reset", "bump"}

\* How far a thread is with its calls, told from its place: it is in the round under
\* way, or was released from the one before and has yet to leave.
PlaceSays ==
    \A t \in Threads :
        /\ entered[t] = left[t] + (IF at[t] = "idle" THEN 0 ELSE 1)
        /\ leader[t] <= left[t]
        /\ at[t] \in {"idle", "load", "arrive", "reset", "bump"} => left[t] = Leaders
        /\ at[t] = "arrive" => round[t] = generation
        /\ at[t] = "notify" => left[t] + 1 = Leaders
        /\ at[t] \in Held => \/ left[t] = Leaders /\ round[t] = generation
                             \/ left[t] + 1 = Leaders /\ round[t] # generation
        /\ at[t] = "gone" => left[t] = Leaders \/ left[t] + 1 = Leaders

\* While one thread ends a round, all the others have arrived in it.
LastIn ==
    \A t, u \in Threads :
        at[t] \in {"reset", "bump"} /\ u # t => at[u] \in Held \cup {"gone"} /\ left[u] = Leaders

\* A thread asleep on a round that has ended is about to be notified.
SleepersReleased ==
    \A t \in Threads : Asleep(t) /\ left[t] < Leaders => \E u \in Threads : at[u] = "notify"

BarrierInv == TypeOK /\ Counted /\ PlaceSays /\ LastIn /\ SleepersReleased

Telling == {t \in Threads : at[t] = "notify"}

LEMMA Facts ==
    ASSUME TypeOK
    PROVE  /\ IsFiniteSet(Threads) /\ IsFiniteSet(Telling) /\ IsFiniteSet(Arrivals)
           /\ Leaders = Total(leader) + Cardinality(Telling)
           /\ Total(leader) \in Nat /\ Cardinality(Telling) \in Nat /\ Leaders \in Nat
           /\ Cardinality(Arrivals) \in 0..Cardinality(Threads) /\ Cardinality(Threads) \in Nat
           /\ \A t \in Threads : entered[t] \in Nat /\ left[t] \in Nat /\ leader[t] \in Nat
           /\ leader \in [Threads -> Nat] /\ generation \in Nat
<1>1. IsFiniteSet(Threads)
  BY PartiesAssumption
<1>2. Telling \in SUBSET Threads /\ Arrivals \in SUBSET Threads
  BY DEF Telling, Arrivals
<1>3. /\ IsFiniteSet(Telling) /\ IsFiniteSet(Arrivals)
      /\ Cardinality(Telling) \in Nat /\ Cardinality(Arrivals) \in Nat
      /\ Cardinality(Threads) \in Nat
      /\ Cardinality(Arrivals) <= Cardinality(Threads)
  BY <1>1, <1>2, FS_Subset, FS_CardinalityType
<1>4. /\ \A t \in Threads : entered[t] \in Nat /\ left[t] \in Nat /\ leader[t] \in Nat
      /\ leader \in [Threads -> Nat] /\ generation \in Nat
  BY PartiesAssumption DEF TypeOK
<1>5. Total(leader) \in Nat
  BY <1>4, TotalIsNat
<1>6. Leaders = Total(leader) + Cardinality(Telling)
  BY DEF Leaders, Telling
<1> QED
  BY <1>1, <1>3, <1>4, <1>5, <1>6

\* The rounds ended are as many as before, unless a thread moves the generation.
LEMMA LeadersSame ==
    ASSUME UNCHANGED leader, \A u \in Threads : at'[u] = "notify" <=> at[u] = "notify"
    PROVE  Leaders' = Leaders
<1>1. Telling' = Telling
  BY DEF Telling
<1> QED
  BY <1>1 DEF Leaders, Telling

LEMMA LeadersAfterBump ==
    ASSUME TypeOK, NEW t \in Threads, Bump(t) PROVE Leaders' = Leaders + 1
<1>1. Telling' = Telling \cup {t} /\ t \notin Telling /\ leader' = leader
  BY DEF Telling, Bump, Go, TypeOK, history
<1>2. Cardinality(Telling') = Cardinality(Telling) + 1
  BY <1>1, Facts, FS_AddElement
<1>3. Leaders' = Total(leader) + Cardinality(Telling')
  BY <1>1 DEF Leaders, Telling
<1> QED
  BY <1>2, <1>3, Facts

LEMMA LeadersAfterRelease ==
    ASSUME TypeOK, NEW t \in Threads, Release(t) PROVE Leaders' = Leaders
<1>1. Telling' = Telling \ {t} /\ t \in Telling /\ leader' = Tally(leader, t)
  BY DEF Telling, Release, Notify, Go, TypeOK
<1>2. Cardinality(Telling') = Cardinality(Telling) - 1
  BY <1>1, Facts, FS_RemoveElement
<1>3. Leaders' = Total(leader') + Cardinality(Telling')
  BY DEF Leaders, Telling
<1>4. Total(leader') = Total(leader) + 1
  BY <1>1, Facts, TotalOfTally
<1> QED
  BY <1>2, <1>3, <1>4, Facts

LEMMA RemainderIs ==
    ASSUME NEW q \in Nat, NEW r \in 0..(Wrap - 1) PROVE (Wrap * q + r) % Wrap = r
<1>1. Wrap \in Nat /\ Wrap > 1
  BY PartiesAssumption
<1> DEFINE m == Wrap * q + r
           d == m \div Wrap
           s == m % Wrap
<1>2. m \in Nat
  BY <1>1
<1>3. d \in Int /\ s \in 0..(Wrap - 1) /\ m = Wrap * d + s
  <2> HIDE DEF m
  <2> QED
    BY <1>1, <1>2
<1> DEFINE k == q - d
<1>4. k \in Int /\ Wrap * k = s - r
  <2>1. Wrap * q + r = Wrap * d + s
    BY <1>3
  <2> HIDE DEF d, s, m
  <2>2. Wrap * (q - d) = Wrap * q - Wrap * d
    BY <1>1, <1>3
  <2> QED
    BY <1>1, <1>3, <2>1, <2>2
<1> HIDE DEF d, s, k, m
<1>5. k >= 1 => Wrap * k >= Wrap
  BY <1>1, <1>4
<1>6. k <= 0 - 1 => Wrap * k <= 0 - Wrap
  BY <1>1, <1>4
<1>7. k = 0
  BY <1>1, <1>3, <1>4, <1>5, <1>6
<1>8. s = r
  BY <1>1, <1>3, <1>4, <1>7
<1> QED
  BY <1>8 DEF s, m

\* A number and its successor differ modulo Wrap.
LEMMA Wraps ==
    ASSUME NEW n \in Nat
    PROVE  /\ n % Wrap \in 0..(Wrap - 1)
           /\ (n + 1) % Wrap = ((n % Wrap) + 1) % Wrap
           /\ (n + 1) % Wrap # n % Wrap
<1>1. Wrap \in Nat /\ Wrap > 1
  BY PartiesAssumption
<1> DEFINE q == n \div Wrap
           r == n % Wrap
<1>2. q \in Nat /\ r \in 0..(Wrap - 1) /\ n = Wrap * q + r
  BY <1>1
<1> HIDE DEF q, r
<1>3. CASE r + 1 < Wrap
  <2>1. r + 1 \in 0..(Wrap - 1) /\ n + 1 = Wrap * q + (r + 1)
    BY <1>1, <1>2, <1>3
  <2>2. (n + 1) % Wrap = r + 1
    BY <2>1, <1>2, RemainderIs
  <2>3. r + 1 = Wrap * 0 + (r + 1)
    BY <1>1, <1>2
  <2>4. (r + 1) % Wrap = r + 1
    BY <2>1, <2>3, RemainderIs
  <2> QED
    BY <1>2, <2>2, <2>4 DEF r
<1>4. CASE r + 1 = Wrap
  <2>1. q + 1 \in Nat /\ 0 \in 0..(Wrap - 1) /\ 1 \in Nat
    BY <1>1, <1>2
  <2>2. n + 1 = Wrap * (q + 1) + 0
    BY <1>1, <1>2, <1>4
  <2>3. (n + 1) % Wrap = 0
    BY <2>1, <2>2, RemainderIs
  <2>4. r + 1 = Wrap * 1 + 0
    BY <1>1, <1>4
  <2>5. (r + 1) % Wrap = 0
    BY <2>1, <2>4, RemainderIs
  <2> QED
    BY <1>1, <1>2, <1>4, <2>3, <2>5 DEF r
<1> QED
  BY <1>1, <1>2, <1>3, <1>4

-----------------------------------------------------------------------------
(* The steps.                                                                *)

\* A step that leaves the program's two numbers alone leaves the rounds, who has
\* arrived and who is between reset and bump as they were.
LEMMA Still ==
    ASSUME Counted, UNCHANGED <<arrived, generation>>, Leaders' = Leaders,
           \A u \in Threads : /\ at'[u] = "bump" <=> at[u] = "bump"
                              /\ at'[u] \in {"reset", "bump"} <=> at[u] \in {"reset", "bump"}
                              /\ u \in Arrivals' <=> u \in Arrivals
    PROVE  Counted'
<1>1. Arrivals' = Arrivals
  BY DEF Arrivals
<1> QED
  BY <1>1 DEF Counted

LEMMA BarrierInit == Init => BarrierInv
<1> SUFFICES ASSUME Init PROVE BarrierInv
  OBVIOUS
<1>1. TypeOK
  BY PartiesAssumption, FS_CardinalityType DEF Init, TypeOK, Zero
<1>2. Leaders = 0
  <2>1. Telling = {}
    BY DEF Init, Telling
  <2>2. Cardinality(Telling) = 0
    BY <2>1, FS_EmptySet
  <2> QED
    BY <2>2, TotalOfZero DEF Init, Leaders, Telling
<1>3. Cardinality(Arrivals) = 0
  <2>1. Arrivals = {}
    BY DEF Init, Arrivals, Held, WaitPoints
  <2> QED
    BY <2>1, FS_EmptySet
<1>4. 0 % Wrap = 0
  <2>1. 0 = Wrap * 0 + 0 /\ 0 \in 0..(Wrap - 1)
    BY PartiesAssumption
  <2> QED
    BY <2>1, RemainderIs
<1>5. Counted
  BY <1>2, <1>3, <1>4, PartiesAssumption DEF Init, Counted
<1> QED
  BY <1>1, <1>2, <1>5 DEF Init, BarrierInv, PlaceSays, LastIn, SleepersReleased, Asleep,
                           Held, WaitPoints, Zero

LEMMA CallStep == ASSUME BarrierInv, NEW t \in Threads, Call(t) PROVE BarrierInv'
<1> USE DEF BarrierInv, Call, Go, history, Held, WaitPoints
<1>1. TypeOK'
  BY PartiesAssumption DEF TypeOK, Tally
<1>2. Leaders' = Leaders
  BY LeadersSame DEF TypeOK
<1>3. Counted'
  BY <1>2, Still DEF TypeOK, Arrivals
<1>4. PlaceSays'
  BY <1>2, Facts DEF TypeOK, PlaceSays, Tally
<1>5. LastIn' /\ SleepersReleased'
  BY <1>2 DEF TypeOK, LastIn, SleepersReleased, Asleep
<1> QED
  BY <1>1, <1>3, <1>4, <1>5

LEMMA LoadRoundStep == ASSUME BarrierInv, NEW t \in Threads, LoadRound(t) PROVE BarrierInv'
<1> USE DEF BarrierInv, LoadRound, Go, history, Held, WaitPoints
<1>1. TypeOK'
  BY DEF TypeOK
<1>2. Leaders' = Leaders
  BY LeadersSame DEF TypeOK
<1>3. Counted'
  BY <1>2, Still DEF TypeOK, Arrivals
<1>4. PlaceSays'
  BY <1>2, Facts DEF TypeOK, PlaceSays
<1>5. LastIn' /\ SleepersReleased'
  BY <1>2 DEF TypeOK, LastIn, SleepersReleased, Asleep
<1> QED
  BY <1>1, <1>3, <1>4, <1>5

LEMMA WaitStep == ASSUME BarrierInv, NEW t \in Threads, Wait(t) \/ Abandon(t) PROVE BarrierInv'
<1> USE DEF BarrierInv, Wait, Abandon, Stop, ReadSeen, Check, Wake, Go, history, Held, WaitPoints
<1>1. TypeOK'
  BY DEF TypeOK
<1>2. Leaders' = Leaders
  BY LeadersSame DEF TypeOK
<1>3. Counted'
  BY <1>2, Still DEF TypeOK, Arrivals
<1>4. PlaceSays'
  BY <1>2, Facts DEF TypeOK, PlaceSays
<1>5. LastIn'
  BY <1>2 DEF TypeOK, LastIn
<1>6. SleepersReleased'
  BY <1>2, Facts DEF TypeOK, SleepersReleased, Asleep, PlaceSays
<1> QED
  BY <1>1, <1>3, <1>4, <1>5, <1>6

LEMMA AgainStep == ASSUME BarrierInv, NEW t \in Threads, Again(t) PROVE BarrierInv'
<1> USE DEF BarrierInv, Again, Go, history, Held, WaitPoints
<1>1. TypeOK'
  BY PartiesAssumption, Facts DEF TypeOK, Tally, PlaceSays
<1>2. Leaders' = Leaders
  BY LeadersSame DEF TypeOK
<1>3. Counted'
  BY <1>2, Still, Facts DEF TypeOK, Arrivals, PlaceSays, Tally
<1>4. PlaceSays'
  BY <1>2, Facts DEF TypeOK, PlaceSays, Tally
<1>5. LastIn'
  BY <1>2, Facts DEF TypeOK, LastIn, PlaceSays, Tally
<1>6. SleepersReleased'
  BY <1>2, Facts DEF TypeOK, SleepersReleased, Asleep, Tally
<1> QED
  BY <1>1, <1>3, <1>4, <1>5, <1>6

LEMMA ReleaseStep == ASSUME BarrierInv, NEW t \in Threads, Release(t) PROVE BarrierInv'
<1> USE DEF BarrierInv, Release, Notify, Go, Held, WaitPoints
<1>1. TypeOK'
  BY PartiesAssumption, Facts DEF TypeOK, Tally, PlaceSays
<1>2. Leaders' = Leaders
  BY LeadersAfterRelease
<1>3. Counted'
  BY <1>2, Still, Facts DEF TypeOK, Arrivals, PlaceSays, Tally
<1>4. PlaceSays'
  BY <1>2, Facts DEF TypeOK, PlaceSays, Tally
<1>5. LastIn'
  BY <1>2, Facts DEF TypeOK, LastIn, PlaceSays, Tally
<1>6. SleepersReleased'
  BY DEF SleepersReleased, Asleep
<1> QED
  BY <1>1, <1>3, <1>4, <1>5, <1>6

LEMMA OtherStep == ASSUME BarrierInv, Other \/ UNCHANGED vars PROVE BarrierInv'
<1> USE DEF BarrierInv, Other, NotifyOther, vars, history
<1>1. TypeOK'
  BY DEF TypeOK
<1>2. Leaders' = Leaders
  BY LeadersSame
<1>3. Counted'
  BY <1>2, Still DEF Arrivals
<1>4. PlaceSays' /\ LastIn' /\ SleepersReleased'
  BY <1>2 DEF PlaceSays, LastIn, SleepersReleased, Asleep
<1> QED
  BY <1>1, <1>3, <1>4

\* The arrival that completes the round is the last: every thread is in it.
LEMMA ArriveStep ==
    ASSUME Cardinality(Threads) <= Parties, BarrierInv, NEW t \in Threads, Arrive(t)
    PROVE  BarrierInv'
<1> USE DEF BarrierInv, Arrive, Go, history, Held, WaitPoints
<1>1. Leaders' = Leaders
  BY LeadersSame DEF TypeOK
<1>2. \A u \in Threads : at[u] # "bump" /\ at[u] # "reset"
  BY DEF LastIn, TypeOK
<1>3. arrived = Cardinality(Arrivals) /\ t \notin Arrivals /\ Arrivals' = Arrivals \cup {t}
  <2>1. left[t] = Leaders
    BY DEF PlaceSays
  <2> QED
    BY <1>1, <1>2, <2>1 DEF Counted, Arrivals, TypeOK
<1>4. Cardinality(Arrivals') = arrived + 1
  BY <1>3, FS_AddElement, Facts
<1>5. Arrivals' \in SUBSET Threads /\ Cardinality(Arrivals') <= Cardinality(Threads)
  <2>1. Arrivals' \in SUBSET Threads
    BY DEF Arrivals
  <2> QED
    BY <2>1, FS_Subset, PartiesAssumption
<1>6. TypeOK'
  BY <1>4, <1>5, Facts DEF TypeOK
<1>7. Counted'
  BY <1>1, <1>2, <1>4 DEF Counted, TypeOK
<1>8. PlaceSays'
  BY <1>1, Facts DEF PlaceSays, TypeOK
<1>9. LastIn'
  <2>1. CASE arrived + 1 = Parties
    <3>1. Arrivals' = Threads
      BY <1>4, <1>5, <2>1, FS_Subset, PartiesAssumption, Facts
    <3>2. \A u \in Threads \ {t} : u \in Arrivals
      BY <1>3, <3>1
    <3> QED
      BY <1>1, <1>2, <3>2 DEF LastIn, Arrivals, TypeOK
  <2>2. CASE arrived + 1 # Parties
    BY <1>2, <2>2 DEF LastIn, TypeOK
  <2> QED
    BY <2>1, <2>2
<1>10. SleepersReleased'
  BY <1>1 DEF SleepersReleased, Asleep, TypeOK
<1> QED
  BY <1>6, <1>7, <1>8, <1>9, <1>10

LEMMA ResetStep == ASSUME BarrierInv, NEW t \in Threads, Reset(t) PROVE BarrierInv'
<1> USE DEF BarrierInv, Reset, Go, history, Held, WaitPoints
<1>1. Leaders' = Leaders
  BY LeadersSame DEF TypeOK
<1>2. TypeOK'
  BY Facts DEF TypeOK
<1>3. Counted'
  BY <1>1 DEF Counted, TypeOK
<1>4. PlaceSays' /\ LastIn'
  BY <1>1 DEF PlaceSays, LastIn, TypeOK
<1>5. SleepersReleased'
  BY <1>1 DEF SleepersReleased, Asleep, TypeOK
<1> QED
  BY <1>2, <1>3, <1>4, <1>5

\* The new round begins with nobody in it; all the others are released by it.
LEMMA BumpStep == ASSUME BarrierInv, NEW t \in Threads, Bump(t) PROVE BarrierInv'
<1> USE DEF BarrierInv, Bump, Go, history, Held, WaitPoints
<1>1. Leaders' = Leaders + 1 /\ Leaders \in Nat
  BY LeadersAfterBump, Facts
<1>2. \A u \in Threads \ {t} : at[u] \in WaitPoints \cup {"again", "gone"} /\ left[u] = Leaders
  BY DEF LastIn
<1>3. left[t] = Leaders
  BY DEF PlaceSays
<1>4. generation' \in 0..(Wrap - 1) /\ generation' = Leaders' % Wrap /\ generation' # generation
  BY <1>1, Wraps DEF Counted
<1>5. TypeOK'
  BY <1>4 DEF TypeOK
<1>6. Counted'
  <2>1. Arrivals' = {}
    BY <1>1, <1>2, <1>3 DEF Arrivals, TypeOK
  <2>2. Cardinality(Arrivals') = 0
    BY <2>1, FS_EmptySet
  <2>3. arrived' = 0 /\ \A u \in Threads : at'[u] # "bump"
    BY <1>2 DEF Counted, TypeOK
  <2> QED
    BY <1>4, <2>2, <2>3, PartiesAssumption DEF Counted
<1>7. PlaceSays'
  <2>1. \A u \in Threads \ {t} : /\ at'[u] = at[u] /\ left'[u] + 1 = Leaders'
                                 /\ at[u] # "gone" => round'[u] # generation'
    BY <1>1, <1>2, <1>4 DEF PlaceSays, TypeOK
  <2> QED
    BY <1>1, <1>2, <1>3, <2>1, Facts DEF PlaceSays, TypeOK
<1>8. LastIn'
  BY <1>2 DEF LastIn, TypeOK
<1>9. SleepersReleased'
  BY DEF SleepersReleased, TypeOK
<1> QED
  BY <1>5, <1>6, <1>7, <1>8, <1>9

LEMMA BarrierStep == Cardinality(Threads) <= Parties /\ BarrierInv /\ [Next]_vars => BarrierInv'
BY CallStep, LoadRoundStep, WaitStep, AgainStep, ReleaseStep, OtherStep, ArriveStep,
   ResetStep, BumpStep
   DEF Next, InCall

LEMMA BarrierInvariance == ASSUME Cardinality(Threads) <= Parties PROVE Spec => []BarrierInv
<1>1. BarrierInv /\ [Next]_vars => BarrierInv'
  BY BarrierStep
<1> QED
  BY BarrierInit, <1>1, PTL DEF Spec

\* A thread has left no more rounds than have ended, and begun at least as many.
LEMMA RoundsBetween ==
    ASSUME BarrierInv, NEW t \in Threads PROVE left[t] <= Leaders /\ Leaders <= entered[t]
<1>1. left[t] \in Nat /\ entered[t] \in Nat /\ Leaders \in Nat /\ at[t] \in Held \cup
          {"idle", "load", "arrive", "reset", "bump", "notify", "gone"}
  BY Facts DEF BarrierInv, TypeOK, Held
<1> QED
  BY <1>1 DEF BarrierInv, PlaceSays

\* Every call returns from a round all the threads have begun, if there are no more
\* of them than parties (Barrier::wait: the last one in resets and moves on).
THEOREM PhasesKeepApart ==
    ASSUME Cardinality(Threads) <= Parties PROVE Spec => []NoPhaseOvertakes
<1>1. BarrierInv => NoPhaseOvertakes
  <2> SUFFICES ASSUME BarrierInv, NEW t \in Threads, NEW u \in Threads PROVE left[t] <= entered[u]
    BY DEF NoPhaseOvertakes
  <2>1. left[t] \in Nat /\ entered[u] \in Nat /\ Leaders \in Nat
    BY Facts DEF BarrierInv
  <2> QED
    BY <2>1, RoundsBetween
<1> QED
  BY BarrierInvariance, <1>1, PTL

\* One thread of each round is told it was the last (Barrier::wait returns true).
THEOREM EachRoundHasOneLeader ==
    ASSUME Cardinality(Threads) <= Parties PROVE Spec => []OneLeaderEach
<1>1. BarrierInv => OneLeaderEach
  BY RoundsBetween DEF OneLeaderEach
<1> QED
  BY BarrierInvariance, <1>1, PTL

\* Nobody sleeps on in a round that has ended, unless the thread that ended it is
\* about to notify, wherever the round's number wraps.
THEOREM SleepersAreReleased ==
    ASSUME Cardinality(Threads) <= Parties PROVE Spec => []SleepersReleased
BY BarrierInvariance, PTL DEF BarrierInv

\* A thread sleeps at the barrier only while another is on its way in its call, has
\* yet to make the call the sleeper is in, or was lost to a fault: of as many threads
\* as parties, all in the round, never all are asleep (no wake is lost).
SleepersAwaitSomeone ==
    \A t \in Threads : Asleep(t) =>
        \E u \in Threads : \/ at[u] \notin {"idle", "gone"} /\ ~Asleep(u)
                          \/ entered[u] < entered[t]
                          \/ at[u] = "gone"

THEOREM NeverAllAsleep ==
    ASSUME Cardinality(Threads) = Parties PROVE Spec => []SleepersAwaitSomeone
<1>1. BarrierInv => SleepersAwaitSomeone
  <2> SUFFICES ASSUME BarrierInv, NEW t \in Threads, Asleep(t),
                      \A u \in Threads : at[u] = "idle" \/ Asleep(u),
                      \A u \in Threads : ~(entered[u] < entered[t])
               PROVE  FALSE
    BY DEF SleepersAwaitSomeone
  <2>1. \A u \in Threads : at[u] \in {"idle", "sleep"} /\ (at[u] = "sleep" => Asleep(u))
    BY DEF Asleep
  <2>2. /\ Leaders \in Nat
        /\ \A u \in Threads : left[u] \in Nat /\ entered[u] \in Nat /\ left[u] <= Leaders
    BY Facts, RoundsBetween DEF BarrierInv
  <2>3. \A u \in Threads : at[u] = "sleep" => left[u] = Leaders
    BY <2>1, <2>2 DEF BarrierInv, SleepersReleased
  <2>4. entered[t] = Leaders + 1
    BY <2>2, <2>3 DEF BarrierInv, PlaceSays, Asleep
  <2>5. \A u \in Threads : at[u] = "sleep"
    BY <2>1, <2>2, <2>4 DEF BarrierInv, PlaceSays
  <2>6. Arrivals = Threads
    BY <2>3, <2>5 DEF Arrivals, Held, WaitPoints
  <2> QED
    BY <2>5, <2>6 DEF BarrierInv, Counted
<1>2. Cardinality(Threads) <= Parties
  BY PartiesAssumption
<1> QED
  BY BarrierInvariance, <1>1, <1>2, PTL

LEMMA TotalBounds ==
    ASSUME NEW f \in [Threads -> Nat], NEW k \in Nat
    PROVE  /\ (\A t \in Threads : f[t] <= k) => Total(f) <= k * Cardinality(Threads)
           /\ (\A t \in Threads : k <= f[t]) => k * Cardinality(Threads) <= Total(f)
<1> DEFINE Q == {s \in SUBSET Threads :
                   /\ SumOf(f)[s] \in Nat
                   /\ (\A t \in Threads : f[t] <= k) => SumOf(f)[s] <= k * Cardinality(s)
                   /\ (\A t \in Threads : k <= f[t]) => k * Cardinality(s) <= SumOf(f)[s]}
<1>1. ASSUME NEW s \in SUBSET Threads, s # {} => Rest(s) \in Q PROVE s \in Q
  <2>1. CASE s = {}
    <3>1. Cardinality(s) = 0 /\ SumOf(f)[s] = 0 /\ k * 0 = 0
      BY <2>1, TotalIs, FS_EmptySet
    <3> QED
      BY <3>1
  <2>2. CASE s # {}
    <3>1. f[First(s)] \in Nat /\ First(s) \in Threads
      BY <2>2, RestIs, PartiesAssumption
    <3>2. /\ SumOf(f)[Rest(s)] \in Nat
          /\ SumOf(f)[s] = f[First(s)] + SumOf(f)[Rest(s)]
          /\ (\A t \in Threads : f[t] <= k) => SumOf(f)[Rest(s)] <= k * Cardinality(Rest(s))
          /\ (\A t \in Threads : k <= f[t]) => k * Cardinality(Rest(s)) <= SumOf(f)[Rest(s)]
      BY <1>1, <2>2, TotalIs
    <3>3. /\ Cardinality(Rest(s)) \in Nat
          /\ k * Cardinality(s) = k * Cardinality(Rest(s)) + k /\ k * Cardinality(Rest(s)) \in Nat
      <4>1. Cardinality(Rest(s)) \in Nat /\ Cardinality(s) = Cardinality(Rest(s)) + 1
        BY <2>2, RestIs, PartiesAssumption
      <4> QED
        BY <4>1
    <3> QED
      BY <3>1, <3>2, <3>3
  <2> QED
    BY <2>1, <2>2
<1> HIDE DEF Q
<1>2. SUBSET Threads \subseteq Q
  BY <1>1, AllSubsets, PartiesAssumption
<1> QED
  BY <1>2, TotalIs DEF Q

\* With as many threads as parties, calls return in full rounds only, as the
\* library's own words have it (Barrier::wait).
THEOREM RoundsAreFull ==
    ASSUME Cardinality(Threads) = Parties PROVE Spec => []FullRoundsOnly
<1>1. BarrierInv => FullRoundsOnly
  <2> SUFFICES ASSUME BarrierInv PROVE FullRoundsOnly
    OBVIOUS
  <2> DEFINE k == Leaders
             L == Total(left)
             E == Total(entered)
             d == E \div Parties
             r == E % Parties
  <2>1. k \in Nat /\ left \in [Threads -> Nat] /\ entered \in [Threads -> Nat]
    BY Facts DEF BarrierInv, TypeOK
  <2>2. L <= k * Parties /\ k * Parties <= E /\ L \in Nat /\ E \in Nat
    <3>1. \A t \in Threads : left[t] <= k /\ k <= entered[t]
      BY RoundsBetween
    <3> HIDE DEF k
    <3> QED
      BY <2>1, <3>1, TotalBounds, TotalIsNat
  <2> HIDE DEF k, L, E
  <2>3. Parties \in Nat \ {0}
    BY PartiesAssumption
  <2>4. d \in Nat /\ r \in 0..(Parties - 1) /\ E = Parties * d + r
    BY <2>2, <2>3
  <2> HIDE DEF d, r
  <2>5. k <= d
    <3>1. SUFFICES ASSUME d + 1 <= k PROVE FALSE
      BY <2>1, <2>4
    <3>2. Parties * (d + 1) <= Parties * k
      BY <2>1, <2>3, <2>4, <3>1
    <3>3. Parties * (d + 1) = Parties * d + Parties /\ Parties * k = k * Parties
      BY <2>1, <2>3, <2>4
    <3> QED
      BY <2>1, <2>2, <2>3, <2>4, <3>2, <3>3
  <2>6. k * Parties <= Parties * d
    BY <2>1, <2>3, <2>4, <2>5
  <2>7. L <= Parties * d
    <3>1. k * Parties \in Nat /\ Parties * d \in Nat
      BY <2>1, <2>3, <2>4
    <3> QED
      BY <2>2, <2>6, <3>1
  <2> QED
    BY <2>7 DEF FullRoundsOnly, L, E, d
<1>2. Cardinality(Threads) <= Parties
  BY PartiesAssumption
<1> QED
  BY BarrierInvariance, <1>1, <1>2, PTL

-----------------------------------------------------------------------------
(* The once.                                                                 *)

\* The thread the Once is being done by: from its claim to the end of f, or to
\* the moment it gives the Once back.
Runs(t) == at[t] \in {"f", "store", "give_back"} \/ (at[t] = "drop" /\ ~done[t])

\* The state says whether a thread is at it, and there is one such thread.
OneRunner ==
    /\ \A t \in Threads : Runs(t) => state = 1
    /\ \A t, u \in Threads : Runs(t) /\ Runs(u) => t = u
    /\ state = 1 => \E t \in Threads : Runs(t)

\* `done` is set between f's end and the end of the OnceRun.
DoneMatches ==
    \A t \in Threads :
        /\ done[t] => at[t] \in {"store", "notify", "drop"}
        /\ at[t] \in {"store", "notify"} => done[t]
        /\ at[t] \in {"notify", "drop"} /\ done[t] => state = 2

\* How often f has run to its end, told from the state.
CompletedMatches ==
    /\ state = 2 => completed = 1
    /\ state # 2 => completed = IF \E t \in Threads : at[t] = "store" THEN 1 ELSE 0
    /\ returned # {} => state = 2

OnceInv == OnceTypeOK /\ OneRunner /\ DoneMatches /\ CompletedMatches /\ SleeperHasRunner

LEMMA OnceInvInit == OnceInit => OnceInv
BY DEF OnceInit, OnceInv, OnceTypeOK, OneRunner, DoneMatches, CompletedMatches,
       SleeperHasRunner, Asleep,
       Runs, WaitPoints

LEMMA OnceTypes == OnceInv /\ [OnceNext]_onceVars => OnceTypeOK'
<1> SUFFICES ASSUME OnceInv, [OnceNext]_onceVars PROVE OnceTypeOK'
  OBVIOUS
<1> USE DEF OnceInv, OnceTypeOK, WaitPoints, Go
<1>1. ASSUME NEW t \in Threads, CallOnce(t) \/ FaultInWait(t) \/ Claim(t) PROVE OnceTypeOK'
  <2>1. CASE Claim(t)
    BY <2>1 DEF Claim
  <2>2. CASE CallOnce(t) \/ FaultInWait(t)
    BY <2>2 DEF CallOnce, FaultInWait, Stop
  <2> QED
    BY <1>1, <2>1, <2>2
<1>2. ASSUME NEW t \in Threads, Run(t) \/ FaultInF(t) PROVE OnceTypeOK'
  <2>1. completed' \in 0..2
    BY <1>2 DEF Run, FaultInF
  <2> QED
    BY <1>2, <2>1 DEF Run, FaultInF
<1>3. ASSUME NEW t \in Threads, Store(t) \/ NotifyDone(t) \/ NotifyBack(t) \/ GiveBack(t)
      PROVE OnceTypeOK'
  BY <1>3 DEF Store, NotifyDone, NotifyBack, GiveBack, Notify
<1>4. ASSUME NEW t \in Threads, Drop(t) PROVE OnceTypeOK'
  BY <1>4 DEF Drop
<1>5. ASSUME NEW t \in Threads, WaitForRun(t) PROVE OnceTypeOK'
  BY <1>5 DEF WaitForRun, ReadSeen, Check, Wake
<1>6. CASE OtherNotified \/ UNCHANGED onceVars
  BY <1>6 DEF OtherNotified, NotifyOther, onceVars
<1> QED
  BY <1>1, <1>2, <1>3, <1>4, <1>5, <1>6 DEF OnceNext, InOnceCall

LEMMA RunnerKept == OnceInv /\ [OnceNext]_onceVars => OneRunner'
<1> SUFFICES ASSUME OnceInv, [OnceNext]_onceVars PROVE OneRunner'
  OBVIOUS
<1> USE DEF OnceInv, OnceTypeOK, WaitPoints, Go, OneRunner, Runs, DoneMatches
<1>1. ASSUME NEW t \in Threads, CallOnce(t) \/ FaultInWait(t) PROVE OneRunner'
  BY <1>1 DEF CallOnce, FaultInWait, Stop
<1>2. ASSUME NEW t \in Threads, Claim(t) PROVE OneRunner'
  BY <1>2 DEF Claim
<1>3. ASSUME NEW t \in Threads, Run(t) PROVE OneRunner'
  BY <1>3 DEF Run
<1>4. ASSUME NEW t \in Threads, FaultInF(t) PROVE OneRunner'
  BY <1>4 DEF FaultInF
<1>5. ASSUME NEW t \in Threads, Store(t) PROVE OneRunner'
  BY <1>5 DEF Store
<1>6. ASSUME NEW t \in Threads, NotifyDone(t) \/ NotifyBack(t) PROVE OneRunner'
  BY <1>6 DEF NotifyDone, NotifyBack, Notify
<1>7. ASSUME NEW t \in Threads, Drop(t) PROVE OneRunner'
  BY <1>7 DEF Drop
<1>8. ASSUME NEW t \in Threads, GiveBack(t) PROVE OneRunner'
  BY <1>8 DEF GiveBack
<1>9. ASSUME NEW t \in Threads, WaitForRun(t) PROVE OneRunner'
  BY <1>9 DEF WaitForRun, ReadSeen, Check, Wake
<1>10. CASE OtherNotified \/ UNCHANGED onceVars
  BY <1>10 DEF OtherNotified, NotifyOther, onceVars
<1> QED
  BY <1>1, <1>2, <1>3, <1>4, <1>5, <1>6, <1>7, <1>8, <1>9, <1>10 DEF OnceNext, InOnceCall

LEMMA CompletedKept == OnceInv /\ [OnceNext]_onceVars => DoneMatches' /\ CompletedMatches'
<1> DEFINE Goal == DoneMatches' /\ CompletedMatches'
<1> SUFFICES ASSUME OnceInv, [OnceNext]_onceVars PROVE Goal
  OBVIOUS
<1> USE DEF OnceInv, OnceTypeOK, WaitPoints, Go, OneRunner, Runs, DoneMatches,
            CompletedMatches
<1>1. ASSUME NEW t \in Threads, CallOnce(t) \/ FaultInWait(t) PROVE Goal
  BY <1>1 DEF CallOnce, FaultInWait, Stop
<1>2. ASSUME NEW t \in Threads, Claim(t) PROVE Goal
  BY <1>2 DEF Claim
<1>3. ASSUME NEW t \in Threads, Run(t) PROVE Goal
  BY <1>3 DEF Run
<1>4. ASSUME NEW t \in Threads, FaultInF(t) PROVE Goal
  BY <1>4 DEF FaultInF
<1>5. ASSUME NEW t \in Threads, Store(t) PROVE Goal
  BY <1>5 DEF Store
<1>6. ASSUME NEW t \in Threads, NotifyDone(t) \/ NotifyBack(t) PROVE Goal
  BY <1>6 DEF NotifyDone, NotifyBack, Notify
<1>7. ASSUME NEW t \in Threads, Drop(t) PROVE Goal
  BY <1>7 DEF Drop
<1>8. ASSUME NEW t \in Threads, GiveBack(t) PROVE Goal
  BY <1>8 DEF GiveBack
<1>9. ASSUME NEW t \in Threads, WaitForRun(t) PROVE Goal
  BY <1>9 DEF WaitForRun, ReadSeen, Check, Wake
<1>10. CASE OtherNotified \/ UNCHANGED onceVars
  BY <1>10 DEF OtherNotified, NotifyOther, onceVars
<1> QED
  BY <1>1, <1>2, <1>3, <1>4, <1>5, <1>6, <1>7, <1>8, <1>9, <1>10 DEF OnceNext, InOnceCall

\* A thread falls asleep only while another runs, and the one that stops running
\* notifies before it does anything else.
LEMMA SleepersKept == OnceInv /\ [OnceNext]_onceVars => SleeperHasRunner'
<1> SUFFICES ASSUME OnceInv, [OnceNext]_onceVars PROVE SleeperHasRunner'
  OBVIOUS
<1> USE DEF OnceInv, OnceTypeOK, WaitPoints, Go, OneRunner, Runs, DoneMatches,
            SleeperHasRunner, Asleep
<1>1. ASSUME NEW t \in Threads, CallOnce(t) \/ FaultInWait(t) PROVE SleeperHasRunner'
  BY <1>1 DEF CallOnce, FaultInWait, Stop
<1>2. ASSUME NEW t \in Threads, Claim(t) PROVE SleeperHasRunner'
  BY <1>2 DEF Claim
<1>3. ASSUME NEW t \in Threads, Run(t) PROVE SleeperHasRunner'
  BY <1>3 DEF Run
<1>4. ASSUME NEW t \in Threads, FaultInF(t) PROVE SleeperHasRunner'
  BY <1>4 DEF FaultInF
<1>5. ASSUME NEW t \in Threads, Store(t) PROVE SleeperHasRunner'
  BY <1>5 DEF Store
<1>6. ASSUME NEW t \in Threads, NotifyDone(t) \/ NotifyBack(t) PROVE SleeperHasRunner'
  BY <1>6 DEF NotifyDone, NotifyBack, Notify
<1>7. ASSUME NEW t \in Threads, Drop(t) PROVE SleeperHasRunner'
  BY <1>7 DEF Drop
<1>8. ASSUME NEW t \in Threads, GiveBack(t) PROVE SleeperHasRunner'
  BY <1>8 DEF GiveBack
<1>9. ASSUME NEW t \in Threads, WaitForRun(t) PROVE SleeperHasRunner'
  BY <1>9 DEF WaitForRun, ReadSeen, Check, Wake
<1>10. CASE OtherNotified \/ UNCHANGED onceVars
  BY <1>10 DEF OtherNotified, NotifyOther, onceVars
<1> QED
  BY <1>1, <1>2, <1>3, <1>4, <1>5, <1>6, <1>7, <1>8, <1>9, <1>10 DEF OnceNext, InOnceCall

LEMMA OnceInvariance == OnceSpec => []OnceInv
<1>1. OnceInv /\ [OnceNext]_onceVars => OnceInv'
  BY OnceTypes, RunnerKept, CompletedKept, SleepersKept DEF OnceInv
<1> QED
  BY OnceInvInit, <1>1, PTL DEF OnceSpec

\* f runs to its end at most once, on one thread at a time, and before any return.
THEOREM RunsAtMostOnce == OnceSpec => []RunsOnce
<1>1. OnceInv => RunsOnce
  BY DEF OnceInv, OnceTypeOK, OneRunner, Runs, CompletedMatches, RunsOnce
<1> QED
  BY <1>1, OnceInvariance, PTL

\* No caller sleeps on a run that is over.
THEOREM SleepersAreRemembered == OnceSpec => []SleeperHasRunner
BY OnceInvariance, PTL DEF OnceInv
=============================================================================
