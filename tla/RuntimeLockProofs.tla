-------------------------- MODULE RuntimeLockProofs --------------------------
(***************************************************************************)
(* Proofs about RuntimeLock, for any threads, heaps and depth of entries.     *)
(***************************************************************************)
EXTENDS RuntimeLock, FiniteSetTheorems, SequenceTheorems, WellFoundedInduction, TLAPS

-----------------------------------------------------------------------------
(* The inductive invariant.                                                  *)

Destructors == {"callback", "counted"}

\* Entries and destructors alternate; what runs a destructor is exclusive.
WellFormed(s) ==
    /\ s # <<>> => s[1] \notin Destructors
    /\ Len(s) > 1 => s[1] \in {"solo", "excl", "nested", "unwind"}
    /\ \A i \in 1..(Len(s) - 1) : s[i] \in Destructors <=> s[i + 1] \notin Destructors

\* The entries that a hold counted is for: each that will give one back, and the
\* innermost of all, which is there under a hold of its own.
Covered(s, m) ==
    {i \in 1..Len(s) :
        \/ s[i] \in {"excl", "unwind"}
        \/ s[i] = "nested" /\ i = 1
        \/ s[i] = "solo" /\ (m \/ (i < Len(s) /\ s[i + 1] = "callback"))}
Counted(s) == {i \in 1..Len(s) : s[i] = "counted"}

\* A thread that waits has its holds put by.
Suspended(t) == at[t] = "blocked" \/ (at[t] \in {"lock", "heaps"} /\ goal[t] = "resume")
Holds(t) == IF Suspended(t) THEN saved[t] ELSE held[t]

\* What a thread has of the runtime lock, by where it is.
LockOf(t) ==
    /\ writer = t <=> owner = t \/ at[t] = "heaps"
    /\ owner = t <=> held[t] > 0
    /\ owner = t => at[t] \in {"program", "pool", "inside"}
    /\ t \in readers <=> at[t] = "inside" /\ Top(t, {"read"})

\* What its stack is like.
StackOf(t) ==
    /\ WellFormed(stack[t])
    /\ at[t] = "inside" => stack[t] # <<>> /\ ~Top(t, Destructors)
    /\ at[t] \in {"program", "pool"} => stack[t] = <<>> \/ Top(t, Destructors)
    /\ at[t] \in {"unborn", "job", "local", "plan", "ended"} => stack[t] = <<>>
    /\ at[t] \in {"lock", "heaps"} /\ goal[t] # "resume" => stack[t] = <<>>
    /\ at[t] = "inside" /\ goal[t] # "work" => Len(stack[t]) = 1 /\ Top(t, {"excl"})
    /\ at[t] # "inside" \/ Len(stack[t]) > 1 =>
          \A i \in 1..Len(stack[t]) : stack[t][i] \notin {"local", "read"}
    /\ at[t] = "inside" /\ Top(t, {"free"}) /\ multi => owner = t
    /\ at[t] = "inside" /\ Top(t, {"local", "read"}) => owner # t
    /\ IF t = Main THEN \A i \in 1..Len(stack[t]) : stack[t][i] # "unwind"
       ELSE stack[t] # <<>> => stack[t][1] # "nested"

\* What its exclusive entry may be for, and who runs while locking is off.
GoalOf(t) ==
    /\ at[t] \in {"unborn", "job", "program", "pool", "local", "plan", "blocked", "ended"} => goal[t] = "work"
    /\ at[t] = "inside" => goal[t] \in {"work", "claim", "claimed", "final", "leave"}
    /\ at[t] \in {"lock", "heaps"} => goal[t] \in {"work", "claim", "final", "unwind", "resume"}
    /\ t = Main => at[t] \notin {"unborn", "job", "ended"} /\ goal[t] \notin {"claim", "claimed", "final", "leave", "unwind"}
    /\ ~multi => t = Main \/ at[t] \in {"unborn", "ended"}
    /\ at[t] \in {"lock", "heaps", "local", "plan", "blocked"} => multi
    /\ t \notin alive => at[t] \in {"unborn", "ended"} \/ (at[t] = "inside" /\ goal[t] = "leave")

\* Its holds are enough for its entries; a spawned thread's that has not faulted
\* are no more than that.
HoldsOf(t) ==
    /\ Holds(t) >= Cardinality(Covered(stack[t], multi))
    /\ t # Main /\ (stack[t] = <<>> \/ stack[t][1] # "unwind") =>
          Holds(t) = Cardinality(Covered(stack[t], multi))

\* It neither has nor awaits a heap of a thread whose exclusive hold is complete.
Apart(t) == owner \notin {Nobody, t} => Locked(t) = {} /\ want[t] \subseteq Locked(owner)

\* The heaps it has, and in which order it takes them.
HeapsOf(t) ==
    /\ Locked(t) \subseteq Existing /\ want[t] \subseteq Existing
    /\ owner = t \/ at[t] = "heaps" \/ Locked(t) = {}
       \/ (Locked(t) \subseteq want[t] /\ (at[t] \in {"local", "plan"} \/ (at[t] = "inside" /\ Top(t, {"local"}))))
    /\ at[t] = "heaps" =>
          /\ Existing \ Locked(t) # {}
          /\ \A h \in Existing \ Locked(t), g \in Locked(t) : g < h
    /\ at[t] = "local" =>
          /\ want[t] \ Locked(t) # {}
          /\ \A h \in want[t] \ Locked(t), g \in Locked(t) : g < h
    /\ Apart(t)

ThreadOk(t) == LockOf(t) /\ StackOf(t) /\ GoalOf(t) /\ HoldsOf(t) /\ HeapsOf(t)

ReadersAlone == readers # {} => writer = Nobody

DepthAt ==
    /\ depth = Cardinality(Counted(stack[Main]))
    /\ \A t \in Threads \ {Main} : Counted(stack[t]) = {}

\* Who has a heap.
HasHeap(t) == t = Main \/ (at[t] \notin {"unborn", "job", "ended"} /\ goal[t] \notin {"claim", "leave"})
UsersAt ==
    \A h \in Heaps : users[h] = Cardinality({t \in Threads : HasHeap(t) /\ heap[t] = h})

IInv ==
    /\ TypeOK /\ ReadersAlone /\ DepthAt /\ UsersAt /\ SoloIsPending
    /\ \A t \in Threads : ThreadOk(t)

\* Besides: a thread that waits has holds to take again, and its heap is one that
\* any exclusive hold but its own has locked.
Standing(t) ==
    /\ Suspended(t) => saved[t] > 0
    /\ heap[t] \in Existing
    /\ owner \notin {Nobody, t} => heapLock[heap[t]] = owner

Inv == IInv /\ \A t \in Threads : Standing(t)

-----------------------------------------------------------------------------
(* Stacks of entries.                                                        *)

LEMMA Pushed ==
    ASSUME NEW s \in Seq(Tags), NEW e \in Tags
    PROVE  /\ Append(s, e) \in Seq(Tags)
           /\ Append(s, e) # <<>>
           /\ Len(Append(s, e)) = Len(s) + 1
           /\ Append(s, e)[Len(s) + 1] = e
           /\ \A i \in 1..Len(s) : Append(s, e)[i] = s[i]
BY AppendProperties

LEMMA Popped ==
    ASSUME NEW s \in Seq(Tags), s # <<>>
    PROVE  /\ Len(s) \in Nat \ {0}
           /\ SubSeq(s, 1, Len(s) - 1) \in Seq(Tags)
           /\ Len(SubSeq(s, 1, Len(s) - 1)) = Len(s) - 1
           /\ Len(s) = 1 <=> SubSeq(s, 1, Len(s) - 1) = <<>>
           /\ \A i \in 1..(Len(s) - 1) : SubSeq(s, 1, Len(s) - 1)[i] = s[i]
<1> DEFINE r == SubSeq(s, 1, Len(s) - 1)
<1>1. Len(s) \in Nat \ {0}
  OBVIOUS
<1>2. /\ r \in Seq(Tags) /\ Len(r) = Len(s) - 1
      /\ \A i \in 1..(Len(s) - 1) : r[i] = s[i]
  BY <1>1, SubSeqProperties
<1> HIDE DEF r
<1>3. r = <<>> <=> Len(r) = 0
  BY <1>2
<1> QED
  BY <1>1, <1>2, <1>3 DEF r

LEMMA WellFormedPush ==
    ASSUME NEW s \in Seq(Tags), NEW e \in Tags, WellFormed(s),
           \/ e \notin Destructors /\ (s = <<>> \/ s[Len(s)] \in Destructors)
           \/ e \in Destructors /\ s # <<>> /\ s[Len(s)] \in {"solo", "excl", "nested", "unwind"}
    PROVE  WellFormed(Append(s, e))
<1>1. Len(s) \in Nat /\ (s = <<>> <=> Len(s) = 0)
  OBVIOUS
<1>2. CASE s = <<>>
  <2>1. Len(Append(s, e)) = 1 /\ Append(s, e)[1] = e
    BY <1>2, Pushed
  <2> QED
    BY <1>2, <2>1 DEF WellFormed
<1>3. CASE s # <<>>
  <2>1. \A i \in 1..Len(s) : Append(s, e)[i] = s[i]
    BY Pushed
  <2>2. Append(s, e)[1] = s[1] /\ s[1] \notin Destructors /\ s[1] \in {"solo", "excl", "nested", "unwind"}
    BY <1>1, <1>3, <2>1, Pushed DEF WellFormed, Destructors
  <2>3. ASSUME NEW i \in 1..Len(s)
        PROVE  Append(s, e)[i] \in Destructors <=> Append(s, e)[i + 1] \notin Destructors
    <3>1. CASE i = Len(s)
      BY <1>1, <1>3, <2>1, <3>1, Pushed DEF Destructors
    <3>2. CASE i < Len(s)
      BY <1>1, <1>3, <2>1, <3>2 DEF WellFormed
    <3> QED
      BY <1>1, <3>1, <3>2
  <2> QED
    BY <1>1, <2>2, <2>3, Pushed DEF WellFormed
<1> QED
  BY <1>2, <1>3

LEMMA WellFormedPop ==
    ASSUME NEW s \in Seq(Tags), s # <<>>, WellFormed(s)
    PROVE  LET r == SubSeq(s, 1, Len(s) - 1)
           IN  /\ WellFormed(r)
               /\ s[Len(s)] \in Destructors => r # <<>> /\ r[Len(r)] \notin Destructors
               /\ s[Len(s)] \notin Destructors => r = <<>> \/ r[Len(r)] \in Destructors
BY Popped DEF WellFormed

\* Both counts are of finitely many entries, and of none on an empty stack.
LEMMA CoveredFinite ==
    ASSUME NEW s \in Seq(Tags), NEW m \in BOOLEAN
    PROVE  /\ IsFiniteSet(Covered(s, m)) /\ Cardinality(Covered(s, m)) \in Nat
           /\ IsFiniteSet(Counted(s)) /\ Cardinality(Counted(s)) \in Nat
           /\ s = <<>> => Cardinality(Covered(s, m)) = 0 /\ Cardinality(Counted(s)) = 0
<1>1. IsFiniteSet(1..Len(s)) /\ (s = <<>> => 1..Len(s) = {})
  BY FS_Interval
<1>2. Covered(s, m) \in SUBSET (1..Len(s)) /\ Counted(s) \in SUBSET (1..Len(s))
  BY DEF Covered, Counted
<1>3. IsFiniteSet(Covered(s, m)) /\ IsFiniteSet(Counted(s))
  BY <1>1, <1>2, FS_Subset
<1> QED
  BY <1>1, <1>2, <1>3, FS_CardinalityType, FS_EmptySet

\* What a push adds to the entries covered.
Adds(s, e, m) == e \in {"excl", "unwind"} \/ (e = "nested" /\ s = <<>>) \/ (e = "solo" /\ m)

LEMMA CoveredPush ==
    ASSUME NEW s \in Seq(Tags), NEW e \in Tags, NEW m \in BOOLEAN, m \/ e # "callback"
    PROVE  Cardinality(Covered(Append(s, e), m)) =
             Cardinality(Covered(s, m)) + (IF Adds(s, e, m) THEN 1 ELSE 0)
<1> DEFINE r == Append(s, e)
<1>1. /\ Len(s) \in Nat /\ Len(r) = Len(s) + 1
      /\ r[Len(s) + 1] = e
      /\ \A i \in 1..Len(s) : r[i] = s[i]
      /\ s = <<>> <=> Len(s) = 0
  BY Pushed
<1> HIDE DEF r
<1>2. ASSUME NEW i \in 1..Len(s) PROVE i \in Covered(r, m) <=> i \in Covered(s, m)
  <2>1. CASE i < Len(s)
    BY <1>1, <2>1 DEF Covered
  <2>2. CASE i = Len(s)
    BY <1>1, <2>2 DEF Covered
  <2> QED
    BY <1>1, <2>1, <2>2
<1>3. Len(s) + 1 \in Covered(r, m) <=> Adds(s, e, m)
  BY <1>1 DEF Covered, Adds
<1>4. Covered(r, m) = Covered(s, m) \cup (IF Adds(s, e, m) THEN {Len(s) + 1} ELSE {})
  <2>1. Covered(r, m) \subseteq 1..(Len(s) + 1) /\ Covered(s, m) \subseteq 1..Len(s)
    BY <1>1 DEF Covered
  <2> QED
    BY <1>1, <1>2, <1>3, <2>1
<1>5. Len(s) + 1 \notin Covered(s, m)
  BY <1>1 DEF Covered
<1>6. /\ IsFiniteSet(Covered(s, m)) /\ Cardinality(Covered(s, m)) \in Nat
      /\ Cardinality(Covered(s, m) \cup {Len(s) + 1}) = Cardinality(Covered(s, m)) + 1
  BY <1>5, FS_AddElement, CoveredFinite
<1>7. CASE Adds(s, e, m)
  BY <1>4, <1>6, <1>7 DEF r
<1>8. CASE ~Adds(s, e, m)
  BY <1>4, <1>6, <1>8 DEF r
<1> QED
  BY <1>7, <1>8

LEMMA CoveredPop ==
    ASSUME NEW s \in Seq(Tags), NEW m \in BOOLEAN, s # <<>>
    PROVE  LET covered == Cardinality(Covered(s, m)) - (IF Len(s) \in Covered(s, m) THEN 1 ELSE 0)
               left == Cardinality(Covered(SubSeq(s, 1, Len(s) - 1), m))
           IN  left <= covered /\ (m => left = covered)
<1> DEFINE r == SubSeq(s, 1, Len(s) - 1)
<1>1. /\ Len(s) \in Nat \ {0} /\ Len(r) = Len(s) - 1
      /\ r \in Seq(Tags)
      /\ \A i \in 1..(Len(s) - 1) : r[i] = s[i]
  BY Popped
<1> HIDE DEF r
<1>2. ASSUME NEW i \in 1..(Len(s) - 1)
      PROVE  (i \in Covered(r, m) => i \in Covered(s, m)) /\ (m => (i \in Covered(s, m) => i \in Covered(r, m)))
  <2>1. i \in 1..Len(s) /\ i \in 1..Len(r) /\ r[i] = s[i]
    BY <1>1
  <2>2. i < Len(r) => r[i + 1] = s[i + 1] /\ i < Len(s)
    BY <1>1
  <2>3. i \in Covered(r, m) => i \in Covered(s, m)
    BY <2>1, <2>2 DEF Covered
  <2>4. m => (i \in Covered(s, m) => i \in Covered(r, m))
    BY <2>1 DEF Covered
  <2> QED
    BY <2>3, <2>4
<1>3. /\ Covered(r, m) \subseteq Covered(s, m) \ {Len(s)}
      /\ m => Covered(r, m) = Covered(s, m) \ {Len(s)}
  <2>1. Covered(r, m) \subseteq 1..(Len(s) - 1) /\ Covered(s, m) \subseteq 1..Len(s)
    BY <1>1 DEF Covered
  <2> QED
    BY <1>1, <1>2, <2>1
<1>4. /\ IsFiniteSet(Covered(s, m) \ {Len(s)})
      /\ Cardinality(Covered(s, m) \ {Len(s)}) =
           Cardinality(Covered(s, m)) - (IF Len(s) \in Covered(s, m) THEN 1 ELSE 0)
      /\ Cardinality(Covered(s, m)) \in Nat /\ Cardinality(Covered(r, m)) \in Nat
  <2>1. IsFiniteSet(Covered(s, m))
    BY CoveredFinite
  <2>2. Cardinality(Covered(s, m)) \in Nat /\ Cardinality(Covered(r, m)) \in Nat
    BY <1>1, CoveredFinite
  <2>3. /\ IsFiniteSet(Covered(s, m) \ {Len(s)})
        /\ Cardinality(Covered(s, m) \ {Len(s)}) =
              IF Len(s) \in Covered(s, m) THEN Cardinality(Covered(s, m)) - 1 ELSE Cardinality(Covered(s, m))
    BY <2>1, FS_RemoveElement
  <2>4. CASE Len(s) \in Covered(s, m)
    BY <2>2, <2>3, <2>4
  <2>5. CASE Len(s) \notin Covered(s, m)
    BY <2>2, <2>3, <2>5
  <2> QED
    BY <2>4, <2>5
<1>5. Cardinality(Covered(r, m)) <= Cardinality(Covered(s, m) \ {Len(s)})
  BY <1>3, <1>4, FS_Subset
<1> QED
  BY <1>3, <1>4, <1>5 DEF r

LEMMA CountedPush ==
    ASSUME NEW s \in Seq(Tags), NEW e \in Tags
    PROVE  Cardinality(Counted(Append(s, e))) = Cardinality(Counted(s)) + (IF e = "counted" THEN 1 ELSE 0)
<1> DEFINE r == Append(s, e)
<1>1. /\ Len(s) \in Nat /\ Len(r) = Len(s) + 1
      /\ r[Len(s) + 1] = e
      /\ \A i \in 1..Len(s) : r[i] = s[i]
  BY Pushed
<1> HIDE DEF r
<1>2. IsFiniteSet(Counted(s)) /\ Cardinality(Counted(s)) \in Nat
  BY CoveredFinite
<1>3. Cardinality(Counted(s) \cup {Len(s) + 1}) = Cardinality(Counted(s)) + 1
  <2>1. Len(s) + 1 \notin Counted(s)
    BY <1>1 DEF Counted
  <2> QED
    BY <1>2, <2>1, FS_AddElement
<1>4. CASE e = "counted"
  <2>1. Counted(r) = Counted(s) \cup {Len(s) + 1}
    BY <1>1, <1>4 DEF Counted
  <2> QED
    BY <1>3, <1>4, <2>1 DEF r
<1>5. CASE e # "counted"
  <2>1. Counted(r) = Counted(s)
    BY <1>1, <1>5 DEF Counted
  <2> QED
    BY <1>2, <1>5, <2>1 DEF r
<1> QED
  BY <1>4, <1>5

LEMMA CountedPop ==
    ASSUME NEW s \in Seq(Tags), s # <<>>
    PROVE  Cardinality(Counted(SubSeq(s, 1, Len(s) - 1))) =
             Cardinality(Counted(s)) - (IF s[Len(s)] = "counted" THEN 1 ELSE 0)
<1> DEFINE r == SubSeq(s, 1, Len(s) - 1)
<1>1. /\ Len(s) \in Nat \ {0} /\ Len(r) = Len(s) - 1
      /\ \A i \in 1..(Len(s) - 1) : r[i] = s[i]
  BY Popped
<1> HIDE DEF r
<1>2. IsFiniteSet(Counted(s)) /\ Cardinality(Counted(s)) \in Nat
  BY CoveredFinite
<1>3. CASE s[Len(s)] = "counted"
  <2>1. Len(s) \in Counted(s) /\ Counted(r) = Counted(s) \ {Len(s)}
    BY <1>1, <1>3 DEF Counted
  <2>2. Cardinality(Counted(s) \ {Len(s)}) = Cardinality(Counted(s)) - 1
    BY <1>2, <2>1, FS_RemoveElement
  <2> QED
    BY <1>3, <2>1, <2>2 DEF r
<1>4. CASE s[Len(s)] # "counted"
  <2>1. Counted(r) = Counted(s)
    BY <1>1, <1>4 DEF Counted
  <2> QED
    BY <1>2, <1>4, <2>1 DEF r
<1> QED
  BY <1>3, <1>4

\* Fewer entries have to be covered once locking is off.
LEMMA CoveredMode ==
    ASSUME NEW s \in Seq(Tags), NEW m \in BOOLEAN
    PROVE  Cardinality(Covered(s, FALSE)) <= Cardinality(Covered(s, m))
<1>1. Covered(s, FALSE) \subseteq Covered(s, m)
  BY DEF Covered
<1> QED
  BY <1>1, FS_Subset, CoveredFinite

-----------------------------------------------------------------------------
(* Whose holds they are.                                                     *)

LEMMA CoveredOwns ==
    ASSUME TypeOK, NEW t \in Threads, LockOf(t), HoldsOf(t), ~Suspended(t),
           Covered(stack[t], multi) # {}
    PROVE  owner = t /\ held[t] \in Nat \ {0}
<1>1. stack[t] \in Seq(Tags) /\ multi \in BOOLEAN /\ held[t] \in Nat
  BY DEF TypeOK
<1>2. Cardinality(Covered(stack[t], multi)) \in Nat \ {0}
  BY <1>1, CoveredFinite, FS_EmptySet
<1>3. held[t] >= Cardinality(Covered(stack[t], multi))
  BY DEF HoldsOf, Holds
<1> QED
  BY <1>1, <1>2, <1>3 DEF LockOf

\* With locking on, whoever is in an entry that is neither local nor shared, or in
\* a destructor that one runs, has the exclusive hold.
LEMMA EntryOwns ==
    ASSUME TypeOK, NEW t \in Threads, LockOf(t), StackOf(t), HoldsOf(t), ~Suspended(t), stack[t] # <<>>,
           \/ Len(stack[t]) > 1
           \/ Top(t, {"solo", "excl", "nested", "unwind"}),
           \/ multi
           \/ Top(t, {"excl", "unwind"})
    PROVE  owner = t /\ held[t] \in Nat \ {0}
<1>1. stack[t] \in Seq(Tags) /\ Len(stack[t]) \in Nat \ {0}
  BY DEF TypeOK
<1>2. CASE Top(t, {"excl", "unwind"})
  <2>1. Len(stack[t]) \in Covered(stack[t], multi)
    BY <1>1, <1>2 DEF Covered, Top
  <2> QED
    BY <2>1, CoveredOwns
<1>3. CASE multi
  <2>1. stack[t][1] \in {"solo", "excl", "nested", "unwind"}
    BY <1>1 DEF StackOf, WellFormed, Top
  <2> QED
    <3>1. 1 \in Covered(stack[t], multi)
      BY <1>1, <1>3, <2>1 DEF Covered
    <3> QED
      BY <3>1, CoveredOwns
<1> QED
  BY <1>2, <1>3

LEMMA Sorts ==
    /\ Main \in Threads /\ Threads \subseteq Nat \ {0} /\ Nobody \notin Threads
    /\ Heaps \subseteq Nat /\ {0, 1} \subseteq Heaps
    /\ TypeOK => Existing \subseteq Heaps /\ 0 \in Existing
<1>1. Main \in Threads /\ Threads \subseteq Nat \ {0} /\ Nobody \notin Threads
  BY SizesAssumption DEF Main, Threads, Nobody
<1>2. Heaps \subseteq Nat /\ {0, 1} \subseteq Heaps
  BY SizesAssumption DEF Heaps
<1>3. ASSUME TypeOK PROVE Existing \subseteq Heaps /\ 0 \in Existing
  <2>1. heaps_n \in 1..MaxHeaps /\ MaxHeaps \in Nat
    BY <1>3, SizesAssumption DEF TypeOK
  <2> QED
    BY <2>1 DEF Existing, Heaps
<1> QED
  BY <1>1, <1>2, <1>3

-----------------------------------------------------------------------------
(* Steps of others.                                                          *)

\* A step leaves a thread alone: what is its own stays, locking is switched only
\* where it has no part, and it neither has nor awaits a heap of the holder's.
Same(u) ==
    /\ at'[u] = at[u] /\ goal'[u] = goal[u] /\ want'[u] = want[u] /\ stack'[u] = stack[u]
    /\ held'[u] = held[u] /\ saved'[u] = saved[u]
    /\ writer' = u <=> writer = u
    /\ owner' = u <=> owner = u
    /\ u \in readers' <=> u \in readers
    /\ u \in alive' <=> u \in alive
    /\ Locked(u)' = Locked(u)
    /\ multi' = multi \/ at[u] \in {"unborn", "ended"}
    /\ heaps_n' = heaps_n \/ (heaps_n' = heaps_n + 1 /\ at[u] # "heaps")
    /\ Apart(u)'

LEMMA Intervals ==
    \A a, b \in Nat : (a <= b => 0..(a - 1) \subseteq 0..(b - 1)) /\ (a < b => a \in 0..(b - 1))
OBVIOUS

LEMMA SameKeeps ==
    ASSUME TypeOK, TypeOK', NEW u \in Threads, ThreadOk(u), Same(u)
    PROVE  ThreadOk(u)'
<1>1. LockOf(u)'
  BY DEF ThreadOk, Same, LockOf, Top
<1>2. StackOf(u)'
  BY DEF ThreadOk, Same, StackOf, Top
<1>3. GoalOf(u)'
  BY DEF ThreadOk, Same, GoalOf
<1>4. HoldsOf(u)'
  <2>1. Holds(u)' = Holds(u)
    BY DEF Same, Holds, Suspended
  <2>2. CASE multi' = multi
    BY <2>1, <2>2 DEF ThreadOk, Same, HoldsOf
  <2>3. CASE at[u] \in {"unborn", "ended"}
    <3>1. stack[u] = <<>> /\ stack[u] \in Seq(Tags) /\ multi \in BOOLEAN /\ multi' \in BOOLEAN
      BY <2>3 DEF ThreadOk, StackOf, TypeOK
    <3>2. Cardinality(Covered(stack[u], multi)) = 0 /\ Cardinality(Covered(stack[u], multi')) = 0
      BY <3>1, CoveredFinite
    <3> QED
      BY <2>1, <3>2 DEF ThreadOk, Same, HoldsOf
  <2> QED
    BY <2>2, <2>3 DEF Same
<1>5. HeapsOf(u)'
  <2>1. heaps_n \in Nat /\ heaps_n' \in Nat
    BY SizesAssumption DEF TypeOK
  <2>2. Existing \subseteq Existing' /\ (at[u] = "heaps" => Existing' = Existing)
    <3>1. heaps_n' = heaps_n \/ (heaps_n' = heaps_n + 1 /\ at[u] # "heaps")
      BY DEF Same
    <3>2. Existing \subseteq Existing'
      <4>1. heaps_n <= heaps_n'
        BY <2>1, <3>1
      <4> QED
        BY <2>1, <4>1, Intervals DEF Existing
    <3>3. at[u] = "heaps" => Existing' = Existing
      BY <3>1 DEF Existing
    <3> QED
      BY <3>2, <3>3
  <2>3. Locked(u)' = Locked(u) /\ want'[u] = want[u] /\ at'[u] = at[u] /\ stack'[u] = stack[u]
        /\ (owner' = u <=> owner = u) /\ Apart(u)'
    BY DEF Same
  <2>4. Locked(u)' \subseteq Existing' /\ want'[u] \subseteq Existing'
    BY <2>2, <2>3 DEF ThreadOk, HeapsOf
  <2>5. Top(u, {"local"})' <=> Top(u, {"local"})
    BY <2>3 DEF Top
  <2>6. at[u] = "heaps" =>
           /\ Existing' \ Locked(u)' # {}
           /\ \A h \in Existing' \ Locked(u)', g \in Locked(u)' : g < h
    BY <2>2, <2>3 DEF ThreadOk, HeapsOf
  <2>7. at[u] = "local" =>
          /\ want'[u] \ Locked(u)' # {}
          /\ \A h \in want'[u] \ Locked(u)', g \in Locked(u)' : g < h
    BY <2>3 DEF ThreadOk, HeapsOf
  <2>8. owner' = u \/ at'[u] = "heaps" \/ Locked(u)' = {}
        \/ (Locked(u)' \subseteq want'[u] /\ (at'[u] \in {"local", "plan"} \/ (at'[u] = "inside" /\ Top(u, {"local"})')))
    BY <2>3, <2>5 DEF ThreadOk, HeapsOf
  <2> QED
    BY <2>3, <2>4, <2>6, <2>7, <2>8 DEF HeapsOf, Apart
<1> QED
  BY <1>1, <1>2, <1>3, <1>4, <1>5 DEF ThreadOk

\* With nobody else's part touched, what is left to show is the stepping thread's.
LEMMA OthersKeep ==
    ASSUME IInv, TypeOK', NEW t \in Threads, \A u \in Threads \ {t} : Same(u), ThreadOk(t)',
           ReadersAlone', DepthAt', UsersAt', SoloIsPending'
    PROVE  IInv'
<1>1. \A u \in Threads \ {t} : ThreadOk(u)'
  BY SameKeeps DEF IInv
<1>2. \A u \in Threads : ThreadOk(u)'
  BY <1>1
<1> QED
  BY <1>2 DEF IInv

LEMMA HeapUsersKeep ==
    ASSUME IInv, NEW t \in Threads, \A u \in Threads \ {t} : Same(u),
           UNCHANGED <<users, heap>>, HasHeap(t)' <=> HasHeap(t)
    PROVE  UsersAt'
<1>1. \A u \in Threads : HasHeap(u)' <=> HasHeap(u)
  BY DEF Same, HasHeap
<1>2. ASSUME NEW h \in Heaps
      PROVE  {u \in Threads : HasHeap(u)' /\ heap'[u] = h} = {u \in Threads : HasHeap(u) /\ heap[u] = h}
  BY <1>1
<1> QED
  BY <1>2 DEF IInv, UsersAt

LEMMA DepthKeeps ==
    ASSUME TypeOK, TypeOK', DepthAt, NEW t \in Threads, \A u \in Threads \ {t} : stack'[u] = stack[u],
           UNCHANGED depth, Cardinality(Counted(stack'[t])) = Cardinality(Counted(stack[t]))
    PROVE  DepthAt'
<1>1. stack[t] \in Seq(Tags) /\ stack'[t] \in Seq(Tags)
  BY DEF TypeOK
<1>2. IsFiniteSet(Counted(stack[t])) /\ IsFiniteSet(Counted(stack'[t]))
  BY <1>1, CoveredFinite
<1>3. Counted(stack[t]) = {} => Counted(stack'[t]) = {}
  BY <1>2, FS_EmptySet
<1>4. CASE t = Main
  BY <1>4 DEF DepthAt
<1>5. CASE t # Main
  BY <1>3, <1>5, Sorts DEF DepthAt
<1> QED
  BY <1>4, <1>5

\* A thread that gives its heaps' locks back, or takes one, leaves the others theirs.
LEMMA LocksOfOthers ==
    ASSUME TypeOK, NEW t \in Threads
    PROVE  /\ UNCHANGED heapLock => \A u \in Threads : Locked(u)' = Locked(u)
           /\ UnlockHeaps(t) => Locked(t)' = {} /\ \A u \in Threads \ {t} : Locked(u)' = Locked(u)
           /\ \A h \in Heaps : LockHeap(t, h) =>
                 Locked(t)' = Locked(t) \cup {h} /\ \A u \in Threads \ {t} : Locked(u)' = Locked(u)
<1>1. UNCHANGED heapLock => \A u \in Threads : Locked(u)' = Locked(u)
  BY DEF Locked
<1>2. ASSUME UnlockHeaps(t)
      PROVE  Locked(t)' = {} /\ \A u \in Threads \ {t} : Locked(u)' = Locked(u)
  BY <1>2, Sorts DEF UnlockHeaps, Locked, TypeOK
<1>3. ASSUME NEW h \in Heaps, LockHeap(t, h)
      PROVE  Locked(t)' = Locked(t) \cup {h} /\ \A u \in Threads \ {t} : Locked(u)' = Locked(u)
  <2>1. heapLock' \in [Heaps -> Threads \cup {Nobody}] /\ heapLock[h] = Nobody /\ heapLock'[h] = t
    BY <1>3 DEF LockHeap, TypeOK
  <2>2. \A g \in Heaps \ {h} : heapLock'[g] = heapLock[g]
    BY <1>3 DEF LockHeap, TypeOK
  <2> QED
    BY <2>1, <2>2, Sorts DEF Locked
<1> QED
  BY <1>1, <1>2, <1>3

\* Where no heap is being taken, it is enough that the thread has none but with an
\* exclusive hold.
LEMMA HeapsAtRest ==
    ASSUME NEW t \in Threads, at'[t] \notin {"heaps", "local"}, owner' = t \/ Locked(t)' = {},
           Locked(t)' \subseteq Existing', want'[t] \subseteq Existing', Apart(t)'
    PROVE  HeapsOf(t)'
BY DEF HeapsOf

\* And where one is at rest, that is so.
LEMMA RestingHeaps ==
    ASSUME NEW t \in Threads, ThreadOk(t), at[t] \notin {"heaps", "local", "plan"},
           ~(at[t] = "inside" /\ Top(t, {"local"}))
    PROVE  /\ owner = t \/ Locked(t) = {}
           /\ Locked(t) \subseteq Existing /\ want[t] \subseteq Existing /\ Apart(t)
BY DEF ThreadOk, HeapsOf

\* The other threads stay where they are.
OthersStay(t) ==
    \A u \in Threads \ {t} :
        /\ at'[u] = at[u] /\ goal'[u] = goal[u] /\ want'[u] = want[u]
        /\ stack'[u] = stack[u] /\ held'[u] = held[u] /\ saved'[u] = saved[u]

LEMMA LocksStay ==
    ASSUME IInv, NEW t \in Threads, OthersStay(t),
           UNCHANGED <<writer, readers, owner, heapLock, heaps_n, alive>>,
           \A u \in Threads \ {t} : multi' = multi \/ at[u] \in {"unborn", "ended"}
    PROVE  /\ \A u \in Threads \ {t} : Same(u)
           /\ \A u \in Threads : Locked(u)' = Locked(u)
           /\ \A u \in Threads : want'[u] = want[u] => (Apart(u)' <=> Apart(u))
           /\ ReadersAlone'
<1>1. TypeOK /\ (\A u \in Threads : ThreadOk(u)) /\ ReadersAlone
  BY DEF IInv
<1>2. \A u \in Threads : Locked(u)' = Locked(u)
  BY <1>1, LocksOfOthers DEF locks
<1>3. \A u \in Threads : want'[u] = want[u] => (Apart(u)' <=> Apart(u))
  BY <1>1, <1>2 DEF Apart, locks, TypeOK
<1>4. \A u \in Threads \ {t} : Same(u)
  BY <1>1, <1>2, <1>3 DEF Same, OthersStay, locks, ThreadOk, HeapsOf
<1>5. ReadersAlone'
  BY <1>1 DEF ReadersAlone, locks
<1> QED
  BY <1>2, <1>3, <1>4, <1>5

-----------------------------------------------------------------------------
(* Steps that take and give back no lock, on a stack left as it is.           *)

\* Where such a step may lead, what the thread waits in having no hold of its own.
Quietly(t) ==
    \/ at[t] = "pool" /\ at'[t] = "program" /\ goal'[t] = goal[t]
    \/ at[t] = "program" /\ at'[t] = "pool" /\ goal'[t] = goal[t]
    \/ at[t] = "blocked" /\ at'[t] = "lock" /\ goal'[t] = "resume"
    \/ /\ at[t] \in {"program", "job"} /\ at'[t] = "lock" /\ multi /\ owner # t /\ stack[t] = <<>>
       /\ goal'[t] \in {"work", "claim", "final"} /\ (goal'[t] = "work" \/ t # Main)
       /\ goal'[t] = "claim" <=> at[t] = "job"

LEMMA QuietlyKeeps ==
    ASSUME IInv, TypeOK', NEW t \in Threads, Quietly(t), OthersStay(t),
           UNCHANGED <<locks, heaps, multi, solo_pending, alive, depth, want, saved, stack>>
    PROVE  IInv'
<1>1. TypeOK /\ ThreadOk(t) /\ DepthAt /\ SoloIsPending
  BY DEF IInv
<1>2. (\A u \in Threads \ {t} : Same(u)) /\ Locked(t)' = Locked(t) /\ (Apart(t)' <=> Apart(t)) /\ ReadersAlone'
  BY LocksStay DEF heaps, locks
<1>3. LockOf(t)' /\ StackOf(t)' /\ GoalOf(t)'
  BY <1>1 DEF Quietly, ThreadOk, LockOf, StackOf, GoalOf, Top, locks
<1>4. HoldsOf(t)'
  BY <1>1 DEF Quietly, ThreadOk, GoalOf, HoldsOf, Holds, Suspended, locks
<1>5. HeapsOf(t)'
  BY <1>1, <1>2, RestingHeaps, HeapsAtRest DEF Quietly, locks, heaps, Existing
<1>6. ThreadOk(t)' /\ DepthAt' /\ SoloIsPending'
  BY <1>1, <1>3, <1>4, <1>5 DEF ThreadOk, DepthAt, SoloIsPending
<1>7. UsersAt'
  BY <1>1, <1>2, HeapUsersKeep DEF Quietly, heaps, HasHeap, ThreadOk, GoalOf
<1> QED
  BY <1>2, <1>6, <1>7, OthersKeep

LEMMA OwnStepDoneKeeps == ASSUME IInv, NEW t \in Threads, OwnStepDone(t) PROVE IInv'
<1>1. TypeOK /\ TypeOK' /\ Quietly(t) /\ OthersStay(t)
  BY DEF IInv, OwnStepDone, Go, TypeOK, Quietly, OthersStay, locks, heaps
<1> QED
  BY <1>1, QuietlyKeeps DEF OwnStepDone

LEMMA OwnStepKeeps ==
    ASSUME IInv, NEW t \in Threads, OwnStep(t), ~(multi /\ shared[heap[t]])
    PROVE  IInv'
<1>1. /\ Go(t, "program", "pool")
      /\ UNCHANGED <<locks, heaps, multi, solo_pending, alive, depth, goal, want, saved, stack>>
  BY DEF OwnStep
<1>2. TypeOK /\ TypeOK' /\ Quietly(t) /\ OthersStay(t)
  BY <1>1 DEF IInv, Go, TypeOK, Quietly, OthersStay, locks, heaps
<1> QED
  BY <1>1, <1>2, QuietlyKeeps

LEMMA UnblockKeeps == ASSUME IInv, NEW t \in Threads, Unblock(t) PROVE IInv'
<1>1. TypeOK /\ TypeOK' /\ Quietly(t) /\ OthersStay(t)
  BY DEF IInv, Unblock, Go, TypeOK, Quietly, OthersStay, locks, heaps
<1> QED
  BY <1>1, QuietlyKeeps DEF Unblock

-----------------------------------------------------------------------------
(* Entries that take no more of the locks.                                   *)

\* What is on a stack after a push.
LEMMA PushStack ==
    ASSUME TypeOK, NEW t \in Threads, NEW e \in Tags, Push(t, e), WellFormed(stack[t]),
           \/ e \notin Destructors /\ (stack[t] = <<>> \/ Top(t, Destructors))
           \/ e \in Destructors /\ Top(t, {"solo", "excl", "nested", "unwind"})
    PROVE  /\ stack' \in [Threads -> Seq(Tags)] /\ \A u \in Threads \ {t} : stack'[u] = stack[u]
           /\ stack'[t] = Append(stack[t], e) /\ stack'[t] # <<>>
           /\ Len(stack[t]) \in Nat /\ Len(stack'[t]) = Len(stack[t]) + 1
           /\ stack[t] = <<>> <=> Len(stack[t]) = 0
           /\ stack'[t][Len(stack'[t])] = e
           /\ \A i \in 1..Len(stack[t]) : stack'[t][i] = stack[t][i]
           /\ WellFormed(stack'[t])
<1>1. stack[t] \in Seq(Tags) /\ stack'[t] = Append(stack[t], e)
  BY DEF TypeOK, Push
<1>2. stack' \in [Threads -> Seq(Tags)] /\ \A u \in Threads \ {t} : stack'[u] = stack[u]
  BY <1>1, Pushed DEF TypeOK, Push
<1>3. Len(stack[t]) \in Nat /\ (stack[t] = <<>> <=> Len(stack[t]) = 0)
  BY <1>1
<1>4. WellFormed(stack'[t])
  BY <1>1, WellFormedPush DEF Top
<1> QED
  BY <1>1, <1>2, <1>3, <1>4, Pushed

\* The entries that are begun with the locks as they are.
MayPush(t, e) ==
    \/ at[t] = "program" /\ e = "solo" /\ ~multi
    \/ at[t] = "program" /\ e = "nested" /\ multi /\ owner = t
    \/ at[t] = "program" /\ e = "free" /\ (~multi \/ owner = t)
    \/ at[t] = "plan" /\ e = "local"

LEMMA PushKeeps ==
    ASSUME IInv, NEW t \in Threads, NEW e \in Tags, MayPush(t, e), Push(t, e),
           at' = [at EXCEPT ![t] = "inside"], goal' = [goal EXCEPT ![t] = "work"],
           UNCHANGED <<locks, heaps, multi, solo_pending, alive, depth, want, saved>>
    PROVE  IInv'
<1>1. TypeOK /\ ThreadOk(t) /\ DepthAt /\ SoloIsPending
  BY DEF IInv
<1>2. /\ stack[t] \in Seq(Tags) /\ multi \in BOOLEAN /\ held[t] \in Nat
      /\ stack[t] = <<>> \/ (Top(t, Destructors) /\ at[t] = "program")
      /\ e \notin Destructors
      /\ WellFormed(stack[t])
      /\ \A i \in 1..Len(stack[t]) : stack[t][i] \notin {"local", "read"}
  BY <1>1 DEF ThreadOk, StackOf, MayPush, TypeOK, Destructors
<1>3. /\ stack' \in [Threads -> Seq(Tags)] /\ \A u \in Threads \ {t} : stack'[u] = stack[u]
      /\ stack'[t] = Append(stack[t], e) /\ stack'[t] # <<>>
      /\ Len(stack[t]) \in Nat /\ Len(stack'[t]) = Len(stack[t]) + 1
      /\ stack[t] = <<>> <=> Len(stack[t]) = 0
      /\ stack'[t][Len(stack'[t])] = e
      /\ \A i \in 1..Len(stack[t]) : stack'[t][i] = stack[t][i]
      /\ WellFormed(stack'[t])
  BY <1>1, <1>2, PushStack
<1>4. at'[t] = "inside" /\ goal'[t] = "work" /\ OthersStay(t)
  BY <1>1, <1>3 DEF OthersStay, TypeOK, locks
<1>5. TypeOK'
  BY <1>1, <1>3 DEF TypeOK, locks, heaps
<1>6. (\A u \in Threads \ {t} : Same(u)) /\ Locked(t)' = Locked(t) /\ (Apart(t)' <=> Apart(t)) /\ ReadersAlone'
  BY <1>4, LocksStay DEF heaps, locks
<1>7. LockOf(t)'
  BY <1>1, <1>3, <1>4 DEF ThreadOk, LockOf, Top, locks, MayPush
<1>8. StackOf(t)'
  <2>1. \A i \in 1..Len(stack'[t]) : Len(stack'[t]) > 1 => stack'[t][i] \notin {"local", "read"}
    BY <1>1, <1>2, <1>3 DEF MayPush, ThreadOk, StackOf
  <2>2. t = Main => \A i \in 1..Len(stack'[t]) : stack'[t][i] # "unwind"
    BY <1>1, <1>2, <1>3 DEF MayPush, ThreadOk, StackOf
  <2>3. t # Main => stack'[t][1] # "nested"
    <3>1. t # Main /\ stack[t] = <<>> => owner # t
      <4>1. Holds(t) = held[t]
        BY DEF Holds, Suspended, MayPush
      <4>2. stack[t] = <<>> => Cardinality(Covered(stack[t], multi)) = 0
        BY <1>2, CoveredFinite
      <4> QED
        BY <1>1, <4>1, <4>2 DEF ThreadOk, LockOf, HoldsOf
    <3> QED
      BY <1>1, <1>3, <3>1 DEF MayPush, ThreadOk, StackOf
  <2>4. e = "local" => owner # t
    BY <1>1 DEF MayPush, ThreadOk, LockOf
  <2> QED
    BY <1>1, <1>2, <1>3, <1>4, <2>1, <2>2, <2>3, <2>4 DEF StackOf, Top, MayPush, locks
<1>9. GoalOf(t)'
  BY <1>1, <1>4 DEF ThreadOk, GoalOf, MayPush
<1>10. HoldsOf(t)'
  <2>1. Cardinality(Covered(stack'[t], multi)) =
          Cardinality(Covered(stack[t], multi)) + (IF Adds(stack[t], e, multi) THEN 1 ELSE 0)
    BY <1>2, <1>3, CoveredPush DEF Destructors
  <2>2. Holds(t) = held[t] /\ Holds(t)' = held[t]
    BY <1>1, <1>4 DEF Holds, Suspended, MayPush, locks
  <2>3. Cardinality(Covered(stack[t], multi)) \in Nat /\ held[t] >= Cardinality(Covered(stack[t], multi))
    BY <1>1, <1>2, <2>2, CoveredFinite DEF ThreadOk, HoldsOf
  <2>4. CASE Adds(stack[t], e, multi)
    <3>1. owner = t /\ stack[t] = <<>> /\ Cardinality(Covered(stack[t], multi)) = 0
      BY <1>2, <2>4, CoveredFinite DEF Adds, MayPush
    <3>2. held[t] > 0 /\ t = Main
      BY <1>1, <2>2, <3>1 DEF ThreadOk, LockOf, HoldsOf
    <3> QED
      BY <1>2, <2>1, <2>2, <2>4, <3>1, <3>2 DEF HoldsOf
  <2>5. CASE ~Adds(stack[t], e, multi)
    <3>1. Cardinality(Covered(stack'[t], multi')) = Cardinality(Covered(stack[t], multi))
      BY <2>1, <2>3, <2>5
    <3>2. stack'[t][1] # "unwind" => stack[t] = <<>> \/ stack[t][1] # "unwind"
      BY <1>3
    <3> QED
      BY <1>1, <1>3, <2>2, <3>1, <3>2 DEF ThreadOk, HoldsOf
  <2> QED
    BY <2>4, <2>5
<1>11. HeapsOf(t)'
  BY <1>1, <1>3, <1>4, <1>6 DEF ThreadOk, HeapsOf, MayPush, locks, heaps, Existing, Top, StackOf
<1>12. DepthAt' /\ SoloIsPending'
  <2>1. Cardinality(Counted(stack'[t])) = Cardinality(Counted(stack[t])) /\ Cardinality(Counted(stack[t])) \in Nat
    BY <1>2, <1>3, CountedPush, CoveredFinite DEF Destructors
  <2>2. DepthAt'
    BY <1>1, <1>3, <1>5, <2>1, DepthKeeps
  <2> QED
    BY <1>1, <2>2 DEF SoloIsPending
<1>13. UsersAt'
  BY <1>1, <1>4, <1>6, HeapUsersKeep DEF MayPush, heaps, HasHeap, ThreadOk, GoalOf
<1> QED
  BY <1>1, <1>5, <1>6, <1>7, <1>8, <1>9, <1>10, <1>11, <1>12, <1>13, OthersKeep DEF ThreadOk

LEMMA EnterLocalNested ==
    ASSUME IInv, NEW t \in Threads, NEW hs, EnterLocal(t, hs), owner = t PROVE IInv'
<1>1. /\ at[t] = "program" /\ multi /\ Push(t, "nested") /\ at' = [at EXCEPT ![t] = "inside"]
      /\ UNCHANGED <<locks, heaps, multi, solo_pending, alive, depth, want, saved, goal>>
  BY DEF EnterLocal
<1>2. goal' = [goal EXCEPT ![t] = "work"]
  BY <1>1, Sorts DEF IInv, ThreadOk, GoalOf, TypeOK
<1> QED
  BY <1>1, <1>2, PushKeeps DEF MayPush, Tags

LEMMA PlannedKeeps == ASSUME IInv, NEW t \in Threads, Planned(t) PROVE IInv'
<1>1. goal' = [goal EXCEPT ![t] = "work"]
  BY DEF IInv, ThreadOk, GoalOf, TypeOK, Planned, Go
<1> QED
  BY <1>1, PushKeeps DEF Planned, Go, MayPush, Tags

-----------------------------------------------------------------------------
(* Exclusive entries.                                                        *)

\* Locking is switched off when no other thread is anywhere.
LEMMA SwitchOffAlone ==
    ASSUME IInv, NEW t \in Threads, writer = t, multi, UNCHANGED alive, SwitchOff(t)
    PROVE  /\ multi' \in BOOLEAN /\ solo_pending' \in BOOLEAN /\ SoloIsPending'
           /\ multi' = multi \/ (~multi' /\ t = Main)
           /\ \A u \in Threads \ {t} : multi' = multi \/ at[u] \in {"unborn", "ended"}
<1>1. TypeOK /\ (\A u \in Threads : ThreadOk(u)) /\ SoloIsPending
  BY DEF IInv
<1>2. CASE ~(solo_pending /\ t = Main /\ alive = {Main})
  BY <1>1, <1>2 DEF SwitchOff, TypeOK, SoloIsPending
<1>3. CASE solo_pending /\ t = Main /\ alive = {Main}
  <2>1. ~multi' /\ multi' = FALSE /\ solo_pending' = FALSE
    BY <1>3 DEF SwitchOff
  <2>2. ASSUME NEW u \in Threads \ {t}, at[u] = "inside", goal[u] = "leave" PROVE FALSE
    <3>1. Top(u, {"excl"}) /\ stack[u] # <<>> /\ ~Suspended(u)
      BY <1>1, <2>2 DEF ThreadOk, StackOf, Suspended
    <3>2. owner = u
      BY <1>1, <3>1, EntryOwns DEF ThreadOk, Top
    <3> QED
      BY <1>1, <3>2 DEF ThreadOk, LockOf
  <2>3. \A u \in Threads \ {t} : at[u] \in {"unborn", "ended"}
    BY <1>1, <1>3, <2>2 DEF ThreadOk, GoalOf
  <2> QED
    BY <1>3, <2>1, <2>3 DEF SoloIsPending
<1> QED
  BY <1>2, <1>3

\* One entry more, for which there is one hold more.
LEMMA ExclHolds ==
    ASSUME TypeOK, NEW t \in Threads, HoldsOf(t), multi, NEW m \in BOOLEAN, m \/ t = Main
    PROVE  /\ Holds(t) + 1 >= Cardinality(Covered(Append(stack[t], "excl"), m))
           /\ t # Main /\ (stack[t] = <<>> \/ stack[t][1] # "unwind") =>
                 Holds(t) + 1 = Cardinality(Covered(Append(stack[t], "excl"), m))
<1> DEFINE n == Holds(t)
           s == Append(stack[t], "excl")
           c == Cardinality(Covered(stack[t], multi))
           d == Cardinality(Covered(s, multi))
           e == Cardinality(Covered(s, m))
<1>1. stack[t] \in Seq(Tags) /\ s \in Seq(Tags) /\ n \in Nat /\ multi = TRUE
  BY Pushed DEF TypeOK, Holds, Tags
<1>2. d = c + 1
  BY <1>1, CoveredPush, CoveredFinite DEF Adds, Tags
<1>3. c \in Nat /\ d \in Nat /\ e \in Nat /\ Cardinality(Covered(s, FALSE)) <= d
  BY <1>1, CoveredFinite, CoveredMode
<1>4. e = d \/ (t = Main /\ e <= d)
  <2>1. CASE m = TRUE
    <3>1. m = multi
      BY <1>1, <2>1
    <3> QED
      BY <3>1
  <2>2. CASE m = FALSE
    BY <1>3, <2>2
  <2> QED
    BY <2>1, <2>2
<1>5. n >= c /\ (t # Main /\ (stack[t] = <<>> \/ stack[t][1] # "unwind") => n = c)
  BY DEF HoldsOf
<1> HIDE DEF n, c, d, e
<1>6. n + 1 >= e
  BY <1>1, <1>2, <1>3, <1>4, <1>5
<1>7. t # Main /\ (stack[t] = <<>> \/ stack[t][1] # "unwind") => n + 1 = e
  BY <1>1, <1>2, <1>3, <1>4, <1>5
<1> QED
  BY <1>6, <1>7 DEF n, e

\* In its own code or in a destructor, with locking on, a thread without the
\* exclusive hold has no entry under way.
LEMMA OutsideIsEmpty ==
    ASSUME IInv, NEW t \in Threads, at[t] \in {"program", "pool"}, multi, owner # t
    PROVE  stack[t] = <<>>
<1>1. TypeOK /\ ThreadOk(t)
  BY DEF IInv
<1> SUFFICES ASSUME stack[t] # <<>> PROVE FALSE
  OBVIOUS
<1>2. stack[t] \in Seq(Tags) /\ Len(stack[t]) \in Nat \ {0}
  BY <1>1 DEF TypeOK
<1>3. Len(stack[t]) > 1
  BY <1>1, <1>2 DEF ThreadOk, StackOf, WellFormed, Top
<1>4. ~Suspended(t)
  BY DEF Suspended
<1> QED
  BY <1>1, <1>3, <1>4, EntryOwns DEF ThreadOk

LEMMA EnterAgainKeeps ==
    ASSUME IInv, NEW t \in Threads, Enter(t, "work"), at[t] = "program", multi, owner = t
    PROVE  IInv'
<1>1. TypeOK /\ ThreadOk(t) /\ DepthAt /\ goal[t] = "work" /\ writer = t
  BY DEF IInv, ThreadOk, GoalOf, LockOf
<1>2. /\ at' = [at EXCEPT ![t] = "inside"] /\ goal' = [goal EXCEPT ![t] = "work"] /\ Push(t, "excl")
      /\ held' = [held EXCEPT ![t] = @ + 1]
      /\ SwitchOff(t)
      /\ UNCHANGED <<writer, readers, owner, heapLock, alive, depth, heaps, want, saved>>
  BY DEF Enter
<1>3. /\ stack[t] \in Seq(Tags) /\ held[t] \in Nat
      /\ stack[t] = <<>> \/ Top(t, Destructors)
      /\ WellFormed(stack[t])
      /\ \A i \in 1..Len(stack[t]) : stack[t][i] \notin {"local", "read"}
  BY <1>1 DEF ThreadOk, StackOf, TypeOK
<1>4. /\ stack' \in [Threads -> Seq(Tags)] /\ \A u \in Threads \ {t} : stack'[u] = stack[u]
      /\ stack'[t] = Append(stack[t], "excl") /\ stack'[t] # <<>>
      /\ Len(stack[t]) \in Nat /\ Len(stack'[t]) = Len(stack[t]) + 1
      /\ stack[t] = <<>> <=> Len(stack[t]) = 0
      /\ stack'[t][Len(stack'[t])] = "excl"
      /\ \A i \in 1..Len(stack[t]) : stack'[t][i] = stack[t][i]
      /\ WellFormed(stack'[t])
  BY <1>1, <1>2, <1>3, PushStack DEF Destructors, Tags
<1>5. at'[t] = "inside" /\ goal'[t] = "work" /\ held'[t] = held[t] + 1 /\ OthersStay(t)
  BY <1>1, <1>2, <1>4 DEF OthersStay, TypeOK
<1>6. /\ multi' \in BOOLEAN /\ solo_pending' \in BOOLEAN /\ SoloIsPending'
      /\ multi' = multi \/ (~multi' /\ t = Main)
      /\ \A u \in Threads \ {t} : multi' = multi \/ at[u] \in {"unborn", "ended"}
  BY <1>1, <1>2, SwitchOffAlone
<1>7. TypeOK'
  <2>1. held' \in [Threads -> Nat] /\ at' \in [Threads -> {"unborn", "job", "program", "lock", "heaps", "local",
                                                        "plan", "inside", "pool", "blocked", "ended"}]
    BY <1>1, <1>2, <1>3 DEF TypeOK
  <2>2. goal' \in [Threads -> {"work", "claim", "claimed", "final", "leave", "unwind", "resume"}]
    BY <1>1, <1>2 DEF TypeOK
  <2> QED
    BY <1>1, <1>2, <1>4, <1>6, <2>1, <2>2 DEF TypeOK, heaps
<1>8. (\A u \in Threads \ {t} : Same(u)) /\ Locked(t)' = Locked(t) /\ (Apart(t)' <=> Apart(t)) /\ ReadersAlone'
  BY <1>2, <1>5, <1>6, LocksStay DEF heaps
<1>9. LockOf(t)'
  BY <1>1, <1>2, <1>3, <1>4, <1>5 DEF ThreadOk, LockOf, Top
<1>10. StackOf(t)'
  <2>1. \A i \in 1..Len(stack'[t]) : stack'[t][i] \notin {"local", "read"}
    BY <1>3, <1>4
  <2>2. t = Main => \A i \in 1..Len(stack'[t]) : stack'[t][i] # "unwind"
    BY <1>1, <1>4 DEF ThreadOk, StackOf
  <2>3. t # Main => stack'[t][1] # "nested"
    BY <1>1, <1>4 DEF ThreadOk, StackOf
  <2> QED
    BY <1>4, <1>5, <2>1, <2>2, <2>3 DEF StackOf, Top, Destructors
<1>11. GoalOf(t)'
  BY <1>1, <1>2, <1>5, <1>6 DEF ThreadOk, GoalOf
<1>12. HoldsOf(t)'
  <2>1. Holds(t) = held[t] /\ Holds(t)' = held[t] + 1
    BY <1>5 DEF Holds, Suspended
  <2>2. /\ Holds(t) + 1 >= Cardinality(Covered(stack'[t], multi'))
        /\ t # Main /\ (stack[t] = <<>> \/ stack[t][1] # "unwind") =>
              Holds(t) + 1 = Cardinality(Covered(stack'[t], multi'))
    BY <1>1, <1>4, <1>6, ExclHolds DEF ThreadOk
  <2>3. stack'[t][1] # "unwind" => stack[t] = <<>> \/ stack[t][1] # "unwind"
    BY <1>4
  <2> QED
    BY <1>4, <2>1, <2>2, <2>3 DEF HoldsOf
<1>13. HeapsOf(t)'
  BY <1>1, <1>2, <1>5, <1>8, RestingHeaps, HeapsAtRest DEF heaps, Existing
<1>14. DepthAt'
  <2>1. Cardinality(Counted(stack'[t])) = Cardinality(Counted(stack[t])) /\ Cardinality(Counted(stack[t])) \in Nat
    BY <1>3, <1>4, <1>6, CountedPush, CoveredFinite DEF Tags
  <2> QED
    BY <1>1, <1>2, <1>4, <1>7, <2>1, DepthKeeps
<1>15. UsersAt'
  BY <1>1, <1>2, <1>5, <1>8, HeapUsersKeep DEF heaps, HasHeap
<1> QED
  BY <1>6, <1>7, <1>8, <1>9, <1>10, <1>11, <1>12, <1>13, <1>14, <1>15, OthersKeep DEF ThreadOk

\* enter, for whatever it is.
LEMMA EnterKeeps ==
    ASSUME IInv, NEW t \in Threads, NEW g, Enter(t, g),
           \/ at[t] = "program" /\ g = "work"
           \/ at[t] = "job" /\ g = "claim"
           \/ t # Main /\ at[t] = "program" /\ stack[t] = <<>> /\ g = "final"
    PROVE  IInv'
<1>1. TypeOK /\ ThreadOk(t)
  BY DEF IInv
<1>2. CASE ~multi
  <2>1. at[t] = "program" /\ g = "work"
    BY <1>1, <1>2 DEF ThreadOk, GoalOf
  <2>2. /\ at' = [at EXCEPT ![t] = "inside"] /\ goal' = [goal EXCEPT ![t] = "work"] /\ Push(t, "solo")
        /\ UNCHANGED <<locks, heaps, multi, solo_pending, alive, depth, want, saved>>
    BY <1>2, <2>1 DEF Enter
  <2> QED
    BY <1>2, <2>1, <2>2, PushKeeps DEF MayPush, Tags
<1>3. CASE multi /\ owner = t
  <2>1. held[t] > 0 /\ at[t] = "program" /\ ~Suspended(t)
    BY <1>1, <1>3 DEF ThreadOk, LockOf, Suspended
  <2>2. stack[t] = <<>> /\ t # Main => held[t] = 0
    BY <1>1, <2>1, CoveredFinite DEF ThreadOk, HoldsOf, Holds, TypeOK
  <2>3. g = "work"
    BY <1>1, <2>1, <2>2 DEF TypeOK
  <2> QED
    BY <1>3, <2>1, <2>3, EnterAgainKeeps
<1>4. CASE multi /\ owner # t
  <2>1. stack[t] = <<>>
    BY <1>1, <1>4, OutsideIsEmpty DEF ThreadOk, StackOf
  <2>2. /\ at' = [at EXCEPT ![t] = "lock"] /\ goal' = [goal EXCEPT ![t] = g]
        /\ UNCHANGED <<locks, heaps, multi, solo_pending, alive, depth, want, saved, stack>>
    BY <1>4 DEF Enter
  <2>3. TypeOK'
    BY <1>1, <2>2 DEF TypeOK, locks, heaps
  <2>4. at'[t] = "lock" /\ goal'[t] = g /\ OthersStay(t)
    BY <1>1, <2>2 DEF TypeOK, OthersStay, locks
  <2>5. Quietly(t)
    <3>1. /\ at[t] \in {"program", "job"} /\ g \in {"work", "claim", "final"} /\ (g = "work" \/ t # Main)
          /\ g = "claim" <=> at[t] = "job"
      BY <1>1 DEF ThreadOk, GoalOf
    <3> QED
      BY <1>4, <2>1, <2>4, <3>1 DEF Quietly
  <2> QED
    BY <2>2, <2>3, <2>4, <2>5, QuietlyKeeps
<1> QED
  BY <1>2, <1>3, <1>4

-----------------------------------------------------------------------------
(* Local and shared entries.                                                 *)

LEMMA LowestIs ==
    ASSUME NEW S \in SUBSET Nat, S # {}
    PROVE  Lowest(S) \in S /\ \A g \in S : Lowest(S) <= g
<1>1. PICK x \in S : \A y \in S : ~(<<y, x>> \in OpToRel(<, Nat))
  BY WFMin, NatLessThanWellFounded
<1>2. ASSUME NEW y \in S, y < x PROVE FALSE
  <2>1. <<y, x>> \in Nat \X Nat /\ <<y, x>>[1] = y /\ <<y, x>>[2] = x
    OBVIOUS
  <2>2. <<y, x>> \in OpToRel(<, Nat)
    BY <1>2, <2>1 DEF OpToRel
  <2> QED
    BY <1>1, <2>2
<1>3. \A y \in S : x <= y
  BY <1>2
<1> QED
  BY <1>3 DEF Lowest

\* With more than one left, one taken leaves some.
LEMMA MoreThanOne ==
    ASSUME NEW S \in SUBSET Heaps, NEW h \in S
    PROVE  IsFiniteSet(S) /\ (Cardinality(S) > 1 <=> S \ {h} # {})
<1>1. IsFiniteSet(Heaps)
  BY FS_Interval, SizesAssumption DEF Heaps
<1>2. IsFiniteSet(S)
  BY <1>1, FS_Subset
<1>3. Cardinality(S) \in Nat \ {0} /\ Cardinality(S \ {h}) = Cardinality(S) - 1 /\ IsFiniteSet(S \ {h})
  BY <1>2, FS_RemoveElement, FS_EmptySet, FS_CardinalityType
<1> QED
  BY <1>2, <1>3, FS_EmptySet

\* A thread that is not the holder takes heaps' locks, or gives them back.
LEMMA HeapLocksMove ==
    ASSUME IInv, NEW t \in Threads, OthersStay(t), owner # t, \A u \in Threads \ {t} : Locked(u)' = Locked(u),
           UNCHANGED <<writer, readers, owner, heaps_n, multi, alive>>
    PROVE  /\ \A u \in Threads \ {t} : Same(u)
           /\ ReadersAlone'
<1>1. TypeOK /\ (\A u \in Threads : ThreadOk(u)) /\ ReadersAlone
  BY DEF IInv
<1>2. \A u \in Threads \ {t} : Apart(u)' <=> Apart(u)
  BY <1>1 DEF Apart, OthersStay, TypeOK
<1>3. \A u \in Threads \ {t} : Same(u)
  BY <1>1, <1>2 DEF Same, OthersStay, ThreadOk, HeapsOf
<1> QED
  BY <1>1, <1>3 DEF ReadersAlone

LEMMA EnterLocalWaits ==
    ASSUME IInv, NEW t \in Threads, NEW hs \in SUBSET Known, heap[t] \in hs, EnterLocal(t, hs), owner # t
    PROVE  IInv'
<1>1. TypeOK /\ ThreadOk(t) /\ DepthAt /\ SoloIsPending
  BY DEF IInv
<1>2. /\ at[t] = "program" /\ multi /\ at' = [at EXCEPT ![t] = "local"] /\ want' = [want EXCEPT ![t] = hs]
      /\ UNCHANGED <<locks, multi, solo_pending, alive, depth, heaps, goal, saved, stack>>
  BY DEF EnterLocal
<1>3. stack[t] = <<>> /\ hs \subseteq Existing /\ hs \subseteq Heaps
  BY <1>1, <1>2, OutsideIsEmpty, Sorts DEF Known
<1>4. TypeOK'
  BY <1>1, <1>2, <1>3 DEF TypeOK, locks, heaps
<1>5. at'[t] = "local" /\ want'[t] = hs /\ OthersStay(t)
  BY <1>1, <1>2 DEF OthersStay, TypeOK, locks
<1>6. (\A u \in Threads \ {t} : Same(u)) /\ (\A u \in Threads : Locked(u)' = Locked(u)) /\ ReadersAlone'
  BY <1>2, <1>5, LocksStay DEF heaps, locks
<1>7. LockOf(t)' /\ StackOf(t)' /\ GoalOf(t)'
  BY <1>1, <1>2, <1>3, <1>5 DEF ThreadOk, LockOf, StackOf, GoalOf, Top, locks
<1>8. HoldsOf(t)'
  BY <1>1, <1>2, <1>5 DEF ThreadOk, HoldsOf, Holds, Suspended, locks
<1>9. HeapsOf(t)'
  <2>1. Locked(t) = {} /\ Locked(t)' = {}
    BY <1>1, <1>2, <1>6, RestingHeaps
  <2>2. owner # Nobody => hs \subseteq Locked(owner)
    BY <1>3 DEF Known, Locked
  <2>3. Apart(t)'
    BY <1>1, <1>2, <1>5, <1>6, <2>1, <2>2 DEF Apart, locks, TypeOK
  <2> QED
    BY <1>2, <1>3, <1>5, <2>1, <2>3 DEF HeapsOf, Existing, heaps
<1>10. DepthAt' /\ SoloIsPending'
  BY <1>1, <1>2 DEF DepthAt, SoloIsPending
<1>11. UsersAt'
  BY <1>1, <1>2, <1>5, <1>6, HeapUsersKeep DEF heaps, HasHeap
<1> QED
  BY <1>4, <1>6, <1>7, <1>8, <1>9, <1>10, <1>11, OthersKeep DEF ThreadOk

LEMMA LockSetKeeps == ASSUME IInv, NEW t \in Threads, LockSet(t) PROVE IInv'
<1> DEFINE left == want[t] \ Locked(t)
           h == Lowest(left)
<1>1. TypeOK /\ ThreadOk(t) /\ DepthAt /\ SoloIsPending /\ at[t] = "local" /\ LockHeap(t, h)
  BY DEF IInv, LockSet
<1>2. left \in SUBSET Heaps /\ left \in SUBSET Nat /\ left # {} /\ owner # t
  BY <1>1, Sorts DEF ThreadOk, HeapsOf, LockOf, TypeOK
<1>3. h \in left /\ (\A g \in left : h <= g) /\ (Cardinality(left) > 1 <=> left \ {h} # {})
  BY <1>2, LowestIs, MoreThanOne
<1>4. /\ at' = [at EXCEPT ![t] = IF Cardinality(left) > 1 THEN "local" ELSE "plan"]
      /\ UNCHANGED <<writer, readers, owner, held, heaps, multi, solo_pending, alive, depth, goal, want, saved, stack>>
  BY DEF LockSet
<1>5. /\ at'[t] \in {"local", "plan"} /\ (at'[t] = "local" => left \ {h} # {}) /\ OthersStay(t)
  BY <1>1, <1>3, <1>4 DEF OthersStay, TypeOK
<1>6. TypeOK'
  BY <1>1, <1>3, <1>4 DEF TypeOK, LockHeap, heaps
<1>7. Locked(t)' = Locked(t) \cup {h} /\ \A u \in Threads \ {t} : Locked(u)' = Locked(u)
  BY <1>1, <1>2, <1>3, LocksOfOthers
<1>8. (\A u \in Threads \ {t} : Same(u)) /\ ReadersAlone'
  BY <1>2, <1>4, <1>5, <1>7, HeapLocksMove DEF heaps
<1>9. LockOf(t)' /\ StackOf(t)' /\ GoalOf(t)'
  BY <1>1, <1>4, <1>5 DEF ThreadOk, LockOf, StackOf, GoalOf, Top
<1>10. HoldsOf(t)'
  BY <1>1, <1>4, <1>5 DEF ThreadOk, HoldsOf, Holds, Suspended
<1>11. HeapsOf(t)'
  <2>1. owner = Nobody
    BY <1>1, <1>2, <1>3, Sorts DEF ThreadOk, HeapsOf, Apart, LockHeap, Locked, TypeOK
  <2>2. Locked(t)' \subseteq want[t] /\ want[t] \subseteq Existing
    BY <1>1, <1>2, <1>3, <1>7 DEF ThreadOk, HeapsOf, LockOf
  <2>3. \A k \in left \ {h}, g \in Locked(t) \cup {h} : g < k
    <3>1. \A k \in left \ {h} : k \in Nat /\ h \in Nat /\ h < k
      BY <1>2, <1>3
    <3> QED
      BY <1>1, <3>1 DEF ThreadOk, HeapsOf
  <2>4. want'[t] \ Locked(t)' = left \ {h}
    BY <1>4, <1>7
  <2> QED
    BY <1>4, <1>5, <1>7, <2>1, <2>2, <2>3, <2>4 DEF HeapsOf, Apart, Existing, heaps
<1>12. DepthAt' /\ SoloIsPending'
  BY <1>1, <1>4 DEF DepthAt, SoloIsPending
<1>13. UsersAt'
  BY <1>1, <1>4, <1>5, <1>8, HeapUsersKeep DEF heaps, HasHeap
<1> QED
  BY <1>6, <1>8, <1>9, <1>10, <1>11, <1>12, <1>13, OthersKeep DEF ThreadOk

LEMMA WidenKeeps ==
    ASSUME IInv, NEW t \in Threads, NEW hs \in SUBSET Known, Widen(t, hs) PROVE IInv'
<1>1. TypeOK /\ ThreadOk(t) /\ DepthAt /\ SoloIsPending /\ at[t] = "plan" /\ UnlockHeaps(t)
  BY DEF IInv, Widen, Go
<1>2. /\ at' = [at EXCEPT ![t] = "local"] /\ want' = [want EXCEPT ![t] = hs] /\ want[t] \subseteq hs /\ want[t] # hs
      /\ UNCHANGED <<writer, readers, owner, held, heaps, multi, solo_pending, alive, depth, goal, saved, stack>>
  BY DEF Widen, Go
<1>3. owner # t /\ hs # {} /\ hs \subseteq Existing /\ hs \subseteq Heaps
  BY <1>1, <1>2, Sorts DEF ThreadOk, LockOf, Known
<1>4. at'[t] = "local" /\ want'[t] = hs /\ OthersStay(t)
  BY <1>1, <1>2 DEF OthersStay, TypeOK
<1>5. TypeOK'
  BY <1>1, <1>2, <1>3 DEF TypeOK, UnlockHeaps, heaps
<1>6. Locked(t)' = {} /\ \A u \in Threads \ {t} : Locked(u)' = Locked(u)
  BY <1>1, LocksOfOthers
<1>7. (\A u \in Threads \ {t} : Same(u)) /\ ReadersAlone'
  BY <1>2, <1>3, <1>4, <1>6, HeapLocksMove DEF heaps
<1>8. LockOf(t)' /\ StackOf(t)' /\ GoalOf(t)'
  BY <1>1, <1>2, <1>4 DEF ThreadOk, LockOf, StackOf, GoalOf, Top
<1>9. HoldsOf(t)'
  BY <1>1, <1>2, <1>4 DEF ThreadOk, HoldsOf, Holds, Suspended
<1>10. HeapsOf(t)'
  <2>1. owner # Nobody => hs \subseteq Locked(owner)
    BY <1>3 DEF Known, Locked
  <2>2. Apart(t)'
    BY <1>1, <1>2, <1>3, <1>4, <1>6, <2>1 DEF Apart, TypeOK
  <2> QED
    BY <1>2, <1>3, <1>4, <1>6, <2>2 DEF HeapsOf, Existing, heaps
<1>11. DepthAt' /\ SoloIsPending'
  BY <1>1, <1>2 DEF DepthAt, SoloIsPending
<1>12. UsersAt'
  BY <1>1, <1>2, <1>4, <1>7, HeapUsersKeep DEF heaps, HasHeap
<1> QED
  BY <1>5, <1>7, <1>8, <1>9, <1>10, <1>11, <1>12, OthersKeep DEF ThreadOk

LEMMA GiveUpLocalKeeps == ASSUME IInv, NEW t \in Threads, GiveUpLocal(t) PROVE IInv'
<1>1. TypeOK /\ ThreadOk(t) /\ DepthAt /\ SoloIsPending /\ at[t] = "plan" /\ UnlockHeaps(t)
  BY DEF IInv, GiveUpLocal, Go
<1>2. /\ at' = [at EXCEPT ![t] = "lock"] /\ goal' = [goal EXCEPT ![t] = "work"]
      /\ UNCHANGED <<writer, readers, owner, held, heaps, multi, solo_pending, alive, depth, want, saved, stack>>
  BY DEF GiveUpLocal, Go
<1>3. owner # t
  BY <1>1 DEF ThreadOk, LockOf
<1>4. at'[t] = "lock" /\ goal'[t] = "work" /\ goal[t] = "work" /\ OthersStay(t)
  BY <1>1, <1>2 DEF OthersStay, TypeOK, ThreadOk, GoalOf
<1>5. TypeOK'
  BY <1>1, <1>2 DEF TypeOK, UnlockHeaps, heaps
<1>6. Locked(t)' = {} /\ \A u \in Threads \ {t} : Locked(u)' = Locked(u)
  BY <1>1, LocksOfOthers
<1>7. (\A u \in Threads \ {t} : Same(u)) /\ ReadersAlone'
  BY <1>2, <1>3, <1>4, <1>6, HeapLocksMove DEF heaps
<1>8. LockOf(t)' /\ StackOf(t)' /\ GoalOf(t)'
  BY <1>1, <1>2, <1>4 DEF ThreadOk, LockOf, StackOf, GoalOf, Top
<1>9. HoldsOf(t)'
  BY <1>1, <1>2, <1>4 DEF ThreadOk, HoldsOf, Holds, Suspended
<1>10. HeapsOf(t)'
  <2>1. Apart(t)' /\ want'[t] \subseteq Existing'
    BY <1>1, <1>2, <1>3, <1>6 DEF ThreadOk, HeapsOf, Apart, Existing, heaps, TypeOK
  <2> QED
    BY <1>4, <1>6, <2>1, HeapsAtRest
<1>11. DepthAt' /\ SoloIsPending'
  BY <1>1, <1>2 DEF DepthAt, SoloIsPending
<1>12. UsersAt'
  BY <1>1, <1>2, <1>4, <1>7, HeapUsersKeep DEF heaps, HasHeap
<1> QED
  BY <1>5, <1>7, <1>8, <1>9, <1>10, <1>11, <1>12, OthersKeep DEF ThreadOk

LEMMA EnterReadKeeps == ASSUME IInv, NEW t \in Threads, EnterRead(t) PROVE IInv'
<1>1. TypeOK /\ ThreadOk(t) /\ DepthAt /\ SoloIsPending /\ at[t] = "program" /\ goal[t] = "work"
  BY DEF IInv, EnterRead, Go, ThreadOk, GoalOf
<1>2. /\ at' = [at EXCEPT ![t] = "inside"] /\ goal' = [goal EXCEPT ![t] = "work"]
      /\ UNCHANGED <<writer, owner, held, heapLock, multi, solo_pending, alive, depth, heaps, want, saved>>
  BY <1>1 DEF EnterRead, Go, TypeOK
<1>3. CASE ~multi \/ owner = t
  <2>1. Push(t, "free") /\ UNCHANGED readers
    BY <1>3 DEF EnterRead
  <2> QED
    BY <1>1, <1>2, <1>3, <2>1, PushKeeps DEF MayPush, Tags, locks
<1>4. CASE multi /\ owner # t
  <2>1. writer = Nobody /\ readers' = readers \cup {t} /\ Push(t, "read") /\ stack[t] = <<>>
    BY <1>1, <1>4, OutsideIsEmpty DEF EnterRead
  <2>2. /\ stack' \in [Threads -> Seq(Tags)] /\ \A u \in Threads \ {t} : stack'[u] = stack[u]
        /\ stack'[t] = Append(stack[t], "read") /\ stack'[t] # <<>>
        /\ Len(stack'[t]) = 1 /\ stack'[t][1] = "read"
        /\ WellFormed(stack'[t])
    <3>1. WellFormed(stack[t]) /\ "read" \notin Destructors /\ "read" \in Tags
      BY <1>1 DEF ThreadOk, StackOf, Destructors, Tags
    <3>2. /\ stack' \in [Threads -> Seq(Tags)] /\ \A u \in Threads \ {t} : stack'[u] = stack[u]
          /\ stack'[t] = Append(stack[t], "read") /\ stack'[t] # <<>>
          /\ Len(stack[t]) = 0 /\ Len(stack'[t]) = Len(stack[t]) + 1
          /\ stack'[t][Len(stack'[t])] = "read"
          /\ WellFormed(stack'[t])
      BY <1>1, <2>1, <3>1, PushStack
    <3> QED
      BY <3>2
  <2>3. at'[t] = "inside" /\ goal'[t] = "work" /\ OthersStay(t)
    BY <1>1, <1>2, <2>2 DEF OthersStay, TypeOK
  <2>4. TypeOK'
    BY <1>1, <1>2, <2>1, <2>2 DEF TypeOK, heaps
  <2>5. \A u \in Threads : Locked(u)' = Locked(u) /\ (Apart(u)' <=> Apart(u))
    <3>1. \A u \in Threads : Locked(u)' = Locked(u)
      BY <1>1, <1>2, LocksOfOthers
    <3> QED
      BY <1>1, <1>2, <3>1 DEF Apart, TypeOK
  <2>6. ASSUME NEW u \in Threads \ {t} PROVE Same(u)
    BY <1>2, <2>1, <2>3, <2>5 DEF Same, OthersStay, heaps, IInv, ThreadOk, HeapsOf
  <2>7. LockOf(t)' /\ StackOf(t)' /\ GoalOf(t)' /\ ReadersAlone'
    <3>1. LockOf(t)' /\ GoalOf(t)' /\ ReadersAlone'
      BY <1>1, <1>2, <2>1, <2>2, <2>3 DEF ThreadOk, LockOf, GoalOf, Top, ReadersAlone
    <3>2. \A i \in 1..Len(stack'[t]) : stack'[t][i] = "read"
      BY <2>2
    <3>3. StackOf(t)'
      BY <1>2, <1>4, <2>2, <2>3, <3>2 DEF StackOf, Top, Destructors
    <3> QED
      BY <3>1, <3>3
  <2>8. HoldsOf(t)'
    <3>1. Cardinality(Covered(stack'[t], multi)) = Cardinality(Covered(stack[t], multi))
          /\ Cardinality(Covered(stack[t], multi)) \in Nat
      <4>1. stack[t] \in Seq(Tags) /\ multi \in BOOLEAN /\ ~Adds(stack[t], "read", multi) /\ "read" \in Tags
        BY <1>1 DEF TypeOK, Adds, Tags
      <4> QED
        BY <2>2, <4>1, CoveredPush, CoveredFinite
    <3> QED
      BY <1>1, <1>2, <2>1, <2>3, <3>1 DEF ThreadOk, HoldsOf, Holds, Suspended
  <2>9. HeapsOf(t)'
    BY <1>1, <1>2, <1>4, <2>3, <2>5, RestingHeaps, HeapsAtRest DEF heaps, Existing
  <2>10. DepthAt' /\ SoloIsPending'
    <3>1. Cardinality(Counted(stack'[t])) = Cardinality(Counted(stack[t])) /\ Cardinality(Counted(stack[t])) \in Nat
      BY <1>1, <2>2, CountedPush, CoveredFinite DEF Tags, TypeOK
    <3>2. DepthAt'
      BY <1>1, <1>2, <2>2, <2>4, <3>1, DepthKeeps
    <3> QED
      BY <1>1, <1>2, <3>2 DEF SoloIsPending
  <2>11. UsersAt'
    BY <1>1, <1>2, <2>3, <2>6, HeapUsersKeep DEF heaps, HasHeap
  <2> QED
    BY <2>4, <2>6, <2>7, <2>8, <2>9, <2>10, <2>11, OthersKeep DEF ThreadOk
<1> QED
  BY <1>3, <1>4

-----------------------------------------------------------------------------
(* Destructors, and the ends of entries.                                     *)

\* What is on a stack after a pop.
LEMMA PopStack ==
    ASSUME TypeOK, NEW t \in Threads, Pop(t), WellFormed(stack[t]), stack[t] # <<>>
    PROVE  /\ stack' \in [Threads -> Seq(Tags)] /\ \A u \in Threads \ {t} : stack'[u] = stack[u]
           /\ stack'[t] = SubSeq(stack[t], 1, Len(stack[t]) - 1)
           /\ Len(stack[t]) \in Nat \ {0} /\ Len(stack'[t]) = Len(stack[t]) - 1
           /\ Len(stack[t]) = 1 <=> stack'[t] = <<>>
           /\ \A i \in 1..Len(stack'[t]) : i \in 1..Len(stack[t]) /\ stack'[t][i] = stack[t][i]
           /\ WellFormed(stack'[t])
           /\ Top(t, Destructors) => stack'[t] # <<>> /\ stack'[t][Len(stack'[t])] \notin Destructors
           /\ ~Top(t, Destructors) => stack'[t] = <<>> \/ stack'[t][Len(stack'[t])] \in Destructors
<1>1. stack[t] \in Seq(Tags) /\ stack'[t] = SubSeq(stack[t], 1, Len(stack[t]) - 1)
  BY DEF TypeOK, Pop
<1>2. /\ Len(stack[t]) \in Nat \ {0} /\ stack'[t] \in Seq(Tags) /\ Len(stack'[t]) = Len(stack[t]) - 1
      /\ Len(stack[t]) = 1 <=> stack'[t] = <<>>
      /\ \A i \in 1..(Len(stack[t]) - 1) : stack'[t][i] = stack[t][i]
  BY <1>1, Popped
<1>3. stack' \in [Threads -> Seq(Tags)] /\ \A u \in Threads \ {t} : stack'[u] = stack[u]
  BY <1>1, <1>2 DEF TypeOK, Pop
<1>4. \A i \in 1..Len(stack'[t]) : i \in 1..Len(stack[t]) /\ stack'[t][i] = stack[t][i]
  BY <1>2
<1>5. /\ WellFormed(stack'[t])
      /\ Top(t, Destructors) => stack'[t] # <<>> /\ stack'[t][Len(stack'[t])] \notin Destructors
      /\ ~Top(t, Destructors) => stack'[t] = <<>> \/ stack'[t][Len(stack'[t])] \in Destructors
  BY <1>1, WellFormedPop DEF Top
<1> QED
  BY <1>1, <1>2, <1>3, <1>4, <1>5

LEMMA CallbackKeeps == ASSUME IInv, NEW t \in Threads, Callback(t) PROVE IInv'
<1> DEFINE e == IF multi THEN "callback" ELSE "counted"
<1>1. TypeOK /\ ThreadOk(t) /\ DepthAt /\ SoloIsPending
  BY DEF IInv
<1>2. /\ at[t] = "inside" /\ at' = [at EXCEPT ![t] = "program"] /\ goal[t] = "work"
      /\ Top(t, {"solo", "excl", "nested", "unwind"}) /\ Push(t, e)
      /\ depth' = IF multi THEN depth ELSE depth + 1
      /\ UNCHANGED <<locks, multi, solo_pending, alive, heaps, goal, want, saved>>
  BY DEF Callback, Go
<1>3. /\ stack[t] \in Seq(Tags) /\ multi \in BOOLEAN /\ depth \in Nat /\ stack[t] # <<>>
      /\ e \in Destructors /\ e \in Tags /\ WellFormed(stack[t])
      /\ (multi /\ e = "callback") \/ (~multi /\ e = "counted" /\ t = Main)
      /\ ~Adds(stack[t], e, multi)
  BY <1>1, <1>2 DEF ThreadOk, StackOf, GoalOf, TypeOK, Destructors, Tags, Adds, Top
<1> HIDE DEF e
<1>4. /\ stack' \in [Threads -> Seq(Tags)] /\ \A u \in Threads \ {t} : stack'[u] = stack[u]
      /\ stack'[t] = Append(stack[t], e) /\ stack'[t] # <<>>
      /\ Len(stack[t]) \in Nat /\ Len(stack'[t]) = Len(stack[t]) + 1
      /\ stack[t] = <<>> <=> Len(stack[t]) = 0
      /\ stack'[t][Len(stack'[t])] = e
      /\ \A i \in 1..Len(stack[t]) : stack'[t][i] = stack[t][i]
      /\ WellFormed(stack'[t])
  BY <1>1, <1>2, <1>3, PushStack
<1>5. at'[t] = "program" /\ OthersStay(t)
  BY <1>1, <1>2, <1>4 DEF OthersStay, TypeOK, locks
<1>6. TypeOK'
  <2>1. depth' \in Nat
    BY <1>2, <1>3
  <2> QED
    BY <1>1, <1>2, <1>4, <2>1 DEF TypeOK, locks, heaps
<1>7. (\A u \in Threads \ {t} : Same(u)) /\ Locked(t)' = Locked(t) /\ (Apart(t)' <=> Apart(t)) /\ ReadersAlone'
  BY <1>2, <1>5, LocksStay DEF heaps, locks
<1>8. LockOf(t)' /\ GoalOf(t)'
  BY <1>1, <1>2, <1>5 DEF ThreadOk, LockOf, GoalOf, Top, locks
<1>9. StackOf(t)'
  <2>1. \A i \in 1..Len(stack[t]) : stack[t][i] \notin {"local", "read"}
    BY <1>1, <1>2, <1>4 DEF ThreadOk, StackOf, Top
  <2>2. \A i \in 1..Len(stack'[t]) : stack'[t][i] \notin {"local", "read"}
    <3>1. e \notin {"local", "read"}
      BY <1>3 DEF Destructors
    <3>2. \A i \in 1..Len(stack'[t]) : i \in 1..Len(stack[t]) \/ i = Len(stack'[t])
      BY <1>4
    <3> QED
      BY <1>4, <2>1, <3>1, <3>2
  <2>3. t = Main => \A i \in 1..Len(stack'[t]) : stack'[t][i] # "unwind"
    BY <1>1, <1>3, <1>4 DEF ThreadOk, StackOf, Destructors
  <2>4. t # Main => stack'[t][1] # "nested"
    BY <1>1, <1>3, <1>4 DEF ThreadOk, StackOf
  <2> QED
    BY <1>1, <1>3, <1>4, <1>5, <2>2, <2>3, <2>4 DEF StackOf, Top
<1>10. HoldsOf(t)'
  <2>1. Cardinality(Covered(stack'[t], multi)) = Cardinality(Covered(stack[t], multi))
    BY <1>3, <1>4, CoveredPush, CoveredFinite
  <2>2. Holds(t) = held[t] /\ Holds(t)' = held[t] /\ multi' = multi
    BY <1>2, <1>5 DEF Holds, Suspended, locks
  <2>3. stack'[t][1] = stack[t][1]
    BY <1>3, <1>4
  <2> QED
    BY <1>1, <1>3, <1>4, <2>1, <2>2, <2>3 DEF ThreadOk, HoldsOf
<1>11. HeapsOf(t)'
  <2>1. ~Top(t, {"local"})
    BY <1>2 DEF Top
  <2> QED
    BY <1>1, <1>2, <1>5, <1>7, <2>1, RestingHeaps, HeapsAtRest DEF locks, heaps, Existing
<1>12. DepthAt'
  <2>1. CASE multi
    <3>1. e # "counted" /\ UNCHANGED depth
      BY <1>2, <1>3, <2>1
    <3>2. Cardinality(Counted(stack[t])) \in Nat
      BY <1>3, CoveredFinite
    <3>3. Cardinality(Counted(stack'[t])) = Cardinality(Counted(stack[t]))
      BY <1>3, <1>4, <3>1, <3>2, CountedPush
    <3> QED
      BY <1>1, <1>4, <1>6, <3>1, <3>3, DepthKeeps
  <2>2. CASE ~multi
    <3>1. Cardinality(Counted(stack'[t])) = Cardinality(Counted(stack[t])) + 1 /\ depth' = depth + 1 /\ t = Main
      BY <1>2, <1>3, <1>4, <2>2, CountedPush
    <3> QED
      BY <1>1, <1>4, <3>1 DEF DepthAt
  <2> QED
    BY <2>1, <2>2
<1>13. SoloIsPending'
  BY <1>1, <1>2 DEF SoloIsPending
<1>14. UsersAt'
  BY <1>1, <1>2, <1>5, <1>7, HeapUsersKeep DEF heaps, HasHeap
<1> QED
  BY <1>6, <1>7, <1>8, <1>9, <1>10, <1>11, <1>12, <1>13, <1>14, OthersKeep DEF ThreadOk

LEMMA CallbackEndsKeeps == ASSUME IInv, NEW t \in Threads, CallbackEnds(t) PROVE IInv'
<1>1. TypeOK /\ ThreadOk(t) /\ DepthAt /\ SoloIsPending
  BY DEF IInv
<1>2. /\ at[t] = "program" /\ at' = [at EXCEPT ![t] = "inside"]
      /\ Top(t, Destructors) /\ Pop(t)
      /\ depth' = IF Top(t, {"counted"}) THEN depth - 1 ELSE depth
      /\ UNCHANGED <<locks, multi, solo_pending, alive, heaps, goal, want, saved>>
  BY DEF CallbackEnds, Go, Destructors
<1>3. /\ stack[t] \in Seq(Tags) /\ multi \in BOOLEAN /\ depth \in Nat /\ stack[t] # <<>> /\ WellFormed(stack[t])
      /\ goal[t] = "work" /\ ~Suspended(t) /\ (t # Main => multi) /\ (multi => owner = t)
      /\ \A i \in 1..Len(stack[t]) : stack[t][i] \notin {"local", "read"}
  <2>1. stack[t] # <<>> /\ (multi => owner = t)
    BY <1>2, OutsideIsEmpty DEF Top
  <2> QED
    BY <1>1, <1>2, <2>1 DEF ThreadOk, StackOf, GoalOf, TypeOK, Suspended
<1>4. /\ stack' \in [Threads -> Seq(Tags)] /\ \A u \in Threads \ {t} : stack'[u] = stack[u]
      /\ stack'[t] = SubSeq(stack[t], 1, Len(stack[t]) - 1)
      /\ Len(stack[t]) \in Nat \ {0} /\ Len(stack'[t]) = Len(stack[t]) - 1
      /\ Len(stack[t]) = 1 <=> stack'[t] = <<>>
      /\ \A i \in 1..Len(stack'[t]) : i \in 1..Len(stack[t]) /\ stack'[t][i] = stack[t][i]
      /\ WellFormed(stack'[t])
      /\ stack'[t] # <<>> /\ stack'[t][Len(stack'[t])] \notin Destructors
  BY <1>1, <1>2, <1>3, PopStack
<1>5. ~Top(t, {"read"})' /\ ~Top(t, {"local", "read"})' /\ ~Top(t, Destructors)'
  <2>1. Len(stack'[t]) \in 1..Len(stack'[t])
    BY <1>4
  <2>2. stack'[t][Len(stack'[t])] \notin {"local", "read"}
    BY <1>3, <1>4, <2>1
  <2>3. stack'[t][Len(stack'[t])] \notin Destructors
    BY <1>4
  <2> QED
    BY <2>2, <2>3 DEF Top
<1>6. at'[t] = "inside" /\ OthersStay(t)
  BY <1>1, <1>2, <1>4 DEF OthersStay, TypeOK, locks
<1>7. Cardinality(Counted(stack'[t])) = Cardinality(Counted(stack[t])) - (IF Top(t, {"counted"}) THEN 1 ELSE 0)
  BY <1>3, <1>4, CountedPop DEF Top
<1>8. Cardinality(Counted(stack[t])) \in Nat /\ Cardinality(Counted(stack'[t])) \in Nat
  BY <1>3, <1>4, CoveredFinite
<1>9. depth' \in Nat /\ (t = Main => depth' = Cardinality(Counted(stack'[t]))) /\ (t # Main => ~Top(t, {"counted"}))
  <2>1. CASE t = Main
    <3>1. depth = Cardinality(Counted(stack[t]))
      BY <1>1, <2>1 DEF DepthAt
    <3>2. CASE Top(t, {"counted"})
      BY <1>2, <1>7, <1>8, <2>1, <3>1, <3>2
    <3>3. CASE ~Top(t, {"counted"})
      BY <1>2, <1>7, <1>8, <2>1, <3>1, <3>3
    <3> QED
      BY <3>2, <3>3
  <2>2. CASE t # Main
    <3>1. Counted(stack[t]) = {}
      BY <1>1, <2>2 DEF DepthAt
    <3>2. ~Top(t, {"counted"})
      BY <1>4, <3>1 DEF Top, Counted
    <3> QED
      BY <1>2, <1>3, <2>2, <3>2
  <2> QED
    BY <2>1, <2>2
<1>10. TypeOK'
  BY <1>1, <1>2, <1>4, <1>9 DEF TypeOK, locks, heaps
<1>11. (\A u \in Threads \ {t} : Same(u)) /\ Locked(t)' = Locked(t) /\ (Apart(t)' <=> Apart(t)) /\ ReadersAlone'
  BY <1>2, <1>6, LocksStay DEF heaps, locks
<1>12. LockOf(t)' /\ GoalOf(t)'
  <2>1. LockOf(t)'
    BY <1>1, <1>2, <1>5, <1>6 DEF ThreadOk, LockOf, locks
  <2>2. GoalOf(t)'
    BY <1>1, <1>2, <1>3, <1>6 DEF ThreadOk, GoalOf
  <2> QED
    BY <2>1, <2>2
<1>13. StackOf(t)'
  <2>1. \A i \in 1..Len(stack'[t]) : stack'[t][i] \notin {"local", "read"}
    BY <1>3, <1>4
  <2>2. t = Main => \A i \in 1..Len(stack'[t]) : stack'[t][i] # "unwind"
    BY <1>1, <1>4 DEF ThreadOk, StackOf
  <2>3. t # Main => stack'[t][1] # "nested"
    BY <1>1, <1>3, <1>4 DEF ThreadOk, StackOf
  <2>4. goal'[t] = "work" /\ (multi' => owner' = t)
    BY <1>2, <1>3 DEF locks
  <2>5. WellFormed(stack'[t]) /\ stack'[t] # <<>>
    BY <1>4
  <2> QED
    BY <1>5, <1>6, <2>1, <2>2, <2>3, <2>4, <2>5 DEF StackOf
<1>14. HoldsOf(t)'
  <2>1. Len(stack[t]) \notin Covered(stack[t], multi)
    BY <1>2, <1>4 DEF Covered, Top, Destructors
  <2>2. /\ Cardinality(Covered(stack[t], multi)) \in Nat /\ Cardinality(Covered(stack'[t], multi)) \in Nat
        /\ Cardinality(Covered(stack'[t], multi)) <= Cardinality(Covered(stack[t], multi))
        /\ multi => Cardinality(Covered(stack'[t], multi)) = Cardinality(Covered(stack[t], multi))
    <3>1. Cardinality(Covered(stack[t], multi)) \in Nat /\ Cardinality(Covered(stack'[t], multi)) \in Nat
      BY <1>3, <1>4, CoveredFinite
    <3> DEFINE c == Cardinality(Covered(stack[t], multi)) - (IF Len(stack[t]) \in Covered(stack[t], multi) THEN 1 ELSE 0)
    <3>2. /\ Cardinality(Covered(stack'[t], multi)) <= c
          /\ multi => Cardinality(Covered(stack'[t], multi)) = c
      BY <1>3, <1>4, CoveredPop
    <3>3. c = Cardinality(Covered(stack[t], multi))
      BY <2>1, <3>1
    <3> QED
      BY <3>1, <3>2, <3>3
  <2>3. Holds(t) = held[t] /\ Holds(t)' = held[t] /\ multi' = multi /\ held[t] \in Nat
    BY <1>1, <1>2, <1>3, <1>6 DEF Holds, Suspended, locks, TypeOK
  <2>4. stack'[t][1] = stack[t][1]
    BY <1>4
  <2>5. /\ held[t] >= Cardinality(Covered(stack[t], multi))
        /\ t # Main /\ stack[t][1] # "unwind" => held[t] = Cardinality(Covered(stack[t], multi))
    BY <1>1, <2>3 DEF ThreadOk, HoldsOf
  <2>6. Holds(t)' >= Cardinality(Covered(stack'[t], multi'))
    BY <2>2, <2>3, <2>5
  <2>7. t # Main /\ stack'[t][1] # "unwind" => Holds(t)' = Cardinality(Covered(stack'[t], multi'))
    BY <1>3, <2>2, <2>3, <2>4, <2>5
  <2> QED
    BY <1>4, <2>6, <2>7 DEF HoldsOf
<1>15. HeapsOf(t)'
  BY <1>1, <1>2, <1>6, <1>11, RestingHeaps, HeapsAtRest DEF locks, heaps, Existing
<1>16. DepthAt'
  <2>1. CASE t = Main
    BY <1>1, <1>4, <1>9, <2>1 DEF DepthAt
  <2>2. CASE t # Main
    <3>1. UNCHANGED depth /\ Cardinality(Counted(stack'[t])) = Cardinality(Counted(stack[t]))
      BY <1>2, <1>7, <1>8, <1>9, <2>2
    <3> QED
      BY <1>1, <1>4, <1>10, <3>1, DepthKeeps
  <2> QED
    BY <2>1, <2>2
<1>17. SoloIsPending'
  BY <1>1, <1>2 DEF SoloIsPending
<1>18. UsersAt'
  BY <1>2, <1>6, <1>11, HeapUsersKeep DEF heaps, HasHeap
<1> QED
  BY <1>10, <1>11, <1>12, <1>13, <1>14, <1>15, <1>16, <1>17, <1>18, OthersKeep DEF ThreadOk

\* The holder gives everything back: no other thread has part in that.
LEMMA ReleaseAllKeeps ==
    ASSUME IInv, NEW t \in Threads, owner = t, ReleaseAll(t), OthersStay(t), UNCHANGED <<heaps_n, multi, alive>>
    PROVE  /\ \A u \in Threads \ {t} : Same(u)
           /\ Locked(t)' = {} /\ owner' = Nobody /\ writer' = Nobody /\ held'[t] = 0 /\ readers' = readers
           /\ ReadersAlone' /\ Apart(t)'
           /\ held' \in [Threads -> Nat] /\ heapLock' \in [Heaps -> Threads \cup {Nobody}]
<1>1. TypeOK /\ (\A u \in Threads : ThreadOk(u)) /\ ReadersAlone
  BY DEF IInv
<1>2. owner' = Nobody /\ writer' = Nobody /\ UnlockHeaps(t) /\ readers' = readers
      /\ held' = [held EXCEPT ![t] = 0]
  BY DEF ReleaseAll
<1>3. held'[t] = 0 /\ held' \in [Threads -> Nat] /\ heapLock' \in [Heaps -> Threads \cup {Nobody}]
  BY <1>1, <1>2 DEF TypeOK, UnlockHeaps
<1>4. Locked(t)' = {} /\ \A u \in Threads \ {t} : Locked(u)' = Locked(u)
  BY <1>1, <1>2, LocksOfOthers
<1>5. writer = t
  BY <1>1 DEF ThreadOk, LockOf
<1>6. ASSUME NEW u \in Threads \ {t} PROVE Same(u)
  BY <1>2, <1>4, <1>5, Sorts DEF Same, OthersStay, Apart
<1>7. ReadersAlone' /\ Apart(t)'
  BY <1>2 DEF ReadersAlone, Apart
<1> QED
  BY <1>2, <1>3, <1>4, <1>6, <1>7

\* An entry whose end gives a hold back.
Yields(t) == Top(t, {"excl"}) \/ (Top(t, {"solo"}) /\ multi)

LEMMA LeaveHolds ==
    ASSUME TypeOK, NEW t \in Threads, ThreadOk(t), at[t] = "inside", ~Top(t, {"unwind"}), Pop(t)
    PROVE  /\ held[t] - (IF Yields(t) THEN 1 ELSE 0) >= Cardinality(Covered(stack'[t], multi))
           /\ t # Main /\ (stack'[t] = <<>> \/ stack'[t][1] # "unwind") =>
                 held[t] - (IF Yields(t) THEN 1 ELSE 0) = Cardinality(Covered(stack'[t], multi))
<1> DEFINE n == Len(stack[t])
           c == Cardinality(Covered(stack[t], multi))
           d == Cardinality(Covered(stack'[t], multi))
<1>1. /\ stack[t] \in Seq(Tags) /\ multi \in BOOLEAN /\ held[t] \in Nat /\ stack[t] # <<>> /\ WellFormed(stack[t])
      /\ ~Suspended(t) /\ (t # Main => multi) /\ ~Top(t, Destructors) /\ Holds(t) = held[t]
  BY DEF ThreadOk, StackOf, GoalOf, TypeOK, Suspended, Holds
<1>2. /\ stack'[t] = SubSeq(stack[t], 1, n - 1) /\ stack'[t] \in Seq(Tags)
      /\ n \in Nat \ {0} /\ Len(stack'[t]) = n - 1
      /\ n = 1 <=> stack'[t] = <<>>
      /\ \A i \in 1..Len(stack'[t]) : i \in 1..n /\ stack'[t][i] = stack[t][i]
  BY <1>1, PopStack
<1>3. c \in Nat /\ d \in Nat
  BY <1>1, <1>2, CoveredFinite
<1>4. /\ n \in Covered(stack[t], multi) => d <= c - 1 /\ (multi => d = c - 1)
      /\ n \notin Covered(stack[t], multi) => d <= c /\ (multi => d = c)
  <2> DEFINE k == c - (IF n \in Covered(stack[t], multi) THEN 1 ELSE 0)
  <2>1. d <= k /\ (multi => d = k)
    BY <1>1, <1>2, CoveredPop
  <2>2. n \in Covered(stack[t], multi) => k = c - 1
    OBVIOUS
  <2>3. n \notin Covered(stack[t], multi) => k = c
    BY <1>3
  <2> HIDE DEF k, c, d
  <2> QED
    BY <2>1, <2>2, <2>3
<1>5. /\ Yields(t) => n \in Covered(stack[t], multi)
      /\ ~Yields(t) /\ t # Main => n \notin Covered(stack[t], multi)
  <2>1. Yields(t) => n \in Covered(stack[t], multi)
    BY <1>1, <1>2 DEF Yields, Top, Covered
  <2>2. ASSUME ~Yields(t), t # Main PROVE n \notin Covered(stack[t], multi)
    BY <1>1, <1>2, <2>2 DEF Yields, Top, Covered, ThreadOk, StackOf
  <2> QED
    BY <2>1, <2>2
<1>6. held[t] >= c
  BY <1>1 DEF ThreadOk, HoldsOf
<1>7. t # Main /\ (stack'[t] = <<>> \/ stack'[t][1] # "unwind") => held[t] = c
  <2>1. stack'[t] = <<>> => stack[t][1] # "unwind"
    BY <1>1, <1>2 DEF Top
  <2>2. stack'[t] # <<>> => stack'[t][1] = stack[t][1]
    BY <1>2
  <2> QED
    BY <1>1, <2>1, <2>2 DEF ThreadOk, HoldsOf
<1>8. t # Main => multi
  BY <1>1
<1> HIDE DEF c, d
<1>9. CASE Yields(t)
  BY <1>1, <1>3, <1>4, <1>5, <1>6, <1>7, <1>8, <1>9 DEF d
<1>10. CASE ~Yields(t)
  <2>1. d <= c
    BY <1>3, <1>4
  <2>2. t # Main => d = c
    BY <1>4, <1>5, <1>8, <1>10
  <2>3. held[t] >= d
    BY <1>1, <1>3, <1>6, <2>1
  <2>4. t # Main /\ (stack'[t] = <<>> \/ stack'[t][1] # "unwind") => held[t] = d
    BY <1>7, <2>2
  <2> QED
    BY <1>1, <1>3, <1>10, <2>3, <2>4 DEF d
<1> QED
  BY <1>9, <1>10

LEMMA LeaveKeeps == ASSUME IInv, NEW t \in Threads, Leave(t) PROVE IInv'
<1> DEFINE s == stack'[t]
<1>1. TypeOK /\ ThreadOk(t) /\ DepthAt /\ SoloIsPending /\ ReadersAlone
  BY DEF IInv
<1>2. /\ at[t] = "inside" /\ goal[t] \in {"work", "claimed", "leave"} /\ Pop(t)
      /\ Top(t, {"solo", "excl", "local", "nested", "read", "free"})
      /\ at' = [at EXCEPT ![t] = IF goal[t] = "leave" THEN "ended" ELSE "program"]
      /\ want' = [want EXCEPT ![t] = {}] /\ goal' = [goal EXCEPT ![t] = "work"]
      /\ UNCHANGED <<multi, solo_pending, alive, depth, heaps, saved>>
  BY DEF Leave
<1>3. /\ stack[t] \in Seq(Tags) /\ held[t] \in Nat /\ multi \in BOOLEAN /\ stack[t] # <<>> /\ WellFormed(stack[t])
      /\ ~Top(t, Destructors) /\ ~Top(t, {"unwind"}) /\ ~Suspended(t)
      /\ goal[t] # "work" => Len(stack[t]) = 1 /\ Top(t, {"excl"}) /\ t # Main
  BY <1>1, <1>2 DEF ThreadOk, StackOf, GoalOf, TypeOK, Top, Suspended
<1>4. /\ stack' \in [Threads -> Seq(Tags)] /\ \A u \in Threads \ {t} : stack'[u] = stack[u]
      /\ s = SubSeq(stack[t], 1, Len(stack[t]) - 1)
      /\ Len(stack[t]) \in Nat \ {0} /\ Len(s) = Len(stack[t]) - 1
      /\ Len(stack[t]) = 1 <=> s = <<>>
      /\ \A i \in 1..Len(s) : i \in 1..Len(stack[t]) /\ s[i] = stack[t][i]
      /\ WellFormed(s)
      /\ s = <<>> \/ s[Len(s)] \in Destructors
  BY <1>1, <1>2, <1>3, PopStack
<1>5. /\ at'[t] \in {"program", "ended"} /\ (at'[t] = "ended" <=> goal[t] = "leave") /\ goal'[t] = "work"
      /\ want'[t] = {}
  BY <1>1, <1>2 DEF TypeOK
<1>6. GoalOf(t)'
  BY <1>1, <1>2, <1>3, <1>5 DEF ThreadOk, GoalOf
<1>7. StackOf(t)'
  <2>1. \A i \in 1..Len(s) : s[i] \notin {"local", "read"}
    BY <1>1, <1>4 DEF ThreadOk, StackOf
  <2>2. t = Main => \A i \in 1..Len(s) : s[i] # "unwind"
    BY <1>1, <1>4 DEF ThreadOk, StackOf
  <2>3. t # Main /\ s # <<>> => s[1] # "nested"
    BY <1>1, <1>3, <1>4 DEF ThreadOk, StackOf
  <2>4. at'[t] = "ended" => s = <<>>
    BY <1>3, <1>4, <1>5
  <2> QED
    BY <1>4, <1>5, <2>1, <2>2, <2>3, <2>4 DEF StackOf, Top
<1>8. DepthAt' /\ SoloIsPending'
  <2>1. Cardinality(Counted(stack[t])) \in Nat
    BY <1>3, CoveredFinite
  <2>2. stack[t][Len(stack[t])] # "counted"
    BY <1>3 DEF Top, Destructors
  <2>3. Cardinality(Counted(s)) = Cardinality(Counted(stack[t]))
    BY <1>3, <1>4, <2>1, <2>2, CountedPop
  <2>4. Counted(stack[t]) = {} => Counted(s) = {}
    BY <1>3, <1>4, <2>3, FS_EmptySet, CoveredFinite
  <2> QED
    BY <1>1, <1>2, <1>4, <2>3, <2>4, Sorts DEF DepthAt, SoloIsPending
<1>9. /\ held[t] - (IF Yields(t) THEN 1 ELSE 0) >= Cardinality(Covered(s, multi))
      /\ t # Main /\ (s = <<>> \/ s[1] # "unwind") =>
            held[t] - (IF Yields(t) THEN 1 ELSE 0) = Cardinality(Covered(s, multi))
  BY <1>1, <1>2, <1>3, LeaveHolds
<1>10. Holds(t)' = held'[t]
  BY <1>5 DEF Holds, Suspended
<1> HIDE DEF s
<1>11. /\ Yields(t) => owner = t /\ held[t] > 0 /\ Release(t)
       /\ ~Yields(t) => UNCHANGED <<writer, owner, held>>
       /\ ~Yields(t) /\ ~Top(t, {"local", "read"}) => UNCHANGED <<readers, heapLock>>
       /\ Top(t, {"local"}) => UnlockHeaps(t) /\ UNCHANGED readers
       /\ Top(t, {"read"}) => readers' = readers \ {t} /\ UNCHANGED heapLock
  <2>1. Yields(t) => owner = t /\ held[t] > 0
    BY <1>1, <1>3, EntryOwns DEF Yields, Top, ThreadOk
  <2> QED
    BY <1>2, <2>1 DEF Leave, Yields, Top, locks
<1>12. CASE Yields(t) /\ held[t] = 1
  <2>1. ReleaseAll(t) /\ owner = t
    BY <1>11, <1>12 DEF Release
  <2>2. held' = [held EXCEPT ![t] = 0] /\ OthersStay(t)
    BY <1>1, <1>2, <1>4, <2>1 DEF ReleaseAll, OthersStay, TypeOK
  <2>3. /\ \A u \in Threads \ {t} : Same(u)
        /\ Locked(t)' = {} /\ owner' = Nobody /\ writer' = Nobody /\ held'[t] = 0 /\ readers' = readers
        /\ ReadersAlone' /\ Apart(t)'
        /\ held' \in [Threads -> Nat] /\ heapLock' \in [Heaps -> Threads \cup {Nobody}]
    BY <1>2, <2>1, <2>2, ReleaseAllKeeps DEF heaps
  <2>4. TypeOK'
    BY <1>1, <1>2, <1>4, <2>3 DEF TypeOK, heaps
  <2>5. LockOf(t)'
    BY <1>1, <1>2, <1>3, <1>5, <1>12, <2>3, Sorts DEF ThreadOk, LockOf, Yields, Top
  <2>6. HoldsOf(t)'
    BY <1>2, <1>9, <1>10, <1>12, <2>3 DEF HoldsOf, s
  <2>7. HeapsOf(t)'
    BY <1>5, <2>3, HeapsAtRest
  <2>8. UsersAt'
    BY <1>2, <1>3, <1>5, <2>3, HeapUsersKeep DEF heaps, HasHeap
  <2> QED
    BY <1>6, <1>7, <1>8, <2>3, <2>4, <2>5, <2>6, <2>7, <2>8, OthersKeep DEF ThreadOk
<1>13. CASE Yields(t) /\ held[t] # 1
  <2>1. held' = [held EXCEPT ![t] = @ - 1] /\ UNCHANGED <<writer, readers, owner, heapLock>> /\ owner = t
    BY <1>11, <1>13 DEF Release
  <2>2. held'[t] = held[t] - 1 /\ held[t] - 1 \in Nat \ {0} /\ held' \in [Threads -> Nat] /\ OthersStay(t)
    BY <1>1, <1>2, <1>3, <1>4, <1>11, <1>13, <2>1 DEF OthersStay, TypeOK
  <2>3. TypeOK'
    BY <1>1, <1>2, <1>4, <2>1, <2>2 DEF TypeOK, heaps
  <2>4. (\A u \in Threads \ {t} : Same(u)) /\ Locked(t)' = Locked(t) /\ ReadersAlone'
    BY <1>2, <2>1, <2>2, LocksStay DEF heaps
  <2>5. HoldsOf(t)'
    BY <1>2, <1>9, <1>10, <1>13, <2>2 DEF HoldsOf, s
  <2>6. at'[t] = "program"
    <3>1. CASE s = <<>> /\ t # Main
      <4>1. Cardinality(Covered(s, multi)) = 0
        BY <1>3, <1>4, <3>1, CoveredFinite DEF s
      <4> QED
        BY <1>3, <1>9, <1>13, <2>2, <3>1, <4>1
    <3>2. CASE s # <<>> \/ t = Main
      BY <1>3, <1>4, <1>5, <3>2
    <3> QED
      BY <3>1, <3>2
  <2>7. LockOf(t)'
    <3>1. t \notin readers /\ writer = t
      BY <1>1, <1>13, <2>1 DEF ThreadOk, LockOf, Yields, Top
    <3>2. held'[t] > 0
      <4>1. held'[t] \in Nat \ {0}
        BY <2>2
      <4> QED
        BY <4>1
    <3> QED
      BY <2>1, <2>6, <3>1, <3>2 DEF LockOf
  <2>8. HeapsOf(t)'
    BY <1>1, <1>2, <1>5, <1>13, <2>1, <2>4, RestingHeaps, HeapsAtRest DEF heaps, Existing, Apart, Yields, Top
  <2>9. UsersAt'
    BY <1>2, <1>3, <1>5, <2>4, HeapUsersKeep DEF heaps, HasHeap
  <2> QED
    BY <1>6, <1>7, <1>8, <2>3, <2>4, <2>5, <2>7, <2>8, <2>9, OthersKeep DEF ThreadOk
<1>14. CASE ~Yields(t)
  <2>1. UNCHANGED <<writer, owner, held>> /\ OthersStay(t)
    BY <1>1, <1>2, <1>4, <1>11, <1>14 DEF OthersStay, TypeOK
  <2>2. HoldsOf(t)'
    BY <1>2, <1>3, <1>9, <1>10, <1>14, <2>1 DEF HoldsOf, s
  <2>3. at'[t] = "program"
    BY <1>3, <1>5, <1>14 DEF Yields
  <2>4. writer = t <=> owner = t
    BY <1>1, <1>2 DEF ThreadOk, LockOf
  <2>6. CASE Top(t, {"local"})
    <3>1. UnlockHeaps(t) /\ UNCHANGED readers /\ owner # t /\ t \notin readers
      BY <1>1, <1>2, <1>11, <2>6 DEF ThreadOk, StackOf, LockOf, Top
    <3>2. Locked(t)' = {} /\ \A u \in Threads \ {t} : Locked(u)' = Locked(u)
      BY <1>1, <3>1, LocksOfOthers
    <3>3. TypeOK'
      BY <1>1, <1>2, <1>4, <2>1, <3>1 DEF TypeOK, heaps, UnlockHeaps
    <3>4. (\A u \in Threads \ {t} : Same(u)) /\ ReadersAlone'
      BY <1>2, <2>1, <3>1, <3>2, HeapLocksMove DEF heaps
    <3>5. LockOf(t)'
      BY <1>1, <2>1, <2>3, <2>4, <3>1 DEF ThreadOk, LockOf
    <3>6. HeapsOf(t)'
      BY <1>5, <2>3, <3>2, HeapsAtRest DEF Apart
    <3>7. UsersAt'
      BY <1>2, <1>3, <1>5, <3>4, HeapUsersKeep DEF heaps, HasHeap
    <3> QED
      BY <1>6, <1>7, <1>8, <2>2, <3>3, <3>4, <3>5, <3>6, <3>7, OthersKeep DEF ThreadOk
  <2>7. CASE ~Top(t, {"local"})
    <3>1. UNCHANGED heapLock /\ readers' = readers \ {t} /\ readers' \subseteq readers
      BY <1>1, <1>2, <1>11, <1>14, <2>7 DEF ThreadOk, LockOf, Top
    <3>2. \A u \in Threads : Locked(u)' = Locked(u)
      BY <1>1, <3>1, LocksOfOthers
    <3>3. TypeOK'
      BY <1>1, <1>2, <1>4, <2>1, <3>1 DEF TypeOK, heaps
    <3>4. \A u \in Threads \ {t} : Apart(u)' <=> Apart(u)
      BY <1>1, <2>1, <3>2 DEF Apart, OthersStay, TypeOK
    <3>5. ASSUME NEW u \in Threads \ {t} PROVE Same(u)
      BY <1>2, <2>1, <3>1, <3>2, <3>4 DEF Same, OthersStay, heaps, IInv, ThreadOk, HeapsOf
    <3>6. ReadersAlone' /\ LockOf(t)'
      BY <1>1, <2>1, <2>3, <2>4, <3>1 DEF ThreadOk, LockOf, ReadersAlone
    <3>7. HeapsOf(t)'
      <4>1. /\ owner = t \/ Locked(t) = {}
            /\ Locked(t) \subseteq Existing /\ Apart(t)
        BY <1>1, <1>2, <2>7, RestingHeaps
      <4>2. Apart(t)'
        BY <1>5, <2>1, <3>2, <4>1 DEF Apart
      <4> QED
        BY <1>2, <1>5, <2>1, <2>3, <3>2, <4>1, <4>2, HeapsAtRest DEF Existing, heaps
    <3>8. UsersAt'
      BY <1>2, <1>3, <1>5, <3>5, HeapUsersKeep DEF heaps, HasHeap
    <3> QED
      BY <1>6, <1>7, <1>8, <2>2, <3>3, <3>5, <3>6, <3>7, <3>8, OthersKeep DEF ThreadOk
  <2> QED
    BY <2>6, <2>7
<1> QED
  BY <1>12, <1>13, <1>14

\* A stack that is cleared, or has the unwinding as its one entry.
LEMMA ClearedStack ==
    ASSUME NEW m \in BOOLEAN
    PROVE  /\ <<>> \in Seq(Tags) /\ <<"unwind">> \in Seq(Tags)
           /\ WellFormed(<<>>) /\ WellFormed(<<"unwind">>)
           /\ Cardinality(Covered(<<>>, m)) = 0 /\ Cardinality(Covered(<<"unwind">>, m)) = 1
           /\ Counted(<<>>) = {} /\ Counted(<<"unwind">>) = {}
           /\ Len(<<>>) = 0 /\ Len(<<"unwind">>) = 1
<1>1. <<>> \in Seq(Tags) /\ <<"unwind">> \in Seq(Tags) /\ Len(<<>>) = 0 /\ Len(<<"unwind">>) = 1
  BY DEF Tags
<1>2. WellFormed(<<>>) /\ WellFormed(<<"unwind">>)
  BY <1>1 DEF WellFormed, Destructors
<1>3. Covered(<<>>, m) = {} /\ Covered(<<"unwind">>, m) = {1}
  BY <1>1 DEF Covered
<1>4. Counted(<<>>) = {} /\ Counted(<<"unwind">>) = {}
  BY <1>1 DEF Counted
<1> QED
  BY <1>1, <1>2, <1>3, <1>4, FS_EmptySet, FS_Singleton

LEMMA BlockKeeps == ASSUME IInv, NEW t \in Threads, Block(t) PROVE IInv'
<1>1. TypeOK /\ ThreadOk(t) /\ DepthAt /\ SoloIsPending
  BY DEF IInv
<1>2. /\ at[t] \in {"inside", "program"} /\ at' = [at EXCEPT ![t] = "blocked"]
      /\ multi /\ owner = t /\ goal[t] = "work"
      /\ saved' = [saved EXCEPT ![t] = held[t]] /\ ReleaseAll(t)
      /\ UNCHANGED <<multi, solo_pending, alive, depth, heaps, goal, want, stack>>
  BY DEF Block, Go
<1>3. at'[t] = "blocked" /\ saved'[t] = held[t] /\ OthersStay(t)
  BY <1>1, <1>2 DEF OthersStay, TypeOK, ReleaseAll
<1>4. /\ \A u \in Threads \ {t} : Same(u)
      /\ Locked(t)' = {} /\ owner' = Nobody /\ writer' = Nobody /\ held'[t] = 0 /\ readers' = readers
      /\ ReadersAlone' /\ Apart(t)'
      /\ held' \in [Threads -> Nat] /\ heapLock' \in [Heaps -> Threads \cup {Nobody}]
  BY <1>2, <1>3, ReleaseAllKeeps DEF heaps
<1>5. TypeOK'
  BY <1>1, <1>2, <1>4 DEF TypeOK, heaps
<1>6. LockOf(t)' /\ GoalOf(t)'
  <2>1. t \notin readers
    BY <1>1, <1>2 DEF ThreadOk, LockOf, StackOf, Top
  <2> QED
    BY <1>1, <1>2, <1>3, <1>4, <2>1, Sorts DEF ThreadOk, LockOf, GoalOf
<1>7. StackOf(t)'
  <2>1. \A i \in 1..Len(stack[t]) : stack[t][i] \notin {"local", "read"}
    <3>1. stack[t] \in Seq(Tags)
      BY <1>1 DEF TypeOK
    <3>2. at[t] = "inside" => ~Top(t, {"local", "read"}) /\ stack[t] # <<>>
      BY <1>1, <1>2 DEF ThreadOk, StackOf
    <3> QED
      BY <1>1, <1>2, <3>1, <3>2 DEF ThreadOk, StackOf, Top
  <2> QED
    BY <1>1, <1>2, <1>3, <2>1 DEF ThreadOk, StackOf
<1>8. HoldsOf(t)'
  BY <1>1, <1>2, <1>3 DEF ThreadOk, HoldsOf, Holds, Suspended
<1>9. HeapsOf(t)'
  BY <1>1, <1>2, <1>3, <1>4, HeapsAtRest DEF ThreadOk, HeapsOf, heaps, Existing
<1>10. DepthAt' /\ SoloIsPending'
  BY <1>1, <1>2 DEF DepthAt, SoloIsPending
<1>11. UsersAt'
  BY <1>2, <1>3, <1>4, HeapUsersKeep DEF heaps, HasHeap
<1> QED
  BY <1>4, <1>5, <1>6, <1>7, <1>8, <1>9, <1>10, <1>11, OthersKeep DEF ThreadOk

LEMMA ContainedKeeps == ASSUME IInv, NEW t \in Threads, Contained(t) PROVE IInv'
<1>1. TypeOK /\ ThreadOk(t) /\ DepthAt /\ SoloIsPending
  BY DEF IInv
<1>2. /\ at[t] = "inside" /\ at' = [at EXCEPT ![t] = "program"]
      /\ Top(t, {"unwind"}) /\ ReleaseAll(t) /\ stack' = [stack EXCEPT ![t] = <<>>]
      /\ UNCHANGED <<multi, solo_pending, alive, depth, heaps, goal, want, saved>>
  BY DEF Contained, Go
<1>3. /\ multi \in BOOLEAN /\ goal[t] = "work" /\ t # Main /\ owner = t
  <2>1. stack[t] # <<>> /\ Len(stack[t]) \in 1..Len(stack[t]) /\ ~Suspended(t)
    BY <1>1, <1>2 DEF TypeOK, Top, Suspended
  <2>2. goal[t] = "work" /\ t # Main
    BY <1>1, <1>2, <2>1 DEF ThreadOk, StackOf, Top
  <2>3. owner = t
    BY <1>1, <1>2, <2>1, EntryOwns DEF ThreadOk, Top
  <2> QED
    BY <1>1, <2>2, <2>3 DEF TypeOK
<1>4. at'[t] = "program" /\ stack'[t] = <<>> /\ OthersStay(t)
  BY <1>1, <1>2 DEF OthersStay, TypeOK, ReleaseAll
<1>5. /\ \A u \in Threads \ {t} : Same(u)
      /\ Locked(t)' = {} /\ owner' = Nobody /\ writer' = Nobody /\ held'[t] = 0 /\ readers' = readers
      /\ ReadersAlone' /\ Apart(t)'
      /\ held' \in [Threads -> Nat] /\ heapLock' \in [Heaps -> Threads \cup {Nobody}]
  BY <1>2, <1>3, <1>4, ReleaseAllKeeps DEF heaps
<1>6. TypeOK'
  BY <1>1, <1>2, <1>3, <1>5, ClearedStack DEF TypeOK, heaps
<1>7. LockOf(t)' /\ GoalOf(t)'
  BY <1>1, <1>2, <1>3, <1>4, <1>5, Sorts DEF ThreadOk, LockOf, GoalOf, Top
<1>8. StackOf(t)'
  BY <1>3, <1>4, ClearedStack DEF StackOf
<1>9. HoldsOf(t)'
  BY <1>2, <1>3, <1>4, <1>5, ClearedStack DEF HoldsOf, Holds, Suspended
<1>10. HeapsOf(t)'
  BY <1>1, <1>2, <1>4, <1>5, HeapsAtRest DEF ThreadOk, HeapsOf, heaps, Existing
<1>11. DepthAt' /\ SoloIsPending'
  BY <1>1, <1>2, <1>3, <1>4, ClearedStack, Sorts DEF DepthAt, SoloIsPending, TypeOK
<1>12. UsersAt'
  BY <1>2, <1>4, <1>5, HeapUsersKeep DEF heaps, HasHeap
<1> QED
  BY <1>5, <1>6, <1>7, <1>8, <1>9, <1>10, <1>11, <1>12, OthersKeep DEF ThreadOk

LEMMA FaultKeeps == ASSUME IInv, NEW t \in Threads, Fault(t) PROVE IInv'
<1>1. TypeOK /\ ThreadOk(t) /\ DepthAt /\ SoloIsPending /\ ReadersAlone
  BY DEF IInv
<1>2. /\ t # Main /\ at[t] \in {"inside", "program"} /\ goal[t] = "work"
      /\ want' = [want EXCEPT ![t] = {}]
      /\ UNCHANGED <<multi, solo_pending, alive, depth, heaps, saved>>
  BY DEF Fault
<1>3. multi /\ multi \in BOOLEAN /\ held[t] \in Nat /\ Counted(stack[t]) = {} /\ want'[t] = {}
  BY <1>1, <1>2 DEF ThreadOk, GoalOf, TypeOK, DepthAt
<1>4. CASE owner = t
  <2>1. /\ at' = [at EXCEPT ![t] = "inside"] /\ stack' = [stack EXCEPT ![t] = <<"unwind">>]
        /\ UNCHANGED <<locks, goal>>
    BY <1>4 DEF Fault
  <2>2. at'[t] = "inside" /\ stack'[t] = <<"unwind">> /\ OthersStay(t)
    BY <1>1, <1>2, <2>1 DEF OthersStay, TypeOK, locks
  <2>3. (\A u \in Threads \ {t} : Same(u)) /\ Locked(t)' = Locked(t) /\ ReadersAlone'
    BY <1>2, <2>1, <2>2, LocksStay DEF heaps, locks
  <2>4. TypeOK'
    BY <1>1, <1>2, <1>3, <2>1, ClearedStack DEF TypeOK, heaps, locks
  <2>5. LockOf(t)' /\ GoalOf(t)'
    <3>1. t \notin readers
      BY <1>1, <1>2, <1>4 DEF ThreadOk, LockOf, StackOf, Top
    <3>2. Top(t, {"read"})' <=> FALSE
      BY <2>2 DEF Top
    <3> QED
      BY <1>1, <1>2, <1>4, <2>1, <2>2, <3>1, <3>2 DEF ThreadOk, LockOf, GoalOf, locks
  <2>6. StackOf(t)'
    <3>1. Len(stack'[t]) = 1 /\ stack'[t] # <<>> /\ stack'[t][1] = "unwind" /\ WellFormed(stack'[t])
      <4>1. WellFormed(stack'[t])
        BY <1>3, <2>2, ClearedStack
      <4> QED
        BY <2>2, <4>1
    <3> QED
      BY <1>2, <2>1, <2>2, <3>1 DEF StackOf, Top, Destructors
  <2>7. HoldsOf(t)'
    <3>1. Holds(t)' = held[t] /\ held[t] > 0
      BY <1>1, <1>4, <2>1, <2>2 DEF Holds, Suspended, ThreadOk, LockOf, locks
    <3>2. Cardinality(Covered(stack'[t], multi')) = 1
      BY <1>2, <1>3, <2>2, ClearedStack
    <3>3. stack'[t] # <<>> /\ stack'[t][1] = "unwind"
      BY <2>2
    <3> QED
      BY <1>3, <3>1, <3>2, <3>3 DEF HoldsOf
  <2>8. HeapsOf(t)'
    BY <1>1, <1>2, <1>3, <1>4, <2>1, <2>2, <2>3, HeapsAtRest DEF ThreadOk, HeapsOf, Apart, heaps, locks, Existing
  <2>9. DepthAt' /\ SoloIsPending'
    BY <1>1, <1>2, <1>3, <2>2, <2>1, ClearedStack, Sorts DEF DepthAt, SoloIsPending, TypeOK
  <2>10. UsersAt'
    BY <1>2, <2>1, <2>2, <2>3, HeapUsersKeep DEF heaps, HasHeap
  <2> QED
    BY <2>3, <2>4, <2>5, <2>6, <2>7, <2>8, <2>9, <2>10, OthersKeep DEF ThreadOk
<1>5. CASE owner # t
  <2>1. /\ at' = [at EXCEPT ![t] = "lock"] /\ goal' = [goal EXCEPT ![t] = "unwind"]
        /\ stack' = [stack EXCEPT ![t] = <<>>] /\ readers' = readers \ {t} /\ UnlockHeaps(t)
        /\ UNCHANGED <<writer, owner, held>>
    BY <1>5 DEF Fault
  <2>2. at'[t] = "lock" /\ stack'[t] = <<>> /\ goal'[t] = "unwind" /\ OthersStay(t)
    BY <1>1, <1>2, <2>1 DEF OthersStay, TypeOK
  <2>3. TypeOK'
    BY <1>1, <1>2, <1>3, <2>1, ClearedStack DEF TypeOK, heaps, UnlockHeaps
  <2>4. Locked(t)' = {} /\ \A u \in Threads \ {t} : Locked(u)' = Locked(u)
    BY <1>1, <2>1, LocksOfOthers
  <2>5. \A u \in Threads \ {t} : Apart(u)' <=> Apart(u)
    <3>1. UNCHANGED owner /\ owner \in Threads \cup {Nobody} /\ \A u \in Threads \ {t} : want'[u] = want[u]
      BY <1>1, <2>1, <2>2 DEF OthersStay, TypeOK
    <3>2. owner # Nobody => Locked(owner)' = Locked(owner)
      BY <1>5, <2>4, <3>1
    <3> QED
      BY <2>4, <3>1, <3>2 DEF Apart
  <2>6. ASSUME NEW u \in Threads \ {t} PROVE Same(u)
    BY <1>2, <2>1, <2>2, <2>4, <2>5 DEF Same, OthersStay, heaps, IInv, ThreadOk, HeapsOf
  <2>7. LockOf(t)' /\ GoalOf(t)' /\ ReadersAlone'
    BY <1>1, <1>2, <1>3, <1>5, <2>1, <2>2 DEF ThreadOk, LockOf, GoalOf, ReadersAlone
  <2>8. StackOf(t)'
    <3>1. Len(stack'[t]) = 0 /\ WellFormed(stack'[t])
      BY <1>3, <2>2, ClearedStack
    <3> QED
      BY <1>2, <2>2, <3>1 DEF StackOf
  <2>9. HoldsOf(t)'
    <3>1. Holds(t)' = held[t] /\ held[t] = 0
      BY <1>1, <1>3, <1>5, <2>1, <2>2 DEF Holds, Suspended, ThreadOk, LockOf
    <3>2. Cardinality(Covered(stack'[t], multi')) = 0
      BY <1>2, <1>3, <2>2, ClearedStack
    <3> QED
      BY <3>1, <3>2 DEF HoldsOf
  <2>10. HeapsOf(t)'
    BY <1>3, <2>2, <2>4, HeapsAtRest DEF Apart
  <2>11. DepthAt' /\ SoloIsPending'
    BY <1>1, <1>2, <1>3, <2>2, <2>1, ClearedStack, Sorts DEF DepthAt, SoloIsPending, TypeOK
  <2>12. UsersAt'
    BY <1>2, <2>1, <2>2, <2>6, HeapUsersKeep DEF heaps, HasHeap
  <2> QED
    BY <2>3, <2>6, <2>7, <2>8, <2>9, <2>10, <2>11, <2>12, OthersKeep DEF ThreadOk
<1> QED
  BY <1>4, <1>5

-----------------------------------------------------------------------------
(* Taking the locks.                                                         *)

LEMMA GetLockKeeps == ASSUME IInv, NEW t \in Threads, GetLock(t) PROVE IInv'
<1>1. TypeOK /\ ThreadOk(t) /\ DepthAt /\ SoloIsPending
  BY DEF IInv
<1>2. /\ at[t] = "lock" /\ at' = [at EXCEPT ![t] = "heaps"] /\ writer = Nobody /\ readers = {} /\ writer' = t
      /\ UNCHANGED <<readers, owner, held, heapLock, multi, solo_pending, alive, depth, heaps, goal, want, saved, stack>>
  BY DEF GetLock, Go
<1>3. at'[t] = "heaps" /\ OthersStay(t)
  BY <1>1, <1>2 DEF OthersStay, TypeOK
<1>4. TypeOK'
  BY <1>1, <1>2 DEF TypeOK, heaps
<1>5. \A u \in Threads : Locked(u)' = Locked(u) /\ (Apart(u)' <=> Apart(u))
  <2>1. \A u \in Threads : Locked(u)' = Locked(u)
    BY <1>1, <1>2, LocksOfOthers
  <2> QED
    BY <1>1, <1>2, <1>3, <2>1 DEF Apart, OthersStay, TypeOK
<1>6. ASSUME NEW u \in Threads \ {t} PROVE Same(u)
  BY <1>2, <1>3, <1>5, Sorts DEF Same, OthersStay, heaps, IInv, ThreadOk, HeapsOf
<1>7. LockOf(t)' /\ StackOf(t)' /\ GoalOf(t)' /\ ReadersAlone'
  BY <1>1, <1>2, <1>3, Sorts DEF ThreadOk, LockOf, StackOf, GoalOf, Top, ReadersAlone
<1>8. HoldsOf(t)'
  BY <1>1, <1>2, <1>3 DEF ThreadOk, HoldsOf, Holds, Suspended
<1>9. HeapsOf(t)'
  <2>1. Locked(t) = {} /\ owner # t /\ want[t] \subseteq Existing /\ Apart(t)
    BY <1>1, <1>2, RestingHeaps DEF ThreadOk, LockOf
  <2>2. 0 \in Existing
    BY <1>1, Sorts
  <2> QED
    BY <1>2, <1>3, <1>5, <2>1, <2>2 DEF HeapsOf, Existing, heaps
<1>10. DepthAt' /\ SoloIsPending'
  BY <1>1, <1>2 DEF DepthAt, SoloIsPending
<1>11. UsersAt'
  BY <1>1, <1>2, <1>3, <1>6, HeapUsersKeep DEF heaps, HasHeap
<1> QED
  BY <1>4, <1>6, <1>7, <1>8, <1>9, <1>10, <1>11, OthersKeep DEF ThreadOk

\* One heap's lock more, nobody being the holder.
LEMMA HeapTaken ==
    ASSUME IInv, NEW t \in Threads, GetHeap(t)
    PROVE  LET left == Existing \ Locked(t)
               h == Lowest(left)
           IN  /\ at[t] = "heaps" /\ writer = t /\ owner = Nobody /\ readers = {} /\ multi /\ held[t] = 0
               /\ h \in left /\ (\A g \in left : h <= g) /\ (Cardinality(left) > 1 <=> left \ {h} # {})
               /\ heapLock' \in [Heaps -> Threads \cup {Nobody}] /\ left \in SUBSET Nat
               /\ Locked(t)' = Locked(t) \cup {h} /\ Locked(t)' \subseteq Existing
               /\ \A u \in Threads \ {t} : Locked(u)' = Locked(u)
<1> DEFINE left == Existing \ Locked(t)
           h == Lowest(left)
<1>1. TypeOK /\ (\A u \in Threads : ThreadOk(u)) /\ ReadersAlone /\ at[t] = "heaps" /\ LockHeap(t, h)
  BY DEF IInv, GetHeap
<1>2. writer = t /\ owner # t /\ multi /\ held[t] = 0
  <2>1. writer = t /\ owner # t
    BY <1>1 DEF ThreadOk, LockOf
  <2>2. multi
    BY <1>1 DEF ThreadOk, GoalOf
  <2>3. held[t] \in Nat /\ ~(held[t] > 0)
    BY <1>1, <2>1 DEF ThreadOk, LockOf, TypeOK
  <2> QED
    BY <2>1, <2>2, <2>3
<1>3. owner = Nobody /\ readers = {}
  <2>1. owner \in Threads => writer = owner
    BY <1>1 DEF ThreadOk, LockOf
  <2> QED
    BY <1>1, <1>2, <2>1, Sorts DEF ReadersAlone, TypeOK
<1>4. left \in SUBSET Heaps /\ left \in SUBSET Nat /\ left # {} /\ Locked(t) \subseteq Existing
  BY <1>1, Sorts DEF ThreadOk, HeapsOf
<1>5. h \in left /\ (\A g \in left : h <= g) /\ (Cardinality(left) > 1 <=> left \ {h} # {})
  BY <1>4, LowestIs, MoreThanOne
<1>6. heapLock' \in [Heaps -> Threads \cup {Nobody}]
  BY <1>1, <1>4, <1>5 DEF LockHeap, TypeOK
<1>7. Locked(t)' = Locked(t) \cup {h} /\ \A u \in Threads \ {t} : Locked(u)' = Locked(u)
  BY <1>1, <1>4, <1>5, LocksOfOthers
<1> QED
  BY <1>1, <1>2, <1>3, <1>4, <1>5, <1>6, <1>7

LEMMA GetHeapMore ==
    ASSUME IInv, NEW t \in Threads, GetHeap(t), Cardinality(Existing \ Locked(t)) > 1 PROVE IInv'
<1> DEFINE left == Existing \ Locked(t)
           h == Lowest(left)
<1>1. TypeOK /\ ThreadOk(t) /\ DepthAt /\ SoloIsPending
  BY DEF IInv
<1>2. UNCHANGED <<writer, readers, owner, held, heaps, multi, solo_pending, alive, depth, at, goal, want, saved, stack>>
  BY DEF GetHeap
<1>3. /\ at[t] = "heaps" /\ owner = Nobody /\ owner # t
      /\ h \in left /\ (\A g \in left : h <= g) /\ left \ {h} # {}
      /\ heapLock' \in [Heaps -> Threads \cup {Nobody}] /\ left \in SUBSET Nat
      /\ Locked(t)' = Locked(t) \cup {h} /\ Locked(t)' \subseteq Existing
      /\ \A u \in Threads \ {t} : Locked(u)' = Locked(u)
  BY HeapTaken, Sorts
<1> HIDE DEF h
<1>4. OthersStay(t) /\ TypeOK'
  BY <1>1, <1>2, <1>3 DEF OthersStay, TypeOK, heaps
<1>5. (\A u \in Threads \ {t} : Same(u)) /\ ReadersAlone'
  BY <1>2, <1>3, <1>4, HeapLocksMove DEF heaps
<1>6. LockOf(t)' /\ StackOf(t)' /\ GoalOf(t)'
  BY <1>1, <1>2, <1>3 DEF ThreadOk, LockOf, StackOf, GoalOf, Top
<1>7. HoldsOf(t)'
  BY <1>1, <1>2, <1>3 DEF ThreadOk, HoldsOf, Holds, Suspended
<1>8. HeapsOf(t)'
  <2>1. Existing' = Existing /\ Existing' \ Locked(t)' = left \ {h}
    BY <1>2, <1>3 DEF heaps, Existing
  <2>2. \A k \in left \ {h}, g \in Locked(t) \cup {h} : g < k
    <3>1. \A k \in left \ {h} : k \in Nat /\ h \in Nat /\ h < k
      BY <1>3
    <3> QED
      BY <1>1, <1>3, <3>1 DEF ThreadOk, HeapsOf
  <2> QED
    BY <1>1, <1>2, <1>3, <2>1, <2>2 DEF ThreadOk, HeapsOf, Apart
<1>9. DepthAt' /\ SoloIsPending'
  BY <1>1, <1>2 DEF DepthAt, SoloIsPending
<1>10. UsersAt'
  BY <1>1, <1>2, <1>3, <1>5, HeapUsersKeep DEF heaps, HasHeap
<1> QED
  BY <1>4, <1>5, <1>6, <1>7, <1>8, <1>9, <1>10, OthersKeep DEF ThreadOk

\* Somebody becomes the holder: he has every heap, the others none.
LEMMA HolderAlone ==
    ASSUME IInv, NEW t \in Threads, OthersStay(t), writer = t, owner = Nobody, owner' = t,
           heapLock' \in [Heaps -> Threads \cup {Nobody}], Locked(t)' = Existing,
           \A u \in Threads \ {t} : Locked(u)' = Locked(u),
           UNCHANGED <<writer, readers, heaps_n, alive>>,
           \A u \in Threads \ {t} : multi' = multi \/ at[u] \in {"unborn", "ended"}
    PROVE  /\ \A u \in Threads \ {t} : Same(u)
           /\ ReadersAlone'
<1>1. TypeOK /\ (\A u \in Threads : ThreadOk(u)) /\ ReadersAlone
  BY DEF IInv
<1>2. ASSUME NEW u \in Threads \ {t} PROVE Apart(u)'
  <2>1. Locked(u)' \subseteq Existing /\ want'[u] \subseteq Existing
    BY <1>1 DEF ThreadOk, HeapsOf, OthersStay
  <2>2. Locked(u)' \cap Locked(t)' = {}
    BY DEF Locked
  <2> QED
    BY <2>1, <2>2 DEF Apart
<1>3. \A u \in Threads \ {t} : Same(u)
  BY <1>1, <1>2, Sorts DEF Same, OthersStay
<1> QED
  BY <1>1, <1>3 DEF ReadersAlone

LEMMA LastHeap ==
    ASSUME IInv, NEW t \in Threads, GetHeap(t), Cardinality(Existing \ Locked(t)) <= 1
    PROVE  /\ at[t] = "heaps" /\ writer = t /\ owner = Nobody /\ readers = {} /\ multi /\ held[t] = 0
           /\ heapLock' \in [Heaps -> Threads \cup {Nobody}]
           /\ owner' = t /\ Locked(t)' = Existing
           /\ \A u \in Threads \ {t} : Locked(u)' = Locked(u)
           /\ held' = [held EXCEPT ![t] = IF goal[t] = "resume" THEN saved[t] ELSE 1]
           /\ saved' = [saved EXCEPT ![t] = 0]
           /\ at' = [at EXCEPT ![t] = IF goal[t] = "resume" /\ ~InEntry(t) THEN "program" ELSE "inside"]
           /\ goal' = [goal EXCEPT ![t] = IF @ \in {"resume", "unwind"} THEN "work" ELSE @]
           /\ \/ goal[t] = "resume" /\ UNCHANGED <<stack, multi, solo_pending>>
              \/ goal[t] = "unwind" /\ Push(t, "unwind") /\ UNCHANGED <<multi, solo_pending>>
              \/ goal[t] \notin {"resume", "unwind"} /\ Push(t, "excl") /\ SwitchOff(t)
           /\ UNCHANGED <<writer, readers, alive, depth, heaps, want>>
<1> DEFINE left == Existing \ Locked(t)
           h == Lowest(left)
<1>1. /\ h \in left /\ (Cardinality(left) > 1 <=> left \ {h} # {}) /\ Cardinality(left) \in Nat
      /\ Locked(t)' = Locked(t) \cup {h} /\ Locked(t)' \subseteq Existing
  <2>1. left \in SUBSET Heaps
    BY Sorts DEF IInv
  <2> QED
    BY <2>1, HeapTaken, MoreThanOne, FS_CardinalityType
<1>2. left \ {h} = {}
  BY <1>1
<1>3. Locked(t)' = Existing
  BY <1>1, <1>2
<1>4. ~(Cardinality(left) > 1)
  BY <1>1
<1> HIDE DEF h
<1> QED
  BY <1>3, <1>4, HeapTaken DEF GetHeap

\* A thread that waited has its holds again.
LEMMA ResumeKeeps ==
    ASSUME IInv, NEW t \in Threads, Standing(t), GetHeap(t), Cardinality(Existing \ Locked(t)) <= 1,
           goal[t] = "resume"
    PROVE  IInv'
<1>1. TypeOK /\ ThreadOk(t) /\ DepthAt /\ SoloIsPending
  BY DEF IInv
<1>2. /\ at[t] = "heaps" /\ writer = t /\ owner = Nobody /\ readers = {} /\ multi
      /\ heapLock' \in [Heaps -> Threads \cup {Nobody}]
      /\ owner' = t /\ Locked(t)' = Existing
      /\ \A u \in Threads \ {t} : Locked(u)' = Locked(u)
      /\ held' = [held EXCEPT ![t] = saved[t]] /\ saved' = [saved EXCEPT ![t] = 0]
      /\ at' = [at EXCEPT ![t] = IF InEntry(t) THEN "inside" ELSE "program"]
      /\ goal' = [goal EXCEPT ![t] = "work"]
      /\ UNCHANGED <<writer, readers, alive, depth, heaps, want, stack, multi, solo_pending>>
  <2>1. /\ at' = [at EXCEPT ![t] = IF goal[t] = "resume" /\ ~InEntry(t) THEN "program" ELSE "inside"]
        /\ goal' = [goal EXCEPT ![t] = IF @ \in {"resume", "unwind"} THEN "work" ELSE @]
        /\ held' = [held EXCEPT ![t] = IF goal[t] = "resume" THEN saved[t] ELSE 1]
    BY LastHeap
  <2>2. at' = [at EXCEPT ![t] = IF InEntry(t) THEN "inside" ELSE "program"]
    BY <2>1
  <2>3. goal' = [goal EXCEPT ![t] = "work"]
    BY <1>1, <2>1 DEF TypeOK
  <2>4. held' = [held EXCEPT ![t] = saved[t]]
    BY <2>1
  <2> QED
    BY <2>2, <2>3, <2>4, LastHeap
<1>3. /\ at'[t] = (IF InEntry(t) THEN "inside" ELSE "program") /\ goal'[t] = "work" /\ held'[t] = saved[t]
      /\ saved[t] > 0 /\ OthersStay(t)
  BY <1>1, <1>2 DEF OthersStay, TypeOK, Standing, Suspended
<1>4. TypeOK'
  BY <1>1, <1>2 DEF TypeOK, heaps
<1>5. (\A u \in Threads \ {t} : Same(u)) /\ ReadersAlone'
  BY <1>2, <1>3, HolderAlone DEF heaps
<1>6. LockOf(t)' /\ GoalOf(t)'
  <2>1. ~Top(t, {"read"})'
    BY <1>1, <1>2 DEF ThreadOk, StackOf, Top, TypeOK
  <2> QED
    BY <1>1, <1>2, <1>3, <2>1 DEF ThreadOk, LockOf, GoalOf
<1>7. StackOf(t)'
  <2>1. InEntry(t) => stack[t] # <<>> /\ ~Top(t, Destructors)
    BY DEF InEntry, Top, Destructors
  <2>2. ~InEntry(t) => stack[t] = <<>> \/ Top(t, Destructors)
    BY <1>1 DEF InEntry, Top, Destructors, TypeOK
  <2> QED
    BY <1>1, <1>2, <1>3, <2>1, <2>2 DEF ThreadOk, StackOf, Top, TypeOK
<1>8. HoldsOf(t)'
  <2>1. Holds(t) = saved[t] /\ Holds(t)' = saved[t]
    BY <1>2, <1>3 DEF Holds, Suspended
  <2> QED
    BY <1>1, <1>2, <2>1 DEF ThreadOk, HoldsOf
<1>9. HeapsOf(t)'
  BY <1>1, <1>2, <1>3, HeapsAtRest DEF ThreadOk, HeapsOf, Apart, heaps, Existing
<1>10. DepthAt' /\ SoloIsPending'
  BY <1>1, <1>2 DEF DepthAt, SoloIsPending
<1>11. UsersAt'
  BY <1>2, <1>3, <1>5, HeapUsersKeep DEF heaps, HasHeap
<1> QED
  BY <1>4, <1>5, <1>6, <1>7, <1>8, <1>9, <1>10, <1>11, OthersKeep DEF ThreadOk

\* A thread that enters is inside, with its first hold.
LEMMA FirstHoldKeeps ==
    ASSUME IInv, NEW t \in Threads, GetHeap(t), Cardinality(Existing \ Locked(t)) <= 1,
           goal[t] # "resume"
    PROVE  IInv'
<1> DEFINE e == IF goal[t] = "unwind" THEN "unwind" ELSE "excl"
           g == IF goal[t] = "unwind" THEN "work" ELSE goal[t]
<1>1. TypeOK /\ ThreadOk(t) /\ DepthAt /\ SoloIsPending
  BY DEF IInv
<1>2. /\ at[t] = "heaps" /\ writer = t /\ owner = Nobody /\ readers = {} /\ multi /\ held[t] = 0
      /\ heapLock' \in [Heaps -> Threads \cup {Nobody}]
      /\ owner' = t /\ Locked(t)' = Existing
      /\ \A u \in Threads \ {t} : Locked(u)' = Locked(u)
      /\ held' = [held EXCEPT ![t] = 1] /\ saved' = [saved EXCEPT ![t] = 0]
      /\ at' = [at EXCEPT ![t] = "inside"]
      /\ goal' = [goal EXCEPT ![t] = g] /\ Push(t, e)
      /\ e = "unwind" => UNCHANGED <<multi, solo_pending>>
      /\ e = "excl" => SwitchOff(t)
      /\ UNCHANGED <<writer, readers, alive, depth, heaps, want>>
  <2>1. /\ at' = [at EXCEPT ![t] = IF goal[t] = "resume" /\ ~InEntry(t) THEN "program" ELSE "inside"]
        /\ goal' = [goal EXCEPT ![t] = IF @ \in {"resume", "unwind"} THEN "work" ELSE @]
        /\ held' = [held EXCEPT ![t] = IF goal[t] = "resume" THEN saved[t] ELSE 1]
    BY LastHeap
  <2>2. at' = [at EXCEPT ![t] = "inside"]
    BY <2>1
  <2>3. goal' = [goal EXCEPT ![t] = g]
    BY <1>1, <2>1 DEF TypeOK
  <2>4. held' = [held EXCEPT ![t] = 1]
    BY <2>1
  <2>5. /\ Push(t, e) /\ (e = "unwind" => UNCHANGED <<multi, solo_pending>>)
        /\ (e = "excl" => SwitchOff(t))
    BY LastHeap
  <2> HIDE DEF e, g
  <2> QED
    BY <2>2, <2>3, <2>4, <2>5, LastHeap
<1>3. /\ stack[t] = <<>> /\ stack[t] \in Seq(Tags) /\ WellFormed(stack[t])
      /\ e \in Tags /\ e \notin Destructors /\ e \in {"unwind", "excl"}
      /\ (e = "unwind" => t # Main /\ g = "work")
      /\ g \in {"work", "claim", "final"} /\ (t = Main => g = "work") /\ (g # "work" => e = "excl" /\ g = goal[t])
      /\ Counted(stack[t]) = {}
  <2>1. stack[t] = <<>> /\ stack[t] \in Seq(Tags) /\ WellFormed(stack[t])
    BY <1>1, <1>2 DEF ThreadOk, StackOf, TypeOK
  <2>2. goal[t] \in {"work", "claim", "final", "unwind"} /\ (t = Main => goal[t] = "work")
    BY <1>1, <1>2 DEF ThreadOk, GoalOf
  <2>3. Counted(stack[t]) = {}
    BY <2>1, ClearedStack
  <2> QED
    BY <2>1, <2>2, <2>3 DEF Tags, Destructors
<1> HIDE DEF e, g
<1>4. /\ stack' \in [Threads -> Seq(Tags)] /\ \A u \in Threads \ {t} : stack'[u] = stack[u]
      /\ stack'[t] = Append(stack[t], e) /\ stack'[t] # <<>>
      /\ Len(stack'[t]) = 1 /\ stack'[t][1] = e
      /\ WellFormed(stack'[t])
  <2>1. /\ stack' \in [Threads -> Seq(Tags)] /\ \A u \in Threads \ {t} : stack'[u] = stack[u]
        /\ stack'[t] = Append(stack[t], e) /\ stack'[t] # <<>>
        /\ Len(stack[t]) = 0 /\ Len(stack'[t]) = Len(stack[t]) + 1
        /\ stack'[t][Len(stack'[t])] = e
        /\ WellFormed(stack'[t])
    BY <1>1, <1>2, <1>3, PushStack
  <2> QED
    BY <2>1
<1>5. at'[t] = "inside" /\ goal'[t] = g /\ held'[t] = 1 /\ OthersStay(t)
  BY <1>1, <1>2, <1>4 DEF OthersStay, TypeOK
<1>6. /\ multi' \in BOOLEAN /\ solo_pending' \in BOOLEAN /\ SoloIsPending'
      /\ multi' = multi \/ (~multi' /\ t = Main /\ e = "excl")
      /\ \A u \in Threads \ {t} : multi' = multi \/ at[u] \in {"unborn", "ended"}
  <2>1. CASE e = "unwind"
    BY <1>1, <1>2, <2>1 DEF TypeOK, SoloIsPending
  <2>2. CASE e = "excl"
    BY <1>2, <2>2, SwitchOffAlone
  <2> QED
    BY <1>3, <2>1, <2>2
<1>7. TypeOK'
  <2>1. held' \in [Threads -> Nat] /\ saved' \in [Threads -> Nat]
    BY <1>1, <1>2 DEF TypeOK
  <2>2. /\ goal' \in [Threads -> {"work", "claim", "claimed", "final", "leave", "unwind", "resume"}]
        /\ at' \in [Threads -> {"unborn", "job", "program", "lock", "heaps", "local",
                                 "plan", "inside", "pool", "blocked", "ended"}]
    BY <1>1, <1>2, <1>3 DEF TypeOK
  <2> QED
    BY <1>1, <1>2, <1>4, <1>6, <2>1, <2>2 DEF TypeOK, heaps
<1>8. (\A u \in Threads \ {t} : Same(u)) /\ ReadersAlone'
  BY <1>2, <1>5, <1>6, HolderAlone DEF heaps
<1>9. LockOf(t)'
  <2>1. ~Top(t, {"read"})'
    BY <1>3, <1>4 DEF Top
  <2> QED
    BY <1>2, <1>5, <2>1 DEF LockOf
<1>10. GoalOf(t)'
  BY <1>1, <1>2, <1>3, <1>5, <1>6 DEF ThreadOk, GoalOf
<1>11. StackOf(t)'
  <2>1. \A i \in 1..Len(stack'[t]) : stack'[t][i] = e
    BY <1>4
  <2> QED
    BY <1>2, <1>3, <1>4, <1>5, <2>1 DEF StackOf, Top, Destructors
<1>12. HoldsOf(t)'
  <2>1. Holds(t)' = 1 /\ Holds(t) = 0
    BY <1>1, <1>2, <1>5 DEF Holds, Suspended
  <2>2. CASE e = "excl"
    <3>1. /\ 1 >= Cardinality(Covered(stack'[t], multi'))
          /\ t # Main => 1 = Cardinality(Covered(stack'[t], multi'))
      <4>1. (multi' \/ t = Main) /\ multi' \in BOOLEAN /\ HoldsOf(t) /\ multi
        BY <1>1, <1>2, <1>6 DEF ThreadOk
      <4>2. /\ Holds(t) + 1 >= Cardinality(Covered(Append(stack[t], "excl"), multi'))
            /\ t # Main /\ (stack[t] = <<>> \/ stack[t][1] # "unwind") =>
                  Holds(t) + 1 = Cardinality(Covered(Append(stack[t], "excl"), multi'))
        BY <1>1, <4>1, ExclHolds
      <4>3. Append(stack[t], "excl") = stack'[t]
        BY <1>4, <2>2
      <4> QED
        BY <1>3, <2>1, <4>2, <4>3
    <3> QED
      BY <2>1, <3>1 DEF HoldsOf
  <2>3. CASE e = "unwind"
    <3>1. Cardinality(Covered(stack'[t], multi')) = 1
      BY <1>3, <1>4, <1>6, <2>3, ClearedStack, CoveredPush DEF Adds
    <3> QED
      BY <2>1, <3>1 DEF HoldsOf
  <2> QED
    BY <1>3, <2>2, <2>3
<1>13. HeapsOf(t)'
  BY <1>1, <1>2, <1>5, HeapsAtRest DEF ThreadOk, HeapsOf, Apart, heaps, Existing
<1>14. DepthAt'
  <2>1. Cardinality(Counted(stack'[t])) = Cardinality(Counted(stack[t]))
    <3>1. Cardinality(Counted(stack[t])) \in Nat
      BY <1>3, <1>6, CoveredFinite
    <3>2. Cardinality(Counted(stack'[t])) = Cardinality(Counted(stack[t])) + (IF e = "counted" THEN 1 ELSE 0)
      BY <1>3, <1>4, CountedPush
    <3>3. (IF e = "counted" THEN 1 ELSE 0) = 0
      BY <1>3
    <3> QED
      BY <3>1, <3>2, <3>3
  <2> QED
    BY <1>1, <1>2, <1>4, <1>7, <2>1, DepthKeeps
<1>15. UsersAt'
  <2>1. goal[t] \notin {"claim", "leave"} <=> g \notin {"claim", "leave"}
    BY <1>1, <1>2 DEF ThreadOk, GoalOf, g
  <2> QED
    BY <1>2, <1>5, <1>8, <2>1, HeapUsersKeep DEF heaps, HasHeap
<1> QED
  BY <1>6, <1>7, <1>8, <1>9, <1>10, <1>11, <1>12, <1>13, <1>14, <1>15, OthersKeep DEF ThreadOk

LEMMA GetHeapKeeps == ASSUME IInv, NEW t \in Threads, Standing(t), GetHeap(t) PROVE IInv'
<1>1. Cardinality(Existing \ Locked(t)) \in Nat
  BY MoreThanOne, HeapTaken, FS_CardinalityType, Sorts DEF IInv
<1>2. Cardinality(Existing \ Locked(t)) > 1 \/ Cardinality(Existing \ Locked(t)) <= 1
  BY <1>1
<1> QED
  BY <1>2, GetHeapMore, ResumeKeeps, FirstHoldKeeps

-----------------------------------------------------------------------------
(* Threads begin and end.                                                    *)

\* Once locking is on, each entry that CALLBACK_DEPTH counted needs a hold.
LEMMA CoveredSwitchOn ==
    ASSUME NEW s \in Seq(Tags), WellFormed(s), s = <<>> \/ s[Len(s)] \in Destructors
    PROVE  Cardinality(Covered(s, TRUE)) <= Cardinality(Covered(s, FALSE)) + Cardinality(Counted(s))
<1> DEFINE uncovered == Covered(s, TRUE) \ Covered(s, FALSE)
           f == [i \in uncovered |-> i + 1]
<1>1. Len(s) \in Nat /\ (s # <<>> => Len(s) > 0)
  OBVIOUS
<1>2. ASSUME NEW i \in uncovered PROVE i \in Nat /\ i + 1 \in Counted(s)
  <2>1. i \in 1..Len(s) /\ s[i] = "solo" /\ ~(i < Len(s) /\ s[i + 1] = "callback")
    BY DEF Covered
  <2>2. i < Len(s)
    BY <1>1, <2>1 DEF Destructors
  <2>3. s[i + 1] \in Destructors
    BY <1>1, <2>1, <2>2 DEF WellFormed, Destructors
  <2> QED
    BY <1>1, <2>1, <2>2, <2>3 DEF Counted, Destructors
<1>3. f \in Injection(uncovered, Counted(s))
  <2>1. f \in [uncovered -> Counted(s)]
    BY <1>2
  <2>2. ASSUME NEW i \in uncovered, NEW j \in uncovered, f[i] = f[j] PROVE i = j
    <3>1. i \in Nat /\ j \in Nat
      BY <1>2
    <3>2. i + 1 = j + 1
      BY <2>2
    <3> HIDE DEF f, uncovered
    <3> QED
      BY <3>1, <3>2
  <2> QED
    BY <2>1, <2>2 DEF Injection, IsInjective
<1>4. /\ IsFiniteSet(Covered(s, TRUE)) /\ Cardinality(Covered(s, TRUE)) \in Nat
      /\ IsFiniteSet(Covered(s, FALSE)) /\ Cardinality(Covered(s, FALSE)) \in Nat
      /\ IsFiniteSet(Counted(s)) /\ Cardinality(Counted(s)) \in Nat
  BY CoveredFinite
<1>5. IsFiniteSet(uncovered) /\ Cardinality(uncovered) <= Cardinality(Counted(s)) /\ Cardinality(uncovered) \in Nat
  BY <1>3, <1>4, FS_Injection, FS_CardinalityType
<1>6. Covered(s, TRUE) = Covered(s, FALSE) \cup uncovered /\ Covered(s, FALSE) \cap uncovered = {}
  BY DEF Covered
<1> HIDE DEF uncovered
<1> DEFINE a == Covered(s, FALSE)
<1>7. Cardinality(a \cup uncovered) = Cardinality(a) + Cardinality(uncovered) - Cardinality(a \cap uncovered)
  <2> IsFiniteSet(a)
    BY <1>4
  <2> HIDE DEF a
  <2> QED
    BY <1>5, FS_Union
<1>8. Cardinality(a \cap uncovered) = 0 /\ Cardinality(Covered(s, TRUE)) = Cardinality(a \cup uncovered)
  BY <1>6, FS_EmptySet
<1> DEFINE both == Cardinality(Covered(s, TRUE))
           one == Cardinality(a)
           more == Cardinality(uncovered)
           counted == Cardinality(Counted(s))
<1>9. both = one + more - 0 /\ both \in Nat /\ one \in Nat /\ more \in Nat /\ counted \in Nat /\ more <= counted
  BY <1>4, <1>5, <1>7, <1>8
<1> HIDE DEF both, one, more, counted
<1>10. both <= one + counted
  BY <1>9
<1> QED
  BY <1>10 DEF both, one, counted

LEMMA UsersStay ==
    ASSUME UsersAt, UNCHANGED <<users, heap>>, \A u \in Threads : HasHeap(u)' <=> HasHeap(u)
    PROVE  UsersAt'
<1>1. ASSUME NEW h \in Heaps
      PROVE  {u \in Threads : HasHeap(u)' /\ heap'[u] = h} = {u \in Threads : HasHeap(u) /\ heap[u] = h}
  OBVIOUS
<1> QED
  BY <1>1 DEF UsersAt

\* A thread that is started has nothing yet.
LEMMA StartedIsOk ==
    ASSUME TypeOK, NEW c \in Threads, ThreadOk(c), at[c] = "unborn", at'[c] = "job", c \in alive', multi',
           goal'[c] = goal[c], want'[c] = want[c], stack'[c] = stack[c], held'[c] = held[c], saved'[c] = saved[c],
           owner' # c, writer' # c, UNCHANGED <<readers, heaps_n>>, Locked(c)' = {}, Apart(c)', multi' \in BOOLEAN
    PROVE  ThreadOk(c)' /\ c # Main
<1>1. c # Main
  BY Sorts DEF ThreadOk, GoalOf
<1>2. LockOf(c)' /\ GoalOf(c)' /\ StackOf(c)'
  BY <1>1 DEF ThreadOk, LockOf, GoalOf, StackOf, Top
<1>3. HoldsOf(c)'
  <2>1. stack[c] = <<>> /\ <<>> \in Seq(Tags) /\ multi \in BOOLEAN
    BY DEF ThreadOk, StackOf, TypeOK
  <2>2. Cardinality(Covered(stack[c], multi)) = 0 /\ Cardinality(Covered(stack[c], multi')) = 0
    BY <2>1, CoveredFinite
  <2>3. Holds(c)' = Holds(c)
    BY DEF Holds, Suspended
  <2> QED
    BY <2>2, <2>3 DEF ThreadOk, HoldsOf
<1>4. HeapsOf(c)'
  BY HeapsAtRest DEF ThreadOk, HeapsOf, Existing
<1> QED
  BY <1>1, <1>2, <1>3, <1>4 DEF ThreadOk

LEMMA SpawnMoreKeeps ==
    ASSUME IInv, NEW t \in Threads, NEW c \in Threads, Spawn(t, c), multi
    PROVE  IInv'
<1>1. TypeOK /\ ThreadOk(c) /\ DepthAt /\ UsersAt /\ ReadersAlone
  BY DEF IInv
<1>2. /\ at[c] = "unborn" /\ at' = [at EXCEPT ![c] = "job"] /\ alive' = alive \cup {c}
      /\ UNCHANGED <<locks, multi, stack, solo_pending, depth, heaps, goal, want, saved>>
  BY DEF Spawn
<1>3. at'[c] = "job" /\ OthersStay(c)
  BY <1>1, <1>2 DEF OthersStay, TypeOK, locks
<1>4. TypeOK'
  BY <1>1, <1>2 DEF TypeOK, locks, heaps
<1>5. \A u \in Threads : Locked(u)' = Locked(u) /\ (Apart(u)' <=> Apart(u))
  <2>1. \A u \in Threads : Locked(u)' = Locked(u)
    BY <1>1, <1>2, LocksOfOthers DEF locks
  <2> QED
    BY <1>1, <1>2, <2>1 DEF Apart, TypeOK, locks
<1>6. ASSUME NEW u \in Threads \ {c} PROVE Same(u)
  BY <1>2, <1>3, <1>5 DEF Same, OthersStay, heaps, locks, IInv, ThreadOk, HeapsOf
<1>7. ThreadOk(c)' /\ c # Main
  <2>1. Apart(c) /\ owner # c /\ writer # c /\ Locked(c) = {}
    BY <1>1, <1>2, RestingHeaps DEF ThreadOk, HeapsOf, LockOf
  <2>2. multi' /\ multi' \in BOOLEAN
    BY <1>1, <1>2 DEF TypeOK
  <2> QED
    BY <1>1, <1>2, <1>3, <1>5, <2>1, <2>2, StartedIsOk DEF locks, heaps
<1>8. ReadersAlone' /\ DepthAt' /\ SoloIsPending'
  BY <1>1, <1>2, <1>7 DEF ReadersAlone, DepthAt, SoloIsPending, locks
<1>9. UsersAt'
  BY <1>1, <1>2, <1>3, <1>6, <1>7, UsersStay DEF heaps, HasHeap, Same
<1> QED
  BY <1>4, <1>6, <1>7, <1>8, <1>9, OthersKeep

\* The first spawn: the main thread is alone, and is the holder from now on.
LEMMA MainIsAlone ==
    ASSUME IInv, NEW t \in Threads, at[t] = "program", ~multi
    PROVE  /\ t = Main /\ readers = {}
           /\ \A u \in Threads \ {t} : at[u] \in {"unborn", "ended"} /\ writer # u /\ owner # u /\ Locked(u) = {}
<1>1. TypeOK /\ (\A u \in Threads : ThreadOk(u))
  BY DEF IInv
<1>2. t = Main /\ \A u \in Threads \ {t} : at[u] \in {"unborn", "ended"}
  BY <1>1 DEF ThreadOk, GoalOf
<1>3. readers = {}
  <2>1. \A u \in Threads : u \notin readers
    BY <1>1, <1>2 DEF ThreadOk, LockOf
  <2> QED
    BY <1>1, <2>1 DEF TypeOK
<1>4. ASSUME NEW u \in Threads \ {t} PROVE writer # u /\ owner # u /\ Locked(u) = {}
  <2>1. writer # u /\ owner # u
    BY <1>1, <1>2 DEF ThreadOk, LockOf
  <2> QED
    BY <1>1, <1>2, <2>1, RestingHeaps
<1> QED
  BY <1>2, <1>3, <1>4

LEMMA SpawnFirstKeeps ==
    ASSUME IInv, NEW t \in Threads, NEW c \in Threads, Spawn(t, c), ~multi
    PROVE  IInv'
<1>1. TypeOK /\ (\A u \in Threads : ThreadOk(u)) /\ DepthAt /\ UsersAt
  BY DEF IInv
<1>2. /\ at[t] = "program" /\ at[c] = "unborn" /\ at' = [at EXCEPT ![c] = "job", ![t] = "inside"]
      /\ alive' = alive \cup {c} /\ Push(t, "solo")
      /\ multi' = TRUE /\ held' = [held EXCEPT ![t] = @ + 1 + depth]
      /\ owner' = t /\ writer' = t
      /\ heapLock' = [h \in Heaps |-> IF h \in Existing THEN t ELSE Nobody]
      /\ UNCHANGED <<readers, solo_pending, depth, heaps, goal, want, saved>>
  BY DEF Spawn, go_multi
<1>3. /\ t = Main /\ readers = {}
      /\ \A u \in Threads \ {t} : at[u] \in {"unborn", "ended"} /\ writer # u /\ owner # u /\ Locked(u) = {}
  BY <1>2, MainIsAlone
<1>4. /\ stack[t] \in Seq(Tags) /\ WellFormed(stack[t]) /\ held[t] \in Nat /\ depth \in Nat /\ t # c
      /\ stack[t] = <<>> \/ Top(t, Destructors)
      /\ goal[t] = "work"
      /\ \A i \in 1..Len(stack[t]) : stack[t][i] \notin {"local", "read"}
  BY <1>1, <1>2 DEF ThreadOk, StackOf, GoalOf, TypeOK
<1>5. /\ stack' \in [Threads -> Seq(Tags)] /\ \A u \in Threads \ {t} : stack'[u] = stack[u]
      /\ stack'[t] = Append(stack[t], "solo") /\ stack'[t] # <<>>
      /\ Len(stack[t]) \in Nat /\ Len(stack'[t]) = Len(stack[t]) + 1
      /\ stack[t] = <<>> <=> Len(stack[t]) = 0
      /\ stack'[t][Len(stack'[t])] = "solo"
      /\ \A i \in 1..Len(stack[t]) : stack'[t][i] = stack[t][i]
      /\ WellFormed(stack'[t])
  BY <1>1, <1>2, <1>4, PushStack DEF Destructors, Tags
<1>6. at'[t] = "inside" /\ at'[c] = "job" /\ held'[t] = held[t] + 1 + depth
      /\ \A u \in Threads \ {t} : held'[u] = held[u] /\ (u # c => at'[u] = at[u])
  BY <1>1, <1>2, <1>4 DEF TypeOK
<1>7. TypeOK'
  <2>1. held' \in [Threads -> Nat] /\ heapLock' \in [Heaps -> Threads \cup {Nobody}]
    BY <1>1, <1>2, <1>4 DEF TypeOK
  <2>2. at' \in [Threads -> {"unborn", "job", "program", "lock", "heaps", "local",
                             "plan", "inside", "pool", "blocked", "ended"}]
    BY <1>1, <1>2 DEF TypeOK
  <2> QED
    BY <1>1, <1>2, <1>5, <2>1, <2>2 DEF TypeOK, heaps
<1>8. Locked(t)' = Existing /\ (\A u \in Threads \ {t} : Locked(u)' = {}) /\ Existing' = Existing
  <2>1. Existing \subseteq Heaps /\ Nobody \notin Threads
    BY <1>1, Sorts
  <2>2. Existing' = Existing
    BY <1>2 DEF Existing, heaps
  <2> HIDE DEF Existing
  <2> QED
    BY <1>2, <2>1, <2>2 DEF Locked
<1>9. ASSUME NEW u \in Threads \ {t} PROVE Apart(u)'
  BY <1>1, <1>2, <1>8 DEF Apart, ThreadOk, HeapsOf
<1>10. ASSUME NEW u \in Threads \ {t, c} PROVE Same(u)
  <2>1. /\ at'[u] = at[u] /\ goal'[u] = goal[u] /\ want'[u] = want[u] /\ stack'[u] = stack[u]
        /\ held'[u] = held[u] /\ saved'[u] = saved[u] /\ heaps_n' = heaps_n
        /\ u \in readers' <=> u \in readers
        /\ u \in alive' <=> u \in alive
    BY <1>2, <1>5, <1>6 DEF heaps
  <2>2. /\ writer' = u <=> writer = u
        /\ owner' = u <=> owner = u
        /\ Locked(u)' = Locked(u) /\ at[u] \in {"unborn", "ended"}
    BY <1>2, <1>3, <1>8
  <2> QED
    BY <1>9, <2>1, <2>2 DEF Same
<1>11. ThreadOk(c)' /\ c # Main
  <2>1. c \in alive' /\ owner' # c /\ writer' # c /\ Locked(c)' = {} /\ Apart(c)' /\ multi' /\ multi' \in BOOLEAN
        /\ UNCHANGED <<readers, heaps_n>> /\ stack'[c] = stack[c] /\ held'[c] = held[c]
        /\ goal'[c] = goal[c] /\ want'[c] = want[c] /\ saved'[c] = saved[c]
    BY <1>2, <1>4, <1>5, <1>6, <1>8, <1>9 DEF heaps
  <2> QED
    BY <1>1, <1>2, <1>6, <2>1, StartedIsOk
<1>12. LockOf(t)' /\ GoalOf(t)'
  <2>1. ~Top(t, {"read"})'
    BY <1>5 DEF Top
  <2>2. held'[t] > 0
    BY <1>4, <1>6
  <2> QED
    BY <1>1, <1>2, <1>3, <1>4, <1>6, <2>1, <2>2 DEF ThreadOk, LockOf, GoalOf
<1>13. StackOf(t)'
  <2>1. \A i \in 1..Len(stack'[t]) : stack'[t][i] \notin {"local", "read"}
    BY <1>4, <1>5
  <2>2. \A i \in 1..Len(stack'[t]) : stack'[t][i] # "unwind"
    BY <1>1, <1>3, <1>5 DEF ThreadOk, StackOf
  <2> QED
    BY <1>2, <1>3, <1>4, <1>5, <1>6, <2>1, <2>2 DEF StackOf, Top, Destructors
<1>14. HoldsOf(t)'
  <2> DEFINE a == Cardinality(Covered(stack[t], FALSE))
             b == Cardinality(Covered(stack[t], TRUE))
             n == Cardinality(Counted(stack[t]))
  <2>1. Cardinality(Covered(stack'[t], TRUE)) = b + 1
    <3>1. Adds(stack[t], "solo", TRUE) /\ "solo" \in Tags /\ TRUE \in BOOLEAN
      BY DEF Adds, Tags
    <3> QED
      BY <1>4, <1>5, <3>1, CoveredPush
  <2>2. b <= a + n
    BY <1>4, CoveredSwitchOn DEF Top
  <2>3. a \in Nat /\ b \in Nat /\ n \in Nat
    BY <1>4, CoveredFinite
  <2>4. multi = FALSE /\ held[t] >= a
    <3>1. multi = FALSE /\ Holds(t) = held[t]
      BY <1>1, <1>2 DEF Holds, Suspended, TypeOK
    <3> QED
      BY <1>1, <3>1 DEF ThreadOk, HoldsOf
  <2>5. depth = n
    BY <1>1, <1>3 DEF DepthAt
  <2> HIDE DEF a, b, n
  <2>6. held[t] + 1 + depth >= b + 1
    BY <1>4, <2>2, <2>3, <2>4, <2>5
  <2>7. Holds(t)' = held[t] + 1 + depth
    BY <1>6 DEF Holds, Suspended
  <2> QED
    BY <1>2, <1>3, <2>1, <2>6, <2>7 DEF HoldsOf
<1>15. HeapsOf(t)'
  BY <1>1, <1>2, <1>6, <1>8, HeapsAtRest DEF ThreadOk, HeapsOf, Apart
<1>16. \A u \in Threads : ThreadOk(u)'
  <2>1. \A u \in Threads \ {t, c} : ThreadOk(u)'
    BY <1>1, <1>7, <1>10, SameKeeps
  <2> QED
    BY <1>11, <1>12, <1>13, <1>14, <1>15, <2>1 DEF ThreadOk
<1>17. ReadersAlone' /\ SoloIsPending'
  BY <1>2, <1>3, <1>11 DEF ReadersAlone, SoloIsPending
<1>18. DepthAt'
  <2>1. Cardinality(Counted(stack'[t])) = Cardinality(Counted(stack[t]))
    <3>1. Cardinality(Counted(stack[t])) \in Nat /\ "solo" \in Tags
      BY <1>1, <1>4, CoveredFinite DEF TypeOK, Tags
    <3> QED
      BY <1>4, <1>5, <3>1, CountedPush
  <2> QED
    BY <1>1, <1>2, <1>5, <1>7, <2>1, DepthKeeps
<1>19. UsersAt'
  <2>1. \A u \in Threads : HasHeap(u)' <=> HasHeap(u)
    BY <1>2, <1>3, <1>6 DEF HasHeap
  <2> QED
    BY <1>1, <1>2, <2>1, UsersStay DEF heaps
<1> QED
  BY <1>7, <1>16, <1>17, <1>18, <1>19 DEF IInv

Users(h) == {u \in Threads : HasHeap(u) /\ heap[u] = h}

LEMMA UsersFinite == ASSUME NEW S \in SUBSET Threads PROVE IsFiniteSet(S) /\ Cardinality(S) \in Nat
<1>1. IsFiniteSet(Threads)
  BY FS_Interval, SizesAssumption DEF Threads
<1> QED
  BY <1>1, FS_Subset, FS_CardinalityType

\* An exclusive entry that is for something is the thread's only one, and no other
\* thread is taking heaps meanwhile.
LEMMA ForSomething ==
    ASSUME IInv, NEW t \in Threads, at[t] = "inside", goal[t] # "work"
    PROVE  /\ t # Main /\ owner = t /\ writer = t
           /\ \A u \in Threads \ {t} : at[u] # "heaps"
<1>1. TypeOK /\ \A u \in Threads : ThreadOk(u)
  BY DEF IInv
<1>2. t # Main
  BY <1>1 DEF ThreadOk, GoalOf
<1>3. Top(t, {"excl"}) /\ stack[t] # <<>> /\ ~Suspended(t)
  BY <1>1 DEF ThreadOk, StackOf, Suspended
<1>4. owner = t
  BY <1>1, <1>3, EntryOwns DEF ThreadOk, Top
<1> QED
  BY <1>1, <1>2, <1>4 DEF ThreadOk, LockOf

LEMMA ClaimHeapKeeps == ASSUME IInv, NEW t \in Threads, ClaimHeap(t) PROVE IInv'
<1>1. TypeOK /\ ThreadOk(t) /\ DepthAt /\ SoloIsPending /\ ReadersAlone /\ UsersAt
  BY DEF IInv
<1>2. PICK h \in Heaps \ {0} :
        /\ (UNCHANGED heaps_n /\ UNCHANGED shared) \/ (h = heaps_n /\ heaps_n' = heaps_n + 1 /\ UNCHANGED shared)
           \/ (shared' = [shared EXCEPT ![h] = TRUE] /\ UNCHANGED heaps_n)
        /\ heap' = [heap EXCEPT ![t] = h]
        /\ users' = [users EXCEPT ![h] = @ + 1]
  BY DEF ClaimHeap
<1>3. /\ at[t] = "inside" /\ goal[t] = "claim" /\ goal' = [goal EXCEPT ![t] = "claimed"]
      /\ UNCHANGED <<locks, multi, solo_pending, alive, depth, at, want, saved, stack>>
  BY DEF ClaimHeap
<1>4. /\ t # Main /\ owner = t /\ writer = t
      /\ \A u \in Threads \ {t} : at[u] # "heaps"
  BY <1>3, ForSomething
<1>5. /\ heaps_n \in Nat /\ heaps_n' \in 1..MaxHeaps /\ (heaps_n' = heaps_n \/ heaps_n' = heaps_n + 1)
      /\ Existing \subseteq Existing'
  <2>1. heaps_n \in 1..MaxHeaps /\ h \in 0..(MaxHeaps - 1) /\ MaxHeaps \in Nat
    BY <1>1, SizesAssumption DEF TypeOK, Heaps
  <2>2. heaps_n' \in 1..MaxHeaps /\ (heaps_n' = heaps_n \/ heaps_n' = heaps_n + 1)
    BY <1>2, <2>1
  <2>3. heaps_n <= heaps_n' /\ heaps_n \in Nat /\ heaps_n' \in Nat
    BY <2>1, <2>2
  <2> QED
    BY <2>2, <2>3, Intervals DEF Existing
<1>6. goal'[t] = "claimed" /\ heap'[t] = h /\ OthersStay(t) /\ \A u \in Threads \ {t} : heap'[u] = heap[u]
  <2>1. goal'[t] = "claimed" /\ OthersStay(t)
    BY <1>1, <1>3 DEF OthersStay, TypeOK, locks
  <2>2. heap \in [Threads -> Heaps]
    BY <1>1 DEF TypeOK
  <2> QED
    BY <1>2, <2>1, <2>2
<1>7. TypeOK'
  <2>1. /\ users' \in [Heaps -> Nat] /\ heap' \in [Threads -> Heaps] /\ shared' \in [Heaps -> BOOLEAN]
    <3>1. users' \in [Heaps -> Nat]
      <4>1. users \in [Heaps -> Nat] /\ users' = [users EXCEPT ![h] = @ + 1]
        BY <1>1, <1>2 DEF TypeOK
      <4> QED
        BY <4>1
    <3>2. heap' \in [Threads -> Heaps]
      <4>1. heap \in [Threads -> Heaps]
        BY <1>1 DEF TypeOK
      <4> QED
        BY <1>2, <4>1
    <3>3. shared' \in [Heaps -> BOOLEAN]
      BY <1>1, <1>2 DEF TypeOK
    <3> QED
      BY <3>1, <3>2, <3>3
  <2>2. goal' \in [Threads -> {"work", "claim", "claimed", "final", "leave", "unwind", "resume"}]
    BY <1>1, <1>3 DEF TypeOK
  <2> QED
    BY <1>1, <1>3, <1>5, <2>1, <2>2 DEF TypeOK, locks
<1>8. \A u \in Threads : Locked(u)' = Locked(u) /\ (Apart(u)' <=> Apart(u))
  <2>1. \A u \in Threads : Locked(u)' = Locked(u)
    BY <1>1, <1>3, LocksOfOthers DEF locks
  <2> QED
    BY <1>1, <1>3, <2>1 DEF Apart, TypeOK, locks
<1>9. ASSUME NEW u \in Threads \ {t} PROVE Same(u)
  BY <1>3, <1>4, <1>5, <1>6, <1>8 DEF Same, OthersStay, locks, IInv, ThreadOk, HeapsOf
<1>10. LockOf(t)' /\ StackOf(t)' /\ GoalOf(t)'
  <2>1. LockOf(t)' /\ GoalOf(t)'
    BY <1>1, <1>3, <1>4, <1>6 DEF ThreadOk, LockOf, GoalOf, Top, locks
  <2>2. StackOf(t)'
    BY <1>1, <1>3, <1>6 DEF ThreadOk, StackOf, Top, locks
  <2> QED
    BY <2>1, <2>2
<1>11. HoldsOf(t)'
  BY <1>1, <1>3, <1>6 DEF ThreadOk, HoldsOf, Holds, Suspended, locks
<1>12. HeapsOf(t)'
  BY <1>1, <1>3, <1>4, <1>5, <1>8, HeapsAtRest DEF ThreadOk, HeapsOf, locks
<1>13. DepthAt' /\ SoloIsPending' /\ ReadersAlone'
  BY <1>1, <1>3 DEF DepthAt, SoloIsPending, ReadersAlone, locks
<1>14. UsersAt'
  <2>1. ~HasHeap(t) /\ HasHeap(t)'
    BY <1>3, <1>4, <1>6 DEF HasHeap
  <2>2. \A u \in Threads \ {t} : HasHeap(u)' <=> HasHeap(u)
    BY <1>9 DEF Same, HasHeap
  <2>3. Users(h)' = Users(h) \cup {t} /\ t \notin Users(h) /\ Users(h) \in SUBSET Threads
    BY <1>6, <2>1, <2>2 DEF Users
  <2>4. Cardinality(Users(h)') = Cardinality(Users(h)) + 1
    BY <2>3, UsersFinite, FS_AddElement
  <2>5. ASSUME NEW g \in Heaps \ {h} PROVE Users(g)' = Users(g)
    BY <1>6, <2>1, <2>2 DEF Users
  <2>6. \A g \in Heaps : users[g] = Cardinality(Users(g))
    BY <1>1 DEF UsersAt, Users
  <2>7. \A g \in Heaps : users'[g] = Cardinality(Users(g)')
    BY <1>1, <1>2, <2>4, <2>5, <2>6 DEF TypeOK
  <2> QED
    BY <2>7 DEF UsersAt, Users
<1> QED
  BY <1>7, <1>9, <1>10, <1>11, <1>12, <1>13, <1>14, OthersKeep DEF ThreadOk

LEMMA FinalKeeps == ASSUME IInv, NEW t \in Threads, Final(t) PROVE IInv'
<1>1. TypeOK /\ ThreadOk(t) /\ DepthAt /\ ReadersAlone /\ UsersAt
  BY DEF IInv
<1>2. /\ at[t] = "inside" /\ goal[t] = "final" /\ goal' = [goal EXCEPT ![t] = "leave"]
      /\ alive' = alive \ {t} /\ solo_pending' = (solo_pending \/ alive' = {Main})
      /\ users' = [users EXCEPT ![heap[t]] = @ - 1]
      /\ shared' = [shared EXCEPT ![heap[t]] = @ /\ users[heap[t]] > 2]
      /\ UNCHANGED <<locks, multi, depth, heap, heaps_n, at, want, saved, stack>>
  BY DEF Final
<1>3. t # Main /\ owner = t /\ writer = t /\ heap[t] \in Heaps
  BY <1>1, <1>2, ForSomething DEF TypeOK
<1>4. goal'[t] = "leave" /\ OthersStay(t)
  BY <1>1, <1>2 DEF OthersStay, TypeOK, locks
<1>5. /\ HasHeap(t) /\ ~HasHeap(t)'
      /\ \A u \in Threads \ {t} : HasHeap(u)' <=> HasHeap(u)
  BY <1>2, <1>3, <1>4 DEF HasHeap, OthersStay
<1>6. /\ Users(heap[t])' = Users(heap[t]) \ {t} /\ t \in Users(heap[t]) /\ Users(heap[t]) \in SUBSET Threads
      /\ \A g \in Heaps \ {heap[t]} : Users(g)' = Users(g)
  BY <1>2, <1>5 DEF Users
<1>7. /\ Cardinality(Users(heap[t])') = Cardinality(Users(heap[t])) - 1
      /\ Cardinality(Users(heap[t])) \in Nat \ {0}
  <2>1. IsFiniteSet(Users(heap[t])) /\ Cardinality(Users(heap[t])) \in Nat
    BY <1>6, UsersFinite
  <2>2. Cardinality(Users(heap[t]) \ {t}) = Cardinality(Users(heap[t])) - 1
    BY <1>6, <2>1, FS_RemoveElement
  <2>3. Cardinality(Users(heap[t])) # 0
    BY <1>6, <2>1, FS_EmptySet
  <2> QED
    BY <1>6, <2>1, <2>2, <2>3
<1>8. \A g \in Heaps : users[g] = Cardinality(Users(g))
  BY <1>1 DEF UsersAt, Users
<1>9. UsersAt' /\ users' \in [Heaps -> Nat]
  <2>1. users' \in [Heaps -> Nat]
    BY <1>1, <1>2, <1>3, <1>7, <1>8 DEF TypeOK
  <2>2. \A g \in Heaps : users'[g] = Cardinality(Users(g)')
    BY <1>1, <1>2, <1>3, <1>6, <1>7, <1>8 DEF TypeOK
  <2>3. UsersAt'
    BY <2>2 DEF UsersAt, Users
  <2> QED
    BY <2>1, <2>3
<1>10. TypeOK'
  <2>1. /\ shared' \in [Heaps -> BOOLEAN] /\ solo_pending' \in BOOLEAN /\ alive' \subseteq Threads
        /\ goal' \in [Threads -> {"work", "claim", "claimed", "final", "leave", "unwind", "resume"}]
    BY <1>1, <1>2 DEF TypeOK
  <2> QED
    BY <1>1, <1>2, <1>9, <2>1 DEF TypeOK, locks
<1>11. \A u \in Threads : Locked(u)' = Locked(u) /\ (Apart(u)' <=> Apart(u))
  <2>1. \A u \in Threads : Locked(u)' = Locked(u)
    BY <1>1, <1>2, LocksOfOthers DEF locks
  <2> QED
    BY <1>1, <1>2, <2>1 DEF Apart, TypeOK, locks
<1>12. ASSUME NEW u \in Threads \ {t} PROVE Same(u)
  BY <1>2, <1>3, <1>4, <1>11 DEF Same, OthersStay, locks, IInv, ThreadOk, HeapsOf
<1>13. LockOf(t)' /\ StackOf(t)' /\ GoalOf(t)'
  <2>1. LockOf(t)' /\ GoalOf(t)'
    BY <1>1, <1>2, <1>3, <1>4 DEF ThreadOk, LockOf, GoalOf, Top, locks
  <2>2. StackOf(t)'
    BY <1>1, <1>2, <1>4 DEF ThreadOk, StackOf, Top, locks
  <2> QED
    BY <2>1, <2>2
<1>14. HoldsOf(t)'
  BY <1>1, <1>2, <1>4 DEF ThreadOk, HoldsOf, Holds, Suspended, locks
<1>15. HeapsOf(t)'
  BY <1>1, <1>2, <1>3, <1>11, HeapsAtRest DEF ThreadOk, HeapsOf, locks, Existing
<1>16. DepthAt' /\ SoloIsPending' /\ ReadersAlone'
  BY <1>1, <1>2 DEF DepthAt, SoloIsPending, ReadersAlone, locks
<1> QED
  BY <1>9, <1>10, <1>12, <1>13, <1>14, <1>15, <1>16, OthersKeep DEF ThreadOk

-----------------------------------------------------------------------------
(* What stands whoever holds the lock.                                       *)

\* The step moves no heap, takes none of the holder's locks from him, and lets
\* nobody wait who did not.
Stays ==
    /\ UNCHANGED <<heap, heaps_n>>
    /\ \/ owner' = Nobody
       \/ owner' = owner /\ \A h \in Heaps : owner # Nobody /\ heapLock[h] = owner => heapLock'[h] = owner
    /\ \A u \in Threads : Suspended(u)' => Suspended(u) /\ saved'[u] = saved[u]

LEMMA StaysKeeps ==
    ASSUME TypeOK, TypeOK', \A u \in Threads : Standing(u), Stays
    PROVE  \A u \in Threads : Standing(u)'
<1> SUFFICES ASSUME NEW u \in Threads PROVE Standing(u)'
  OBVIOUS
<1>1. Suspended(u)' => saved'[u] > 0
  BY DEF Stays, Standing
<1>2. heap'[u] \in Existing'
  BY DEF Stays, Standing, Existing
<1>3. owner' \notin {Nobody, u} => heapLock'[heap'[u]] = owner'
  BY DEF Stays, Standing, TypeOK
<1> QED
  BY <1>1, <1>2, <1>3 DEF Standing

\* Most steps are such.
LEMMA QuietStays ==
    ASSUME TypeOK, UNCHANGED <<heap, heaps_n, owner, heapLock, saved>>, NEW t \in Threads,
           \A u \in Threads \ {t} : at'[u] = at[u] /\ goal'[u] = goal[u],
           Suspended(t)' => Suspended(t)
    PROVE  Stays
BY DEF Stays, Suspended

LEMMA StandingKeeps ==
    ASSUME IInv, IInv', \A u \in Threads : Standing(u), NEW t \in Threads, ThreadNext(t)
    PROVE  \A u \in Threads : Standing(u)'
<1>1. TypeOK /\ TypeOK' /\ ThreadOk(t)
  BY DEF IInv
<1>2. ASSUME Stays PROVE \A u \in Threads : Standing(u)'
  BY <1>1, <1>2, StaysKeeps
<1>3. ASSUME NEW g \in {"work", "claim", "final"}, Enter(t, g) PROVE Stays
  <2>1. UNCHANGED <<heap, heaps_n, owner, heapLock, saved>> /\ goal'[t] = g
        /\ \A u \in Threads \ {t} : at'[u] = at[u] /\ goal'[u] = goal[u]
    BY <1>1, <1>3 DEF Enter, heaps, locks, TypeOK
  <2>2. ~Suspended(t)'
    BY <1>1, <1>3, <2>1 DEF Enter, Suspended, TypeOK
  <2> QED
    BY <1>1, <2>1, <2>2, QuietStays
<1>4. ASSUME NEW hs, EnterLocal(t, hs) PROVE Stays
  <2>1. UNCHANGED <<heap, heaps_n, owner, heapLock, saved>> /\ at'[t] \in {"inside", "local"}
        /\ \A u \in Threads \ {t} : at'[u] = at[u] /\ goal'[u] = goal[u]
    BY <1>1, <1>4 DEF EnterLocal, heaps, locks, TypeOK
  <2> QED
    BY <1>1, <2>1, QuietStays DEF Suspended
<1>5. CASE GetLock(t)
  <2>1. UNCHANGED <<heap, heaps_n, owner, heapLock, saved, goal>> /\ at[t] = "lock" /\ at'[t] = "heaps"
        /\ \A u \in Threads \ {t} : at'[u] = at[u]
    BY <1>1, <1>5 DEF GetLock, Go, heaps, TypeOK
  <2>2. Stays
    BY <1>1, <2>1, QuietStays DEF Suspended
  <2> QED
    BY <1>2, <2>2
<1>6. CASE GetHeap(t)
  <2>1. CASE Cardinality(Existing \ Locked(t)) > 1
    <3>1. UNCHANGED <<owner, at, goal, saved, heap, heaps_n>>
      BY <1>6, <2>1 DEF GetHeap, heaps
    <3>2. owner = Nobody
      BY <1>6, HeapTaken
    <3>3. Stays
      BY <3>1, <3>2 DEF Stays, Suspended
    <3> QED
      BY <1>2, <3>3
  <2>2. CASE Cardinality(Existing \ Locked(t)) <= 1
    <3>1. /\ owner' = t /\ Locked(t)' = Existing /\ UNCHANGED <<heap, heaps_n>>
          /\ at'[t] \in {"program", "inside"}
          /\ \A u \in Threads \ {t} : at'[u] = at[u] /\ goal'[u] = goal[u] /\ saved'[u] = saved[u]
      <4>1. /\ owner' = t /\ Locked(t)' = Existing /\ UNCHANGED <<heap, heaps_n>>
            /\ saved' = [saved EXCEPT ![t] = 0]
            /\ at' = [at EXCEPT ![t] = IF goal[t] = "resume" /\ ~InEntry(t) THEN "program" ELSE "inside"]
            /\ goal' = [goal EXCEPT ![t] = IF @ \in {"resume", "unwind"} THEN "work" ELSE @]
        BY <1>6, <2>2, LastHeap DEF heaps
      <4>2. at'[t] \in {"program", "inside"}
        BY <1>1, <4>1 DEF TypeOK
      <4>3. \A u \in Threads \ {t} : at'[u] = at[u] /\ goal'[u] = goal[u] /\ saved'[u] = saved[u]
        BY <1>1, <4>1 DEF TypeOK
      <4> QED
        BY <4>1, <4>2, <4>3
    <3>2. ASSUME NEW u \in Threads PROVE Standing(u)'
      <4>1. heap'[u] \in Existing' /\ heap'[u] \in Locked(t)'
        BY <3>1 DEF Standing, Existing
      <4>2. Suspended(u)' => saved'[u] > 0
        BY <3>1 DEF Standing, Suspended
      <4> QED
        BY <3>1, <4>1, <4>2 DEF Standing, Locked
    <3> QED
      BY <3>2
  <2>3. Cardinality(Existing \ Locked(t)) > 1 \/ Cardinality(Existing \ Locked(t)) <= 1
    <3>1. Cardinality(Existing \ Locked(t)) \in Nat
      BY <1>1, <1>6, MoreThanOne, HeapTaken, FS_CardinalityType, Sorts
    <3> QED
      BY <3>1
  <2> QED
    BY <2>1, <2>2, <2>3
<1>7. CASE LockSet(t)
  <2>1. /\ heapLock[Lowest(want[t] \ Locked(t))] = Nobody
        /\ heapLock' = [heapLock EXCEPT ![Lowest(want[t] \ Locked(t))] = t]
        /\ UNCHANGED <<owner, heap, heaps_n, saved, goal>> /\ at'[t] \in {"local", "plan"}
        /\ \A u \in Threads \ {t} : at'[u] = at[u]
    BY <1>1, <1>7 DEF LockSet, LockHeap, heaps, TypeOK
  <2>2. Stays
    BY <1>1, <2>1 DEF Stays, Suspended, TypeOK
  <2> QED
    BY <1>2, <2>2
<1>8. CASE Planned(t) \/ OwnStepDone(t) \/ EnterRead(t) \/ Callback(t) \/ CallbackEnds(t)
  <2>1. UNCHANGED <<heap, heaps_n, owner, heapLock, saved, goal>> /\ at'[t] \in {"inside", "program"}
        /\ \A u \in Threads \ {t} : at'[u] = at[u]
    BY <1>1, <1>8 DEF Planned, OwnStepDone, EnterRead, Callback, CallbackEnds, Go, heaps, locks, TypeOK
  <2>2. Stays
    BY <1>1, <2>1, QuietStays DEF Suspended
  <2> QED
    BY <1>2, <2>2
<1>9. ASSUME NEW hs, Widen(t, hs) \/ GiveUpLocal(t) PROVE Stays
  <2>1. UnlockHeaps(t) /\ owner # t /\ UNCHANGED <<heap, heaps_n, owner, saved>>
        /\ (at'[t] = "local" \/ (at'[t] = "lock" /\ goal'[t] = "work"))
        /\ \A u \in Threads \ {t} : at'[u] = at[u] /\ goal'[u] = goal[u]
    BY <1>1, <1>9 DEF Widen, GiveUpLocal, Go, heaps, TypeOK, ThreadOk, LockOf
  <2> QED
    BY <1>1, <2>1 DEF Stays, Suspended, UnlockHeaps
<1>10. CASE OwnStep(t)
  <2>1. CASE multi /\ shared[heap[t]]
    BY <1>2, <1>4, <1>10, <2>1 DEF OwnStep
  <2>2. CASE ~(multi /\ shared[heap[t]])
    <3>1. UNCHANGED <<heap, heaps_n, owner, heapLock, saved, goal>> /\ at'[t] = "pool"
          /\ \A u \in Threads \ {t} : at'[u] = at[u]
      BY <1>1, <1>10, <2>2 DEF OwnStep, Go, heaps, locks, TypeOK
    <3>2. Stays
      BY <1>1, <3>1, QuietStays DEF Suspended
    <3> QED
      BY <1>2, <3>2
  <2> QED
    BY <2>1, <2>2
<1>11. CASE Leave(t)
  <2>1. /\ at'[t] \in {"ended", "program"} /\ UNCHANGED <<heap, heaps_n, saved>>
        /\ \A u \in Threads \ {t} : at'[u] = at[u] /\ goal'[u] = goal[u]
    BY <1>1, <1>11 DEF Leave, heaps, TypeOK
  <2>2. \/ owner' = Nobody
        \/ UNCHANGED <<owner, heapLock>>
        \/ owner # t /\ UnlockHeaps(t) /\ UNCHANGED owner
    <3>1. Top(t, {"local"}) /\ at[t] = "inside" => owner # t
      BY <1>1 DEF ThreadOk, StackOf, Top
    <3>2. Release(t) => owner' = Nobody \/ UNCHANGED <<owner, heapLock>>
      BY DEF Release, ReleaseAll
    <3> QED
      BY <1>11, <3>1, <3>2 DEF Leave, locks
  <2>3. Stays
    BY <1>1, <2>1, <2>2 DEF Stays, Suspended, UnlockHeaps
  <2> QED
    BY <1>2, <2>3
<1>12. CASE Block(t)
  <2>1. /\ owner = t /\ saved'[t] = held[t] /\ owner' = Nobody /\ UNCHANGED <<heap, heaps_n, goal>>
        /\ \A u \in Threads \ {t} : at'[u] = at[u] /\ saved'[u] = saved[u]
    BY <1>1, <1>12 DEF Block, Go, ReleaseAll, heaps, TypeOK
  <2>2. held[t] > 0
    BY <1>1, <2>1 DEF ThreadOk, LockOf
  <2>3. ASSUME NEW u \in Threads PROVE Standing(u)'
    <3>1. Suspended(u)' => saved'[u] > 0
      BY <2>1, <2>2 DEF Standing, Suspended
    <3> QED
      BY <2>1, <3>1 DEF Standing, Existing
  <2> QED
    BY <2>3
<1>13. CASE Unblock(t)
  <2>1. UNCHANGED <<heap, heaps_n, owner, heapLock, saved>> /\ at[t] = "blocked"
        /\ \A u \in Threads \ {t} : at'[u] = at[u] /\ goal'[u] = goal[u]
    BY <1>1, <1>13 DEF Unblock, Go, heaps, locks, TypeOK
  <2>2. Stays
    BY <1>1, <2>1, QuietStays DEF Suspended
  <2> QED
    BY <1>2, <2>2
<1>14. CASE Fault(t)
  <2>1. /\ UNCHANGED <<heap, heaps_n, saved, owner>>
        /\ at'[t] = "inside" \/ (at'[t] = "lock" /\ goal'[t] = "unwind")
        /\ \A u \in Threads \ {t} : at'[u] = at[u] /\ goal'[u] = goal[u]
        /\ UNCHANGED heapLock \/ (owner # t /\ UnlockHeaps(t))
    BY <1>1, <1>14 DEF Fault, heaps, locks, TypeOK
  <2>2. Stays
    BY <1>1, <2>1 DEF Stays, Suspended, UnlockHeaps
  <2> QED
    BY <1>2, <2>2
<1>15. CASE Contained(t)
  <2>1. /\ owner' = Nobody /\ at'[t] = "program" /\ UNCHANGED <<heap, heaps_n, saved, goal>>
        /\ \A u \in Threads \ {t} : at'[u] = at[u]
    BY <1>1, <1>15 DEF Contained, Go, ReleaseAll, heaps, TypeOK
  <2>2. Stays
    BY <2>1 DEF Stays, Suspended
  <2> QED
    BY <1>2, <2>2
<1>16. ASSUME NEW c \in Threads, Spawn(t, c) PROVE \A u \in Threads : Standing(u)'
  <2>1. CASE multi
    <3>1. UNCHANGED <<heap, heaps_n, owner, heapLock, saved, goal>> /\ at'[c] = "job"
          /\ \A u \in Threads \ {c} : at'[u] = at[u]
      BY <1>1, <1>16, <2>1 DEF Spawn, heaps, locks, TypeOK
    <3>2. Stays
      BY <1>1, <3>1, QuietStays DEF Suspended
    <3> QED
      BY <1>2, <3>2
  <2>2. CASE ~multi
    <3>1. /\ UNCHANGED <<heap, heaps_n, saved, goal>> /\ at'[c] \in {"job", "inside"} /\ at'[t] = "inside"
          /\ \A u \in Threads \ {t, c} : at'[u] = at[u]
          /\ heapLock' = [h \in Heaps |-> IF h \in Existing THEN t ELSE Nobody] /\ owner' = t
      BY <1>1, <1>16, <2>2 DEF Spawn, go_multi, heaps, TypeOK
    <3>2. ASSUME NEW u \in Threads PROVE Standing(u)'
      <4>1. heap[u] \in Existing /\ heap[u] \in Heaps
        BY <1>1 DEF Standing, TypeOK
      <4>2. Suspended(u)' => saved'[u] > 0
        BY <3>1 DEF Standing, Suspended
      <4> QED
        BY <3>1, <4>1, <4>2 DEF Standing, Existing
    <3> QED
      BY <3>2
  <2> QED
    BY <2>1, <2>2
<1>17. CASE ClaimHeap(t)
  <2>1. at[t] = "inside" /\ owner = t
    BY <1>17, ForSomething DEF ClaimHeap
  <2>2. PICK h \in Heaps \ {0} :
          /\ \/ h \in Free /\ UNCHANGED heaps_n
             \/ h = heaps_n /\ heaps_n' = heaps_n + 1
             \/ heaps_n = MaxHeaps /\ UNCHANGED heaps_n
          /\ heap' = [heap EXCEPT ![t] = h]
    BY <1>17 DEF ClaimHeap
  <2>3. h \in Existing' /\ Existing \subseteq Existing'
    <3>1. h \in Nat /\ heaps_n \in Nat /\ heaps_n' \in Nat /\ h < MaxHeaps /\ MaxHeaps \in Nat
      BY <1>1, SizesAssumption DEF TypeOK, Heaps
    <3>2. heaps_n <= heaps_n'
      BY <2>2, <3>1
    <3>3. Existing \subseteq Existing'
      BY <3>1, <3>2, Intervals DEF Existing
    <3>4. h \in Existing'
      <4>1. CASE h \in Free
        BY <3>3, <4>1 DEF Free
      <4>2. CASE h \notin Free
        <5>1. h < heaps_n'
          BY <2>2, <3>1, <4>2
        <5> QED
          BY <3>1, <5>1, Intervals DEF Existing
      <4> QED
        BY <4>1, <4>2
    <3> QED
      BY <3>3, <3>4
  <2>4. ASSUME NEW u \in Threads PROVE Standing(u)'
    <3>1. UNCHANGED <<owner, heapLock, at, saved>> /\ \A v \in Threads \ {t} : goal'[v] = goal[v] /\ heap'[v] = heap[v]
      BY <1>1, <1>17, <2>2 DEF ClaimHeap, locks, TypeOK
    <3>2. heap'[t] = h
      BY <1>1, <2>2 DEF TypeOK
    <3>3. Suspended(u)' => saved'[u] > 0
      BY <2>1, <3>1 DEF Standing, Suspended
    <3>4. heap'[u] \in Existing'
      BY <2>3, <3>1, <3>2 DEF Standing
    <3> QED
      BY <2>1, <3>1, <3>3, <3>4 DEF Standing
  <2> QED
    BY <2>4
<1>18. CASE Final(t)
  <2>1. /\ UNCHANGED <<heap, heaps_n, owner, heapLock, saved, at>> /\ at[t] = "inside"
        /\ \A u \in Threads \ {t} : goal'[u] = goal[u]
    BY <1>1, <1>18 DEF Final, locks, TypeOK
  <2>2. Stays
    BY <1>1, <2>1, QuietStays DEF Suspended
  <2> QED
    BY <1>2, <2>2
<1> QED
  BY <1>2, <1>3, <1>4, <1>5, <1>6, <1>7, <1>8, <1>9, <1>10, <1>11, <1>12, <1>13, <1>14, <1>15, <1>16, <1>17, <1>18
     DEF ThreadNext, Begin, Finish

-----------------------------------------------------------------------------
(* The invariant.                                                            *)

LEMMA InitHolds == Init => Inv
<1> SUFFICES ASSUME Init PROVE Inv
  OBVIOUS
<1>1. TypeOK
  <2>1. <<>> \in Seq(Tags) /\ 1 \in 1..MaxHeaps /\ 0 \in Heaps /\ Main \in Threads
    BY SizesAssumption, Sorts
  <2> QED
    BY <2>1, SizesAssumption DEF Init, TypeOK
<1>2. /\ \A t \in Threads : stack[t] = <<>> /\ held[t] = 0 /\ saved[t] = 0 /\ goal[t] = "work" /\ want[t] = {}
         /\ heap[t] = 0 /\ Locked(t) = {} /\ at[t] = (IF t = Main THEN "program" ELSE "unborn")
      /\ owner = Nobody /\ writer = Nobody /\ readers = {} /\ ~multi /\ depth = 0 /\ 0 \in Existing
      /\ Main \in Threads /\ alive = {Main}
  <2>1. \A t \in Threads : Locked(t) = {}
    BY Sorts DEF Init, Locked
  <2> QED
    BY <1>1, <2>1, Sorts DEF Init
<1>3. WellFormed(<<>>) /\ Cardinality(Covered(<<>>, multi)) = 0 /\ Counted(<<>>) = {} /\ Cardinality(Counted(<<>>)) = 0
  BY <1>1, ClearedStack, FS_EmptySet DEF TypeOK
<1>4. ASSUME NEW t \in Threads PROVE ThreadOk(t)
  <2>1. LockOf(t)
    BY <1>2, Sorts DEF LockOf
  <2>2. StackOf(t)
    BY <1>2, <1>3 DEF StackOf, Top
  <2>3. GoalOf(t)
    BY <1>2 DEF GoalOf
  <2>4. HoldsOf(t)
    BY <1>2, <1>3 DEF HoldsOf, Holds, Suspended
  <2>5. HeapsOf(t)
    BY <1>2 DEF HeapsOf, Apart
  <2> QED
    BY <2>1, <2>2, <2>3, <2>4, <2>5 DEF ThreadOk
<1>5. ReadersAlone /\ SoloIsPending /\ DepthAt
  BY <1>2, <1>3 DEF ReadersAlone, SoloIsPending, DepthAt
<1>6. UsersAt
  <2>1. Users(0) = {Main} /\ \A h \in Heaps \ {0} : Users(h) = {}
    BY <1>2 DEF Users, HasHeap
  <2>2. Cardinality(Users(0)) = 1 /\ \A h \in Heaps \ {0} : Cardinality(Users(h)) = 0
    BY <2>1, FS_Singleton, FS_EmptySet
  <2>3. users = [h \in Heaps |-> IF h = 0 THEN 1 ELSE 0]
    BY DEF Init
  <2>4. \A h \in Heaps : users[h] = Cardinality(Users(h))
    BY <2>2, <2>3
  <2> QED
    BY <2>4 DEF UsersAt, Users
<1>7. ASSUME NEW t \in Threads PROVE Standing(t)
  BY <1>2 DEF Standing, Suspended
<1> QED
  BY <1>1, <1>4, <1>5, <1>6, <1>7 DEF Inv, IInv

LEMMA StutterHolds == Inv /\ UNCHANGED vars => Inv'
<1> SUFFICES ASSUME Inv, UNCHANGED vars PROVE Inv'
  OBVIOUS
<1>1. UNCHANGED <<multi, solo_pending, alive, depth, writer, readers, owner, held, heapLock, heap, heaps_n, users,
                  shared, at, goal, want, saved, stack>>
  BY DEF vars, locks, heaps
<1>2. TypeOK /\ TypeOK'
  BY <1>1 DEF Inv, IInv, TypeOK
<1>3. \A t \in Threads : Locked(t)' = Locked(t) /\ (Apart(t)' <=> Apart(t))
  BY <1>1, <1>2 DEF Locked, Apart, TypeOK
<1>4. ASSUME NEW t \in Threads PROVE ThreadOk(t)'
  <2>1. Same(t) /\ ThreadOk(t)
    BY <1>1, <1>3 DEF Same, Inv, IInv, ThreadOk, HeapsOf
  <2> QED
    BY <1>2, <2>1, SameKeeps
<1>5. ReadersAlone' /\ SoloIsPending' /\ DepthAt'
  BY <1>1 DEF Inv, IInv, ReadersAlone, SoloIsPending, DepthAt
<1>6. UsersAt'
  BY <1>1, UsersStay DEF Inv, IInv, HasHeap
<1>7. Stays
  BY <1>1, <1>2 DEF Stays, Suspended
<1>8. \A t \in Threads : Standing(t)'
  BY <1>2, <1>7, StaysKeeps DEF Inv
<1> QED
  BY <1>2, <1>4, <1>5, <1>6, <1>8 DEF Inv, IInv

LEMMA StepHolds == ASSUME Inv, NEW t \in Threads, ThreadNext(t) PROVE Inv'
<1>1. IInv /\ (\A u \in Threads : Standing(u)) /\ TypeOK /\ ThreadOk(t)
  BY DEF Inv, IInv
<1>2. ASSUME at[t] = "program", Enter(t, "work") PROVE IInv'
  BY <1>1, <1>2, EnterKeeps
<1>3. ASSUME Begin(t) \/ Finish(t) PROVE IInv'
  BY <1>1, <1>3, EnterKeeps DEF Begin, Finish
<1>4. ASSUME NEW hs \in SUBSET Known, heap[t] \in hs, EnterLocal(t, hs) PROVE IInv'
  BY <1>1, <1>4, EnterLocalNested, EnterLocalWaits
<1>5. ASSUME OwnStep(t) PROVE IInv'
  <2>1. CASE ~(multi /\ shared[heap[t]])
    BY <1>1, <1>5, <2>1, OwnStepKeeps
  <2>2. CASE multi /\ shared[heap[t]] /\ owner = t
    <3>1. EnterLocal(t, {heap[t]})
      BY <1>5, <2>2 DEF OwnStep
    <3> QED
      BY <1>1, <2>2, <3>1, EnterLocalNested
  <2>3. CASE multi /\ shared[heap[t]] /\ owner # t
    <3>1. EnterLocal(t, {heap[t]})
      BY <1>5, <2>3 DEF OwnStep
    <3>2. {heap[t]} \in SUBSET Known
      BY <1>1, <2>3 DEF Standing, Known
    <3> QED
      BY <1>1, <2>3, <3>1, <3>2, EnterLocalWaits
  <2> QED
    BY <2>1, <2>2, <2>3
<1>6. ASSUME NEW c \in Threads, Spawn(t, c) PROVE IInv'
  BY <1>1, <1>6, SpawnMoreKeeps, SpawnFirstKeeps
<1>7. ASSUME NEW hs \in SUBSET Known, Widen(t, hs) PROVE IInv'
  BY <1>1, <1>7, WidenKeeps
<1>8. ASSUME GetLock(t) \/ GetHeap(t) \/ LockSet(t) \/ Planned(t) \/ GiveUpLocal(t) \/ EnterRead(t) PROVE IInv'
  BY <1>1, <1>8, GetLockKeeps, GetHeapKeeps, LockSetKeeps, PlannedKeeps, GiveUpLocalKeeps, EnterReadKeeps
<1>9. ASSUME OwnStepDone(t) \/ Leave(t) \/ Callback(t) \/ CallbackEnds(t) PROVE IInv'
  BY <1>1, <1>9, OwnStepDoneKeeps, LeaveKeeps, CallbackKeeps, CallbackEndsKeeps
<1>10. ASSUME Block(t) \/ Unblock(t) \/ Fault(t) \/ Contained(t) PROVE IInv'
  BY <1>1, <1>10, BlockKeeps, UnblockKeeps, FaultKeeps, ContainedKeeps
<1>11. ASSUME ClaimHeap(t) \/ Final(t) PROVE IInv'
  BY <1>1, <1>11, ClaimHeapKeeps, FinalKeeps
<1>12. IInv'
  BY <1>2, <1>3, <1>4, <1>5, <1>6, <1>7, <1>8, <1>9, <1>10, <1>11 DEF ThreadNext
<1> QED
  BY <1>1, <1>12, StandingKeeps DEF Inv

\* The invariant holds in every state, for any number of threads and heaps.
THEOREM Invariant == Spec => []Inv
<1>1. Init => Inv
  BY InitHolds
<1>2. Inv /\ [Next]_vars => Inv'
  BY StepHolds, StutterHolds DEF Next
<1> QED
  BY <1>1, <1>2, PTL DEF Spec

-----------------------------------------------------------------------------
(* What follows from it.                                                     *)

LEMMA HoldsCover == IInv => HoldsCoverEntries
<1> SUFFICES ASSUME IInv, NEW t \in Threads, Returns(t) > 0, at[t] \in {"inside", "program"}
             PROVE  owner = t /\ held[t] >= Returns(t)
  BY DEF HoldsCoverEntries
<1> DEFINE returned == {i \in 1..Len(stack[t]) : stack[t][i] = "excl" \/ (stack[t][i] = "solo" /\ multi)}
<1>1. TypeOK /\ ThreadOk(t) /\ ~Suspended(t)
  BY DEF IInv, Suspended
<1>2. returned \subseteq Covered(stack[t], multi)
  BY DEF Covered
<1>3. /\ IsFiniteSet(Covered(stack[t], multi)) /\ Cardinality(Covered(stack[t], multi)) \in Nat
      /\ held[t] \in Nat
  BY <1>1, CoveredFinite DEF TypeOK
<1>4. /\ IsFiniteSet(returned) /\ Cardinality(returned) \in Nat
      /\ Cardinality(returned) <= Cardinality(Covered(stack[t], multi))
  BY <1>2, <1>3, FS_Subset, FS_CardinalityType
<1>5. held[t] >= Cardinality(Covered(stack[t], multi))
  BY <1>1 DEF ThreadOk, HoldsOf, Holds
<1>6. Returns(t) = Cardinality(returned)
  BY DEF Returns
<1>7. held[t] >= Returns(t) /\ held[t] > 0
  BY <1>3, <1>4, <1>5, <1>6
<1> QED
  BY <1>1, <1>7 DEF ThreadOk, LockOf

LEMMA NothingLeft == IInv => NothingLeftHeld
<1> SUFFICES ASSUME IInv, NEW t \in Threads \ {Main}, at[t] \in {"program", "pool", "ended"}, stack[t] = <<>>
             PROVE  held[t] = 0 /\ owner # t /\ t \notin readers /\ Locked(t) = {}
  BY DEF NothingLeftHeld
<1>1. TypeOK /\ ThreadOk(t) /\ Holds(t) = held[t]
  BY DEF IInv, Holds, Suspended
<1>2. held[t] = 0
  BY <1>1, CoveredFinite DEF ThreadOk, HoldsOf, TypeOK
<1>3. owner # t /\ t \notin readers
  BY <1>1, <1>2 DEF ThreadOk, LockOf
<1> QED
  BY <1>1, <1>2, <1>3, RestingHeaps

LEMMA AloneInRecords == IInv => RecordsAlone
<1> SUFFICES ASSUME IInv, NEW t \in Threads, NEW u \in Threads, t # u, Inside(t), Inside(u)
             PROVE  Writes(t) \cap (Writes(u) \cup Reads(u)) = {}
  BY DEF RecordsAlone
<1>1. TypeOK /\ (\A v \in Threads : ThreadOk(v)) /\ ReadersAlone /\ at[t] = "inside" /\ at[u] = "inside"
  BY DEF IInv, Inside
<1>2. multi
  BY <1>1 DEF ThreadOk, GoalOf
\* An entry that is neither local nor shared has the exclusive hold.
<1>3. ASSUME NEW v \in {t, u}
      PROVE  \/ Top(v, {"local"}) /\ (owner \notin {Nobody, v} => Locked(v) = {})
             \/ Top(v, {"read", "free"}) /\ (owner \notin {Nobody, v} => FALSE)
             \/ owner = v /\ ~Top(v, {"local"}) /\ ~Top(v, {"read", "free"})
  <2>1. stack[v] # <<>> /\ ~Top(v, Destructors) /\ ~Suspended(v) /\ stack[v] \in Seq(Tags)
    BY <1>1 DEF ThreadOk, StackOf, Suspended, TypeOK
  <2>2. CASE Top(v, {"local"})
    BY <1>1, <2>2 DEF ThreadOk, HeapsOf, Apart
  <2>3. CASE Top(v, {"read"})
    <3>1. v \in readers
      BY <1>1, <2>3 DEF ThreadOk, LockOf
    <3>2. writer = Nobody
      BY <1>1, <3>1 DEF ReadersAlone
    <3>3. owner = Nobody
      BY <1>1, <3>2, Sorts DEF ThreadOk, LockOf, TypeOK
    <3> QED
      BY <2>3, <3>3 DEF Top
  <2>4. CASE Top(v, {"free"})
    <3>1. owner = v
      BY <1>1, <1>2, <2>4 DEF ThreadOk, StackOf
    <3> QED
      BY <2>4, <3>1 DEF Top
  <2>5. CASE ~Top(v, {"local"}) /\ ~Top(v, {"read"}) /\ ~Top(v, {"free"})
    <3>1. Top(v, {"solo", "excl", "nested", "unwind"})
      <4>1. stack[v][Len(stack[v])] \in Tags
        BY <2>1
      <4> QED
        BY <2>1, <2>5, <4>1 DEF Top, Tags, Destructors
    <3>2. owner = v
      BY <1>1, <1>2, <2>1, <3>1, EntryOwns DEF ThreadOk
    <3> QED
      BY <2>5, <3>2 DEF Top
  <2> QED
    BY <2>2, <2>3, <2>4, <2>5
<1>4. Locked(t) \cap Locked(u) = {} /\ Tables \notin Heaps /\ Locked(t) \subseteq Heaps /\ Nobody \notin Threads
  BY Sorts DEF Locked, Tables
<1>5. CASE Top(t, {"local"})
  <2>1. Writes(t) = Locked(t)
    BY <1>5 DEF Writes
  <2>2. CASE Top(u, {"local"})
    BY <1>4, <2>1, <2>2 DEF Writes, Reads
  <2>3. CASE Top(u, {"read", "free"})
    <3>1. Writes(u) = {} /\ Reads(u) \subseteq {Tables}
      BY <2>3 DEF Writes, Reads, Top
    <3> QED
      BY <1>4, <2>1, <3>1
  <2>4. CASE owner = u
    BY <1>3, <1>4, <1>5, <2>1, <2>4 DEF Top
  <2> QED
    BY <1>3, <2>2, <2>3, <2>4
<1>6. CASE Top(t, {"read", "free"})
  BY <1>6 DEF Writes, Top
<1>7. CASE owner = t /\ ~Top(t, {"local"}) /\ ~Top(t, {"read", "free"})
  <2>1. Top(u, {"local"}) /\ Locked(u) = {}
    BY <1>3, <1>4, <1>7
  <2> QED
    BY <2>1 DEF Writes, Reads
<1> QED
  BY <1>3, <1>5, <1>6, <1>7

\* The heap a thread waits for is above each that it has, so a cycle would have
\* no highest.
LEMMA NoCycle == IInv => NoLockCycle
<1> SUFFICES ASSUME IInv, NEW ts \in SUBSET Threads, ts # {}, \A t \in ts : WaitsFor(t) \cap ts # {}
             PROVE  FALSE
  BY DEF NoLockCycle
<1> DEFINE left(t) == (IF at[t] = "heaps" THEN Existing ELSE want[t]) \ Locked(t)
           next(t) == Lowest(left(t))
           waiting == {t \in ts : at[t] \in {"heaps", "local"}}
<1>1. TypeOK /\ \A t \in Threads : ThreadOk(t)
  BY DEF IInv
<1>2. ASSUME NEW t \in ts PROVE at[t] \in {"lock", "heaps", "local"}
  BY DEF WaitsFor
<1>3. ASSUME NEW t \in ts, at[t] = "lock" PROVE \E u \in ts : at[u] = "heaps"
  <2>1. PICK u \in ts : u \in readers \cup {writer}
    BY <1>3 DEF WaitsFor
  <2>2. at[u] \in {"lock", "heaps", "local"} /\ ThreadOk(u)
    BY <1>1, <1>2
  <2> QED
    BY <2>1, <2>2 DEF ThreadOk, LockOf
<1>4. waiting # {}
  BY <1>2, <1>3
<1>5. ASSUME NEW t \in waiting
      PROVE  /\ next(t) \in Heaps /\ next(t) \in Nat
             /\ \A g \in Locked(t) : g < next(t)
             /\ heapLock[next(t)] \in waiting
  <2>1. at[t] \in {"heaps", "local"} /\ ThreadOk(t) /\ t \in ts
    BY <1>1
  <2>2. left(t) \subseteq Heaps /\ left(t) \subseteq Nat /\ left(t) # {} /\ (\A h \in left(t), g \in Locked(t) : g < h)
    BY <1>1, <2>1, Sorts DEF ThreadOk, HeapsOf, TypeOK
  <2> HIDE DEF left
  <2>3. next(t) \in left(t)
    BY <2>2, LowestIs
  <2>4. WaitsFor(t) = {heapLock[next(t)]} \ {Nobody}
    BY <2>1 DEF WaitsFor, left
  <2>5. heapLock[next(t)] \in ts
    BY <2>1, <2>4
  <2> DEFINE u == heapLock[next(t)]
  <2>6. next(t) \in Locked(u)
    BY <2>2, <2>3 DEF Locked
  <2>7. ThreadOk(u) /\ at[u] \in {"lock", "heaps", "local"}
    BY <1>1, <1>2, <2>5
  <2>8. at[u] # "lock"
    BY <2>6, <2>7 DEF ThreadOk, LockOf, HeapsOf
  <2> QED
    BY <2>2, <2>3, <2>5, <2>7, <2>8
<1>6. ASSUME NEW t \in waiting PROVE \E u \in waiting : next(t) < next(u)
  <2>1. next(t) \in Locked(heapLock[next(t)])
    BY <1>5 DEF Locked
  <2> QED
    BY <1>5, <2>1
<1> HIDE DEF next, waiting
<1> DEFINE below == {MaxHeaps - next(t) : t \in waiting}
<1>7. below \in SUBSET Nat /\ below # {}
  <2>1. \A t \in waiting : MaxHeaps - next(t) \in Nat
    BY <1>5, SizesAssumption DEF Heaps
  <2> QED
    BY <1>4, <2>1
<1>8. PICK t \in waiting : \A u \in waiting : MaxHeaps - next(t) <= MaxHeaps - next(u)
  <2>1. Lowest(below) \in below /\ \A g \in below : Lowest(below) <= g
    BY <1>7, LowestIs
  <2> QED
    BY <2>1
<1> QED
  BY <1>5, <1>6, <1>8, SizesAssumption

\* Every variable keeps its type.
THEOREM TypeCorrect == Spec => []TypeOK
<1>1. Inv => TypeOK
  BY DEF Inv, IInv
<1> QED
  BY <1>1, Invariant, PTL

\* Nobody works on what another thread changes (enter, enter_on, go_multi, go_solo).
THEOREM RecordsAloneHolds == Spec => []RecordsAlone
<1>1. Inv => RecordsAlone
  BY AloneInRecords DEF Inv
<1> QED
  BY <1>1, Invariant, PTL

\* Each entry that will give a hold back has one (go_multi's count, lock_release).
THEOREM HoldsCoverEntriesHolds == Spec => []HoldsCoverEntries
<1>1. Inv => HoldsCoverEntries
  BY HoldsCover DEF Inv
<1> QED
  BY <1>1, Invariant, PTL

\* A spawned thread in its own code holds nothing (the entries' Drop, contained_fault).
THEOREM NothingLeftHeldHolds == Spec => []NothingLeftHeld
<1>1. Inv => NothingLeftHeld
  BY NothingLeft DEF Inv
<1> QED
  BY <1>1, Invariant, PTL

\* No threads wait for each other's locks in a cycle (lock_acquire, lock_set).
THEOREM NoLockCycleHolds == Spec => []NoLockCycle
<1>1. Inv => NoLockCycle
  BY NoCycle DEF Inv
<1> QED
  BY <1>1, Invariant, PTL

\* With no spawned thread left, the main thread is told to switch locking off
\* (run_job, go_solo).
THEOREM SoloIsPendingHolds == Spec => []SoloIsPending
<1>1. Inv => SoloIsPending
  BY DEF Inv, IInv
<1> QED
  BY <1>1, Invariant, PTL
=============================================================================

