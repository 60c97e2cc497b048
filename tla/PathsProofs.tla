----------------------------- MODULE PathsProofs -----------------------------
(***************************************************************************)
(* Proofs about Paths, for any number of threads, paths, frames and           *)
(* statements, and whatever threads fault: a path's count of holders is right  *)
(* but for what a fault made the runtime forget, no other path is left over,   *)
(* none ends while it is held, and no two threads have one exclusive path.     *)
(***************************************************************************)
EXTENDS Paths, FiniteSetTheorems, WellFoundedInduction, TLAPS

Rec == [exclusive : BOOLEAN, ancestors : SUBSET Tokens, occ : Nat,
        scope : Nat, thread : Threads \cup {Transit}]
Table(P) == DOMAIN P \subseteq Tokens /\ \A p \in DOMAIN P : P[p] \in Rec

Item == [kind : {"frame", "scope"}, toks : Bag]
Stacks == [Threads -> Seq(Item)]

\* TypeOK in two parts: what the steps work on, and what only faults and lending do.
CoreOK ==
    /\ Table(paths) /\ stack \in Stacks
    /\ slots \in [Cells -> Tokens \cup {NoTok}]
    /\ flight \in [Threads -> Tokens \cup {NoTok}]
    /\ reg \in [Threads -> Tokens \cup {NoTok}]
    /\ at \in [Threads -> Places]
SideOK == lent \in SUBSET Threads /\ lost \in Bag /\ cut \in SUBSET Tokens

-----------------------------------------------------------------------------
(* What the operators on the table do.                                       *)

LEMMA HeldIs ==
    ASSUME NEW P, Table(P), NEW p
    PROVE  /\ Table(Held(P, p)) /\ DOMAIN Held(P, p) = DOMAIN P
           /\ \A q \in DOMAIN P :
                 /\ Held(P, p)[q].exclusive = P[q].exclusive
                 /\ Held(P, p)[q].scope = P[q].scope
                 /\ Held(P, p)[q].occ = P[q].occ + (IF q = p THEN 1 ELSE 0)
<1>1. CASE p \notin DOMAIN P
  BY <1>1 DEF Held, Table, Rec
<1>2. CASE p \in DOMAIN P
  BY <1>2 DEF Held, Table, Rec
<1> QED
  BY <1>1, <1>2

LEMMA LetGoIs ==
    ASSUME NEW P, Table(P), NEW p, p \in DOMAIN P => P[p].occ > 0
    PROVE  /\ Table(LetGo(P, p)) /\ DOMAIN LetGo(P, p) = DOMAIN P
           /\ \A q \in DOMAIN P :
                 /\ LetGo(P, p)[q].exclusive = P[q].exclusive
                 /\ LetGo(P, p)[q].scope = P[q].scope
                 /\ LetGo(P, p)[q].occ = P[q].occ - (IF q = p THEN 1 ELSE 0)
<1>1. CASE p \notin DOMAIN P
  BY <1>1 DEF LetGo, Table, Rec
<1>2. CASE p \in DOMAIN P
  BY <1>2 DEF LetGo, Table, Rec
<1> QED
  BY <1>1, <1>2

LEMMA ScopedIs ==
    ASSUME NEW P, Table(P), NEW p, NEW i \in Nat
    PROVE  /\ Table(Scoped(P, p, i)) /\ DOMAIN Scoped(P, p, i) = DOMAIN P
           /\ \A q \in DOMAIN P :
                 /\ Scoped(P, p, i)[q].exclusive = P[q].exclusive
                 /\ Scoped(P, p, i)[q].scope = (IF q = p THEN i ELSE P[q].scope)
                 /\ Scoped(P, p, i)[q].occ = P[q].occ
<1>1. CASE p \notin DOMAIN P
  BY <1>1 DEF Scoped, Table, Rec
<1>2. CASE p \in DOMAIN P
  BY <1>2 DEF Scoped, Table, Rec
<1> QED
  BY <1>1, <1>2

\* A hold let go of: the path ends with its last one, unless a statement lists it.
LEMMA DropIs ==
    ASSUME NEW P, Table(P), NEW p, p \in DOMAIN P => P[p].occ > 0
    PROVE  /\ Table(drop_occ(P, p)) /\ DOMAIN drop_occ(P, p) \subseteq DOMAIN P
           /\ \A q \in DOMAIN drop_occ(P, p) :
                 /\ drop_occ(P, p)[q].exclusive = P[q].exclusive
                 /\ drop_occ(P, p)[q].scope = P[q].scope
                 /\ drop_occ(P, p)[q].occ = P[q].occ - (IF q = p THEN 1 ELSE 0)
                 /\ q = p => drop_occ(P, p)[q].occ > 0 \/ P[q].scope # None
           /\ \A q \in DOMAIN P \ DOMAIN drop_occ(P, p) :
                 q = p /\ P[q].occ = 1 /\ P[q].scope = None
<1>1. CASE p \notin DOMAIN P
  <2>1. drop_occ(P, p) = P
    BY <1>1 DEF drop_occ
  <2>2. \A q \in DOMAIN P : q # p /\ P[q].occ \in Nat
    BY <1>1 DEF Table, Rec
  <2> QED
    BY <2>1, <2>2
<1>2. CASE p \in DOMAIN P
  <2> DEFINE Q == LetGo(P, p)
  <2>1. /\ Table(Q) /\ DOMAIN Q = DOMAIN P
        /\ \A q \in DOMAIN P :
              /\ Q[q].exclusive = P[q].exclusive /\ Q[q].scope = P[q].scope
              /\ Q[q].occ = P[q].occ - (IF q = p THEN 1 ELSE 0)
    BY <1>2, LetGoIs
  <2>2. drop_occ(P, p) = IF Q[p].occ = 0 /\ Q[p].scope = None THEN retire_token(Q, p) ELSE Q
    BY <1>2 DEF drop_occ
  <2>3. P[p].occ \in Nat /\ Q[p].occ \in Nat
    BY <1>2, <2>1 DEF Table, Rec
  <2> HIDE DEF Q
  <2>4. CASE Q[p].occ = 0 /\ Q[p].scope = None
    <3>1. /\ DOMAIN retire_token(Q, p) = DOMAIN P \ {p}
          /\ \A q \in DOMAIN P \ {p} : retire_token(Q, p)[q] = Q[q]
      BY <2>1 DEF retire_token
    <3> QED
      BY <1>2, <2>1, <2>2, <2>3, <2>4, <3>1 DEF Table
  <2>5. CASE ~(Q[p].occ = 0 /\ Q[p].scope = None)
    BY <1>2, <2>1, <2>2, <2>3, <2>5
  <2> QED
    BY <2>4, <2>5
<1> QED
  BY <1>1, <1>2

LEMMA StoreIs ==
    ASSUME NEW P, Table(P), NEW old, NEW p, old \in DOMAIN P => P[old].occ > 0
    PROVE  LET Q == store_ref(P, old, p) IN
           /\ Table(Q) /\ DOMAIN Q \subseteq DOMAIN P
           /\ \A q \in DOMAIN Q :
                 /\ Q[q].exclusive = P[q].exclusive /\ Q[q].scope = P[q].scope
                 /\ Q[q].occ = P[q].occ + (IF q = p THEN 1 ELSE 0) - (IF q = old THEN 1 ELSE 0)
                 /\ q = old /\ q # p => Q[q].occ > 0 \/ P[q].scope # None
           /\ \A q \in DOMAIN P \ DOMAIN Q :
                 q = old /\ q # p /\ P[q].occ = 1 /\ P[q].scope = None
<1> DEFINE Q == store_ref(P, old, p)
           D == drop_occ(P, old)
<1>1. CASE old = p
  <2>1. Q = P
    BY <1>1 DEF store_ref
  <2>2. \A q \in DOMAIN P : P[q].occ \in Nat
    BY DEF Table, Rec
  <2> HIDE DEF Q
  <2>3. \A q \in DOMAIN P : P[q].occ = P[q].occ + (IF q = p THEN 1 ELSE 0) - (IF q = old THEN 1 ELSE 0)
    BY <1>1, <2>2
  <2> QED
    BY <1>1, <2>1, <2>3 DEF Q
<1>2. CASE old # p
  <2>1. /\ Table(D) /\ DOMAIN D \subseteq DOMAIN P
        /\ \A q \in DOMAIN D :
              /\ D[q].exclusive = P[q].exclusive /\ D[q].scope = P[q].scope
              /\ D[q].occ = P[q].occ - (IF q = old THEN 1 ELSE 0)
              /\ q = old => D[q].occ > 0 \/ P[q].scope # None
        /\ \A q \in DOMAIN P \ DOMAIN D : q = old /\ P[q].occ = 1 /\ P[q].scope = None
    BY DropIs
  <2> HIDE DEF D
  <2>2. Q = Held(D, p)
    BY <1>2 DEF store_ref, D
  <2>3. /\ Table(Held(D, p)) /\ DOMAIN Held(D, p) = DOMAIN D
        /\ \A q \in DOMAIN D :
              /\ Held(D, p)[q].exclusive = D[q].exclusive /\ Held(D, p)[q].scope = D[q].scope
              /\ Held(D, p)[q].occ = D[q].occ + (IF q = p THEN 1 ELSE 0)
    BY <2>1, HeldIs
  <2>4. \A q \in DOMAIN P : P[q].occ \in Nat
    BY DEF Table, Rec
  <2> HIDE DEF Q
  <2> QED
    BY <1>2, <2>1, <2>2, <2>3, <2>4 DEF Q
<1> QED
  BY <1>1, <1>2

\* A frame's holds let go of.
LEMMA DropHoldsIs ==
    ASSUME NEW P, Table(P), NEW b \in Bag, \A q \in DOMAIN P : P[q].occ >= b[q]
    PROVE  LET Q == DropHolds(P, b) IN
           /\ Table(Q) /\ DOMAIN Q \subseteq DOMAIN P
           /\ \A q \in DOMAIN Q :
                 /\ Q[q].exclusive = P[q].exclusive /\ Q[q].scope = P[q].scope
                 /\ Q[q].occ = P[q].occ - b[q]
                 /\ b[q] > 0 => Q[q].occ > 0 \/ P[q].scope # None
           /\ \A q \in DOMAIN P \ DOMAIN Q : P[q].occ = b[q] /\ P[q].scope = None
<1> DEFINE R == [p \in DOMAIN P |-> [P[p] EXCEPT !.occ = IF @ < b[p] THEN 0 ELSE @ - b[p]]]
           Q == DropHolds(P, b)
<1>1. ASSUME NEW q \in DOMAIN P
      PROVE  /\ R[q] \in Rec /\ R[q].exclusive = P[q].exclusive /\ R[q].scope = P[q].scope
             /\ R[q].occ = P[q].occ - b[q] /\ R[q].occ \in Nat /\ b[q] \in Nat /\ P[q].occ \in Nat
  <2>1. q \in Tokens /\ b[q] \in Nat /\ P[q] \in Rec
    BY DEF Table, Bag
  <2>2. R[q] = [P[q] EXCEPT !.occ = P[q].occ - b[q]]
    BY <2>1 DEF Rec
  <2>3. P[q].occ - b[q] \in Nat
    BY <2>1 DEF Rec
  <2> HIDE DEF R
  <2> QED
    BY <2>1, <2>2, <2>3 DEF Rec
<1>2. /\ DOMAIN Q = {q \in DOMAIN P : b[q] = 0 \/ R[q].occ > 0 \/ R[q].scope # None}
      /\ \A q \in DOMAIN Q : Q[q] = R[q]
  BY DEF DropHolds
<1> HIDE DEF Q, R
<1>3. Table(Q)
  BY <1>1, <1>2 DEF Table
<1>4. DOMAIN Q \subseteq DOMAIN P
  BY <1>2
<1>5. ASSUME NEW q \in DOMAIN Q
      PROVE  /\ Q[q].exclusive = P[q].exclusive /\ Q[q].scope = P[q].scope
             /\ Q[q].occ = P[q].occ - b[q]
             /\ b[q] > 0 => Q[q].occ > 0 \/ P[q].scope # None
  BY <1>1, <1>2, <1>5
<1>6. ASSUME NEW q \in DOMAIN P \ DOMAIN Q PROVE P[q].occ = b[q] /\ P[q].scope = None
  <2>1. ~(R[q].occ > 0) /\ R[q].scope = None
    BY <1>2
  <2>2. /\ R[q].scope = P[q].scope /\ R[q].occ = P[q].occ - b[q]
        /\ R[q].occ \in Nat /\ b[q] \in Nat /\ P[q].occ \in Nat
    BY <1>1
  <2> QED
    BY <2>1, <2>2
<1> QED
  BY <1>3, <1>4, <1>5, <1>6 DEF Q

\* A statement's list, ended: what nothing holds ends, the rest is in no statement.
LEMMA EndScopeIs ==
    ASSUME NEW P, Table(P), NEW b \in Bag
    PROVE  LET Q == end_scope(P, b) IN
           /\ Table(Q) /\ DOMAIN Q \subseteq DOMAIN P
           /\ \A q \in DOMAIN Q :
                 /\ Q[q].exclusive = P[q].exclusive /\ Q[q].occ = P[q].occ
                 /\ Q[q].scope = (IF b[q] > 0 THEN None ELSE P[q].scope)
                 /\ b[q] > 0 => Q[q].occ > 0
           /\ \A q \in DOMAIN P \ DOMAIN Q : b[q] > 0 /\ P[q].occ = 0
<1> DEFINE Q == end_scope(P, b)
<1>1. /\ DOMAIN Q = {q \in DOMAIN P : b[q] = 0 \/ P[q].occ > 0}
      /\ \A q \in DOMAIN Q : Q[q] = IF b[q] > 0 THEN [P[q] EXCEPT !.scope = None] ELSE P[q]
  BY DEF end_scope
<1>2. \A q \in DOMAIN P : q \in Tokens /\ b[q] \in Nat /\ P[q] \in Rec /\ P[q].occ \in Nat
  BY DEF Table, Bag, Rec
<1> HIDE DEF Q
<1>3. ASSUME NEW q \in DOMAIN Q
      PROVE  /\ Q[q] \in Rec /\ Q[q].exclusive = P[q].exclusive /\ Q[q].occ = P[q].occ
             /\ Q[q].scope = (IF b[q] > 0 THEN None ELSE P[q].scope)
  <2>1. q \in DOMAIN P /\ P[q] \in Rec
    BY <1>1, <1>2
  <2>2. CASE b[q] > 0
    <3>1. Q[q] = [P[q] EXCEPT !.scope = None]
      BY <1>1, <2>2
    <3> QED
      BY <2>1, <2>2, <3>1 DEF Rec, None
  <2>3. CASE ~(b[q] > 0)
    <3>1. Q[q] = P[q]
      BY <1>1, <2>3
    <3> QED
      BY <2>1, <2>3, <3>1
  <2> QED
    BY <2>2, <2>3
<1>4. Table(Q) /\ DOMAIN Q \subseteq DOMAIN P
  BY <1>1, <1>2, <1>3 DEF Table
<1>5. \A q \in DOMAIN Q : b[q] > 0 => Q[q].occ > 0
  BY <1>1, <1>2, <1>3
<1>6. \A q \in DOMAIN P \ DOMAIN Q : b[q] > 0 /\ P[q].occ = 0
  BY <1>1, <1>2
<1> QED
  BY <1>3, <1>4, <1>5, <1>6 DEF Q

LEMMA MintedIs ==
    ASSUME NEW P, Table(P), NEW p \in Tokens \ DOMAIN P, NEW b, Chain(b) \subseteq Tokens,
           NEW ex \in BOOLEAN, NEW i \in Nat, NEW t \in Threads \cup {Transit}
    PROVE  LET Q == Minted(P, p, b, ex, i, t) IN
           /\ Table(Q) /\ DOMAIN Q = DOMAIN P \cup {p}
           /\ \A q \in DOMAIN P :
                 Q[q].exclusive = P[q].exclusive /\ Q[q].occ = P[q].occ /\ Q[q].scope = P[q].scope
           /\ Q[p].exclusive = ex /\ Q[p].occ = 0 /\ Q[p].scope = i
<1> DEFINE Q == Minted(P, p, b, ex, i, t)
           c == Chain(b)
           r == [exclusive |-> ex, ancestors |-> c, occ |-> 0, scope |-> i, thread |-> t]
<1>1. DOMAIN Q = DOMAIN P \cup {p} /\ Q[p] = r /\ \A q \in DOMAIN P : Q[q] = P[q]
  BY DEF Minted
<1> HIDE DEF c
<1>2. r \in Rec /\ r.exclusive = ex /\ r.occ = 0 /\ r.scope = i
  BY DEF c, Rec
<1> HIDE DEF Q, r
<1>3. Table(Q)
  BY <1>1, <1>2 DEF Table
<1> QED
  BY <1>1, <1>2, <1>3 DEF Q

LEMMA TakenOverIs ==
    ASSUME NEW P, Table(P), NEW t \in Threads, NEW b
    PROVE  LET Q == TakenOver(P, t, b) IN
           /\ Table(Q) /\ DOMAIN Q = DOMAIN P
           /\ \A q \in DOMAIN P :
                 Q[q].exclusive = P[q].exclusive /\ Q[q].occ = P[q].occ /\ Q[q].scope = P[q].scope
<1> DEFINE Q == TakenOver(P, t, b)
<1>1. Q = P \/ Q = [P EXCEPT ![b].thread = t]
  BY DEF TakenOver
<1> HIDE DEF Q
<1>2. CASE Q = P
  BY <1>2 DEF Q
<1>3. CASE Q = [P EXCEPT ![b].thread = t]
  <2>1. Table(Q) /\ DOMAIN Q = DOMAIN P
    BY <1>3 DEF Table, Rec
  <2>2. \A q \in DOMAIN P :
           Q[q].exclusive = P[q].exclusive /\ Q[q].occ = P[q].occ /\ Q[q].scope = P[q].scope
    BY <1>3 DEF Table, Rec
  <2> QED
    BY <2>1, <2>2 DEF Q
<1> QED
  BY <1>1, <1>2, <1>3

-----------------------------------------------------------------------------
(* Stacks.                                                                   *)

LEMMA LeastOf ==
    ASSUME NEW S \in SUBSET Nat, S # {} PROVE \E x \in S : \A y \in S : x <= y
<1>1. PICK x \in S : \A y \in S : ~(<<y, x>> \in OpToRel(<, Nat))
  BY WFMin, NatLessThanWellFounded
<1>2. ASSUME NEW y \in S, y < x PROVE FALSE
  <2>1. <<y, x>> \in Nat \X Nat /\ <<y, x>>[1] = y /\ <<y, x>>[2] = x
    OBVIOUS
  <2>2. <<y, x>> \in OpToRel(<, Nat)
    BY <1>2, <2>1 DEF OpToRel
  <2> QED
    BY <1>1, <2>2
<1> QED
  BY <1>2

LEMMA GreatestOf ==
    ASSUME NEW n \in Nat, NEW S \in SUBSET (1..n), S # {}
    PROVE  \E x \in S : \A y \in S : y <= x
<1> DEFINE T == {m \in 0..n : \E s \in S : m = n - s}
<1>1. \A s \in S : s \in Nat /\ s <= n /\ n - s \in T
  OBVIOUS
<1>2. T \in SUBSET Nat /\ T # {}
  <2>1. PICK s \in S : TRUE
    OBVIOUS
  <2>2. n - s \in T
    BY <1>1
  <2>3. T \in SUBSET Nat
    OBVIOUS
  <2> QED
    BY <2>2, <2>3
<1> HIDE DEF T
<1>3. PICK m \in T : \A k \in T : m <= k
  BY <1>2, LeastOf
<1>4. PICK x \in S : m = n - x
  BY <1>3 DEF T
<1>5. \A y \in S : n - x <= n - y
  BY <1>1, <1>3, <1>4
<1> QED
  BY <1>1, <1>4, <1>5

LEMMA HighestIs ==
    ASSUME NEW n \in Nat, NEW S \in SUBSET (1..n)
    PROVE  /\ Highest(S) \in 0..n
           /\ S = {} => Highest(S) = None
           /\ S # {} => Highest(S) \in S /\ \A j \in S : j <= Highest(S)
<1>1. CASE S = {}
  <2>1. Highest(S) = None
    BY <1>1, Zenon DEF Highest
  <2> QED
    BY <1>1, <2>1 DEF None
<1>2. CASE S # {}
  <2>1. \E x \in S : \A y \in S : y <= x
    BY <1>2, GreatestOf
  <2>2. Highest(S) = CHOOSE i \in S : \A j \in S : j <= i
    BY <1>2, Zenon DEF Highest
  <2>3. Highest(S) \in S /\ \A j \in S : j <= Highest(S)
    BY <2>1, <2>2, Zenon
  <2>4. \A h \in S : h \in 0..n
    OBVIOUS
  <2> QED
    BY <1>2, <2>3, <2>4, Zenon
<1> QED
  BY <1>1, <1>2

Kinds == {"frame", "scope"}

\* How often the entry at `i`, if it is of that kind, holds or lists a path.
Tok(S, kind, u, i, q) ==
    IF i \in 1..Len(S[u]) /\ S[u][i].kind = kind THEN S[u][i].toks[q] ELSE 0

\* One entry's count of one path, changed.
SetTok(S, t, i, p, n) == [S EXCEPT ![t][i].toks[p] = n]

\* `R` is `S` but for that count.
SetsTok(S, R, t, i, p, n) ==
    /\ R \in Stacks
    /\ \A u \in Threads : Len(R[u]) = Len(S[u]) /\ (u # t => R[u] = S[u])
    /\ \A u \in Threads : \A j \in 1..Len(S[u]) : R[u][j].kind = S[u][j].kind
    /\ \A k \in Kinds, u \in Threads, j \in Nat, q \in Tokens :
          Tok(R, k, u, j, q) =
             IF k = S[t][i].kind /\ u = t /\ j = i /\ q = p THEN n ELSE Tok(S, k, u, j, q)

LEMMA SetTokIs ==
    ASSUME NEW S \in Stacks, NEW t \in Threads, NEW i \in 1..Len(S[t]), NEW p \in Tokens, NEW n \in Nat
    PROVE  SetsTok(S, SetTok(S, t, i, p, n), t, i, p, n)
<1> DEFINE R == SetTok(S, t, i, p, n)
           e == [S[t][i] EXCEPT !.toks[p] = n]
           s == [S[t] EXCEPT ![i] = e]
<1>1. S[t] \in Seq(Item) /\ S[t][i] \in Item
  BY DEF Stacks
<1>2. /\ e \in Item /\ e.kind = S[t][i].kind
      /\ \A q \in Tokens : e.toks[q] = IF q = p THEN n ELSE S[t][i].toks[q]
  BY <1>1 DEF Item, Bag
<1> HIDE DEF e
<1>3. /\ s \in Seq(Item) /\ Len(s) = Len(S[t]) /\ s[i] = e
      /\ \A j \in 1..Len(S[t]) : j # i => s[j] = S[t][j]
  BY <1>1, <1>2
<1> HIDE DEF s
<1>4. R = [S EXCEPT ![t] = s]
  BY DEF SetTok, s, e
<1> HIDE DEF R
<1>5. R \in Stacks /\ R[t] = s /\ \A u \in Threads : u # t => R[u] = S[u]
  BY <1>3, <1>4 DEF Stacks
<1>6. \A u \in Threads : Len(R[u]) = Len(S[u])
  BY <1>3, <1>5
<1>7. ASSUME NEW u \in Threads, NEW j \in 1..Len(S[u])
      PROVE  /\ R[u][j].kind = S[u][j].kind
             /\ \A q \in Tokens :
                   R[u][j].toks[q] = IF u = t /\ j = i /\ q = p THEN n ELSE S[u][j].toks[q]
  <2>1. CASE u = t /\ j = i
    BY <1>2, <1>3, <1>5, <2>1
  <2>2. CASE u = t /\ j # i
    BY <1>3, <1>5, <2>2
  <2>3. CASE u # t
    BY <1>5, <2>3
  <2> QED
    BY <2>1, <2>2, <2>3
<1>8. ASSUME NEW k \in Kinds, NEW u \in Threads, NEW j \in Nat, NEW q \in Tokens
      PROVE  Tok(R, k, u, j, q) =
                IF k = S[t][i].kind /\ u = t /\ j = i /\ q = p THEN n ELSE Tok(S, k, u, j, q)
  <2>1. CASE j \in 1..Len(S[u])
    <3>1. /\ R[u][j].kind = S[u][j].kind /\ j \in 1..Len(R[u])
          /\ R[u][j].toks[q] = IF u = t /\ j = i /\ q = p THEN n ELSE S[u][j].toks[q]
      BY <1>6, <1>7, <2>1
    <3> QED
      BY <2>1, <3>1 DEF Tok
  <2>2. CASE j \notin 1..Len(S[u])
    <3>1. j \notin 1..Len(R[u]) /\ ~(u = t /\ j = i)
      BY <1>6, <2>2
    <3> QED
      BY <2>2, <3>1 DEF Tok
  <2> QED
    BY <2>1, <2>2
<1> QED
  BY <1>5, <1>6, <1>7, <1>8 DEF R, SetsTok

LEMMA TokIsNat ==
    ASSUME NEW S \in Stacks, NEW k \in Kinds, NEW u \in Threads, NEW i \in Nat, NEW q \in Tokens
    PROVE  Tok(S, k, u, i, q) \in Nat
<1>1. CASE i \in 1..Len(S[u]) /\ S[u][i].kind = k
  <2>1. S[u][i] \in Item
    BY <1>1 DEF Stacks
  <2> QED
    BY <1>1, <2>1 DEF Tok, Item, Bag
<1>2. CASE ~(i \in 1..Len(S[u]) /\ S[u][i].kind = k)
  BY <1>2 DEF Tok
<1> QED
  BY <1>1, <1>2

\* `R` is `S` but for a new top entry on one thread's, which holds and lists nothing.
Pushes(S, R, t, kind) ==
    /\ R \in Stacks /\ Len(R[t]) = Len(S[t]) + 1 /\ R[t][Len(S[t]) + 1].kind = kind
    /\ \A j \in 1..Len(S[t]) : R[t][j] = S[t][j]
    /\ \A u \in Threads : u # t => R[u] = S[u]
    /\ \A k \in Kinds, u \in Threads, j \in Nat, q \in Tokens : Tok(R, k, u, j, q) = Tok(S, k, u, j, q)

LEMMA PushIs ==
    ASSUME NEW S \in Stacks, NEW t \in Threads, NEW kind \in Kinds
    PROVE  Pushes(S, [S EXCEPT ![t] = Append(@, Entry(kind))], t, kind)
<1> DEFINE e == Entry(kind)
           s == Append(S[t], e)
           R == [S EXCEPT ![t] = s]
<1>1. S[t] \in Seq(Item) /\ Len(S[t]) \in Nat
  BY DEF Stacks
<1>2. e \in Item /\ e.kind = kind /\ \A q \in Tokens : e.toks[q] = 0
  BY DEF Entry, NoToks, Item, Bag, Kinds
<1> HIDE DEF e
<1>3. /\ s \in Seq(Item) /\ Len(s) = Len(S[t]) + 1 /\ s[Len(S[t]) + 1] = e
      /\ \A j \in 1..Len(S[t]) : s[j] = S[t][j]
  BY <1>1, <1>2
<1> HIDE DEF s
<1>4. R \in Stacks /\ R[t] = s /\ \A u \in Threads : u # t => R[u] = S[u]
  BY <1>3 DEF Stacks
<1> HIDE DEF R
<1>5. ASSUME NEW k \in Kinds, NEW u \in Threads, NEW j \in Nat, NEW q \in Tokens
      PROVE  Tok(R, k, u, j, q) = Tok(S, k, u, j, q)
  <2>1. CASE u # t
    BY <1>4, <2>1 DEF Tok
  <2>2. CASE u = t /\ j = Len(S[t]) + 1
    <3>1. R[u][j] = e /\ j \notin 1..Len(S[u])
      BY <1>1, <1>3, <1>4, <2>2
    <3> QED
      BY <1>2, <3>1 DEF Tok
  <2>3. CASE u = t /\ j # Len(S[t]) + 1
    <3>1. j \in 1..Len(R[u]) <=> j \in 1..Len(S[u])
      BY <1>1, <1>3, <1>4, <2>3
    <3>2. j \in 1..Len(S[u]) => R[u][j] = S[u][j]
      BY <1>3, <1>4, <2>3
    <3> QED
      BY <3>1, <3>2 DEF Tok
  <2> QED
    BY <2>1, <2>2, <2>3
<1>6. /\ Len(R[t]) = Len(S[t]) + 1 /\ R[t][Len(S[t]) + 1].kind = kind
      /\ \A j \in 1..Len(S[t]) : R[t][j] = S[t][j]
  BY <1>2, <1>3, <1>4
<1> QED
  BY <1>4, <1>5, <1>6 DEF Pushes, R, s, e

\* `R` is `S` but for the top entry of one thread's.
Pops(S, R, t) ==
    /\ R \in Stacks /\ Len(R[t]) = Len(S[t]) - 1
    /\ \A j \in 1..(Len(S[t]) - 1) : R[t][j] = S[t][j]
    /\ \A u \in Threads : u # t => R[u] = S[u]
    /\ \A k \in Kinds, u \in Threads, j \in Nat, q \in Tokens :
          Tok(R, k, u, j, q) = IF u = t /\ j = Len(S[t]) THEN 0 ELSE Tok(S, k, u, j, q)

LEMMA PopIs ==
    ASSUME NEW S \in Stacks, NEW t \in Threads, S[t] # <<>>
    PROVE  Pops(S, [S EXCEPT ![t] = Popped(@)], t)
<1> DEFINE s == Popped(S[t])
           R == [S EXCEPT ![t] = s]
<1>1. S[t] \in Seq(Item) /\ Len(S[t]) \in Nat \ {0}
  BY DEF Stacks
<1>3. /\ s \in Seq(Item) /\ Len(s) = Len(S[t]) - 1
      /\ \A j \in 1..(Len(S[t]) - 1) : s[j] = S[t][j]
  BY <1>1 DEF Popped
<1> HIDE DEF s
<1>4. R \in Stacks /\ R[t] = s /\ \A u \in Threads : u # t => R[u] = S[u]
  BY <1>3 DEF Stacks
<1> HIDE DEF R
<1>5. ASSUME NEW k \in Kinds, NEW u \in Threads, NEW j \in Nat, NEW q \in Tokens
      PROVE  Tok(R, k, u, j, q) = IF u = t /\ j = Len(S[t]) THEN 0 ELSE Tok(S, k, u, j, q)
  <2>1. CASE u # t
    BY <1>4, <2>1 DEF Tok
  <2>2. CASE u = t /\ j = Len(S[t])
    <3>1. j \notin 1..Len(R[u])
      BY <1>1, <1>3, <1>4, <2>2
    <3> QED
      BY <2>2, <3>1 DEF Tok
  <2>3. CASE u = t /\ j # Len(S[t])
    <3>1. j \in 1..Len(R[u]) <=> j \in 1..Len(S[u])
      BY <1>1, <1>3, <1>4, <2>3
    <3>2. j \in 1..Len(S[u]) => R[u][j] = S[u][j]
      BY <1>1, <1>3, <1>4, <2>3
    <3> QED
      BY <2>3, <3>1, <3>2 DEF Tok
  <2> QED
    BY <2>1, <2>2, <2>3
<1>6. [S EXCEPT ![t] = Popped(@)] = R
  BY DEF R, s
<1> QED
  BY <1>3, <1>4, <1>5, <1>6 DEF Pops

-----------------------------------------------------------------------------
(* Counting holders.                                                         *)

LEMMA ThreadsFinite == IsFiniteSet(Threads) /\ IsFiniteSet(Cells)
<1>1. IsFiniteSet(Threads)
  BY BoundsAssumption, FS_Interval DEF Threads
<1>2. IsFiniteSet({"local", "arg", "res"})
  <2>1. /\ IsFiniteSet({"local"} \cup {"arg"})
    BY FS_Singleton, FS_Union
  <2>2. IsFiniteSet(({"local"} \cup {"arg"}) \cup {"res"})
    BY <2>1, FS_Singleton, FS_Union
  <2>3. ({"local"} \cup {"arg"}) \cup {"res"} = {"local", "arg", "res"}
    OBVIOUS
  <2> QED
    BY <2>2, <2>3
<1>3. IsFiniteSet({"local", "arg", "res"} \X Threads)
  BY <1>1, <1>2, FS_Product
<1> QED
  BY <1>1, <1>3, FS_Singleton, FS_Union DEF Cells

Having(f, D, q) == {d \in D : f[d] = q}

\* `g` is `f` but for what it gives at `c`.
ButFor(f, g, D, c) == \A d \in D : d # c => g[d] = f[d]

\* One place, given another path.
LEMMA MoveCount ==
    ASSUME NEW D, NEW f, NEW g, NEW c \in D, NEW q, IsFiniteSet(D), ButFor(f, g, D, c)
    PROVE  /\ Cardinality(Having(f, D, q)) \in Nat /\ Cardinality(Having(g, D, q)) \in Nat
           /\ Cardinality(Having(g, D, q)) = Cardinality(Having(f, D, q))
                 + (IF q = g[c] THEN 1 ELSE 0) - (IF q = f[c] THEN 1 ELSE 0)
           /\ q = f[c] => Cardinality(Having(f, D, q)) > 0
<1> DEFINE A == Having(f, D, q)
           B == Having(g, D, q)
           C == A \ {c}
<1>2. c \in A <=> q = f[c]
  BY DEF Having
<1>3. B = IF q = g[c] THEN C \cup {c} ELSE C
  BY DEF Having, ButFor
<1>4. IsFiniteSet(A)
  BY FS_Subset DEF Having
<1> HIDE DEF A, B
<1>5. /\ IsFiniteSet(C)
      /\ Cardinality(C) = IF c \in A THEN Cardinality(A) - 1 ELSE Cardinality(A)
  BY <1>4, FS_RemoveElement
<1>6. c \notin C
  OBVIOUS
<1> HIDE DEF C
<1>7. IsFiniteSet(C \cup {c}) /\ Cardinality(C \cup {c}) = Cardinality(C) + 1
  BY <1>5, <1>6, FS_AddElement
<1>8. IsFiniteSet(B) /\ Cardinality(B) = Cardinality(C) + (IF q = g[c] THEN 1 ELSE 0)
  <2>1. Cardinality(C) \in Nat
    BY <1>5, FS_CardinalityType
  <2> QED
    BY <1>3, <1>5, <1>7, <2>1
<1>9. Cardinality(A) \in Nat /\ Cardinality(B) \in Nat /\ Cardinality(C) \in Nat
  BY <1>4, <1>5, <1>8, FS_CardinalityType
<1>10. /\ Cardinality(B) = Cardinality(A) + (IF q = g[c] THEN 1 ELSE 0) - (IF q = f[c] THEN 1 ELSE 0)
       /\ q = f[c] => Cardinality(A) > 0
  BY <1>2, <1>5, <1>8, <1>9
<1> QED
  BY <1>9, <1>10 DEF A, B

\* FrameHolds, of stacks `S`.
FramesIn(S) == UNION {{t} \X {i \in 1..Len(S[t]) : S[t][i].kind = "frame"} : t \in Threads}
HoldsIn(S, p) == UNION {{f} \X (1..S[f[1]][f[2]].toks[p]) : f \in FramesIn(S)}

LEMMA HoldsAre ==
    ASSUME NEW S, NEW p, NEW h
    PROVE  h \in HoldsIn(S, p) <=>
              \E u \in Threads, i \in Nat, k \in Nat :
                 h = <<<<u, i>>, k>> /\ k \in 1..Tok(S, "frame", u, i, p)
<1>1. ASSUME NEW f
      PROVE  f \in FramesIn(S) <=>
                \E u \in Threads : \E i \in 1..Len(S[u]) : f = <<u, i>> /\ S[u][i].kind = "frame"
  BY DEF FramesIn
<1>2. h \in HoldsIn(S, p) <=>
         \E f \in FramesIn(S) : \E k \in 1..S[f[1]][f[2]].toks[p] : h = <<f, k>>
  BY DEF HoldsIn
<1>3. ASSUME NEW u \in Threads, NEW i \in 1..Len(S[u]), S[u][i].kind = "frame"
      PROVE  S[<<u, i>>[1]][<<u, i>>[2]].toks[p] = Tok(S, "frame", u, i, p)
  BY <1>3 DEF Tok
<1>4. ASSUME NEW u \in Threads, NEW i, NEW k \in 1..Tok(S, "frame", u, i, p)
      PROVE  i \in 1..Len(S[u]) /\ S[u][i].kind = "frame"
  BY <1>4 DEF Tok
<1> QED
  <2>1. ASSUME NEW f \in FramesIn(S), NEW k \in 1..S[f[1]][f[2]].toks[p], h = <<f, k>>
        PROVE  \E u \in Threads, i \in Nat, m \in Nat :
                  h = <<<<u, i>>, m>> /\ m \in 1..Tok(S, "frame", u, i, p)
    <3>1. PICK u \in Threads : \E i \in 1..Len(S[u]) : f = <<u, i>> /\ S[u][i].kind = "frame"
      BY <1>1
    <3>2. PICK i \in 1..Len(S[u]) : f = <<u, i>> /\ S[u][i].kind = "frame"
      BY <3>1
    <3>3. k \in 1..Tok(S, "frame", u, i, p)
      BY <1>3, <3>2
    <3>4. h = <<<<u, i>>, k>> /\ i \in Nat /\ k \in Nat
      BY <2>1, <3>2
    <3> QED
      BY <3>3, <3>4
  <2>2. ASSUME NEW u \in Threads, NEW i \in Nat, NEW k \in Nat,
               h = <<<<u, i>>, k>>, k \in 1..Tok(S, "frame", u, i, p)
        PROVE  \E f \in FramesIn(S) : \E m \in 1..S[f[1]][f[2]].toks[p] : h = <<f, m>>
    <3>1. i \in 1..Len(S[u]) /\ S[u][i].kind = "frame"
      BY <1>4, <2>2
    <3>2. <<u, i>> \in FramesIn(S)
      BY <1>1, <3>1
    <3>3. k \in 1..S[<<u, i>>[1]][<<u, i>>[2]].toks[p]
      BY <1>3, <2>2, <3>1
    <3> QED
      BY <2>2, <3>2, <3>3
  <2> QED
    BY <1>2, <2>1, <2>2

LEMMA ItemsCount ==
    ASSUME NEW x, NEW m \in Nat
    PROVE  IsFiniteSet({x} \X (1..m)) /\ Cardinality({x} \X (1..m)) = m
<1> DEFINE X == {x}
           M == 1..m
<1>1. IsFiniteSet(X) /\ Cardinality(X) = 1
  BY FS_Singleton
<1>2. IsFiniteSet(M) /\ Cardinality(M) = m
  <2>1. 1 \in Int /\ m \in Int
    OBVIOUS
  <2>2. IsFiniteSet(M) /\ Cardinality(M) = IF 1 > m THEN 0 ELSE m - 1 + 1
    BY <2>1, FS_Interval
  <2> HIDE DEF M
  <2> QED
    BY <2>2
<1> HIDE DEF X, M
<1>3. IsFiniteSet(X \X M) /\ Cardinality(X \X M) = Cardinality(X) * Cardinality(M)
  BY <1>1, <1>2, FS_Product
<1>4. 1 * m = m
  OBVIOUS
<1> QED
  BY <1>1, <1>2, <1>3, <1>4 DEF X, M

\* One frame's holds of a path, changed from `m` to `n`.
LEMMA HoldsChange ==
    ASSUME NEW S \in Stacks, NEW R \in Stacks, NEW p \in Tokens, NEW t \in Threads, NEW i \in Nat,
           IsFiniteSet(HoldsIn(S, p)),
           \A u \in Threads, j \in Nat :
              ~(u = t /\ j = i) => Tok(R, "frame", u, j, p) = Tok(S, "frame", u, j, p)
    PROVE  /\ IsFiniteSet(HoldsIn(R, p))
           /\ Cardinality(HoldsIn(S, p)) \in Nat
           /\ Cardinality(HoldsIn(R, p)) =
                 Cardinality(HoldsIn(S, p)) - Tok(S, "frame", t, i, p) + Tok(R, "frame", t, i, p)
           /\ Cardinality(HoldsIn(S, p)) >= Tok(S, "frame", t, i, p)
<1> DEFINE m == Tok(S, "frame", t, i, p)
           n == Tok(R, "frame", t, i, p)
           M == {<<t, i>>} \X (1..m)
           O == {<<t, i>>} \X (1..n)
           A == HoldsIn(S, p)
           B == HoldsIn(R, p)
           C == A \ M
<1>1. m \in Nat /\ n \in Nat
  BY TokIsNat DEF Kinds
<1>2. ASSUME NEW h
      PROVE  /\ h \in M <=> \E k \in Nat : h = <<<<t, i>>, k>> /\ k \in 1..m
             /\ h \in O <=> \E k \in Nat : h = <<<<t, i>>, k>> /\ k \in 1..n
  BY <1>1
<1>3. ASSUME NEW h
      PROVE  /\ h \in A <=> \E u \in Threads, j \in Nat, k \in Nat :
                               h = <<<<u, j>>, k>> /\ k \in 1..Tok(S, "frame", u, j, p)
             /\ h \in B <=> \E u \in Threads, j \in Nat, k \in Nat :
                               h = <<<<u, j>>, k>> /\ k \in 1..Tok(R, "frame", u, j, p)
  BY HoldsAre
<1>4. M \subseteq A
  BY <1>2, <1>3
<1>5. O \subseteq B
  BY <1>2, <1>3
<1>6. ASSUME NEW h \in B, h \notin O PROVE h \in A /\ h \notin M
  <2>1. PICK u \in Threads, j \in Nat, k \in Nat :
           h = <<<<u, j>>, k>> /\ k \in 1..Tok(R, "frame", u, j, p)
    BY <1>3
  <2>2. ~(u = t /\ j = i)
    BY <1>2, <1>6, <2>1
  <2>3. h \in A
    BY <1>3, <2>1, <2>2
  <2>4. h \notin M
    BY <1>2, <2>1, <2>2
  <2> QED
    BY <2>3, <2>4
<1>7. ASSUME NEW h \in A, h \notin M PROVE h \in B /\ h \notin O
  <2>1. PICK u \in Threads, j \in Nat, k \in Nat :
           h = <<<<u, j>>, k>> /\ k \in 1..Tok(S, "frame", u, j, p)
    BY <1>3
  <2>2. ~(u = t /\ j = i)
    BY <1>2, <1>7, <2>1
  <2>3. h \in B
    BY <1>3, <2>1, <2>2
  <2>4. h \notin O
    BY <1>2, <2>1, <2>2
  <2> QED
    BY <2>3, <2>4
<1> HIDE DEF A, B, M, O
<1>8. A = C \cup M /\ C \cap M = {} /\ B = C \cup O /\ C \cap O = {}
  BY <1>4, <1>5, <1>6, <1>7
<1>9. IsFiniteSet(M) /\ Cardinality(M) = m /\ IsFiniteSet(O) /\ Cardinality(O) = n
  BY <1>1, ItemsCount DEF M, O
<1>10. IsFiniteSet(C)
  BY FS_Subset DEF A
<1> HIDE DEF C, m, n
<1>11. /\ Cardinality(C \cup M) = Cardinality(C) + Cardinality(M) - Cardinality(C \cap M)
       /\ Cardinality(C \cup O) = Cardinality(C) + Cardinality(O) - Cardinality(C \cap O)
       /\ IsFiniteSet(C \cup O)
  BY <1>9, <1>10, FS_Union
<1>12. Cardinality({}) = 0 /\ Cardinality(C) \in Nat
  BY <1>10, FS_EmptySet, FS_CardinalityType
<1>13. /\ IsFiniteSet(B) /\ Cardinality(A) = Cardinality(C) + m
       /\ Cardinality(B) = Cardinality(C) + n
  <2>1. /\ Cardinality(A) = Cardinality(C) + Cardinality(M) - Cardinality({})
        /\ Cardinality(B) = Cardinality(C) + Cardinality(O) - Cardinality({})
        /\ IsFiniteSet(B)
    BY <1>8, <1>11
  <2>2. \A x \in Nat, y \in Nat : x + y - 0 = x + y
    OBVIOUS
  <2> QED
    BY <1>1, <1>9, <1>12, <2>1, <2>2
<1> QED
  BY <1>1, <1>12, <1>13 DEF A, B, m, n

LEMMA HoldsSame ==
    ASSUME NEW S, NEW R, NEW p,
           \A u \in Threads, j \in Nat : Tok(R, "frame", u, j, p) = Tok(S, "frame", u, j, p)
    PROVE  HoldsIn(R, p) = HoldsIn(S, p)
<1>1. ASSUME NEW h PROVE h \in HoldsIn(R, p) <=> h \in HoldsIn(S, p)
  BY HoldsAre
<1> QED
  BY <1>1

-----------------------------------------------------------------------------
(* Where threads and their stacks are.                                       *)

\* A thread's stack, by where the thread is: it begins with a frame, each further
\* frame is called from a statement, and what a function returns arrives in one.
ShapeOf(s, place) ==
    /\ place \in {"unborn", "store", "forget", "ended", "joined"} => Len(s) = 0
    /\ place \in {"run", "result", "return"} => Len(s) > 0
    /\ place = "arrive" /\ Len(s) > 0 => s[Len(s)].kind = "scope"
    /\ Len(s) > 0 => s[1].kind = "frame"
    /\ \A i \in 2..Len(s) : s[i].kind = "frame" => s[i - 1].kind = "scope"
ShapesOf(S, A) == \A t \in Threads : ShapeOf(S[t], A[t])
Shape == ShapesOf(stack, at)

\* What a thread may still have, by where it is.
PlacedAt(t) ==
    /\ flight[t] # NoTok => at[t] \in {"return", "arrive", "unwind"}
    /\ at[t] \notin {"forget", "ended"} => slots[Res(t)] = NoTok
    /\ Len(stack[t]) = 0 => \/ slots[Local(t)] = NoTok
                            \/ /\ slots[Res(t)] = NoTok
                               /\ at[t] \in {"unwind", "forget", "ended", "joined"}
    /\ at[t] \in {"ended", "joined"} => reg[t] = NoTok /\ slots[Arg(t)] = NoTok
    /\ at[t] = "unborn" => slots[Arg(t)] = NoTok
Placed == \A t \in Threads : PlacedAt(t)

SInv == CoreOK /\ Shape /\ Placed

LEMMA CellsApart ==
    \A t, u \in Threads :
        /\ {Local(t), Arg(t), Res(t), Chan} \subseteq Cells
        /\ Local(t) # Arg(u) /\ Local(t) # Res(u) /\ Arg(t) # Res(u)
        /\ Chan \notin {Local(t), Arg(t), Res(t)}
        /\ t # u => Local(t) # Local(u) /\ Arg(t) # Arg(u) /\ Res(t) # Res(u)
BY DEF Cells, Local, Arg, Res, Chan

\* `R` differs from `S` only in how often statements of `t` list `p`.
OnLists(S, R, t, p) ==
    /\ R \in Stacks
    /\ \A u \in Threads : Len(R[u]) = Len(S[u]) /\ (u # t => R[u] = S[u])
    /\ \A u \in Threads : \A j \in 1..Len(S[u]) : R[u][j].kind = S[u][j].kind
    /\ \A k \in Kinds, u \in Threads, j \in Nat, q \in Tokens :
          Tok(R, k, u, j, q) = Tok(S, k, u, j, q) \/ (k = "scope" /\ u = t /\ q = p)

LEMMA OnListsSelf == ASSUME NEW S \in Stacks, NEW t, NEW p PROVE OnLists(S, S, t, p)
BY DEF OnLists

LEMMA OnListsTrans ==
    ASSUME NEW S \in Stacks, NEW R, NEW Q, NEW t \in Threads, NEW p,
           OnLists(S, R, t, p), OnLists(R, Q, t, p)
    PROVE  OnLists(S, Q, t, p)
<1>1. /\ Q \in Stacks
      /\ \A u \in Threads : Len(Q[u]) = Len(S[u]) /\ (u # t => Q[u] = S[u])
      /\ \A u \in Threads : \A j \in 1..Len(S[u]) : Q[u][j].kind = S[u][j].kind
  BY DEF OnLists
<1>2. ASSUME NEW k \in Kinds, NEW u \in Threads, NEW j \in Nat, NEW q \in Tokens
      PROVE  Tok(Q, k, u, j, q) = Tok(S, k, u, j, q) \/ (k = "scope" /\ u = t /\ q = p)
  BY DEF OnLists
<1> QED
  BY <1>1, <1>2 DEF OnLists

LEMMA SetOnLists ==
    ASSUME NEW S \in Stacks, NEW t \in Threads, NEW i \in 1..Len(S[t]), S[t][i].kind = "scope",
           NEW p \in Tokens, NEW n \in Nat
    PROVE  /\ OnLists(S, SetTok(S, t, i, p, n), t, p)
           /\ \A j \in Nat : Tok(SetTok(S, t, i, p, n), "scope", t, j, p)
                                = IF j = i THEN n ELSE Tok(S, "scope", t, j, p)
<1> DEFINE R == SetTok(S, t, i, p, n)
<1>1. SetsTok(S, R, t, i, p, n)
  BY SetTokIs
<1> HIDE DEF R
<1>2. \A k \in Kinds, u \in Threads, j \in Nat, q \in Tokens :
         Tok(R, k, u, j, q) = Tok(S, k, u, j, q) \/ (k = "scope" /\ u = t /\ q = p)
  BY <1>1 DEF SetsTok
<1>3. OnLists(S, R, t, p)
  BY <1>1, <1>2 DEF SetsTok, OnLists
<1>4. \A j \in Nat : Tok(R, "scope", t, j, p) = IF j = i THEN n ELSE Tok(S, "scope", t, j, p)
  BY <1>1 DEF SetsTok, Kinds
<1> QED
  BY <1>3, <1>4 DEF R

LEMMA DetachIs ==
    ASSUME NEW S \in Stacks, NEW t \in Threads, NEW p \in Tokens
    PROVE  OnLists(S, detach_tok(S, t, p), t, p)
<1> DEFINE i == IF p \in DOMAIN paths THEN paths[p].scope ELSE None
           n == S[t][i].toks[p] - 1
<1>1. CASE ~(i \in 1..Len(S[t]) /\ S[t][i].kind = "scope" /\ S[t][i].toks[p] > 0)
  <2>1. detach_tok(S, t, p) = S
    BY <1>1 DEF detach_tok
  <2> QED
    BY <2>1, OnListsSelf
<1>2. CASE i \in 1..Len(S[t]) /\ S[t][i].kind = "scope" /\ S[t][i].toks[p] > 0
  <2>1. detach_tok(S, t, p) = SetTok(S, t, i, p, n)
    BY <1>2 DEF detach_tok, SetTok
  <2> HIDE DEF i
  <2>2. n \in Nat
    <3>1. S[t][i] \in Item
      BY <1>2 DEF Stacks
    <3> QED
      BY <1>2, <3>1 DEF Item, Bag
  <2> HIDE DEF n
  <2> QED
    BY <1>2, <2>1, <2>2, SetOnLists
<1> QED
  BY <1>1, <1>2

LEMMA StampIs ==
    ASSUME NEW S \in Stacks, NEW t \in Threads, NEW p \in Tokens, NEW i,
           i # None => i \in 1..Len(S[t]) /\ S[t][i].kind = "scope"
    PROVE  /\ OnLists(S, stamp_tok(S, t, p, i), t, p)
           /\ i # None /\ p \in DOMAIN paths => Tok(stamp_tok(S, t, p, i), "scope", t, i, p) > 0
           /\ i = None => stamp_tok(S, t, p, i) = S
<1> DEFINE n == S[t][i].toks[p] + 1
<1>1. CASE i = None \/ p \notin DOMAIN paths
  <2>1. stamp_tok(S, t, p, i) = S
    BY <1>1 DEF stamp_tok
  <2> QED
    BY <1>1, <2>1, OnListsSelf
<1>2. CASE ~(i = None \/ p \notin DOMAIN paths)
  <2>1. stamp_tok(S, t, p, i) = SetTok(S, t, i, p, n)
    BY <1>2 DEF stamp_tok, SetTok
  <2>2. n \in Nat /\ n > 0 /\ i \in Nat
    <3>1. S[t][i] \in Item
      BY <1>2 DEF Stacks
    <3> QED
      BY <1>2, <3>1 DEF Item, Bag
  <2> HIDE DEF n
  <2>3. /\ OnLists(S, SetTok(S, t, i, p, n), t, p)
        /\ Tok(SetTok(S, t, i, p, n), "scope", t, i, p) = n
    BY <1>2, <2>2, SetOnLists
  <2> QED
    BY <1>2, <2>1, <2>2, <2>3
<1> QED
  BY <1>1, <1>2

\* The entries a thread works with.
LEMMA PositionsAre ==
    ASSUME SInv, NEW t \in Threads
    PROVE  /\ stack[t] \in Seq(Item) /\ Len(stack[t]) \in Nat
           /\ top_scope(t) \in 0..Len(stack[t])
           /\ top_scope(t) # None => stack[t][top_scope(t)].kind = "scope"
           /\ Top(t, "scope") => top_scope(t) = Len(stack[t]) /\ top_scope(t) # None
           /\ stack[t] = <<>> => top_scope(t) = None
           /\ stack[t] # <<>> => /\ top_frame(t) \in 1..Len(stack[t])
                                 /\ stack[t][top_frame(t)].kind = "frame"
<1> DEFINE n == Len(stack[t])
           A == Positions(t, "scope")
           F == Positions(t, "frame")
<1>1. stack[t] \in Seq(Item) /\ n \in Nat
  BY DEF CoreOK, SInv, Stacks
<1>2. /\ A \in SUBSET (1..n) /\ \A j \in A : stack[t][j].kind = "scope"
      /\ F \in SUBSET (1..n) /\ \A j \in F : stack[t][j].kind = "frame"
  BY DEF Positions
<1>3. Top(t, "scope") => n \in A
  BY <1>1 DEF Top, Positions
<1>4. stack[t] # <<>> => 1 \in F
  <2>1. stack[t] # <<>> => n > 0
    BY <1>1
  <2>2. n > 0 => stack[t][1].kind = "frame"
    BY DEF SInv, Shape, ShapesOf, ShapeOf
  <2> QED
    BY <1>1, <2>1, <2>2 DEF Positions
<1> HIDE DEF A, F
<1>5. /\ Highest(A) \in 0..n
      /\ A = {} => Highest(A) = None
      /\ A # {} => Highest(A) \in A /\ \A j \in A : j <= Highest(A)
  BY <1>1, <1>2, HighestIs
<1>6. F # {} => Highest(F) \in F
  BY <1>1, <1>2, HighestIs
<1>7. top_scope(t) = Highest(A) /\ top_frame(t) = Highest(F)
  BY DEF top_scope, top_frame, A, F
<1>8. Top(t, "scope") => Highest(A) = n
  <2> SUFFICES ASSUME Top(t, "scope") PROVE Highest(A) = n
    OBVIOUS
  <2>1. n \in A /\ n <= Highest(A)
    BY <1>3, <1>5
  <2> QED
    BY <1>1, <1>5, <2>1
<1>9. stack[t] = <<>> => n = 0
  BY <1>1
<1>10. Highest(A) # None => stack[t][Highest(A)].kind = "scope"
  BY <1>2, <1>5
<1>11. Top(t, "scope") => Highest(A) # None
  BY <1>2, <1>3, <1>8 DEF None
<1>12. stack[t] # <<>> => Highest(F) \in 1..n /\ stack[t][Highest(F)].kind = "frame"
  BY <1>2, <1>4, <1>6
<1>13. stack[t] = <<>> => Highest(A) = None
  BY <1>5, <1>9 DEF None
<1> QED
  BY <1>1, <1>5, <1>7, <1>8, <1>10, <1>11, <1>12, <1>13

LEMMA BelowIs ==
    ASSUME SInv, NEW t \in Threads, NEW i \in Nat
    PROVE  /\ scope_below(t, i) \in 0..Len(stack[t])
           /\ scope_below(t, i) # None =>
                 /\ scope_below(t, i) \in 1..Len(stack[t]) /\ scope_below(t, i) < i
                 /\ stack[t][scope_below(t, i)].kind = "scope"
           /\ Top(t, "scope") /\ i = top_scope(t) /\ Cardinality(Positions(t, "scope")) > 1
                 => scope_below(t, i) # None
<1> DEFINE n == Len(stack[t])
           A == Positions(t, "scope")
           B == {j \in A : j < i}
<1>1. n \in Nat
  BY PositionsAre
<1>2. /\ A \in SUBSET (1..n) /\ \A j \in A : stack[t][j].kind = "scope"
      /\ B \in SUBSET A
  BY DEF Positions
<1>3. \A j \in B : j < i
  OBVIOUS
<1>4. ASSUME Top(t, "scope"), i = top_scope(t), Cardinality(A) > 1 PROVE B # {}
  <2>1. i = n
    BY <1>4, PositionsAre
  <2>2. ASSUME B = {} PROVE FALSE
    <3>1. A \subseteq {n}
      BY <1>1, <1>2, <2>1, <2>2
    <3>2. Cardinality(A) <= 1
      <4>1. IsFiniteSet({n}) /\ Cardinality({n}) = 1
        BY FS_Singleton
      <4> QED
        BY <3>1, <4>1, FS_Subset
    <3>3. Cardinality(A) \in Nat
      BY <3>1, FS_Subset, FS_Singleton, FS_CardinalityType
    <3> HIDE DEF A
    <3> QED
      BY <1>4, <3>2, <3>3
  <2> QED
    BY <2>2
<1>5. scope_below(t, i) = Highest(B)
  BY DEF scope_below
<1> HIDE DEF A, B
<1>6. B \in SUBSET (1..n)
  BY <1>2
<1>7. /\ Highest(B) \in 0..n
      /\ B = {} => Highest(B) = None
      /\ B # {} => Highest(B) \in B
  BY <1>1, <1>6, HighestIs
<1>8. Highest(B) # None => /\ Highest(B) \in 1..n /\ Highest(B) < i
                           /\ stack[t][Highest(B)].kind = "scope"
  BY <1>2, <1>3, <1>6, <1>7
<1>9. B # {} => Highest(B) # None
  BY <1>6, <1>7 DEF None
<1> QED
  BY <1>4, <1>5, <1>7, <1>8, <1>9 DEF A

LEMMA NewTokenIs == ASSUME CoreOK, Unnamed # {} PROVE NewToken \in Tokens /\ NewToken \notin Named
<1>1. Unnamed \in SUBSET Nat
  BY BoundsAssumption DEF Unnamed, Tokens
<1>2. \E p \in Unnamed : \A q \in Unnamed : p <= q
  BY <1>1, LeastOf
<1>3. NewToken \in Unnamed
  BY <1>2, Zenon DEF NewToken
<1> QED
  BY <1>3 DEF Unnamed

LEMMA ChainIs == ASSUME CoreOK, NEW b, b = Root \/ b \in DOMAIN paths PROVE Chain(b) \subseteq Tokens
<1>1. \A e \in DOMAIN paths : e \in Tokens /\ paths[e].ancestors \subseteq Tokens
  BY DEF CoreOK, Table, Rec
<1> QED
  BY <1>1 DEF Chain

-----------------------------------------------------------------------------
(* The inductive invariant.                                                  *)

\* A statement of a thread lists a path, in stacks `S`.
ListsIt(S, u, p) == \E j \in Nat : Tok(S, "scope", u, j, p) > 0

\* A thread has a path: at hand, in a call's return, in its cells, in its frames.
HasIt(S, F, R, C, u, p) ==
    \/ p = R[u] \/ p = F[u] \/ p \in {C[Local(u)], C[Arg(u)], C[Res(u)]}
    \/ \E j \in Nat : Tok(S, "frame", u, j, p) > 0

\* A path in a statement is on some statement's list, or its statement was cut short;
\* and one that counts no holds is on a list, or about to be stored, or cut from one.
OwnedAt(P, S, R, A, X, p) ==
    /\ P[p].scope # None => p \in X \/ \E u \in Threads : ListsIt(S, u, p)
    /\ \/ P[p].occ > 0 \/ p \in X \/ \E u \in Threads : ListsIt(S, u, p)
       \/ \E u \in Threads : A[u] = "store" /\ R[u] = p
Owned == \A p \in DOMAIN paths : OwnedAt(paths, stack, reg, at, cut, p)

\* An exclusive path is one thread's, or in the channel.
ApartAt(P, S, F, R, C, p) ==
    P[p].exclusive =>
        /\ \A t, u \in Threads : HasIt(S, F, R, C, t, p) /\ HasIt(S, F, R, C, u, p) => t = u
        /\ C[Chan] = p => \A t \in Threads : ~HasIt(S, F, R, C, t, p)
Apart == \A p \in DOMAIN paths : ApartAt(paths, stack, flight, reg, slots, p)

HoldsFinite == \A p \in Tokens : IsFiniteSet(HoldsIn(stack, p))

IInv == SInv /\ SideOK /\ OccIsHolds /\ HoldsFinite /\ Owned /\ Apart

-----------------------------------------------------------------------------
(* A step that moves a path in one cell, one flight and one frame.           *)

One(q, p) == IF q = p THEN 1 ELSE 0

Moved(c, t, s, i) ==
    /\ ButFor(slots, slots', Cells, c) /\ ButFor(flight, flight', Threads, t)
    /\ \A u \in Threads, j \in Nat, q \in Tokens :
          ~(u = s /\ j = i) => Tok(stack', "frame", u, j, q) = Tok(stack, "frame", u, j, q)

Change(c, t, s, i, q) ==
    One(q, slots'[c]) - One(q, slots[c]) + One(q, flight'[t]) - One(q, flight[t])
        + Tok(stack', "frame", s, i, q) - Tok(stack, "frame", s, i, q)

LEMMA HoldersAre ==
    ASSUME NEW p
    PROVE  Holders(p) = Cardinality(Having(slots, Cells, p)) + Cardinality(Having(flight, Threads, p))
                           + Cardinality(HoldsIn(stack, p))
<1>1. Frames = FramesIn(stack)
  BY DEF Frames, FramesIn, Positions
<1>2. FrameHolds(p) = HoldsIn(stack, p)
  BY <1>1 DEF FrameHolds, HoldsIn
<1> QED
  BY <1>2 DEF Holders, Having

LEMMA HoldersNext ==
    ASSUME NEW p
    PROVE  Holders(p)' = Cardinality(Having(slots', Cells, p)) + Cardinality(Having(flight', Threads, p))
                           + Cardinality(HoldsIn(stack', p))
<1>1. Frames' = FramesIn(stack')
  BY DEF Frames, FramesIn, Positions
<1>2. FrameHolds(p)' = HoldsIn(stack', p)
  BY <1>1 DEF FrameHolds, HoldsIn
<1> QED
  BY <1>2 DEF Holders, Having

LEMMA CountStep ==
    ASSUME CoreOK, stack' \in Stacks, HoldsFinite,
           NEW c \in Cells, NEW t \in Threads, NEW s \in Threads, NEW i \in Nat, Moved(c, t, s, i),
           NEW q \in Tokens
    PROVE  /\ IsFiniteSet(HoldsIn(stack', q))
           /\ Holders(q) \in Nat /\ Holders(q)' \in Nat /\ Change(c, t, s, i, q) \in Int
           /\ Holders(q)' = Holders(q) + Change(c, t, s, i, q)
           /\ Holders(q) >= One(q, slots[c]) + One(q, flight[t]) + Tok(stack, "frame", s, i, q)
<1> DEFINE ca == Cardinality(Having(slots, Cells, q))
           cb == Cardinality(Having(slots', Cells, q))
           fa == Cardinality(Having(flight, Threads, q))
           fb == Cardinality(Having(flight', Threads, q))
           ha == Cardinality(HoldsIn(stack, q))
           hb == Cardinality(HoldsIn(stack', q))
           x == Tok(stack, "frame", s, i, q)
           y == Tok(stack', "frame", s, i, q)
<1>1. /\ ca \in Nat /\ cb \in Nat
      /\ cb = ca + One(q, slots'[c]) - One(q, slots[c])
      /\ q = slots[c] => ca > 0
  <2> DEFINE f == slots
             g == slots'
  <2>1. IsFiniteSet(Cells) /\ ButFor(f, g, Cells, c)
    BY ThreadsFinite DEF Moved
  <2> HIDE DEF f, g
  <2>2. /\ Cardinality(Having(f, Cells, q)) \in Nat /\ Cardinality(Having(g, Cells, q)) \in Nat
        /\ Cardinality(Having(g, Cells, q)) = Cardinality(Having(f, Cells, q))
                 + (IF q = g[c] THEN 1 ELSE 0) - (IF q = f[c] THEN 1 ELSE 0)
        /\ q = f[c] => Cardinality(Having(f, Cells, q)) > 0
    BY <2>1, MoveCount
  <2> QED
    BY <2>2 DEF f, g, One
<1>2. /\ fa \in Nat /\ fb \in Nat
      /\ fb = fa + One(q, flight'[t]) - One(q, flight[t])
      /\ q = flight[t] => fa > 0
  <2> DEFINE f == flight
             g == flight'
  <2>1. IsFiniteSet(Threads) /\ ButFor(f, g, Threads, t)
    BY ThreadsFinite DEF Moved
  <2> HIDE DEF f, g
  <2>2. /\ Cardinality(Having(f, Threads, q)) \in Nat /\ Cardinality(Having(g, Threads, q)) \in Nat
        /\ Cardinality(Having(g, Threads, q)) = Cardinality(Having(f, Threads, q))
                 + (IF q = g[t] THEN 1 ELSE 0) - (IF q = f[t] THEN 1 ELSE 0)
        /\ q = f[t] => Cardinality(Having(f, Threads, q)) > 0
    BY <2>1, MoveCount
  <2> QED
    BY <2>2 DEF f, g, One
<1>3. /\ IsFiniteSet(HoldsIn(stack', q)) /\ ha \in Nat /\ hb \in Nat
      /\ hb = ha - x + y /\ ha >= x
  <2>1. stack \in Stacks /\ IsFiniteSet(HoldsIn(stack, q))
    BY DEF CoreOK, HoldsFinite
  <2>2. \A u \in Threads, j \in Nat :
           ~(u = s /\ j = i) => Tok(stack', "frame", u, j, q) = Tok(stack, "frame", u, j, q)
    BY DEF Moved
  <2> DEFINE R == stack'
  <2>3. R \in Stacks
    OBVIOUS
  <2> HIDE DEF R
  <2>4. \A u \in Threads, j \in Nat :
           ~(u = s /\ j = i) => Tok(R, "frame", u, j, q) = Tok(stack, "frame", u, j, q)
    BY <2>2 DEF R
  <2>5. /\ IsFiniteSet(HoldsIn(R, q)) /\ Cardinality(HoldsIn(stack, q)) \in Nat
        /\ Cardinality(HoldsIn(R, q)) =
              Cardinality(HoldsIn(stack, q)) - Tok(stack, "frame", s, i, q) + Tok(R, "frame", s, i, q)
        /\ Cardinality(HoldsIn(stack, q)) >= Tok(stack, "frame", s, i, q)
    BY <2>1, <2>3, <2>4, HoldsChange
  <2>6. Cardinality(HoldsIn(R, q)) \in Nat
    BY <2>5, FS_CardinalityType
  <2> QED
    BY <2>5, <2>6 DEF R
<1>4. x \in Nat /\ y \in Nat
  BY TokIsNat DEF CoreOK, Kinds
<1>5. Holders(q) = ca + fa + ha /\ Holders(q)' = cb + fb + hb
  BY HoldersAre, HoldersNext
<1>6. Change(c, t, s, i, q) = One(q, slots'[c]) - One(q, slots[c]) + One(q, flight'[t])
                                 - One(q, flight[t]) + y - x
  BY DEF Change
<1> HIDE DEF ca, cb, fa, fb, ha, hb, x, y
<1>7. Holders(q) \in Nat /\ Holders(q)' \in Nat
  BY <1>1, <1>2, <1>3, <1>5
<1>8. Holders(q)' = Holders(q) + Change(c, t, s, i, q)
  BY <1>1, <1>2, <1>3, <1>4, <1>5, <1>6 DEF One
<1>9. Holders(q) >= One(q, slots[c]) + One(q, flight[t]) + x
  BY <1>1, <1>2, <1>3, <1>4, <1>5 DEF One
<1>10. Change(c, t, s, i, q) \in Int
  BY <1>4, <1>6 DEF One
<1> QED
  BY <1>3, <1>7, <1>8, <1>9, <1>10 DEF x

LEMMA UnnamedIs ==
    ASSUME CoreOK, NEW q \in Tokens, q \notin Named
    PROVE  /\ q \notin DOMAIN paths /\ Holders(q) = 0 /\ lost[q] = 0
           /\ \A t \in Threads : reg[t] # q /\ flight[t] # q
           /\ \A c \in Cells : slots[c] # q
           /\ \A k \in Kinds, t \in Threads, i \in Nat : Tok(stack, k, t, i, q) = 0
<1>1. q \notin DOMAIN paths
  BY DEF Named
<1>2. /\ \A t \in Threads : reg[t] # q /\ flight[t] # q
      /\ \A c \in Cells : slots[c] # q
  <2>1. \A t \in Threads : reg[t] # q
    BY DEF Named
  <2>2. \A t \in Threads : flight[t] # q
    BY DEF Named
  <2>3. \A c \in Cells : slots[c] # q
    BY DEF Named
  <2> QED
    BY <2>1, <2>2, <2>3
<1>3. ASSUME NEW k \in Kinds, NEW t \in Threads, NEW i \in Nat PROVE Tok(stack, k, t, i, q) = 0
  <2>1. CASE i \in 1..Len(stack[t])
    <3>1. ~(stack[t][i].toks[q] > 0)
      BY <2>1 DEF Named
    <3>2. stack[t][i] \in Item
      BY <2>1 DEF CoreOK, Stacks
    <3>3. stack[t][i].toks[q] \in Nat
      BY <3>2 DEF Item, Bag
    <3> QED
      BY <3>1, <3>3 DEF Tok
  <2>2. CASE i \notin 1..Len(stack[t])
    BY <2>2 DEF Tok
  <2> QED
    BY <2>1, <2>2
<1>4. Having(slots, Cells, q) = {} /\ Having(flight, Threads, q) = {}
  BY <1>2 DEF Having
<1>5. HoldsIn(stack, q) = {}
  <2>1. ASSUME NEW h \in HoldsIn(stack, q) PROVE FALSE
    <3>1. PICK u \in Threads, i \in Nat, k \in Nat :
             h = <<<<u, i>>, k>> /\ k \in 1..Tok(stack, "frame", u, i, q)
      BY HoldsAre
    <3>2. Tok(stack, "frame", u, i, q) = 0
      BY <1>3 DEF Kinds
    <3> QED
      BY <3>1, <3>2
  <2> QED
    BY <2>1
<1>6. Holders(q) = 0 + 0 + 0
  <2>1. Cardinality({}) = 0
    BY FS_EmptySet
  <2> QED
    BY <1>4, <1>5, <2>1, HoldersAre
<1>7. lost[q] = 0
  BY DEF Named
<1> QED
  BY <1>1, <1>2, <1>3, <1>6, <1>7

\* A step that forgets no holds, and leaves paths cut from a statement so.
CutsKept == \A q \in DOMAIN paths : q \in cut => q \in cut'
Spared == SideOK' /\ lost' = lost /\ CutsKept

\* What the step does to the table of paths follows the holders.
Follows(c, t, s, i) ==
    /\ Moved(c, t, s, i)
    /\ \A q \in DOMAIN paths \cap DOMAIN paths' :
          paths'[q].occ = paths[q].occ + Change(c, t, s, i, q)
    /\ \A q \in DOMAIN paths \ DOMAIN paths' :
          /\ paths[q].occ + Change(c, t, s, i, q) = 0
          /\ \/ paths[q].scope = None
             \/ \E u \in Threads : ListsIt(stack, u, q) /\ stack'[u] # stack[u]
    /\ \A q \in DOMAIN paths' \ DOMAIN paths :
          q \notin Named /\ paths'[q].occ = Change(c, t, s, i, q)

\* ... and what is forgotten: it is as if `lost` were a holder more.
Loses(c, t, s, i) ==
    /\ Moved(c, t, s, i) /\ SideOK'
    /\ \A q \in DOMAIN paths \cap DOMAIN paths' :
          paths'[q].occ = paths[q].occ + Change(c, t, s, i, q) + (lost'[q] - lost[q])
    /\ \A q \in DOMAIN paths \ DOMAIN paths' :
          /\ paths[q].occ + Change(c, t, s, i, q) + (lost'[q] - lost[q]) = 0
          /\ \/ paths[q].scope = None
             \/ \E u \in Threads : ListsIt(stack, u, q) /\ stack'[u] # stack[u]
    /\ \A q \in DOMAIN paths' \ DOMAIN paths :
          q \notin Named /\ paths'[q].occ = Change(c, t, s, i, q) + lost'[q]

LEMMA ListersAre ==
    ASSUME CoreOK, NEW u \in Threads, NEW p \in Tokens
    PROVE  u \in Listers(p) <=> ListsIt(stack, u, p)
<1>1. ASSUME NEW j \in Positions(u, "scope"), stack[u][j].toks[p] > 0
      PROVE  j \in Nat /\ Tok(stack, "scope", u, j, p) > 0
  BY <1>1 DEF Positions, Tok
<1>2. ASSUME NEW j \in Nat, Tok(stack, "scope", u, j, p) > 0
      PROVE  j \in Positions(u, "scope") /\ stack[u][j].toks[p] > 0
  BY <1>2 DEF Positions, Tok
<1> QED
  BY <1>1, <1>2 DEF Listers, ListsIt

LEMMA LosesIs ==
    ASSUME IInv, CoreOK',
           NEW c \in Cells, NEW t \in Threads, NEW s \in Threads, NEW i \in Nat, Loses(c, t, s, i)
    PROVE  OccIsHolds' /\ HoldsFinite' /\ Ends
<1>1. CoreOK /\ HoldsFinite /\ Moved(c, t, s, i) /\ stack' \in Stacks /\ SideOK /\ SideOK'
  BY DEF CoreOK, IInv, SInv, Loses
<1>2. DOMAIN paths \subseteq Tokens /\ DOMAIN paths' \subseteq Tokens
  BY DEF CoreOK, IInv, SInv, Table
<1>3. \A q \in Tokens : /\ IsFiniteSet(HoldsIn(stack', q))
                        /\ Holders(q) \in Nat /\ Holders(q)' \in Nat
                        /\ Holders(q)' = Holders(q) + Change(c, t, s, i, q)
                        /\ Change(c, t, s, i, q) \in Int
                        /\ lost[q] \in Nat /\ lost'[q] \in Nat
  BY <1>1, CountStep DEF SideOK, Bag
<1>4. \A q \in DOMAIN paths : paths[q].occ = Holders(q) + lost[q]
  BY DEF IInv, OccIsHolds
<1>5. OccIsHolds'
  <2>1. ASSUME NEW q \in DOMAIN paths' PROVE paths'[q].occ = Holders(q)' + lost'[q]
    <3>1. CASE q \in DOMAIN paths
      <4>1. paths'[q].occ = paths[q].occ + Change(c, t, s, i, q) + (lost'[q] - lost[q])
        BY <3>1 DEF Loses
      <4> QED
        BY <1>2, <1>3, <1>4, <3>1, <4>1
    <3>2. CASE q \notin DOMAIN paths
      <4>1. q \notin Named /\ paths'[q].occ = Change(c, t, s, i, q) + lost'[q] /\ q \in Tokens
        BY <1>2, <3>2 DEF Loses
      <4>2. Holders(q) = 0
        BY <1>1, <4>1, UnnamedIs
      <4> QED
        BY <1>3, <4>1, <4>2
    <3> QED
      BY <3>1, <3>2
  <2> QED
    BY <2>1 DEF OccIsHolds
<1>6. HoldsFinite'
  BY <1>3 DEF HoldsFinite
<1>7. ASSUME NEW q \in DOMAIN paths \ DOMAIN paths'
      PROVE  /\ Holders(q)' = 0
             /\ \A u \in Threads : AtHand(u, q) /\ Rests(u) => Listers(q) # {u} \/ paths[q].scope = None
  <2>1. /\ paths[q].occ + Change(c, t, s, i, q) + (lost'[q] - lost[q]) = 0
        /\ \/ paths[q].scope = None
           \/ \E u \in Threads : ListsIt(stack, u, q) /\ stack'[u] # stack[u]
    BY DEF Loses
  <2>2. Holders(q)' = 0
    BY <1>2, <1>3, <1>4, <2>1
  <2>3. ASSUME NEW u \in Threads, AtHand(u, q), Rests(u), paths[q].scope # None
        PROVE  Listers(q) # {u}
    <3>1. PICK v \in Threads : ListsIt(stack, v, q) /\ stack'[v] # stack[v]
      BY <2>1, <2>3
    <3>2. v \in Listers(q)
      BY <1>1, <1>2, <3>1, ListersAre
    <3>3. stack'[u] = stack[u]
      BY <2>3 DEF Rests
    <3> QED
      BY <3>1, <3>2, <3>3
  <2> QED
    BY <2>2, <2>3
<1>8. Ends
  BY <1>7 DEF Ends
<1> QED
  BY <1>5, <1>6, <1>8

-----------------------------------------------------------------------------
(* What most steps keep.                                                     *)

SameLists == \A u \in Threads, j \in Nat, q \in Tokens : Tok(stack', "scope", u, j, q) = Tok(stack, "scope", u, j, q)
SameFrames == \A u \in Threads, j \in Nat, q \in Tokens : Tok(stack', "frame", u, j, q) = Tok(stack, "frame", u, j, q)

\* Statements that list the path still do, and a thread about to store it still is.
StaysOwned(q) ==
    /\ \A u \in Threads : ListsIt(stack, u, q) => ListsIt(stack', u, q)
    /\ \A u \in Threads : at[u] = "store" /\ reg[u] = q => at'[u] = "store" /\ reg'[u] = q

LEMMA OwnedKept ==
    ASSUME IInv, CutsKept, NEW q, q \in DOMAIN paths, q \in DOMAIN paths', StaysOwned(q),
           paths'[q].scope = paths[q].scope,
           paths[q].occ > 0 => paths'[q].occ > 0 \/ paths[q].scope # None
    PROVE  OwnedAt(paths', stack', reg', at', cut', q)
<1>1. OwnedAt(paths, stack, reg, at, cut, q)
  BY DEF IInv, Owned
<1> QED
  BY <1>1 DEF OwnedAt, StaysOwned, CutsKept

GainsNothing(q) ==
    /\ \A u \in Threads :
          HasIt(stack', flight', reg', slots', u, q) => HasIt(stack, flight, reg, slots, u, q)
    /\ slots'[Chan] = q => slots[Chan] = q

LEMMA ApartKept ==
    ASSUME IInv, NEW q, q \in DOMAIN paths, paths'[q].exclusive = paths[q].exclusive, GainsNothing(q)
    PROVE  ApartAt(paths', stack', flight', reg', slots', q)
<1>1. ApartAt(paths, stack, flight, reg, slots, q)
  BY DEF IInv, Apart
<1> QED
  BY <1>1 DEF ApartAt, GainsNothing

LEMMA LossStepIs ==
    ASSUME IInv, CoreOK', Shape', Placed',
           NEW c \in Cells, NEW t \in Threads, NEW s \in Threads, NEW i \in Nat, Loses(c, t, s, i),
           \A q \in DOMAIN paths' : /\ OwnedAt(paths', stack', reg', at', cut', q)
                                    /\ ApartAt(paths', stack', flight', reg', slots', q)
    PROVE  IInv' /\ Ends
<1>1. OccIsHolds' /\ HoldsFinite' /\ Ends /\ SideOK'
  BY LosesIs DEF Loses
<1> QED
  BY <1>1 DEF IInv, SInv, Owned, Apart

LEMMA StepIs ==
    ASSUME IInv, Spared, CoreOK', Shape', Placed',
           NEW c \in Cells, NEW t \in Threads, NEW s \in Threads, NEW i \in Nat, Follows(c, t, s, i),
           \A q \in DOMAIN paths' : /\ OwnedAt(paths', stack', reg', at', cut', q)
                                    /\ ApartAt(paths', stack', flight', reg', slots', q)
    PROVE  IInv' /\ Ends
<1>1. CoreOK /\ HoldsFinite /\ stack' \in Stacks /\ Moved(c, t, s, i)
  BY DEF CoreOK, IInv, SInv, Follows
<1>2. ASSUME NEW q \in Tokens
      PROVE  lost'[q] - lost[q] = 0 /\ lost[q] \in Nat /\ Change(c, t, s, i, q) \in Int
  BY <1>1, CountStep DEF IInv, SideOK, Bag, Spared
<1>3. /\ \A q \in DOMAIN paths : q \in Tokens /\ paths[q].occ \in Nat
      /\ \A q \in DOMAIN paths' : q \in Tokens /\ paths'[q].occ \in Nat
  BY <1>1 DEF CoreOK, Table, Rec
<1>4. ASSUME NEW q \in DOMAIN paths \cap DOMAIN paths'
      PROVE  paths'[q].occ = paths[q].occ + Change(c, t, s, i, q) + (lost'[q] - lost[q])
  <2>1. paths'[q].occ = paths[q].occ + Change(c, t, s, i, q)
    BY DEF Follows
  <2> QED
    BY <1>2, <1>3, <2>1
<1>5. ASSUME NEW q \in DOMAIN paths \ DOMAIN paths'
      PROVE  paths[q].occ + Change(c, t, s, i, q) + (lost'[q] - lost[q]) = 0
  <2>1. paths[q].occ + Change(c, t, s, i, q) = 0
    BY DEF Follows
  <2> QED
    BY <1>2, <1>3, <2>1
<1>6. ASSUME NEW q \in DOMAIN paths' \ DOMAIN paths
      PROVE  q \notin Named /\ paths'[q].occ = Change(c, t, s, i, q) + lost'[q]
  <2>1. q \notin Named /\ paths'[q].occ = Change(c, t, s, i, q)
    BY DEF Follows
  <2>2. lost'[q] = 0
    BY <1>1, <1>3, <2>1, UnnamedIs DEF Spared
  <2> QED
    BY <1>2, <1>3, <2>1, <2>2
<1>7. Loses(c, t, s, i)
  BY <1>1, <1>4, <1>5, <1>6 DEF Follows, Loses, Spared
<1> QED
  BY <1>7, LossStepIs

\* Stacks of the same shape.
LEMMA ShapeAlike ==
    ASSUME NEW s, NEW r, NEW a, Len(r) = Len(s), \A j \in 1..Len(s) : r[j].kind = s[j].kind,
           Len(s) \in Nat, ShapeOf(s, a)
    PROVE  ShapeOf(r, a)
BY DEF ShapeOf

LEMMA IInvFacts ==
    ASSUME IInv
    PROVE  /\ SInv /\ CoreOK /\ Shape /\ Placed
           /\ Table(paths) /\ stack \in Stacks /\ SideOK
           /\ slots \in [Cells -> Tokens \cup {NoTok}]
           /\ flight \in [Threads -> Tokens \cup {NoTok}]
           /\ reg \in [Threads -> Tokens \cup {NoTok}]
           /\ at \in [Threads -> Places]
           /\ NoTok \notin Tokens /\ DOMAIN paths \subseteq Tokens
           /\ \A q \in DOMAIN paths : q \in Tokens /\ paths[q].occ \in Nat /\ paths[q].scope \in Nat
<1>1. SInv /\ CoreOK /\ Shape /\ Placed /\ SideOK
  BY DEF IInv, SInv
<1>2. Table(paths) /\ NoTok \notin Tokens
  BY <1>1 DEF CoreOK, NoTok, Tokens
<1> QED
  BY <1>1, <1>2 DEF CoreOK, Table, Rec

\* What the count of a path's holders says of one of them.
LEMMA OccAtLeast ==
    ASSUME IInv, NEW q \in DOMAIN paths
    PROVE  /\ \A c \in Cells : slots[c] = q => paths[q].occ > 0
           /\ \A t \in Threads : flight[t] = q => paths[q].occ > 0
           /\ \A s \in Threads, i \in Nat : paths[q].occ >= Tok(stack, "frame", s, i, q)
           /\ \A c \in Cells, s \in Threads, i \in Nat :
                 slots[c] = q => paths[q].occ >= 1 + Tok(stack, "frame", s, i, q)
<1>1. /\ paths[q].occ = Holders(q) + lost[q] /\ lost[q] \in Nat
      /\ q \in Tokens /\ CoreOK /\ HoldsFinite
  BY IInvFacts DEF IInv, OccIsHolds, SideOK, Bag
<1> DEFINE C == Having(slots, Cells, q)
           F == Having(flight, Threads, q)
           H == HoldsIn(stack, q)
<1>2. Holders(q) = Cardinality(C) + Cardinality(F) + Cardinality(H)
  BY HoldersAre
<1>3. IsFiniteSet(C) /\ IsFiniteSet(F) /\ IsFiniteSet(H)
  BY <1>1, ThreadsFinite, FS_Subset DEF Having, HoldsFinite
<1>4. ASSUME NEW c \in Cells, slots[c] = q PROVE C # {}
  BY <1>4 DEF Having
<1>5. ASSUME NEW t \in Threads, flight[t] = q PROVE F # {}
  BY <1>5 DEF Having
<1>6. ASSUME NEW s \in Threads, NEW i \in Nat
      PROVE  Cardinality(H) >= Tok(stack, "frame", s, i, q) /\ Tok(stack, "frame", s, i, q) \in Nat
  <2>1. stack \in Stacks /\ q \in Tokens
    BY <1>1 DEF CoreOK
  <2>2. Cardinality(HoldsIn(stack, q)) >= Tok(stack, "frame", s, i, q)
    BY <1>3, <2>1, HoldsChange
  <2> QED
    BY <2>1, <2>2, TokIsNat DEF Kinds
<1> HIDE DEF C, F, H
<1>7. Cardinality(C) \in Nat /\ Cardinality(F) \in Nat /\ Cardinality(H) \in Nat
  BY <1>3, FS_CardinalityType
<1>8. C # {} => Cardinality(C) > 0
  BY <1>3, <1>7, FS_EmptySet
<1>9. F # {} => Cardinality(F) > 0
  BY <1>3, <1>7, FS_EmptySet
<1> QED
  BY <1>1, <1>2, <1>4, <1>5, <1>6, <1>7, <1>8, <1>9

LEMMA HoldersIsNat == ASSUME IInv, NEW q \in Tokens PROVE Holders(q) \in Nat
<1>1. /\ IsFiniteSet(Having(slots, Cells, q)) /\ IsFiniteSet(Having(flight, Threads, q))
      /\ IsFiniteSet(HoldsIn(stack, q))
  BY ThreadsFinite, FS_Subset DEF Having, HoldsFinite, IInv
<1>2. /\ Cardinality(Having(slots, Cells, q)) \in Nat /\ Cardinality(Having(flight, Threads, q)) \in Nat
      /\ Cardinality(HoldsIn(stack, q)) \in Nat
  BY <1>1, FS_CardinalityType
<1> QED
  BY <1>2, HoldersAre

LEMMA NothingMoves ==
    ASSUME IInv, NEW t \in Threads, slots' = slots, flight' = flight, stack' \in Stacks, SameFrames
    PROVE  Moved(Chan, t, t, 0) /\ \A q \in Tokens : Change(Chan, t, t, 0, q) = 0
<1>2. ButFor(slots, slots', Cells, Chan) /\ ButFor(flight, flight', Threads, t)
  BY DEF ButFor
<1>3. Moved(Chan, t, t, 0)
  BY <1>2 DEF Moved, SameFrames
<1>4. ASSUME NEW q \in Tokens PROVE Change(Chan, t, t, 0, q) = 0
  <2>1. Tok(stack', "frame", t, 0, q) = 0 /\ Tok(stack, "frame", t, 0, q) = 0
    BY DEF Tok
  <2>2. One(q, slots[Chan]) \in Nat /\ One(q, flight[t]) \in Nat
    BY DEF One
  <2> QED
    BY <2>1, <2>2 DEF Change
<1> QED
  BY <1>3, <1>4

\* A step after which every path is held and listed as it was.
LEMMA QuietStep ==
    ASSUME IInv, Spared, CoreOK', Shape', Placed', NEW t \in Threads, slots' = slots, flight' = flight, SameFrames,
           DOMAIN paths' = DOMAIN paths,
           \A q \in DOMAIN paths :
              /\ paths'[q].exclusive = paths[q].exclusive
              /\ paths'[q].occ = paths[q].occ /\ paths'[q].scope = paths[q].scope
              /\ StaysOwned(q) /\ GainsNothing(q)
    PROVE  IInv' /\ Ends
<1> CutsKept
  BY DEF Spared
<1>1. Moved(Chan, t, t, 0) /\ \A q \in Tokens : Change(Chan, t, t, 0, q) = 0
  BY NothingMoves DEF CoreOK
<1>2. Follows(Chan, t, t, 0)
  <2>1. \A q \in DOMAIN paths : q \in Tokens /\ paths[q].occ \in Nat
    BY IInvFacts
  <2>2. \A q \in DOMAIN paths \cap DOMAIN paths' :
           paths'[q].occ = paths[q].occ + Change(Chan, t, t, 0, q)
    BY <1>1, <2>1
  <2> QED
    BY <1>1, <2>2 DEF Follows
<1>3. \A q \in DOMAIN paths' : /\ OwnedAt(paths', stack', reg', at', cut', q)
                               /\ ApartAt(paths', stack', flight', reg', slots', q)
  BY OwnedKept, ApartKept
<1>4. Chan \in Cells
  BY CellsApart DEF Cells
<1>5. 0 \in Nat
  OBVIOUS
<1> QED
  BY <1>1, <1>2, <1>3, <1>4, <1>5, StepIs

\* The path at hand of one thread changes at most, to one that the thread has.
LEMMA SameHands ==
    ASSUME IInv, NEW q, NEW t \in Threads, SameFrames, slots' = slots, flight' = flight,
           \A u \in Threads : u # t => reg'[u] = reg[u],
           reg'[t] = q => HasIt(stack, flight, reg, slots, t, q), q \in Tokens
    PROVE  GainsNothing(q)
<1>1. ASSUME NEW u \in Threads, HasIt(stack', flight', reg', slots', u, q)
      PROVE  HasIt(stack, flight, reg, slots, u, q)
  <2>1. CASE q = reg'[u]
    <3>1. CASE u = t
      BY <2>1, <3>1
    <3>2. CASE u # t
      BY <2>1, <3>2 DEF HasIt
    <3> QED
      BY <3>1, <3>2
  <2>2. CASE q # reg'[u]
    BY <1>1, <2>2 DEF HasIt, SameFrames
  <2> QED
    BY <2>1, <2>2
<1> QED
  BY <1>1 DEF GainsNothing

LEMMA SameStores ==
    ASSUME NEW q, SameLists, q \in Tokens,
           \A u \in Threads : at[u] = "store" => at'[u] = "store" /\ reg'[u] = reg[u]
    PROVE  StaysOwned(q)
BY DEF StaysOwned, SameLists, ListsIt

-----------------------------------------------------------------------------
(* The steps.                                                                *)

\* A thread in a body has a stack with a frame at the bottom.
LEMMA PushStep ==
    ASSUME IInv, NEW t \in Threads, NEW kind \in Kinds, Push(t, Entry(kind)),
           UNCHANGED <<paths, slots, flight, reg, at, lent, lost, cut>>,
           Runs(t), kind = "frame" => Top(t, "scope")
    PROVE  IInv' /\ Ends
<1> Spared
  BY IInvFacts DEF SideOK, Spared, CutsKept
<1>1. /\ stack \in Stacks /\ Shape /\ Placed /\ Len(stack[t]) \in Nat /\ CoreOK
  BY IInvFacts DEF Stacks
<1> DEFINE R == [stack EXCEPT ![t] = Append(@, Entry(kind))]
<1>2. Pushes(stack, R, t, kind)
  BY <1>1, PushIs
<1>3. R = stack'
  BY DEF Push
<1> HIDE DEF R
<1>4. SameLists /\ SameFrames
  BY <1>2, <1>3 DEF SameLists, SameFrames, Kinds, Pushes
<1>5. CoreOK'
  BY <1>1, <1>2, <1>3 DEF CoreOK, Pushes
<1>6. Shape'
  <2>1. ASSUME NEW u \in Threads, u # t PROVE ShapeOf(stack'[u], at'[u])
    BY <1>1, <1>2, <1>3, <2>1 DEF Shape, ShapesOf, Pushes
  <2>2. ShapeOf(R[t], at[t])
    <3>1. ShapeOf(stack[t], at[t]) /\ at[t] = "run"
      BY <1>1 DEF Shape, ShapesOf, Runs
    <3>2. kind = "frame" => Len(stack[t]) > 0 /\ stack[t][Len(stack[t])].kind = "scope"
      BY <1>1 DEF Top
    <3>3. Len(stack[t]) > 0
      BY <3>1 DEF ShapeOf
    <3>4. R[t][1].kind = "frame"
      BY <1>1, <1>2, <3>1, <3>3 DEF ShapeOf, Pushes
    <3>5. ASSUME NEW i \in 2..Len(R[t]), R[t][i].kind = "frame" PROVE R[t][i - 1].kind = "scope"
      <4>1. CASE i = Len(stack[t]) + 1
        <5>1. i - 1 = Len(stack[t]) /\ R[t][i - 1] = stack[t][i - 1]
          BY <1>1, <1>2, <3>3, <4>1 DEF Pushes
        <5> QED
          BY <1>2, <3>2, <3>5, <4>1, <5>1 DEF Pushes
      <4>2. CASE i # Len(stack[t]) + 1
        <5>1. i \in 2..Len(stack[t]) /\ i - 1 \in 1..Len(stack[t]) /\ i \in 1..Len(stack[t])
          BY <1>1, <1>2, <4>2 DEF Pushes
        <5> QED
          BY <1>2, <3>1, <3>5, <5>1 DEF ShapeOf, Pushes
      <4> QED
        BY <4>1, <4>2
    <3> QED
      BY <1>1, <1>2, <3>1, <3>4, <3>5 DEF ShapeOf, Pushes
  <2> QED
    BY <1>3, <2>1, <2>2 DEF Shape, ShapesOf
<1>7. Placed'
  <2>1. \A u \in Threads : Len(stack'[u]) = 0 => Len(stack[u]) = 0
    BY <1>1, <1>2, <1>3 DEF Pushes
  <2> QED
    BY <1>1, <2>1 DEF Placed, PlacedAt
<1>8. \A q \in DOMAIN paths : StaysOwned(q)
  BY <1>4, SameStores, IInvFacts
<1>9. \A q \in DOMAIN paths : GainsNothing(q)
  <2>1. ASSUME NEW q \in DOMAIN paths PROVE reg'[t] = q => HasIt(stack, flight, reg, slots, t, q)
    BY DEF HasIt
  <2> QED
    BY <1>4, <2>1, SameHands, IInvFacts
<1> QED
  BY <1>4, <1>5, <1>6, <1>7, <1>8, <1>9, QuietStep

LEMMA StmtPushStep == ASSUME IInv, NEW t \in Threads, StmtPush(t) PROVE IInv' /\ Ends
BY PushStep DEF StmtPush, Kinds

LEMMA FramePushStep == ASSUME IInv, NEW t \in Threads, FramePush(t) PROVE IInv' /\ Ends
BY PushStep DEF FramePush, InStatement, Kinds

LEMMA SameStack ==
    ASSUME IInv, stack' = stack
    PROVE  SameLists /\ SameFrames /\ stack' \in Stacks /\ (at' = at => Shape')
BY IInvFacts DEF SameLists, SameFrames, Shape, ShapesOf

LEMMA LoadStep == ASSUME IInv, NEW t \in Threads, Load(t) PROVE IInv' /\ Ends
<1> Spared /\ CutsKept
  BY IInvFacts DEF Load, SideOK, Spared, CutsKept
<1>1. /\ slots[Local(t)] # NoTok /\ at[t] = "run" /\ reg' = [reg EXCEPT ![t] = slots[Local(t)]]
      /\ paths' = paths /\ slots' = slots /\ stack' = stack /\ flight' = flight /\ at' = at
  BY DEF Load, InStatement, Runs
<1>2. slots[Local(t)] \in Tokens /\ reg \in [Threads -> Tokens \cup {NoTok}]
  BY <1>1, IInvFacts, CellsApart
<1>3. /\ reg' \in [Threads -> Tokens \cup {NoTok}] /\ reg'[t] = slots[Local(t)]
      /\ \A u \in Threads : u # t => reg'[u] = reg[u]
  BY <1>1, <1>2
<1>4. CoreOK'
  BY <1>1, <1>3, IInvFacts DEF CoreOK
<1>5. SameLists /\ SameFrames /\ Shape'
  BY <1>1, SameStack
<1>6. Placed'
  BY <1>1, <1>3, IInvFacts DEF Placed, PlacedAt
<1>7. \A q \in DOMAIN paths : StaysOwned(q)
  <2>1. \A u \in Threads : at[u] = "store" => at'[u] = "store" /\ reg'[u] = reg[u]
    BY <1>1, <1>3
  <2> QED
    BY <1>5, <2>1, SameStores, IInvFacts
<1>8. \A q \in DOMAIN paths : GainsNothing(q)
  <2>1. ASSUME NEW q \in DOMAIN paths PROVE reg'[t] = q => HasIt(stack, flight, reg, slots, t, q)
    BY <1>3 DEF HasIt
  <2> QED
    BY <1>1, <1>3, <1>5, <2>1, SameHands, IInvFacts
<1> QED
  BY <1>1, <1>4, <1>5, <1>6, <1>7, <1>8, QuietStep

LEMMA AccessStep == ASSUME IInv, NEW t \in Threads, NEW b, Access(t, b) PROVE IInv' /\ Ends
<1> Spared /\ CutsKept
  BY IInvFacts DEF Access, LentBy, SideOK, Spared, CutsKept
<1>1. /\ paths' = TakenOver(paths, t, b)
      /\ slots' = slots /\ stack' = stack /\ flight' = flight /\ reg' = reg /\ at' = at
  BY DEF Access
<1>2. /\ Table(paths') /\ DOMAIN paths' = DOMAIN paths
      /\ \A q \in DOMAIN paths :
            /\ paths'[q].exclusive = paths[q].exclusive
            /\ paths'[q].occ = paths[q].occ /\ paths'[q].scope = paths[q].scope
  BY <1>1, TakenOverIs, IInvFacts
<1>4. CoreOK'
  BY <1>1, <1>2, IInvFacts DEF CoreOK
<1>5. SameLists /\ SameFrames /\ Shape'
  BY <1>1, SameStack
<1>6. Placed'
  BY <1>1, IInvFacts DEF Placed, PlacedAt
<1>7. \A q \in DOMAIN paths : StaysOwned(q)
  BY <1>1, <1>5, SameStores, IInvFacts
<1>8. \A q \in DOMAIN paths : GainsNothing(q)
  <2>1. ASSUME NEW q \in DOMAIN paths PROVE reg'[t] = q => HasIt(stack, flight, reg, slots, t, q)
    BY <1>1 DEF HasIt
  <2> QED
    BY <1>1, <1>5, <2>1, SameHands, IInvFacts
<1> QED
  BY <1>1, <1>2, <1>4, <1>5, <1>6, <1>7, <1>8, QuietStep

\* A cell given another path, or none.
LEMMA DropIsStore ==
    ASSUME IInv, NEW old \in Tokens \cup {NoTok}
    PROVE  drop_occ(paths, old) = store_ref(paths, old, NoTok)
<1>1. DOMAIN drop_occ(paths, old) \subseteq DOMAIN paths
  BY IInvFacts DEF drop_occ, LetGo, retire_token
<1>2. NoTok \notin DOMAIN paths
  BY IInvFacts
<1>3. Held(drop_occ(paths, old), NoTok) = drop_occ(paths, old)
  BY <1>1, <1>2 DEF Held
<1>4. old = NoTok => drop_occ(paths, old) = paths
  BY <1>2 DEF drop_occ
<1> QED
  BY <1>3, <1>4 DEF store_ref

\* A cell is given `p`: the path it had loses a hold, and ends if that was the local.
Given(c, t, p) ==
    /\ Table(paths') /\ DOMAIN paths' \subseteq DOMAIN paths
    /\ slots' \in [Cells -> Tokens \cup {NoTok}]
    /\ Follows(c, t, t, 0)
    /\ \A q \in DOMAIN paths' :
          /\ paths'[q].exclusive = paths[q].exclusive /\ paths'[q].scope = paths[q].scope
          /\ paths[q].occ > 0 => paths'[q].occ > 0 \/ paths[q].scope # None
          /\ q = p => paths'[q].occ > 0

LEMMA CellFollows ==
    ASSUME IInv, NEW t \in Threads, NEW c \in Cells, NEW p \in Tokens \cup {NoTok},
           paths' = store_ref(paths, slots[c], p), slots' = [slots EXCEPT ![c] = p],
           flight' = flight, SameFrames
    PROVE  Given(c, t, p)
<1> DEFINE old == slots[c]
           Q == store_ref(paths, old, p)
<1>1. old \in DOMAIN paths => paths[old].occ > 0
  BY OccAtLeast
<1>2. Table(paths) /\ \A q \in DOMAIN paths : q \in Tokens /\ paths[q].occ \in Nat
  BY IInvFacts
<1>3. paths' = Q
  OBVIOUS
<1> HIDE DEF old
<1>4. /\ Table(Q) /\ DOMAIN Q \subseteq DOMAIN paths
      /\ \A q \in DOMAIN Q :
            /\ Q[q].exclusive = paths[q].exclusive /\ Q[q].scope = paths[q].scope
            /\ Q[q].occ = paths[q].occ + (IF q = p THEN 1 ELSE 0) - (IF q = old THEN 1 ELSE 0)
            /\ q = old /\ q # p => Q[q].occ > 0 \/ paths[q].scope # None
      /\ \A q \in DOMAIN paths \ DOMAIN Q :
            q = old /\ q # p /\ paths[q].occ = 1 /\ paths[q].scope = None
  BY <1>1, <1>2, StoreIs
<1> HIDE DEF Q
<1>5. slots' \in [Cells -> Tokens \cup {NoTok}] /\ slots'[c] = p /\ Moved(c, t, t, 0)
  <2>1. slots' \in [Cells -> Tokens \cup {NoTok}] /\ slots'[c] = p /\ ButFor(slots, slots', Cells, c)
    BY IInvFacts DEF ButFor
  <2>2. ButFor(flight, flight', Threads, t)
    BY DEF ButFor
  <2> QED
    BY <2>1, <2>2 DEF Moved, SameFrames
<1>6. ASSUME NEW q \in Tokens PROVE Change(c, t, t, 0, q) = One(q, p) - One(q, old)
  <2>1. Tok(stack', "frame", t, 0, q) = 0 /\ Tok(stack, "frame", t, 0, q) = 0
    BY DEF Tok
  <2>2. One(q, p) \in Nat /\ One(q, old) \in Nat /\ One(q, flight[t]) \in Nat
    BY DEF One
  <2> QED
    BY <1>5, <2>1, <2>2 DEF Change, old
<1>7. ASSUME NEW q \in DOMAIN Q PROVE Q[q].occ = paths[q].occ + Change(c, t, t, 0, q)
  <2>1. Change(c, t, t, 0, q) = One(q, p) - One(q, old) /\ paths[q].occ \in Nat
    BY <1>2, <1>4, <1>6
  <2>2. Q[q].occ = paths[q].occ + (IF q = p THEN 1 ELSE 0) - (IF q = old THEN 1 ELSE 0)
    BY <1>4
  <2> QED
    BY <2>1, <2>2 DEF One
<1>8. ASSUME NEW q \in DOMAIN paths \ DOMAIN Q
      PROVE  paths[q].occ + Change(c, t, t, 0, q) = 0 /\ paths[q].scope = None
  <2>1. Change(c, t, t, 0, q) = One(q, p) - One(q, old)
    BY <1>2, <1>6
  <2>2. q = old /\ q # p /\ paths[q].occ = 1 /\ paths[q].scope = None
    BY <1>4
  <2> QED
    BY <2>1, <2>2 DEF One
<1>9. Follows(c, t, t, 0)
  <2>1. DOMAIN paths' \ DOMAIN paths = {}
    BY <1>3, <1>4
  <2> QED
    BY <1>3, <1>5, <1>7, <1>8, <2>1 DEF Follows
<1>10. ASSUME NEW q \in DOMAIN Q
       PROVE  /\ paths[q].occ > 0 => Q[q].occ > 0 \/ paths[q].scope # None
              /\ q = p => Q[q].occ > 0
  <2>1. /\ Q[q].occ = paths[q].occ + (IF q = p THEN 1 ELSE 0) - (IF q = old THEN 1 ELSE 0)
        /\ q = old /\ q # p => Q[q].occ > 0 \/ paths[q].scope # None
        /\ paths[q].occ \in Nat
        /\ q = old => paths[q].occ > 0
    BY <1>1, <1>2, <1>4
  <2> QED
    BY <2>1
<1> QED
  BY <1>3, <1>4, <1>5, <1>9, <1>10 DEF Given

LEMMA CellGains ==
    ASSUME IInv, NEW t \in Threads, NEW c \in {Local(t), Arg(t), Res(t)}, NEW p, NEW q \in Tokens,
           slots' = [slots EXCEPT ![c] = p], flight' = flight, SameFrames,
           \A u \in Threads : reg'[u] \in {reg[u], NoTok},
           p = q => HasIt(stack, flight, reg, slots, t, q)
    PROVE  GainsNothing(q)
<1>1. /\ slots \in [Cells -> Tokens \cup {NoTok}] /\ q # NoTok
      /\ c \in Cells /\ c # Chan /\ Chan \in Cells
  BY IInvFacts, CellsApart
<1>2. slots'[Chan] = slots[Chan]
  BY <1>1
<1>3. ASSUME NEW u \in Threads, NEW d \in {Local(u), Arg(u), Res(u)}, slots'[d] = q
      PROVE  HasIt(stack, flight, reg, slots, u, q)
  <2>1. CASE d = c
    <3>1. u = t
      BY <1>3, <2>1, CellsApart
    <3>2. slots'[c] = p
      BY <1>1
    <3> QED
      BY <1>3, <2>1, <3>1, <3>2
  <2>2. CASE d # c
    <3>1. slots[d] = q
      BY <1>1, <1>3, <2>2, CellsApart
    <3> QED
      BY <1>3, <3>1 DEF HasIt
  <2> QED
    BY <2>1, <2>2
<1>4. ASSUME NEW u \in Threads, HasIt(stack', flight', reg', slots', u, q)
      PROVE  HasIt(stack, flight, reg, slots, u, q)
  <2>1. CASE q \in {slots'[Local(u)], slots'[Arg(u)], slots'[Res(u)]}
    BY <1>3, <2>1
  <2>2. CASE q = reg'[u]
    BY <1>1, <2>2 DEF HasIt
  <2>3. CASE q = flight'[u] \/ \E j \in Nat : Tok(stack', "frame", u, j, q) > 0
    BY <2>3 DEF HasIt, SameFrames
  <2> QED
    BY <1>4, <2>1, <2>2, <2>3 DEF HasIt
<1> QED
  BY <1>2, <1>4 DEF GainsNothing

\* A step that gives one of a thread's cells the path at hand, or none.
LEMMA CellStep ==
    ASSUME IInv, Spared, NEW t \in Threads, NEW c \in {Local(t), Arg(t), Res(t)}, NEW p \in {reg[t], NoTok},
           paths' = store_ref(paths, slots[c], p), slots' = [slots EXCEPT ![c] = p],
           flight' = flight, stack' = stack, at' \in [Threads -> Places],
           reg' = reg \/ reg' = [reg EXCEPT ![t] = NoTok],
           Shape', Placed',
           \A u \in Threads : at[u] = "store" =>
              (at'[u] = "store" /\ reg'[u] = reg[u]) \/ (u = t /\ p = reg[t])
    PROVE  IInv' /\ Ends
<1> CutsKept
  BY DEF Spared
<1>1. /\ c \in Cells /\ p \in Tokens \cup {NoTok} /\ SameLists /\ SameFrames /\ 0 \in Nat
      /\ stack' \in Stacks
  BY IInvFacts, CellsApart, SameStack
<1>2. Given(c, t, p)
  BY <1>1, CellFollows
<1>3. /\ reg' \in [Threads -> Tokens \cup {NoTok}]
      /\ \A u \in Threads : reg'[u] \in {reg[u], NoTok} /\ (u # t => reg'[u] = reg[u])
  BY IInvFacts
<1>4. CoreOK'
  BY <1>1, <1>2, <1>3, IInvFacts DEF CoreOK, Given
<1>5. ASSUME NEW q \in DOMAIN paths' PROVE OwnedAt(paths', stack', reg', at', cut', q)
  <2>1. CASE q = p
    <3>1. OwnedAt(paths, stack, reg, at, cut, q) /\ q \in Tokens
      BY <1>2, IInvFacts DEF IInv, Owned, Given
    <3> QED
      BY <1>2, <2>1, <3>1 DEF OwnedAt, Given, CutsKept
  <2>2. CASE q # p
    <3>1. \A u \in Threads : at[u] = "store" /\ reg[u] = q => at'[u] = "store" /\ reg'[u] = q
      BY <2>2
    <3>2. StaysOwned(q)
      BY <3>1 DEF StaysOwned
    <3>3. q \in DOMAIN paths
      BY <1>2 DEF Given
    <3> QED
      BY <1>2, <1>4, <3>2, <3>3, OwnedKept DEF Given
  <2> QED
    BY <2>1, <2>2
<1>6. ASSUME NEW q \in DOMAIN paths' PROVE ApartAt(paths', stack', flight', reg', slots', q)
  <2>1. q \in DOMAIN paths /\ q \in Tokens /\ q # NoTok
    BY <1>2, IInvFacts DEF Given
  <2>2. p = q => HasIt(stack, flight, reg, slots, t, q)
    BY <2>1 DEF HasIt
  <2>3. GainsNothing(q)
    BY <1>1, <1>3, <2>1, <2>2, CellGains
  <2> QED
    BY <1>2, <2>1, <2>3, ApartKept DEF Given
<1> QED
  BY <1>1, <1>2, <1>4, <1>5, <1>6, StepIs DEF Given

LEMMA StoreStep == ASSUME IInv, NEW t \in Threads, Store(t) PROVE IInv' /\ Ends
<1> Spared /\ CutsKept
  BY IInvFacts DEF Store, SideOK, Spared, CutsKept
<1>1. /\ at[t] = "run" /\ paths' = store_ref(paths, slots[Local(t)], reg[t])
      /\ slots' = [slots EXCEPT ![Local(t)] = reg[t]] /\ reg' = [reg EXCEPT ![t] = NoTok]
      /\ stack' = stack /\ flight' = flight /\ at' = at /\ stack[t] # <<>>
  BY DEF Store, InStatement, Runs, Top
<1>2. Shape' /\ at' \in [Threads -> Places]
  BY <1>1, SameStack, IInvFacts
<1>3. Len(stack[t]) # 0
  BY <1>1, IInvFacts DEF Stacks
<1>4. Placed'
  <2>1. ASSUME NEW u \in Threads
        PROVE  /\ slots'[Arg(u)] = slots[Arg(u)] /\ slots'[Res(u)] = slots[Res(u)]
               /\ u # t => slots'[Local(u)] = slots[Local(u)]
               /\ reg[u] = NoTok => reg'[u] = NoTok
    BY <1>1, IInvFacts, CellsApart
  <2>2. ASSUME NEW u \in Threads PROVE PlacedAt(u)'
    <3>1. PlacedAt(u)
      BY IInvFacts DEF Placed
    <3> QED
      BY <1>1, <1>3, <2>1, <3>1 DEF PlacedAt
  <2> QED
    BY <2>2 DEF Placed
<1>5. \A u \in Threads : at[u] = "store" =>
         (at'[u] = "store" /\ reg'[u] = reg[u]) \/ (u = t /\ reg[t] = reg[t])
  BY <1>1, IInvFacts
<1>6. reg[t] \in {reg[t], NoTok} /\ Local(t) \in {Local(t), Arg(t), Res(t)}
  OBVIOUS
<1> QED
  BY <1>1, <1>2, <1>4, <1>5, <1>6, CellStep

LEMMA LocalEndsStep == ASSUME IInv, NEW t \in Threads, LocalEnds(t) PROVE IInv' /\ Ends
<1> Spared /\ CutsKept
  BY IInvFacts DEF LocalEnds, SideOK, Spared, CutsKept
<1>1. /\ at[t] = "run" /\ paths' = drop_occ(paths, slots[Local(t)])
      /\ slots' = [slots EXCEPT ![Local(t)] = NoTok] /\ reg' = reg
      /\ stack' = stack /\ flight' = flight /\ at' = at
  BY DEF LocalEnds, Runs
<1>2. Shape' /\ at' \in [Threads -> Places]
  BY <1>1, SameStack, IInvFacts
<1>3. paths' = store_ref(paths, slots[Local(t)], NoTok)
  BY <1>1, DropIsStore, IInvFacts, CellsApart
<1>4. Placed'
  <2>1. ASSUME NEW u \in Threads
        PROVE  /\ slots'[Arg(u)] = slots[Arg(u)] /\ slots'[Res(u)] = slots[Res(u)]
               /\ slots'[Local(u)] \in {slots[Local(u)], NoTok}
    BY <1>1, IInvFacts, CellsApart
  <2>2. ASSUME NEW u \in Threads PROVE PlacedAt(u)'
    <3>1. PlacedAt(u)
      BY IInvFacts DEF Placed
    <3> QED
      BY <1>1, <2>1, <3>1 DEF PlacedAt
  <2> QED
    BY <2>2 DEF Placed
<1>5. \A u \in Threads : at[u] = "store" =>
         (at'[u] = "store" /\ reg'[u] = reg[u]) \/ (u = t /\ NoTok = reg[t])
  BY <1>1
<1>6. NoTok \in {reg[t], NoTok} /\ Local(t) \in {Local(t), Arg(t), Res(t)}
  OBVIOUS
<1> QED
  BY <1>1, <1>2, <1>3, <1>4, <1>5, <1>6, CellStep

LEMMA StoreResultStep == ASSUME IInv, NEW t \in Threads, StoreResult(t) PROVE IInv' /\ Ends
<1> Spared /\ CutsKept
  BY IInvFacts DEF StoreResult, SideOK, Spared, CutsKept
<1>1. /\ at[t] = "store" /\ paths' = store_ref(paths, slots[Res(t)], reg[t])
      /\ slots' = [slots EXCEPT ![Res(t)] = reg[t]] /\ reg' = [reg EXCEPT ![t] = NoTok]
      /\ stack' = stack /\ flight' = flight /\ at' = [at EXCEPT ![t] = "forget"]
  BY DEF StoreResult
<1>2. /\ at' \in [Threads -> Places] /\ at'[t] = "forget"
      /\ \A u \in Threads : u # t => at'[u] = at[u]
  BY <1>1, IInvFacts DEF Places
<1>3. Shape'
  <2>1. \A u \in Threads : ShapeOf(stack[u], at[u])
    BY IInvFacts DEF Shape, ShapesOf
  <2>2. \A u \in Threads : ShapeOf(stack[u], at'[u])
    BY <1>1, <1>2, <2>1 DEF ShapeOf
  <2> QED
    BY <1>1, <2>2 DEF Shape, ShapesOf
<1>4. Placed'
  <2>1. ASSUME NEW u \in Threads
        PROVE  /\ slots'[Arg(u)] = slots[Arg(u)] /\ slots'[Local(u)] = slots[Local(u)]
               /\ u # t => slots'[Res(u)] = slots[Res(u)]
               /\ reg[u] = NoTok => reg'[u] = NoTok
    BY <1>1, IInvFacts, CellsApart
  <2>2. ASSUME NEW u \in Threads PROVE PlacedAt(u)'
    <3>1. PlacedAt(u)
      BY IInvFacts DEF Placed
    <3>2. CASE u = t
      BY <1>1, <1>2, <2>1, <3>1, <3>2 DEF PlacedAt
    <3>3. CASE u # t
      BY <1>1, <1>2, <2>1, <3>1, <3>3 DEF PlacedAt
    <3> QED
      BY <3>2, <3>3
  <2> QED
    BY <2>2 DEF Placed
<1>5. \A u \in Threads : at[u] = "store" =>
         (at'[u] = "store" /\ reg'[u] = reg[u]) \/ (u = t /\ reg[t] = reg[t])
  BY <1>1, <1>2, IInvFacts
<1>6. reg[t] \in {reg[t], NoTok} /\ Res(t) \in {Local(t), Arg(t), Res(t)}
  OBVIOUS
<1> QED
  BY <1>1, <1>2, <1>3, <1>4, <1>5, <1>6, CellStep

LEMMA EnvForgetStep == ASSUME IInv, NEW t \in Threads, EnvForget(t) PROVE IInv' /\ Ends
<1> Spared /\ CutsKept
  BY IInvFacts DEF EnvForget, SideOK, Spared, CutsKept
<1>1. /\ at[t] = "forget" /\ paths' = drop_occ(paths, slots[Arg(t)])
      /\ slots' = [slots EXCEPT ![Arg(t)] = NoTok] /\ reg' = [reg EXCEPT ![t] = NoTok]
      /\ stack' = stack /\ flight' = flight /\ at' = [at EXCEPT ![t] = "ended"]
  BY DEF EnvForget
<1>2. /\ at' \in [Threads -> Places] /\ at'[t] = "ended"
      /\ \A u \in Threads : u # t => at'[u] = at[u]
  BY <1>1, IInvFacts DEF Places
<1>3. Shape'
  <2>1. \A u \in Threads : ShapeOf(stack[u], at[u])
    BY IInvFacts DEF Shape, ShapesOf
  <2>2. \A u \in Threads : ShapeOf(stack[u], at'[u])
    BY <1>1, <1>2, <2>1 DEF ShapeOf
  <2> QED
    BY <1>1, <2>2 DEF Shape, ShapesOf
<1>4. paths' = store_ref(paths, slots[Arg(t)], NoTok)
  BY <1>1, DropIsStore, IInvFacts, CellsApart
<1>5. Placed'
  <2>1. ASSUME NEW u \in Threads
        PROVE  /\ slots'[Local(u)] = slots[Local(u)] /\ slots'[Arg(u)] \in {slots[Arg(u)], NoTok}
               /\ u = t => slots'[Arg(u)] = NoTok
    BY <1>1, IInvFacts, CellsApart
  <2>2. reg'[t] = NoTok /\ \A u \in Threads : reg[u] = NoTok => reg'[u] = NoTok
    BY <1>1, IInvFacts
  <2>3. Placed
    BY IInvFacts
  <2> QED
    BY <1>1, <1>2, <2>1, <2>2, <2>3 DEF Placed, PlacedAt
<1>6. \A u \in Threads : at[u] = "store" =>
         (at'[u] = "store" /\ reg'[u] = reg[u]) \/ (u = t /\ NoTok = reg[t])
  BY <1>1, <1>2, IInvFacts
<1>7. NoTok \in {reg[t], NoTok} /\ Arg(t) \in {Local(t), Arg(t), Res(t)}
  OBVIOUS
<1> QED
  BY <1>1, <1>2, <1>3, <1>4, <1>5, <1>6, <1>7, CellStep

\* One frame's count of one path, set.
SetsHold(t, i, p, n) ==
    /\ stack' \in Stacks /\ SameLists /\ i \in Nat /\ Moved(Chan, t, t, i)
    /\ \A u \in Threads : Len(stack'[u]) = Len(stack[u])
    /\ \A a \in [Threads -> Places], u \in Threads : ShapeOf(stack[u], a[u]) => ShapeOf(stack'[u], a[u])
    /\ \A u \in Threads, j \in Nat, q \in Tokens :
          ~(u = t /\ j = i /\ q = p) => Tok(stack', "frame", u, j, q) = Tok(stack, "frame", u, j, q)
    /\ Tok(stack', "frame", t, i, p) = n
    /\ Tok(stack, "frame", t, i, p) = stack[t][i].toks[p]
    /\ \A q \in Tokens : Change(Chan, t, t, i, q) = IF q = p THEN n - Tok(stack, "frame", t, i, p) ELSE 0

LEMMA HoldSet ==
    ASSUME IInv, NEW t \in Threads, NEW i \in 1..Len(stack[t]), stack[t][i].kind = "frame",
           NEW p \in Tokens, NEW n \in Nat, stack' = SetTok(stack, t, i, p, n),
           slots' = slots, flight' = flight
    PROVE  SetsHold(t, i, p, n)
<1> DEFINE R == SetTok(stack, t, i, p, n)
<1>1. stack \in Stacks /\ Len(stack[t]) \in Nat
  BY IInvFacts DEF Stacks
<1>2. SetsTok(stack, R, t, i, p, n)
  BY <1>1, SetTokIs
<1>3. R = stack' /\ i \in Nat
  BY <1>1
<1> HIDE DEF R
<1>4. /\ SameLists
      /\ \A u \in Threads, j \in Nat, q \in Tokens :
            ~(u = t /\ j = i /\ q = p) => Tok(stack', "frame", u, j, q) = Tok(stack, "frame", u, j, q)
      /\ Tok(stack', "frame", t, i, p) = n
  BY <1>2, <1>3 DEF SetsTok, SameLists, Kinds
<1>5. Moved(Chan, t, t, i)
  BY <1>4 DEF Moved, ButFor
<1>6. ASSUME NEW a \in [Threads -> Places], NEW u \in Threads, ShapeOf(stack[u], a[u])
      PROVE  ShapeOf(stack'[u], a[u])
  <2>1. Len(stack[u]) \in Nat
    BY <1>1 DEF Stacks
  <2>2. Len(R[u]) = Len(stack[u]) /\ \A j \in 1..Len(stack[u]) : R[u][j].kind = stack[u][j].kind
    BY <1>2 DEF SetsTok
  <2>3. ShapeOf(R[u], a[u])
    BY <1>6, <2>1, <2>2, ShapeAlike
  <2> QED
    BY <1>3, <2>3
<1>7. Tok(stack, "frame", t, i, p) = stack[t][i].toks[p]
  BY DEF Tok
<1>8. ASSUME NEW q \in Tokens
      PROVE  Change(Chan, t, t, i, q) = IF q = p THEN n - Tok(stack, "frame", t, i, p) ELSE 0
  <2>1. Tok(stack', "frame", t, i, q) = IF q = p THEN n ELSE Tok(stack, "frame", t, i, q)
    BY <1>3, <1>4
  <2>2. Tok(stack, "frame", t, i, q) \in Nat
    BY <1>1, <1>3, TokIsNat DEF Kinds
  <2>3. One(q, slots[Chan]) \in Nat /\ One(q, flight[t]) \in Nat
    BY DEF One
  <2> QED
    BY <2>1, <2>2, <2>3 DEF Change
<1> QED
  BY <1>2, <1>3, <1>4, <1>5, <1>6, <1>7, <1>8 DEF SetsTok, SetsHold

LEMMA FrameHoldStep == ASSUME IInv, NEW t \in Threads, FrameHold(t) PROVE IInv' /\ Ends
<1> Spared /\ CutsKept
  BY IInvFacts DEF FrameHold, SideOK, Spared, CutsKept
<1> DEFINE p == reg[t]
           i == top_frame(t)
<1>1. /\ at[t] = "run" /\ p \in DOMAIN paths /\ stack[t][i].toks[p] = 0
      /\ paths' = Held(paths, p) /\ stack' = [stack EXCEPT ![t][i].toks[p] = @ + 1]
      /\ reg' = [reg EXCEPT ![t] = NoTok] /\ slots' = slots /\ flight' = flight /\ at' = at
  BY DEF FrameHold, Runs
<1>2. p \in Tokens /\ Shape /\ Placed /\ Table(paths) /\ SInv
  BY <1>1, IInvFacts
<1>3. i \in 1..Len(stack[t]) /\ stack[t][i].kind = "frame"
  <2>1. stack[t] # <<>>
    BY <1>1, <1>2 DEF Shape, ShapesOf, ShapeOf
  <2> QED
    BY <1>2, <2>1, PositionsAre
<1>4. stack' = SetTok(stack, t, i, p, 1)
  BY <1>1 DEF SetTok
<1>5. /\ \A u \in Threads : u # t => reg'[u] = reg[u]
      /\ reg' \in [Threads -> Tokens \cup {NoTok}] /\ reg'[t] = NoTok
  BY <1>1, IInvFacts
<1> HIDE DEF i
<1>6. HasIt(stack, flight, reg, slots, t, p)
  BY DEF HasIt
<1> HIDE DEF p
<1> SetsHold(t, i, p, 1)
  BY <1>1, <1>2, <1>3, <1>4, HoldSet
<1>7. /\ stack' \in Stacks /\ SameLists /\ i \in Nat /\ Moved(Chan, t, t, i)
      /\ \A u \in Threads : Len(stack'[u]) = Len(stack[u])
      /\ \A a \in [Threads -> Places], u \in Threads : ShapeOf(stack[u], a[u]) => ShapeOf(stack'[u], a[u])
      /\ \A u \in Threads, j \in Nat, q \in Tokens :
            ~(u = t /\ j = i /\ q = p) => Tok(stack', "frame", u, j, q) = Tok(stack, "frame", u, j, q)
      /\ Tok(stack, "frame", t, i, p) = stack[t][i].toks[p]
      /\ \A q \in Tokens : Change(Chan, t, t, i, q) = IF q = p THEN 1 - Tok(stack, "frame", t, i, p) ELSE 0
  BY DEF SetsHold
<1>8. /\ Table(paths') /\ DOMAIN paths' = DOMAIN paths
      /\ \A q \in DOMAIN paths :
            /\ paths'[q].exclusive = paths[q].exclusive
            /\ paths'[q].scope = paths[q].scope
            /\ paths'[q].occ = paths[q].occ + (IF q = p THEN 1 ELSE 0)
  BY <1>1, <1>2, HeldIs
<1>9. CoreOK'
  BY <1>1, <1>5, <1>7, <1>8, IInvFacts DEF CoreOK
<1>10. Shape' /\ Placed'
  <2>1. Shape'
    BY <1>1, <1>2, <1>7, IInvFacts DEF Shape, ShapesOf
  <2>2. Placed'
    BY <1>1, <1>2, <1>5, <1>7 DEF Placed, PlacedAt
  <2> QED
    BY <2>1, <2>2
<1>11. Follows(Chan, t, t, i)
  <2>1. ASSUME NEW q \in DOMAIN paths PROVE paths'[q].occ = paths[q].occ + Change(Chan, t, t, i, q)
    <3>1. Change(Chan, t, t, i, q) = IF q = p THEN 1 ELSE 0
      BY <1>1, <1>7, IInvFacts
    <3> QED
      BY <1>8, <3>1
  <2> QED
    BY <1>7, <1>8, <2>1 DEF Follows
<1>12. ASSUME NEW q \in DOMAIN paths' PROVE OwnedAt(paths', stack', reg', at', cut', q)
  <2>1. q \in DOMAIN paths /\ q \in Tokens /\ paths[q].occ \in Nat
    BY <1>8, IInvFacts
  <2>2. StaysOwned(q)
    BY <1>1, <1>5, <1>7, <2>1, SameStores
  <2>3. paths'[q].scope = paths[q].scope /\ (paths[q].occ > 0 => paths'[q].occ > 0)
    BY <1>8, <2>1
  <2> QED
    BY <1>9, <2>1, <2>2, <2>3, OwnedKept
<1>13. ASSUME NEW q \in DOMAIN paths' PROVE ApartAt(paths', stack', flight', reg', slots', q)
  <2>1. q \in DOMAIN paths /\ q \in Tokens /\ q # NoTok
    BY <1>8, IInvFacts
  <2>2. ASSUME NEW u \in Threads, HasIt(stack', flight', reg', slots', u, q)
        PROVE  HasIt(stack, flight, reg, slots, u, q)
    <3>1. CASE u = t /\ q = p
      BY <1>6, <3>1
    <3>2. CASE ~(u = t /\ q = p)
      <4>1. \A j \in Nat : Tok(stack', "frame", u, j, q) = Tok(stack, "frame", u, j, q)
        BY <1>7, <2>1, <3>2
      <4>2. reg'[u] = reg[u] \/ reg'[u] # q
        BY <1>5, <2>1
      <4> QED
        BY <1>1, <2>2, <4>1, <4>2 DEF HasIt
    <3> QED
      BY <3>1, <3>2
  <2>3. GainsNothing(q)
    BY <1>1, <2>2 DEF GainsNothing
  <2> QED
    BY <1>8, <2>1, <2>3, ApartKept
<1> QED
  <2>1. Chan \in Cells
    BY CellsApart DEF Cells
  <2> QED
    BY <1>7, <1>9, <1>10, <1>11, <1>12, <1>13, <2>1, StepIs

LEMMA FrameUnholdStep ==
    ASSUME IInv, NEW t \in Threads, NEW p \in Tokens, FrameUnhold(t, p) PROVE IInv' /\ Ends
<1> Spared /\ CutsKept
  BY IInvFacts DEF FrameUnhold, SideOK, Spared, CutsKept
<1> DEFINE F == {j \in Positions(t, "frame") : stack[t][j].toks[p] > 0}
           i == Highest(F)
           n == stack[t][i].toks[p] - 1
<1>1. /\ at[t] = "run" /\ i # None
      /\ paths' = drop_occ(paths, p) /\ stack' = [stack EXCEPT ![t][i].toks[p] = @ - 1]
      /\ reg' = reg /\ slots' = slots /\ flight' = flight /\ at' = at
  BY DEF FrameUnhold, Runs
<1>2. Shape /\ Placed /\ Table(paths) /\ SInv /\ stack \in Stacks
  BY <1>1, IInvFacts
<1>3. i \in 1..Len(stack[t]) /\ stack[t][i].kind = "frame" /\ stack[t][i].toks[p] > 0
  <2>1. F \in SUBSET (1..Len(stack[t])) /\ Len(stack[t]) \in Nat
    BY <1>2, PositionsAre DEF Positions
  <2>2. \A j \in F : j \in 1..Len(stack[t]) /\ stack[t][j].kind = "frame" /\ stack[t][j].toks[p] > 0
    BY DEF Positions
  <2> HIDE DEF F
  <2>3. F # {} => Highest(F) \in F
    BY <2>1, HighestIs
  <2>4. F = {} => Highest(F) = None
    BY <2>1, HighestIs
  <2> QED
    BY <1>1, <2>2, <2>3, <2>4
<1>4. stack' = SetTok(stack, t, i, p, n)
  BY <1>1 DEF SetTok
<1> HIDE DEF F, i
<1>5. n \in Nat /\ stack[t][i].toks[p] = n + 1
  <2>1. stack[t][i] \in Item
    BY <1>2, <1>3 DEF Stacks
  <2> QED
    BY <1>3, <2>1 DEF Item, Bag
<1> HIDE DEF n
<1> SetsHold(t, i, p, n)
  BY <1>1, <1>2, <1>3, <1>4, <1>5, HoldSet
<1>7. /\ stack' \in Stacks /\ SameLists /\ i \in Nat /\ Moved(Chan, t, t, i)
      /\ \A u \in Threads : Len(stack'[u]) = Len(stack[u])
      /\ \A a \in [Threads -> Places], u \in Threads : ShapeOf(stack[u], a[u]) => ShapeOf(stack'[u], a[u])
      /\ \A u \in Threads, j \in Nat, q \in Tokens :
            ~(u = t /\ j = i /\ q = p) => Tok(stack', "frame", u, j, q) = Tok(stack, "frame", u, j, q)
      /\ Tok(stack, "frame", t, i, p) = stack[t][i].toks[p]
      /\ \A q \in Tokens : Change(Chan, t, t, i, q) = IF q = p THEN n - Tok(stack, "frame", t, i, p) ELSE 0
  BY DEF SetsHold
<1>6. Tok(stack, "frame", t, i, p) = n + 1 /\ \A q \in Tokens : Change(Chan, t, t, i, q) = IF q = p THEN -1 ELSE 0
  BY <1>5, <1>7
<1>8. /\ Table(paths') /\ DOMAIN paths' \subseteq DOMAIN paths
      /\ \A q \in DOMAIN paths' :
            /\ paths'[q].exclusive = paths[q].exclusive
            /\ paths'[q].scope = paths[q].scope
            /\ paths'[q].occ = paths[q].occ - (IF q = p THEN 1 ELSE 0)
            /\ q = p => paths'[q].occ > 0 \/ paths[q].scope # None
      /\ \A q \in DOMAIN paths \ DOMAIN paths' : q = p /\ paths[q].occ = 1 /\ paths[q].scope = None
  <2> DEFINE Q == drop_occ(paths, p)
  <2>1. p \in DOMAIN paths => paths[p].occ > 0
    <3>1. ASSUME p \in DOMAIN paths PROVE paths[p].occ >= Tok(stack, "frame", t, i, p)
      BY <1>7, <3>1, OccAtLeast
    <3> QED
      BY <1>5, <1>6, <3>1, IInvFacts
  <2>2. /\ Table(drop_occ(paths, p)) /\ DOMAIN drop_occ(paths, p) \subseteq DOMAIN paths
        /\ \A q \in DOMAIN drop_occ(paths, p) :
              /\ drop_occ(paths, p)[q].exclusive = paths[q].exclusive
              /\ drop_occ(paths, p)[q].scope = paths[q].scope
              /\ drop_occ(paths, p)[q].occ = paths[q].occ - (IF q = p THEN 1 ELSE 0)
              /\ q = p => drop_occ(paths, p)[q].occ > 0 \/ paths[q].scope # None
        /\ \A q \in DOMAIN paths \ DOMAIN drop_occ(paths, p) :
              q = p /\ paths[q].occ = 1 /\ paths[q].scope = None
    BY <1>2, <2>1, DropIs
  <2> QED
    BY <1>1, <2>2
<1>9. CoreOK'
  BY <1>1, <1>7, <1>8, IInvFacts DEF CoreOK
<1>10. Shape' /\ Placed'
  <2>1. Shape'
    BY <1>1, <1>2, <1>7, IInvFacts DEF Shape, ShapesOf
  <2>2. Placed'
    BY <1>1, <1>2, <1>7 DEF Placed, PlacedAt
  <2> QED
    BY <2>1, <2>2
<1>11. Follows(Chan, t, t, i)
  <2>1. ASSUME NEW q \in DOMAIN paths' PROVE paths'[q].occ = paths[q].occ + Change(Chan, t, t, i, q)
    <3>1. Change(Chan, t, t, i, q) = (IF q = p THEN -1 ELSE 0) /\ paths[q].occ \in Nat
      BY <1>6, <1>8, IInvFacts
    <3> QED
      BY <1>8, <3>1
  <2>2. ASSUME NEW q \in DOMAIN paths \ DOMAIN paths'
        PROVE  paths[q].occ + Change(Chan, t, t, i, q) = 0 /\ paths[q].scope = None
    BY <1>6, <1>8, IInvFacts
  <2>3. DOMAIN paths' \ DOMAIN paths = {}
    BY <1>8
  <2> QED
    BY <1>7, <2>1, <2>2, <2>3 DEF Follows
<1>12. ASSUME NEW q \in DOMAIN paths' PROVE OwnedAt(paths', stack', reg', at', cut', q)
  <2>1. q \in DOMAIN paths /\ q \in Tokens /\ paths[q].occ \in Nat
    BY <1>8, IInvFacts
  <2>2. StaysOwned(q)
    BY <1>1, <1>7, <2>1, SameStores
  <2>3. paths'[q].scope = paths[q].scope /\ (paths[q].occ > 0 => paths'[q].occ > 0 \/ paths[q].scope # None)
    BY <1>8, <2>1
  <2> QED
    BY <1>9, <2>1, <2>2, <2>3, OwnedKept
<1>13. ASSUME NEW q \in DOMAIN paths' PROVE ApartAt(paths', stack', flight', reg', slots', q)
  <2>1. q \in DOMAIN paths /\ q \in Tokens /\ q # NoTok
    BY <1>8, IInvFacts
  <2>2. ASSUME NEW u \in Threads, NEW j \in Nat, Tok(stack', "frame", u, j, q) > 0
        PROVE  Tok(stack, "frame", u, j, q) > 0
    <3>1. CASE u = t /\ j = i /\ q = p
      BY <1>5, <1>6, <3>1
    <3>2. CASE ~(u = t /\ j = i /\ q = p)
      BY <1>7, <2>1, <2>2, <3>2
    <3> QED
      BY <3>1, <3>2
  <2>3. GainsNothing(q)
    BY <1>1, <2>2 DEF GainsNothing, HasIt
  <2> QED
    BY <1>8, <2>1, <2>3, ApartKept
<1> QED
  <2>1. Chan \in Cells
    BY CellsApart DEF Cells
  <2> QED
    BY <1>7, <1>9, <1>10, <1>11, <1>12, <1>13, <2>1, StepIs

\* The top entry of a thread's stack, popped.
LEMMA PopShape ==
    ASSUME NEW S \in Stacks, NEW t \in Threads, S[t] # <<>>, NEW R, Pops(S, R, t),
           NEW A, NEW B, ShapesOf(S, A), ButFor(A, B, Threads, t),
           Len(S[t]) > 1 => B[t] \in {"run", "return", "arrive", "unwind"},
           (Len(S[t]) > 1 /\ B[t] = "arrive") => S[t][Len(S[t])].kind = "frame",
           Len(S[t]) = 1 => B[t] \in {"arrive", "forget", "unwind"}
    PROVE  ShapesOf(R, B)
<1> DEFINE n == Len(S[t])
<1>1. n \in Nat /\ n > 0
  BY DEF Stacks
<1>2. /\ R \in Stacks /\ Len(R[t]) = n - 1
      /\ \A j \in 1..(n - 1) : R[t][j] = S[t][j]
      /\ \A u \in Threads : u # t => R[u] = S[u]
  BY DEF Pops
<1>3. /\ n > 0 => S[t][1].kind = "frame"
      /\ \A i \in 2..n : S[t][i].kind = "frame" => S[t][i - 1].kind = "scope"
  BY DEF ShapeOf, ShapesOf
<1>4. ASSUME NEW i \in 2..(n - 1), R[t][i].kind = "frame" PROVE R[t][i - 1].kind = "scope"
  <2>1. i \in 2..n /\ i \in 1..(n - 1) /\ i - 1 \in 1..(n - 1)
    BY <1>1
  <2> QED
    BY <1>2, <1>3, <1>4, <2>1
<1>5. n > 1 => R[t][1].kind = "frame"
  BY <1>1, <1>2, <1>3
<1>6. ShapeOf(R[t], B[t])
  <2>1. CASE n = 1
    BY <1>2, <2>1 DEF ShapeOf
  <2>2. CASE n > 1
    <3>0. B[t] \in {"run", "return", "arrive", "unwind"} /\ Len(R[t]) = n - 1
      BY <1>2, <2>2
    <3>1. B[t] = "arrive" => R[t][n - 1].kind = "scope"
      <4>1. ASSUME B[t] = "arrive" PROVE R[t][n - 1].kind = "scope"
        <5>1. S[t][n].kind = "frame" /\ n \in 2..n /\ n - 1 \in 1..(n - 1)
          BY <1>1, <2>2, <4>1
        <5> QED
          BY <1>2, <1>3, <5>1
      <4> QED
        BY <4>1
    <3>2. n - 1 > 0 /\ n - 1 \in Nat
      BY <1>1, <2>2
    <3> HIDE DEF n
    <3> DEFINE s == R[t]
               m == n - 1
               p == B[t]
    <3>3. /\ p \in {"run", "return", "arrive", "unwind"} /\ Len(s) = m /\ m > 0 /\ m \in Nat
          /\ p = "arrive" => s[m].kind = "scope"
          /\ s[1].kind = "frame"
          /\ \A i \in 2..m : s[i].kind = "frame" => s[i - 1].kind = "scope"
      BY <1>4, <1>5, <2>2, <3>0, <3>1, <3>2
    <3> HIDE DEF s, m, p
    <3>4. ShapeOf(s, p)
      BY <3>3 DEF ShapeOf
    <3> QED
      BY <3>4 DEF s, p
  <2> HIDE DEF n
  <2>3. n = 1 \/ n > 1
    BY <1>1
  <2> QED
    BY <2>1, <2>2, <2>3
<1>7. ASSUME NEW u \in Threads, u # t PROVE ShapeOf(R[u], B[u])
  BY <1>2, <1>7 DEF ShapesOf, ButFor
<1> QED
  BY <1>6, <1>7 DEF ShapesOf

\* A statement ends, in the thread's course or as a fault folds its stack, or is cut
\* short; `a` is where the thread is then.
LEMMA StatementEndsStep ==
    ASSUME IInv, Spared, NEW t \in Threads, Top(t, "scope"), slots' = slots, flight' = flight,
           stack' = [stack EXCEPT ![t] = Popped(@)],
           \/ paths' = end_scope(paths, ToksOnTop(t))
           \/ paths' = paths /\ \A q \in Tokens : ToksOnTop(t)[q] > 0 => q \in cut',
           NEW a \in {"run", "return", "unwind"}, at' = [at EXCEPT ![t] = a],
           flight[t] # NoTok => a # "run",
           reg' = reg \/ reg' = [reg EXCEPT ![t] = NoTok]
    PROVE  IInv' /\ Ends
<1> DEFINE n == Len(stack[t])
           b == stack[t][n].toks
<1> CutsKept
  BY DEF Spared
<1>1. /\ stack[t] # <<>> /\ stack[t][n].kind = "scope"
      /\ \/ paths' = end_scope(paths, b)
         \/ paths' = paths /\ \A q \in Tokens : b[q] > 0 => q \in cut'
  BY DEF ToksOnTop, Top
<1>2. Shape /\ Placed /\ Table(paths) /\ SInv /\ stack \in Stacks
  BY <1>1, IInvFacts
<1>3. n \in Nat /\ n > 1 /\ b \in Bag
  <2>1. n \in Nat /\ n > 0
    BY <1>1, <1>2 DEF Stacks
  <2>2. stack[t][1].kind = "frame"
    BY <1>2, <2>1 DEF Shape, ShapesOf, ShapeOf
  <2>3. n # 1
    BY <1>1, <2>2
  <2>4. stack[t][n] \in Item
    BY <1>2, <2>1 DEF Stacks
  <2>5. b \in Bag
    BY <2>4 DEF Item
  <2> HIDE DEF n
  <2>6. n > 1
    BY <2>1, <2>3
  <2> QED
    BY <2>1, <2>5, <2>6
<1>4. /\ \A q \in Tokens : Tok(stack, "scope", t, n, q) = b[q]
      /\ \A q \in Tokens : Tok(stack, "frame", t, n, q) = 0
  BY <1>1, <1>3 DEF Tok
<1>12. Pops(stack, stack', t)
  BY <1>1, <1>2, PopIs
<1>5. /\ stack' \in Stacks /\ Len(stack'[t]) = n - 1
      /\ \A u \in Threads : u # t => stack'[u] = stack[u]
      /\ \A k \in Kinds, u \in Threads, j \in Nat, q \in Tokens :
            Tok(stack', k, u, j, q) = IF u = t /\ j = n THEN 0 ELSE Tok(stack, k, u, j, q)
  BY <1>12 DEF Pops
<1> HIDE DEF n, b
<1>6. SameFrames
  BY <1>3, <1>4, <1>5 DEF SameFrames, Kinds
<1>7. /\ Table(paths') /\ DOMAIN paths' \subseteq DOMAIN paths
      /\ \A q \in DOMAIN paths' :
            /\ paths'[q].exclusive = paths[q].exclusive /\ paths'[q].occ = paths[q].occ
            /\ ~(b[q] > 0) => paths'[q].scope = paths[q].scope
            /\ b[q] > 0 => q \in cut' \/ (paths'[q].occ > 0 /\ paths'[q].scope = None)
      /\ \A q \in DOMAIN paths \ DOMAIN paths' : b[q] > 0 /\ paths[q].occ = 0
  <2>1. CASE paths' = end_scope(paths, b)
    <3> DEFINE Q == end_scope(paths, b)
    <3>1. /\ Table(Q) /\ DOMAIN Q \subseteq DOMAIN paths
          /\ \A q \in DOMAIN Q :
                /\ Q[q].exclusive = paths[q].exclusive /\ Q[q].occ = paths[q].occ
                /\ Q[q].scope = (IF b[q] > 0 THEN None ELSE paths[q].scope)
                /\ b[q] > 0 => Q[q].occ > 0
          /\ \A q \in DOMAIN paths \ DOMAIN Q : b[q] > 0 /\ paths[q].occ = 0
      BY <1>2, <1>3, EndScopeIs
    <3>2. paths' = Q
      BY <2>1
    <3> HIDE DEF Q
    <3> QED
      BY <3>1, <3>2
  <2>2. CASE paths' = paths /\ \A q \in Tokens : b[q] > 0 => q \in cut'
    <3>1. \A q \in DOMAIN paths : q \in Tokens
      BY IInvFacts
    <3> QED
      BY <1>2, <2>2, <3>1
  <2> QED
    BY <1>1, <2>1, <2>2
<1>8. /\ reg' \in [Threads -> Tokens \cup {NoTok}] /\ at' \in [Threads -> Places]
      /\ \A u \in Threads : reg'[u] \in {reg[u], NoTok}
      /\ \A u \in Threads : u # t => reg'[u] = reg[u] /\ at'[u] = at[u]
      /\ at'[t] = a
  BY <1>1, IInvFacts DEF Places
<1>9. CoreOK'
  BY <1>1, <1>5, <1>7, <1>8, IInvFacts DEF CoreOK
<1>10. Shape'
  <2>1. ShapesOf(stack, at) /\ ButFor(at, at', Threads, t)
    BY <1>2, <1>8 DEF Shape, ButFor
  <2>2. at'[t] \in {"run", "return", "unwind"} /\ Len(stack[t]) # 1
    BY <1>1, <1>3, <1>8 DEF n
  <2>3. ShapesOf(stack', at')
    BY <1>1, <1>2, <1>12, <2>1, <2>2, PopShape
  <2> QED
    BY <2>3 DEF Shape
<1>17. at[t] \in {"run", "result", "return", "arrive", "unwind"}
  BY <1>2, <1>3, IInvFacts DEF Shape, ShapesOf, ShapeOf, Places, n
<1>11. Placed'
  <2>1. Len(stack'[t]) # 0 /\ \A u \in Threads : u # t => stack'[u] = stack[u]
    BY <1>3, <1>5
  <2>2. ASSUME NEW u \in Threads PROVE PlacedAt(u)'
    <3>1. PlacedAt(u)
      BY <1>2 DEF Placed
    <3>2. CASE u = t
      BY <1>1, <1>8, <1>17, <2>1, <3>1, <3>2 DEF PlacedAt
    <3>3. CASE u # t
      BY <1>1, <1>8, <2>1, <3>1, <3>3 DEF PlacedAt
    <3> QED
      BY <3>2, <3>3
  <2> QED
    BY <2>2 DEF Placed
<1>16. Moved(Chan, t, t, 0) /\ \A q \in Tokens : Change(Chan, t, t, 0, q) = 0
  BY <1>1, <1>5, <1>6, NothingMoves
<1>13. Follows(Chan, t, t, 0)
  <2>1. ASSUME NEW q \in DOMAIN paths PROVE q \in Tokens /\ paths[q].occ \in Nat /\ Change(Chan, t, t, 0, q) = 0
    BY <1>16, IInvFacts
  <2>2. ASSUME NEW q \in DOMAIN paths \ DOMAIN paths'
        PROVE  /\ paths[q].occ + Change(Chan, t, t, 0, q) = 0
               /\ \E u \in Threads : ListsIt(stack, u, q) /\ stack'[u] # stack[u]
    <3>1. b[q] > 0 /\ paths[q].occ = 0 /\ q \in Tokens
      BY <1>7, <2>1
    <3>2. ListsIt(stack, t, q)
      BY <1>3, <1>4, <3>1 DEF ListsIt
    <3>3. stack'[t] # stack[t]
      BY <1>3, <1>5 DEF n
    <3> QED
      BY <2>1, <3>1, <3>2, <3>3
  <2>3. \A q \in DOMAIN paths' : paths'[q].occ = paths[q].occ + Change(Chan, t, t, 0, q)
    BY <1>7, <2>1
  <2>4. DOMAIN paths' \ DOMAIN paths = {}
    BY <1>7
  <2> QED
    BY <1>16, <2>2, <2>3, <2>4 DEF Follows
<1>14. ASSUME NEW q \in DOMAIN paths' PROVE OwnedAt(paths', stack', reg', at', cut', q)
  <2>1. q \in DOMAIN paths /\ q \in Tokens /\ paths[q].occ \in Nat /\ b[q] \in Nat
    BY <1>3, <1>7, IInvFacts DEF Bag
  <2>2. CASE b[q] > 0
    BY <1>7, <2>2 DEF OwnedAt
  <2>3. CASE ~(b[q] > 0)
    <3>1. \A u \in Threads, j \in Nat : Tok(stack', "scope", u, j, q) = Tok(stack, "scope", u, j, q)
      <4>1. b[q] = 0 /\ q \in Tokens /\ "scope" \in Kinds
        BY <2>1, <2>3 DEF Kinds
      <4>2. Tok(stack, "scope", t, n, q) = 0
        BY <1>4, <4>1
      <4> QED
        BY <1>5, <4>1, <4>2
    <3>2. \A u \in Threads : ListsIt(stack, u, q) => ListsIt(stack', u, q)
      BY <3>1 DEF ListsIt
    <3>3. \A u \in Threads : at[u] = "store" => at'[u] = "store" /\ reg'[u] = reg[u]
      BY <1>8, <1>17
    <3>4. StaysOwned(q)
      BY <3>2, <3>3 DEF StaysOwned
    <3> QED
      BY <1>7, <1>9, <2>1, <2>3, <3>4, OwnedKept
  <2> QED
    BY <2>2, <2>3
<1>15. ASSUME NEW q \in DOMAIN paths' PROVE ApartAt(paths', stack', flight', reg', slots', q)
  <2>1. q \in DOMAIN paths /\ q \in Tokens /\ q # NoTok
    BY <1>7, IInvFacts
  <2>2. \A u \in Threads : reg'[u] = q => reg[u] = q
    BY <1>8, <2>1
  <2>3. GainsNothing(q)
    BY <1>1, <1>6, <2>1, <2>2 DEF GainsNothing, HasIt, SameFrames
  <2> QED
    BY <1>7, <2>1, <2>3, ApartKept
<1> QED
  <2>1. Chan \in Cells /\ 0 \in Nat
    BY CellsApart DEF Cells
  <2> QED
    BY <1>9, <1>10, <1>11, <1>13, <1>14, <1>15, <2>1, StepIs

LEMMA StmtPopStep == ASSUME IInv, NEW t \in Threads, StmtPop(t) PROVE IInv' /\ Ends
<1> DEFINE a == IF at[t] = "result" THEN "run" ELSE at[t]
<1>1. /\ at[t] \in {"run", "result", "return"} /\ Top(t, "scope") /\ slots' = slots /\ flight' = flight
      /\ paths' = end_scope(paths, ToksOnTop(t)) /\ stack' = [stack EXCEPT ![t] = Popped(@)]
      /\ at' = [at EXCEPT ![t] = a]
      /\ reg' = reg \/ reg' = [reg EXCEPT ![t] = NoTok]
  BY IInvFacts DEF StmtPop, StatementEnds
<1>2. Spared
  BY IInvFacts DEF StmtPop, SideOK, Spared, CutsKept
<1>3. flight[t] # NoTok => a # "run"
  BY <1>1, IInvFacts DEF Placed, PlacedAt
<1>4. a \in {"run", "return", "unwind"}
  BY <1>1
<1> HIDE DEF a
<1> QED
  BY <1>1, <1>2, <1>3, <1>4, StatementEndsStep

\* A frame's holds let go of, and with a body's frame its local's.
LEMMA FrameTable ==
    ASSUME IInv, NEW t \in Threads, NEW n \in Nat, NEW b \in Bag, NEW local \in BOOLEAN,
           \A q \in Tokens : b[q] <= Tok(stack, "frame", t, n, q),
           paths' = IF local THEN drop_occ(DropHolds(paths, b), slots[Local(t)]) ELSE DropHolds(paths, b)
    PROVE  LET gone(q) == local /\ q = slots[Local(t)] IN
           /\ Table(paths') /\ DOMAIN paths' \subseteq DOMAIN paths
           /\ \A q \in DOMAIN paths' :
                 /\ paths'[q].exclusive = paths[q].exclusive /\ paths'[q].scope = paths[q].scope
                 /\ paths'[q].occ = paths[q].occ - b[q] - (IF gone(q) THEN 1 ELSE 0)
                 /\ paths[q].occ > 0 => paths'[q].occ > 0 \/ paths[q].scope # None
           /\ \A q \in DOMAIN paths \ DOMAIN paths' :
                 /\ paths[q].occ - b[q] - (IF gone(q) THEN 1 ELSE 0) = 0
                 /\ paths[q].scope = None
<1> DEFINE old == slots[Local(t)]
           P == DropHolds(paths, b)
           Q == drop_occ(P, old)
           gone(q) == local /\ q = old
<1>1. Table(paths) /\ \A q \in DOMAIN paths : q \in Tokens /\ paths[q].occ \in Nat /\ b[q] \in Nat
  BY IInvFacts DEF Bag
<1>2. ASSUME NEW q \in DOMAIN paths
      PROVE  paths[q].occ >= b[q] /\ (q = old => paths[q].occ >= 1 + b[q])
  <2>1. Local(t) \in Cells
    BY CellsApart
  <2>2. /\ paths[q].occ >= Tok(stack, "frame", t, n, q)
        /\ q = old => paths[q].occ >= 1 + Tok(stack, "frame", t, n, q)
    BY <2>1, OccAtLeast
  <2>3. b[q] <= Tok(stack, "frame", t, n, q) /\ b[q] \in Nat /\ paths[q].occ \in Nat
    BY <1>1
  <2>4. Tok(stack, "frame", t, n, q) \in Nat
    BY <1>1, IInvFacts, TokIsNat DEF Kinds
  <2> QED
    BY <2>2, <2>3, <2>4
<1>3. paths' = IF local THEN Q ELSE P
  OBVIOUS
<1> HIDE DEF old, P
<1>4. /\ Table(P) /\ DOMAIN P \subseteq DOMAIN paths
      /\ \A q \in DOMAIN P :
            /\ P[q].exclusive = paths[q].exclusive /\ P[q].scope = paths[q].scope
            /\ P[q].occ = paths[q].occ - b[q]
            /\ b[q] > 0 => P[q].occ > 0 \/ paths[q].scope # None
      /\ \A q \in DOMAIN paths \ DOMAIN P : paths[q].occ = b[q] /\ paths[q].scope = None
  <2>1. \A q \in DOMAIN paths : paths[q].occ >= b[q]
    BY <1>2
  <2> QED
    BY <1>1, <2>1, DropHoldsIs DEF P
<1>5. ASSUME NEW q \in DOMAIN P, q = old PROVE P[q].occ > 0
  <2>1. /\ paths[q].occ >= 1 + b[q] /\ P[q].occ = paths[q].occ - b[q]
        /\ paths[q].occ \in Nat /\ b[q] \in Nat
    BY <1>1, <1>2, <1>4, <1>5
  <2> QED
    BY <2>1
<1>6. /\ Table(Q) /\ DOMAIN Q \subseteq DOMAIN P
      /\ \A q \in DOMAIN Q :
            /\ Q[q].exclusive = P[q].exclusive /\ Q[q].scope = P[q].scope
            /\ Q[q].occ = P[q].occ - (IF q = old THEN 1 ELSE 0)
            /\ q = old => Q[q].occ > 0 \/ P[q].scope # None
      /\ \A q \in DOMAIN P \ DOMAIN Q : q = old /\ P[q].occ = 1 /\ P[q].scope = None
  <2>1. old \in DOMAIN P => P[old].occ > 0
    BY <1>5
  <2> QED
    BY <1>4, <2>1, DropIs
<1> HIDE DEF Q
<1> DEFINE R == paths'
<1>7. R = IF local THEN Q ELSE P
  BY <1>3
<1> HIDE DEF R
<1>8. Table(R) /\ DOMAIN R \subseteq DOMAIN paths
  BY <1>4, <1>6, <1>7
<1>9. ASSUME NEW q \in DOMAIN R
      PROVE  /\ R[q].exclusive = paths[q].exclusive /\ R[q].scope = paths[q].scope
             /\ R[q].occ = paths[q].occ - b[q] - (IF gone(q) THEN 1 ELSE 0)
             /\ paths[q].occ > 0 => R[q].occ > 0 \/ paths[q].scope # None
  <2>1. CASE local
    <3>1. q \in DOMAIN P /\ q \in DOMAIN paths /\ R[q] = Q[q] /\ q \in DOMAIN Q
      BY <1>4, <1>6, <1>7, <2>1
    <3>2. /\ Q[q].exclusive = P[q].exclusive /\ Q[q].scope = P[q].scope
          /\ Q[q].occ = P[q].occ - (IF q = old THEN 1 ELSE 0)
          /\ q = old => Q[q].occ > 0 \/ P[q].scope # None
          /\ P[q].exclusive = paths[q].exclusive /\ P[q].scope = paths[q].scope
          /\ P[q].occ = paths[q].occ - b[q]
          /\ b[q] > 0 => P[q].occ > 0 \/ paths[q].scope # None
          /\ paths[q].occ \in Nat /\ b[q] \in Nat
      BY <1>1, <1>4, <1>6, <3>1
    <3> QED
      BY <2>1, <3>1, <3>2
  <2>2. CASE ~local
    <3>1. q \in DOMAIN P /\ q \in DOMAIN paths /\ R[q] = P[q]
      BY <1>4, <1>7, <2>2
    <3>2. /\ P[q].exclusive = paths[q].exclusive /\ P[q].scope = paths[q].scope
          /\ P[q].occ = paths[q].occ - b[q]
          /\ b[q] > 0 => P[q].occ > 0 \/ paths[q].scope # None
          /\ paths[q].occ \in Nat /\ b[q] \in Nat
      BY <1>1, <1>4, <3>1
    <3> QED
      BY <2>2, <3>1, <3>2
  <2> QED
    BY <2>1, <2>2
<1>10. ASSUME NEW q \in DOMAIN paths \ DOMAIN R
       PROVE  paths[q].occ - b[q] - (IF gone(q) THEN 1 ELSE 0) = 0 /\ paths[q].scope = None
  <2>1. CASE q \notin DOMAIN P
    <3>1. paths[q].occ = b[q] /\ paths[q].scope = None
      BY <1>4, <2>1
    <3>2. q # old
      BY <1>1, <1>2, <3>1
    <3> QED
      BY <1>1, <3>1, <3>2
  <2>2. CASE q \in DOMAIN P
    <3>1. local /\ q \notin DOMAIN Q
      BY <1>7, <2>2
    <3>2. q = old /\ P[q].occ = 1 /\ P[q].scope = None
      BY <1>6, <2>2, <3>1
    <3>3. P[q].occ = paths[q].occ - b[q] /\ P[q].scope = paths[q].scope
      BY <1>4, <2>2
    <3> QED
      BY <1>1, <3>1, <3>2, <3>3
  <2> QED
    BY <2>1, <2>2
<1> QED
  BY <1>8, <1>9, <1>10 DEF R, old

\* A frame lets go of `toks`, and the rest of what it had is forgotten; with a body's
\* frame its local ends, unless a fault cuts that too.
LEMMA FrameEndsStep ==
    ASSUME IInv, SideOK', CutsKept, NEW t \in Threads, NEW toks \in Bag, NEW local \in BOOLEAN,
           FrameEnds(t, toks, local), flight' = flight,
           reg' = reg \/ reg' = [reg EXCEPT ![t] = NoTok],
           \A q \in Tokens : toks[q] <= ToksOnTop(t)[q] /\ lost'[q] = lost[q] + (ToksOnTop(t)[q] - toks[q]),
           NEW a, at' = [at EXCEPT ![t] = a], at[t] \in {"run", "return", "unwind"},
           flight[t] # NoTok => a \in {"arrive", "unwind"},
           Len(stack[t]) > 1 => a \in {"run", "arrive", "unwind"},
           Len(stack[t]) = 1 => a \in {"arrive", "forget", "unwind"} /\ (local \/ a = "unwind")
    PROVE  IInv' /\ Ends
<1> DEFINE n == Len(stack[t])
           b == stack[t][n].toks
           c == Local(t)
           old == slots[c]
<1>1. /\ stack[t] # <<>> /\ stack[t][n].kind = "frame"
      /\ paths' = IF local THEN drop_occ(DropHolds(paths, toks), slots[Local(t)]) ELSE DropHolds(paths, toks)
      /\ slots' = IF local THEN [slots EXCEPT ![c] = NoTok] ELSE slots
      /\ stack' = [stack EXCEPT ![t] = Popped(@)]
      /\ \A q \in Tokens : toks[q] <= b[q] /\ lost'[q] = lost[q] + (b[q] - toks[q])
  BY DEF FrameEnds, Top, ToksOnTop
<1>2. Shape /\ Placed /\ Table(paths) /\ SInv /\ stack \in Stacks /\ c \in Cells
  BY IInvFacts, CellsApart
<1>3. n \in Nat /\ n > 0 /\ b \in Bag
  <2>1. n \in Nat /\ n > 0
    BY <1>1, <1>2 DEF Stacks
  <2>2. stack[t][n] \in Item
    BY <1>2, <2>1 DEF Stacks
  <2> QED
    BY <2>1, <2>2 DEF Item
<1>4. /\ \A q \in Tokens : Tok(stack, "frame", t, n, q) = b[q]
      /\ \A q \in Tokens : Tok(stack, "scope", t, n, q) = 0
  BY <1>1, <1>3 DEF Tok
<1>5. Pops(stack, stack', t)
  BY <1>1, <1>2, PopIs
<1>6. /\ stack' \in Stacks /\ Len(stack'[t]) = n - 1
      /\ \A u \in Threads : u # t => stack'[u] = stack[u]
      /\ \A k \in Kinds, u \in Threads, j \in Nat, q \in Tokens :
            Tok(stack', k, u, j, q) = IF u = t /\ j = n THEN 0 ELSE Tok(stack, k, u, j, q)
  BY <1>5 DEF Pops
<1>7. /\ Table(paths') /\ DOMAIN paths' \subseteq DOMAIN paths
      /\ \A q \in DOMAIN paths' :
            /\ paths'[q].exclusive = paths[q].exclusive /\ paths'[q].scope = paths[q].scope
            /\ paths'[q].occ = paths[q].occ - toks[q] - (IF local /\ q = old THEN 1 ELSE 0)
            /\ paths[q].occ > 0 => paths'[q].occ > 0 \/ paths[q].scope # None
      /\ \A q \in DOMAIN paths \ DOMAIN paths' :
            /\ paths[q].occ - toks[q] - (IF local /\ q = old THEN 1 ELSE 0) = 0
            /\ paths[q].scope = None
  <2> HIDE DEF n, b
  <2>1. \A q \in Tokens : toks[q] <= Tok(stack, "frame", t, n, q)
    BY <1>1, <1>4
  <2> QED
    BY <1>1, <1>2, <1>3, <2>1, FrameTable
<1>8. /\ at' \in [Threads -> Places] /\ \A u \in Threads : u # t => at'[u] = at[u]
      /\ at'[t] = a /\ a \in {"run", "arrive", "unwind", "forget"}
      /\ reg' \in [Threads -> Tokens \cup {NoTok}]
      /\ \A u \in Threads : reg'[u] \in {reg[u], NoTok}
      /\ \A u \in Threads : u # t => reg'[u] = reg[u]
  <2>1. a \in {"run", "arrive", "unwind", "forget"}
    <3> HIDE DEF n
    <3>1. n = 1 \/ n > 1
      BY <1>3
    <3> QED
      BY <3>1 DEF n
  <2> QED
    BY <1>1, <2>1, IInvFacts DEF Places
<1>9. /\ slots' \in [Cells -> Tokens \cup {NoTok}] /\ \A d \in Cells : d # c => slots'[d] = slots[d]
      /\ slots'[c] = IF local THEN NoTok ELSE old
  BY <1>1, <1>2, IInvFacts
<1>10. Shape'
  <2>1. ShapesOf(stack, at) /\ ButFor(at, at', Threads, t)
    BY <1>2, <1>8 DEF Shape, ButFor
  <2>2. /\ Len(stack[t]) > 1 => at'[t] \in {"run", "return", "arrive", "unwind"}
        /\ Len(stack[t]) = 1 => at'[t] \in {"arrive", "forget", "unwind"}
        /\ stack[t][Len(stack[t])].kind = "frame"
    BY <1>1, <1>8
  <2>3. ShapesOf(stack', at')
    BY <1>1, <1>2, <1>5, <2>1, <2>2, PopShape
  <2> QED
    BY <2>3 DEF Shape
<1>12. Placed'
  <2>1. Len(stack'[t]) = 0 => local \/ a = "unwind"
    <3> HIDE DEF n
    <3>1. Len(stack'[t]) = 0 => n = 1
      BY <1>3, <1>6
    <3> QED
      BY <3>1 DEF n
  <2>2. /\ \A u \in Threads : slots'[Arg(u)] = slots[Arg(u)] /\ slots'[Res(u)] = slots[Res(u)]
        /\ \A u \in Threads : u # t => slots'[Local(u)] = slots[Local(u)]
    BY <1>9, CellsApart
  <2>3. ASSUME NEW u \in Threads PROVE PlacedAt(u)'
    <3>1. PlacedAt(u)
      BY <1>2 DEF Placed
    <3>2. CASE u = t
      <4>1. slots'[Local(t)] = NoTok \/ Len(stack'[t]) # 0 \/ a = "unwind"
        BY <1>9, <2>1
      <4> QED
        BY <1>8, <2>2, <3>1, <3>2, <4>1 DEF PlacedAt
    <3>3. CASE u # t
      BY <1>6, <1>8, <2>2, <3>1, <3>3 DEF PlacedAt
    <3> QED
      BY <3>2, <3>3
  <2> QED
    BY <2>3 DEF Placed
<1> HIDE DEF n, b, c, old
<1>13. CoreOK'
  BY <1>6, <1>7, <1>8, <1>9, IInvFacts DEF CoreOK
<1>14. Moved(c, t, t, n)
  <2>1. \A u \in Threads, j \in Nat, q \in Tokens :
           ~(u = t /\ j = n) => Tok(stack', "frame", u, j, q) = Tok(stack, "frame", u, j, q)
    BY <1>6 DEF Kinds
  <2> QED
    BY <1>9, <2>1 DEF Moved, ButFor
<1>15. ASSUME NEW q \in Tokens, q # NoTok
       PROVE  Change(c, t, t, n, q) = 0 - b[q] - (IF local /\ q = old THEN 1 ELSE 0)
  <2>1. Tok(stack', "frame", t, n, q) = 0 /\ Tok(stack, "frame", t, n, q) = b[q] /\ b[q] \in Nat
    BY <1>3, <1>4, <1>6 DEF Kinds, Bag
  <2>2. One(q, slots'[c]) - One(q, slots[c]) = IF local /\ q = old THEN -1 ELSE 0
    BY <1>2, <1>9, <1>15 DEF One, old
  <2>3. One(q, flight'[t]) - One(q, flight[t]) = 0 /\ One(q, flight[t]) \in Nat
    BY DEF One
  <2>4. One(q, slots'[c]) \in Nat /\ One(q, slots[c]) \in Nat /\ One(q, flight'[t]) \in Nat
    BY DEF One
  <2> QED
    BY <2>1, <2>2, <2>3, <2>4 DEF Change
<1>16. ASSUME NEW q \in DOMAIN paths
       PROVE  /\ q \in Tokens /\ q # NoTok /\ paths[q].occ \in Nat /\ b[q] \in Nat /\ toks[q] \in Nat
              /\ lost[q] \in Nat /\ lost'[q] = lost[q] + (b[q] - toks[q])
  <2>1. q \in Tokens /\ q # NoTok /\ paths[q].occ \in Nat /\ SideOK
    BY IInvFacts
  <2> QED
    BY <1>1, <1>3, <2>1 DEF Bag, SideOK
<1>17. Loses(c, t, t, n)
  <2>1. ASSUME NEW q \in DOMAIN paths
        PROVE  paths[q].occ + Change(c, t, t, n, q) + (lost'[q] - lost[q])
                  = paths[q].occ - toks[q] - (IF local /\ q = old THEN 1 ELSE 0)
    <3>1. Change(c, t, t, n, q) = 0 - b[q] - (IF local /\ q = old THEN 1 ELSE 0)
      BY <1>15, <1>16
    <3> DEFINE g == IF local /\ q = old THEN 1 ELSE 0
    <3>2. g \in Nat /\ Change(c, t, t, n, q) = 0 - b[q] - g
      BY <3>1
    <3> HIDE DEF g
    <3>3. paths[q].occ + Change(c, t, t, n, q) + (lost'[q] - lost[q]) = paths[q].occ - toks[q] - g
      BY <1>16, <3>2
    <3> QED
      BY <3>3 DEF g
  <2>2. DOMAIN paths' \ DOMAIN paths = {}
    BY <1>7
  <2> QED
    BY <1>7, <1>14, <2>1, <2>2 DEF Loses
<1>18. SameLists
  BY <1>4, <1>6 DEF SameLists, Kinds
<1>19. ASSUME NEW q \in DOMAIN paths' PROVE OwnedAt(paths', stack', reg', at', cut', q)
  <2>1. q \in DOMAIN paths /\ q \in Tokens
    BY <1>7, <1>16
  <2>2. \A u \in Threads : at[u] = "store" => at'[u] = "store" /\ reg'[u] = reg[u]
    BY <1>8
  <2>3. StaysOwned(q)
    BY <1>18, <2>1, <2>2, SameStores
  <2>4. /\ paths'[q].scope = paths[q].scope
        /\ paths[q].occ > 0 => paths'[q].occ > 0 \/ paths[q].scope # None
    BY <1>7
  <2> QED
    BY <2>1, <2>3, <2>4, OwnedKept
<1>20. ASSUME NEW q \in DOMAIN paths' PROVE ApartAt(paths', stack', flight', reg', slots', q)
  <2>1. q \in DOMAIN paths /\ q \in Tokens /\ q # NoTok
    BY <1>7, <1>16
  <2>2. /\ \A d \in Cells : slots'[d] = q => slots[d] = q
        /\ \A u \in Threads : reg'[u] = q => reg[u] = q
    BY <1>8, <1>9, <2>1 DEF old
  <2>3. \A u \in Threads, j \in Nat : Tok(stack', "frame", u, j, q) > 0 => Tok(stack, "frame", u, j, q) > 0
    BY <1>6, <2>1 DEF Kinds
  <2>4. GainsNothing(q)
    <3>1. \A u \in Threads : {Local(u), Arg(u), Res(u), Chan} \subseteq Cells
      BY CellsApart
    <3>2. ASSUME NEW u \in Threads, HasIt(stack', flight', reg', slots', u, q)
          PROVE  HasIt(stack, flight, reg, slots, u, q)
      BY <2>2, <2>3, <3>1, <3>2 DEF HasIt
    <3>3. slots'[Chan] = q => slots[Chan] = q
      BY <2>2, <3>1
    <3> QED
      BY <3>2, <3>3 DEF GainsNothing
  <2> QED
    BY <1>7, <2>1, <2>4, ApartKept
<1> QED
  BY <1>2, <1>3, <1>10, <1>12, <1>13, <1>17, <1>19, <1>20, LossStepIs

\* What the frame on top of a stack holds.
LEMMA OnTopIs ==
    ASSUME IInv, NEW t \in Threads, NEW kind, Top(t, kind)
    PROVE  /\ ToksOnTop(t) \in Bag /\ Len(stack[t]) \in Nat /\ Len(stack[t]) > 0
           /\ \A q \in Tokens : ToksOnTop(t)[q] \in Nat
<1>1. stack \in Stacks
  BY IInvFacts
<1>2. Len(stack[t]) \in Nat /\ Len(stack[t]) > 0
  BY <1>1 DEF Top, Stacks
<1>3. stack[t][Len(stack[t])] \in Item
  BY <1>1, <1>2 DEF Stacks
<1> QED
  BY <1>2, <1>3 DEF ToksOnTop, Item, Bag

LEMMA FramePopStep == ASSUME IInv, NEW t \in Threads, FramePop(t) PROVE IInv' /\ Ends
<1> DEFINE a == IF at[t] = "return" THEN "arrive" ELSE IF InBody(t) THEN "forget" ELSE at[t]
           toks == ToksOnTop(t)
           local == InBody(t)
<1>1. /\ at[t] \in {"run", "return"} /\ FrameEnds(t, toks, local) /\ Top(t, "frame")
      /\ flight' = flight /\ reg' = reg /\ lost' = lost /\ cut' = cut /\ lent' = lent
      /\ at' = [at EXCEPT ![t] = a]
  BY DEF FramePop, FrameEnds
<1>2. SideOK' /\ CutsKept /\ SideOK
  BY <1>1, IInvFacts DEF SideOK, CutsKept
<1>3. toks \in Bag /\ Len(stack[t]) \in Nat /\ \A q \in Tokens : toks[q] \in Nat /\ lost[q] \in Nat
  BY <1>1, <1>2, OnTopIs DEF SideOK, Bag
<1>4. \A q \in Tokens : toks[q] <= ToksOnTop(t)[q] /\ lost'[q] = lost[q] + (ToksOnTop(t)[q] - toks[q])
  BY <1>1, <1>3
<1>5. local \in BOOLEAN /\ (local <=> Len(stack[t]) = 1)
  BY DEF InBody
<1>6. /\ flight[t] # NoTok => a \in {"arrive", "unwind"}
      /\ Len(stack[t]) > 1 => a \in {"run", "arrive", "unwind"}
      /\ Len(stack[t]) = 1 => a \in {"arrive", "forget", "unwind"} /\ (local \/ a = "unwind")
  <2>1. flight[t] # NoTok => at[t] = "return"
    BY <1>1, IInvFacts DEF Placed, PlacedAt
  <2>2. ASSUME Len(stack[t]) > 1 PROVE ~local
    <3> DEFINE n == Len(stack[t])
    <3>1. n \in Nat /\ n > 1
      BY <1>3, <2>2
    <3> HIDE DEF n
    <3>2. n # 1
      BY <3>1
    <3> QED
      BY <1>5, <3>2 DEF n
  <2> HIDE DEF local
  <2> QED
    BY <1>1, <1>5, <2>1, <2>2 DEF local
<1> HIDE DEF a, toks, local
<1> QED
  BY <1>1, <1>2, <1>3, <1>4, <1>5, <1>6, FrameEndsStep

-----------------------------------------------------------------------------
(* Contained faults.                                                         *)

LEMMA FaultStep == ASSUME IInv, NEW t \in Threads, Fault(t) PROVE IInv' /\ Ends
<1>1. /\ at[t] \in {"run", "return"}
      /\ at' = [at EXCEPT ![t] = "unwind"] /\ reg' = [reg EXCEPT ![t] = NoTok]
      /\ flight' = flight /\ lent' = lent /\ paths' = paths /\ slots' = slots /\ stack' = stack
      /\ lost' = lost /\ cut' = cut
  BY DEF Fault, Unwinds
<1>2. Spared
  BY <1>1, IInvFacts DEF Spared, SideOK, CutsKept
<1>3. /\ CoreOK' /\ at'[t] = "unwind" /\ reg'[t] = NoTok
      /\ \A u \in Threads : u # t => at'[u] = at[u] /\ reg'[u] = reg[u]
  BY <1>1, IInvFacts DEF CoreOK, Places
<1>4. Len(stack[t]) > 0 /\ Shape
  BY <1>1, IInvFacts DEF Shape, ShapesOf, ShapeOf
<1>5. Shape'
  <2>1. ASSUME NEW u \in Threads PROVE ShapeOf(stack'[u], at'[u])
    <3>1. ShapeOf(stack[u], at[u])
      BY <1>4 DEF Shape, ShapesOf
    <3>2. CASE u = t
      BY <1>1, <1>3, <3>1, <3>2 DEF ShapeOf
    <3>3. CASE u # t
      BY <1>1, <1>3, <3>1, <3>3
    <3> QED
      BY <3>2, <3>3
  <2> QED
    BY <2>1 DEF Shape, ShapesOf
<1>6. Placed'
  <2>1. ASSUME NEW u \in Threads PROVE PlacedAt(u)'
    <3>1. PlacedAt(u)
      BY IInvFacts DEF Placed
    <3>2. CASE u = t
      BY <1>1, <1>3, <1>4, <3>1, <3>2 DEF PlacedAt
    <3>3. CASE u # t
      BY <1>1, <1>3, <3>1, <3>3 DEF PlacedAt
    <3> QED
      BY <3>2, <3>3
  <2> QED
    BY <2>1 DEF Placed
<1>7. SameFrames
  BY <1>1 DEF SameFrames
<1>8. ASSUME NEW q \in DOMAIN paths PROVE StaysOwned(q) /\ GainsNothing(q)
  <2>1. q # NoTok
    BY IInvFacts
  <2>2. StaysOwned(q)
    BY <1>1, <1>3 DEF StaysOwned
  <2>3. GainsNothing(q)
    BY <1>1, <1>3, <2>1 DEF GainsNothing, HasIt
  <2> QED
    BY <2>2, <2>3
<1> QED
  BY <1>1, <1>2, <1>3, <1>5, <1>6, <1>7, <1>8, QuietStep

LEMMA StmtPopFaultStep == ASSUME IInv, NEW t \in Threads, StmtPopFault(t) PROVE IInv' /\ Ends
<1>1. /\ Top(t, "scope") /\ slots' = slots /\ flight' = flight
      /\ stack' = [stack EXCEPT ![t] = Popped(@)]
      /\ paths' = paths /\ \A q \in Tokens : ToksOnTop(t)[q] > 0 => q \in cut'
      /\ at' = [at EXCEPT ![t] = "unwind"] /\ reg' = [reg EXCEPT ![t] = NoTok]
  BY DEF StmtPopFault, Unwinds
<1>2. Spared
  BY IInvFacts DEF StmtPopFault, Unwinds, Spared, SideOK, CutsKept
<1> QED
  BY <1>1, <1>2, StatementEndsStep

LEMMA FramePopFaultStep ==
    ASSUME IInv, NEW t \in Threads, NEW kept \in SUBSET Tokens, NEW local \in BOOLEAN,
           FramePopFault(t, kept, local)
    PROVE  IInv' /\ Ends
<1> DEFINE b == ToksOnTop(t)
           toks == [p \in Tokens |-> IF p \in kept THEN 0 ELSE b[p]]
<1>1. /\ at[t] \in {"run", "return"} /\ FrameEnds(t, toks, local) /\ Top(t, "frame")
      /\ flight' = flight /\ reg' = [reg EXCEPT ![t] = NoTok] /\ cut' = cut /\ lent' = lent
      /\ at' = [at EXCEPT ![t] = "unwind"]
      /\ lost' = [p \in Tokens |-> lost[p] + (IF p \in kept THEN b[p] ELSE 0)]
  BY DEF FramePopFault, FrameEnds, Unwinds, Forget
<1>2. SideOK /\ \A q \in Tokens : b[q] \in Nat /\ lost[q] \in Nat
  BY <1>1, IInvFacts, OnTopIs DEF SideOK, Bag
<1>3. toks \in Bag
  BY <1>2 DEF Bag
<1>4. SideOK' /\ CutsKept
  BY <1>1, <1>2 DEF SideOK, Bag, CutsKept
<1>5. \A q \in Tokens : toks[q] <= b[q] /\ lost'[q] = lost[q] + (b[q] - toks[q])
  BY <1>1, <1>2
<1> HIDE DEF toks
<1> QED
  BY <1>1, <1>3, <1>4, <1>5, FrameEndsStep

LEMMA UnwindStep == ASSUME IInv, NEW t \in Threads, Unwind(t) PROVE IInv' /\ Ends
<1>1. /\ at[t] = "unwind" /\ flight' = flight /\ reg' = reg /\ at' = [at EXCEPT ![t] = "unwind"]
      /\ lent' = lent /\ lost' = lost /\ cut' = cut
  BY IInvFacts DEF Unwind
<1>2. Spared /\ SideOK' /\ CutsKept
  BY <1>1, IInvFacts DEF Spared, SideOK, CutsKept
<1>3. CASE StatementEnds(t)
  <2>1. /\ Top(t, "scope") /\ slots' = slots /\ stack' = [stack EXCEPT ![t] = Popped(@)]
        /\ paths' = end_scope(paths, ToksOnTop(t))
    BY <1>3 DEF StatementEnds
  <2> QED
    BY <1>1, <1>2, <2>1, StatementEndsStep
<1>4. CASE FrameEnds(t, ToksOnTop(t), InBody(t))
  <2> DEFINE toks == ToksOnTop(t)
             local == InBody(t)
  <2>1. Top(t, "frame")
    BY <1>4 DEF FrameEnds
  <2>2. toks \in Bag /\ \A q \in Tokens : toks[q] \in Nat /\ lost[q] \in Nat
    BY <2>1, IInvFacts, OnTopIs DEF SideOK, Bag
  <2>3. \A q \in Tokens : toks[q] <= ToksOnTop(t)[q] /\ lost'[q] = lost[q] + (ToksOnTop(t)[q] - toks[q])
    BY <1>1, <2>2
  <2>4. local \in BOOLEAN /\ FrameEnds(t, toks, local)
    BY <1>4 DEF InBody
  <2> HIDE DEF toks, local
  <2> QED
    BY <1>1, <1>2, <2>2, <2>3, <2>4, FrameEndsStep
<1> QED
  BY <1>3, <1>4 DEF Unwind

LEMMA ContainedStep == ASSUME IInv, NEW t \in Threads, Contained(t) PROVE IInv' /\ Ends
<1>1. /\ at[t] = "unwind" /\ stack[t] = <<>>
      /\ flight' = [flight EXCEPT ![t] = NoTok] /\ at' = [at EXCEPT ![t] = "forget"]
      /\ paths' = paths /\ slots' = slots /\ stack' = stack /\ reg' = reg /\ lent' = lent /\ cut' = cut
      /\ lost' = [p \in Tokens |-> lost[p] + (IF p = flight[t] THEN 1 ELSE 0)]
  BY DEF Contained, Forget
<1>2. SideOK /\ \A q \in Tokens : lost[q] \in Nat
  BY IInvFacts DEF SideOK, Bag
<1>3. SideOK' /\ CutsKept
  BY <1>1, <1>2 DEF SideOK, Bag, CutsKept
<1>4. /\ CoreOK' /\ at'[t] = "forget" /\ flight'[t] = NoTok
      /\ \A u \in Threads : u # t => at'[u] = at[u] /\ flight'[u] = flight[u]
  BY <1>1, IInvFacts DEF CoreOK, Places
<1>5. Shape'
  <2>1. ASSUME NEW u \in Threads PROVE ShapeOf(stack'[u], at'[u])
    <3>1. ShapeOf(stack[u], at[u])
      BY IInvFacts DEF Shape, ShapesOf
    <3>2. CASE u = t
      BY <1>1, <1>4, <3>2 DEF ShapeOf
    <3>3. CASE u # t
      BY <1>1, <1>4, <3>1, <3>3
    <3> QED
      BY <3>2, <3>3
  <2> QED
    BY <2>1 DEF Shape, ShapesOf
<1>6. Placed'
  <2>1. ASSUME NEW u \in Threads PROVE PlacedAt(u)'
    <3>1. PlacedAt(u)
      BY IInvFacts DEF Placed
    <3>2. CASE u = t
      BY <1>1, <1>4, <3>1, <3>2 DEF PlacedAt
    <3>3. CASE u # t
      BY <1>1, <1>4, <3>1, <3>3 DEF PlacedAt
    <3> QED
      BY <3>2, <3>3
  <2> QED
    BY <2>1 DEF Placed
<1>7. Moved(Chan, t, t, 0)
  BY <1>1, <1>4 DEF Moved, ButFor
<1>8. ASSUME NEW q \in DOMAIN paths
      PROVE  /\ q \in Tokens /\ q # NoTok /\ paths[q].occ \in Nat
             /\ Change(Chan, t, t, 0, q) + (lost'[q] - lost[q]) = 0
             /\ Change(Chan, t, t, 0, q) \in Int /\ lost'[q] \in Nat /\ lost[q] \in Nat
  <2>1. q \in Tokens /\ q # NoTok /\ paths[q].occ \in Nat
    BY IInvFacts
  <2>2. Tok(stack', "frame", t, 0, q) = 0 /\ Tok(stack, "frame", t, 0, q) = 0
    BY DEF Tok
  <2>3. One(q, flight'[t]) = 0 /\ One(q, flight[t]) \in Nat /\ One(q, slots[Chan]) \in Nat
    BY <1>4, <2>1 DEF One
  <2>4. Change(Chan, t, t, 0, q) = 0 - One(q, flight[t])
    BY <1>1, <2>2, <2>3 DEF Change
  <2>5. lost'[q] = lost[q] + One(q, flight[t]) /\ lost[q] \in Nat
    BY <1>1, <1>2, <2>1 DEF One
  <2> QED
    BY <2>1, <2>3, <2>4, <2>5
<1>9. Loses(Chan, t, t, 0)
  <2>1. ASSUME NEW q \in DOMAIN paths
        PROVE  paths'[q].occ = paths[q].occ + Change(Chan, t, t, 0, q) + (lost'[q] - lost[q])
    <3>1. /\ paths'[q].occ = paths[q].occ /\ paths[q].occ \in Nat
          /\ Change(Chan, t, t, 0, q) \in Int /\ lost'[q] \in Nat /\ lost[q] \in Nat
          /\ Change(Chan, t, t, 0, q) + (lost'[q] - lost[q]) = 0
      BY <1>1, <1>8
    <3> QED
      BY <3>1
  <2>2. DOMAIN paths' = DOMAIN paths
    BY <1>1
  <2> QED
    BY <1>3, <1>7, <2>1, <2>2 DEF Loses
<1>10. ASSUME NEW q \in DOMAIN paths'
       PROVE  /\ OwnedAt(paths', stack', reg', at', cut', q)
              /\ ApartAt(paths', stack', flight', reg', slots', q)
  <2>1. q \in DOMAIN paths /\ q # NoTok
    BY <1>1, <1>8
  <2>2. StaysOwned(q)
    BY <1>1, <1>4 DEF StaysOwned
  <2>3. GainsNothing(q)
    BY <1>1, <1>4, <2>1 DEF GainsNothing, HasIt
  <2> QED
    BY <1>1, <1>3, <2>1, <2>2, <2>3, OwnedKept, ApartKept
<1>11. Chan \in Cells /\ 0 \in Nat
  BY CellsApart DEF Cells
<1> QED
  BY <1>4, <1>5, <1>6, <1>9, <1>10, <1>11, LossStepIs

-----------------------------------------------------------------------------
(* References that leave a statement, a function, a thread.                  *)

\* A step that changes which statements of one thread list one path.
ListsMoved(t, p) ==
    /\ stack' \in Stacks /\ SameFrames
    /\ \A u \in Threads : Len(stack'[u]) = Len(stack[u])
    /\ \A A : ShapesOf(stack, A) => ShapesOf(stack', A)
    /\ \A u \in Threads, j \in Nat, q \in Tokens :
          ~(u = t /\ q = p) => Tok(stack', "scope", u, j, q) = Tok(stack, "scope", u, j, q)

LEMMA OnListsMoves ==
    ASSUME IInv, NEW t \in Threads, NEW p, OnLists(stack, stack', t, p)
    PROVE  ListsMoved(t, p)
<1>1. /\ stack' \in Stacks
      /\ \A u \in Threads : Len(stack'[u]) = Len(stack[u])
      /\ \A u \in Threads : \A j \in 1..Len(stack[u]) : stack'[u][j].kind = stack[u][j].kind
      /\ \A k \in Kinds, u \in Threads, j \in Nat, q \in Tokens :
            Tok(stack', k, u, j, q) = Tok(stack, k, u, j, q) \/ (k = "scope" /\ u = t /\ q = p)
  BY DEF OnLists
<1>2. SameFrames
  BY <1>1 DEF SameFrames, Kinds
<1>3. \A u \in Threads, j \in Nat, q \in Tokens :
         ~(u = t /\ q = p) => Tok(stack', "scope", u, j, q) = Tok(stack, "scope", u, j, q)
  BY <1>1 DEF Kinds
<1>4. ASSUME NEW A, ShapesOf(stack, A) PROVE ShapesOf(stack', A)
  <2>1. ASSUME NEW u \in Threads PROVE ShapeOf(stack'[u], A[u])
    <3> DEFINE s == stack[u]
               r == stack'[u]
               a == A[u]
    <3>1. ShapeOf(s, a) /\ Len(s) \in Nat
      BY <1>4, IInvFacts DEF ShapesOf, Stacks
    <3>2. Len(r) = Len(s) /\ \A j \in 1..Len(s) : r[j].kind = s[j].kind
      BY <1>1
    <3> HIDE DEF s, r, a
    <3>3. ShapeOf(r, a)
      BY <3>1, <3>2, ShapeAlike
    <3> QED
      BY <3>3 DEF r, a
  <2> QED
    BY <2>1 DEF ShapesOf
<1> QED
  BY <1>1, <1>2, <1>3, <1>4 DEF ListsMoved

Settles(p) ==
    p \in DOMAIN paths => /\ OwnedAt(paths', stack', reg', at', cut', p)
                          /\ ApartAt(paths', stack', flight', reg', slots', p)
StoresKept == \A u \in Threads : at[u] = "store" => at'[u] = "store" /\ reg'[u] = reg[u]

LEMMA ListStep ==
    ASSUME IInv, Spared, CoreOK', Shape', Placed', NEW c \in Cells, NEW t \in Threads, NEW p,
           ListsMoved(t, p), Moved(c, t, t, 0), StoresKept, DOMAIN paths' = DOMAIN paths,
           \A q \in DOMAIN paths :
              /\ paths'[q].exclusive = paths[q].exclusive
              /\ paths'[q].occ = paths[q].occ + Change(c, t, t, 0, q)
              /\ q # p => paths'[q].occ = paths[q].occ /\ paths'[q].scope = paths[q].scope
              /\ q # p => GainsNothing(q),
           Settles(p)
    PROVE  IInv' /\ Ends
<1> CutsKept
  BY DEF Spared
<1>1. Follows(c, t, t, 0)
  BY DEF Follows
<1>2. ASSUME NEW q \in DOMAIN paths', q # p
      PROVE  /\ OwnedAt(paths', stack', reg', at', cut', q)
             /\ ApartAt(paths', stack', flight', reg', slots', q)
  <2>1. q \in DOMAIN paths /\ q \in Tokens
    BY IInvFacts
  <2>2. \A u \in Threads, j \in Nat : Tok(stack', "scope", u, j, q) = Tok(stack, "scope", u, j, q)
    BY <1>2, <2>1 DEF ListsMoved
  <2>3. \A u \in Threads : ListsIt(stack, u, q) => ListsIt(stack', u, q)
    BY <2>2 DEF ListsIt
  <2>4. StaysOwned(q)
    BY <2>3 DEF StaysOwned, StoresKept
  <2>5. OwnedAt(paths', stack', reg', at', cut', q)
    BY <1>2, <2>1, <2>4, OwnedKept
  <2>6. ApartAt(paths', stack', flight', reg', slots', q)
    BY <1>2, <2>1, ApartKept
  <2> QED
    BY <2>5, <2>6
<1>3. \A q \in DOMAIN paths' : /\ OwnedAt(paths', stack', reg', at', cut', q)
                               /\ ApartAt(paths', stack', flight', reg', slots', q)
  BY <1>2 DEF Settles
<1> QED
  BY <1>1, <1>3, StepIs

\* The change to what holds a path, where no frame's holds change.
LEMMA ChangeIs ==
    ASSUME NEW c \in Cells, NEW t \in Threads, NEW q
    PROVE  Change(c, t, t, 0, q) = One(q, slots'[c]) - One(q, slots[c]) + One(q, flight'[t]) - One(q, flight[t])
<1>1. Tok(stack', "frame", t, 0, q) = 0 /\ Tok(stack, "frame", t, 0, q) = 0
  BY DEF Tok
<1>2. /\ One(q, slots'[c]) \in Nat /\ One(q, slots[c]) \in Nat
      /\ One(q, flight'[t]) \in Nat /\ One(q, flight[t]) \in Nat
  BY DEF One
<1> QED
  BY <1>1, <1>2 DEF Change

LEMMA SendRefStep == ASSUME IInv, NEW t \in Threads, SendRef(t) PROVE IInv' /\ Ends
<1> Spared /\ CutsKept
  BY IInvFacts DEF SendRef, SideOK, Spared, CutsKept
<1> DEFINE p == reg[t]
           P == Scoped(paths, p, None)
<1>1. /\ at[t] = "run" /\ p \in DOMAIN paths
      /\ stack' = detach_tok(stack, t, p) /\ paths' = Held(P, p)
      /\ flight' = [flight EXCEPT ![t] = p] /\ reg' = [reg EXCEPT ![t] = NoTok]
      /\ at' = [at EXCEPT ![t] = "return"] /\ slots' = slots
  BY DEF SendRef, InStatement, Runs
<1>2. /\ Shape /\ Placed /\ Table(paths) /\ stack \in Stacks /\ p \in Tokens /\ NoTok \notin Tokens
      /\ Chan \in Cells
  BY <1>1, IInvFacts, CellsApart DEF Cells
<1>3. flight[t] = NoTok
  BY <1>1, <1>2 DEF Placed, PlacedAt
<1>4. /\ flight' \in [Threads -> Tokens \cup {NoTok}] /\ flight'[t] = p
      /\ reg' \in [Threads -> Tokens \cup {NoTok}] /\ reg'[t] = NoTok
      /\ at' \in [Threads -> Places] /\ at'[t] = "return"
      /\ \A u \in Threads : u # t => flight'[u] = flight[u] /\ reg'[u] = reg[u] /\ at'[u] = at[u]
  BY <1>1, <1>2, IInvFacts DEF Places
<1>5. HasIt(stack, flight, reg, slots, t, p)
  BY DEF HasIt
<1> HIDE DEF p
<1>6. ListsMoved(t, p)
  BY <1>1, <1>2, DetachIs, OnListsMoves
<1>7. /\ Table(P) /\ DOMAIN P = DOMAIN paths
      /\ \A q \in DOMAIN paths :
            /\ P[q].exclusive = paths[q].exclusive /\ P[q].occ = paths[q].occ
            /\ P[q].scope = (IF q = p THEN None ELSE paths[q].scope)
  BY <1>2, ScopedIs DEF None
<1> HIDE DEF P
<1>8. /\ Table(paths') /\ DOMAIN paths' = DOMAIN paths
      /\ \A q \in DOMAIN paths :
            /\ paths'[q].exclusive = paths[q].exclusive
            /\ paths'[q].scope = (IF q = p THEN None ELSE paths[q].scope)
            /\ paths'[q].occ = paths[q].occ + (IF q = p THEN 1 ELSE 0)
  <2>1. /\ Table(Held(P, p)) /\ DOMAIN Held(P, p) = DOMAIN P
        /\ \A q \in DOMAIN P :
              /\ Held(P, p)[q].exclusive = P[q].exclusive
              /\ Held(P, p)[q].scope = P[q].scope
              /\ Held(P, p)[q].occ = P[q].occ + (IF q = p THEN 1 ELSE 0)
    BY <1>7, HeldIs
  <2> QED
    BY <1>1, <1>7, <2>1
<1>9. CoreOK'
  BY <1>1, <1>4, <1>6, <1>8, IInvFacts DEF CoreOK, ListsMoved
<1>10. Shape'
  <2>1. ShapesOf(stack', at)
    BY <1>2, <1>6 DEF Shape, ListsMoved
  <2>2. ShapesOf(stack', at')
    <3>1. ASSUME NEW u \in Threads PROVE ShapeOf(stack'[u], at'[u])
      <4>1. CASE u = t
        BY <1>1, <1>4, <2>1, <4>1 DEF ShapesOf, ShapeOf
      <4>2. CASE u # t
        BY <1>4, <2>1, <4>2 DEF ShapesOf
      <4> QED
        BY <4>1, <4>2
    <3> QED
      BY <3>1 DEF ShapesOf
  <2> QED
    BY <2>2 DEF Shape
<1>11. Placed'
  <2>1. \A u \in Threads : Len(stack'[u]) = Len(stack[u])
    BY <1>6 DEF ListsMoved
  <2>2. ASSUME NEW u \in Threads PROVE PlacedAt(u)'
    BY <1>1, <1>2, <1>4, <2>1 DEF Placed, PlacedAt
  <2> QED
    BY <2>2 DEF Placed, PlacedAt
<1>12. Moved(Chan, t, t, 0)
  BY <1>1, <1>4, <1>6 DEF Moved, ButFor, ListsMoved, SameFrames
<1>13. StoresKept
  BY <1>1, <1>4 DEF StoresKept
<1>14. ASSUME NEW q \in DOMAIN paths PROVE GainsNothing(q)
  <2>1. q \in Tokens /\ q # NoTok
    BY IInvFacts
  <2>2. ASSUME NEW u \in Threads, HasIt(stack', flight', reg', slots', u, q)
        PROVE  HasIt(stack, flight, reg, slots, u, q)
    <3>1. CASE u = t /\ q = p
      BY <1>5, <3>1
    <3>2. CASE ~(u = t /\ q = p)
      <4>1. (q = flight'[u] => q = flight[u]) /\ (q = reg'[u] => q = reg[u])
        BY <1>4, <2>1, <3>2
      <4> QED
        BY <1>1, <1>6, <2>1, <2>2, <4>1 DEF HasIt, ListsMoved, SameFrames
    <3> QED
      BY <3>1, <3>2
  <2> QED
    BY <1>1, <2>2 DEF GainsNothing
<1>15. ASSUME NEW q \in DOMAIN paths PROVE paths'[q].occ = paths[q].occ + Change(Chan, t, t, 0, q)
  <2>1. q # NoTok /\ paths[q].occ \in Nat
    BY IInvFacts
  <2>2. Change(Chan, t, t, 0, q) = (IF q = p THEN 1 ELSE 0)
    BY <1>1, <1>2, <1>3, <1>4, <2>1, ChangeIs DEF One
  <2> QED
    BY <1>8, <2>2
<1>16. Settles(p)
  <2>1. paths'[p].scope = None /\ paths'[p].occ > 0
    BY <1>1, <1>8, IInvFacts
  <2>2. OwnedAt(paths', stack', reg', at', cut', p)
    BY <2>1 DEF OwnedAt
  <2>3. ApartAt(paths', stack', flight', reg', slots', p)
    BY <1>1, <1>8, <1>14, ApartKept
  <2> QED
    BY <2>2, <2>3 DEF Settles
<1>17. \A q \in DOMAIN paths : q # p => paths'[q].occ = paths[q].occ /\ paths'[q].scope = paths[q].scope
  BY <1>8, IInvFacts
<1> QED
  BY <1>2, <1>6, <1>8, <1>9, <1>10, <1>11, <1>12, <1>13, <1>14, <1>15, <1>16, <1>17, ListStep

LEMMA RecvRefStep == ASSUME IInv, NEW t \in Threads, RecvRef(t) PROVE IInv' /\ Ends
<1> Spared /\ CutsKept
  BY IInvFacts DEF RecvRef, SideOK, Spared, CutsKept
<1> DEFINE p == flight[t]
           i == top_scope(t)
           P == Scoped(paths, p, i)
<1>1. /\ at[t] = "arrive"
      /\ stack' = stamp_tok(stack, t, p, i) /\ paths' = LetGo(P, p)
      /\ flight' = [flight EXCEPT ![t] = NoTok] /\ reg' = [reg EXCEPT ![t] = p]
      /\ at' = [at EXCEPT ![t] = IF stack[t] = <<>> THEN "store" ELSE "run"] /\ slots' = slots
  BY DEF RecvRef
<1>2. /\ Shape /\ Placed /\ Table(paths) /\ stack \in Stacks /\ NoTok \notin Tokens /\ SInv
      /\ p \in Tokens \cup {NoTok} /\ Chan \in Cells /\ Len(stack[t]) \in Nat
  BY <1>1, IInvFacts, CellsApart DEF Cells, Stacks
<1>3. /\ i \in Nat
      /\ i # None => i \in 1..Len(stack[t]) /\ stack[t][i].kind = "scope"
      /\ stack[t] # <<>> => i # None
      /\ stack[t] = <<>> => i = None
  <2>1. stack[t] # <<>> => Top(t, "scope")
    <3>1. ASSUME stack[t] # <<>> PROVE stack[t][Len(stack[t])].kind = "scope"
      <4>1. Len(stack[t]) > 0
        BY <1>2, <3>1 DEF Stacks
      <4> QED
        BY <1>1, <1>2, <4>1 DEF Shape, ShapesOf, ShapeOf
    <3> QED
      BY <3>1 DEF Top
  <2>2. /\ i \in 0..Len(stack[t])
        /\ i # None => stack[t][i].kind = "scope"
        /\ Top(t, "scope") => i # None
        /\ stack[t] = <<>> => i = None
    BY <1>2, PositionsAre
  <2> QED
    BY <1>2, <2>1, <2>2 DEF None
<1> HIDE DEF i
<1>4. /\ flight' \in [Threads -> Tokens \cup {NoTok}] /\ flight'[t] = NoTok
      /\ reg' \in [Threads -> Tokens \cup {NoTok}] /\ reg'[t] = p
      /\ at' \in [Threads -> Places] /\ at'[t] = IF stack[t] = <<>> THEN "store" ELSE "run"
      /\ \A u \in Threads : u # t => flight'[u] = flight[u] /\ reg'[u] = reg[u] /\ at'[u] = at[u]
  BY <1>1, <1>2, IInvFacts DEF Places
<1>5. HasIt(stack, flight, reg, slots, t, p)
  BY DEF HasIt
<1>18. p \in DOMAIN paths => paths[p].occ > 0
  BY OccAtLeast
<1> HIDE DEF p
<1>6. ListsMoved(t, p) /\ (i # None /\ p \in DOMAIN paths => ListsIt(stack', t, p))
  <2>1. CASE p \in Tokens
    <3>1. /\ OnLists(stack, stamp_tok(stack, t, p, i), t, p)
          /\ i # None /\ p \in DOMAIN paths => Tok(stamp_tok(stack, t, p, i), "scope", t, i, p) > 0
      BY <1>2, <1>3, <2>1, StampIs
    <3> QED
      BY <1>1, <1>3, <3>1, OnListsMoves DEF ListsIt
  <2>2. CASE p = NoTok
    <3>1. p \notin DOMAIN paths
      BY <2>2, IInvFacts
    <3>2. stack' = stack
      BY <1>1, <3>1 DEF stamp_tok
    <3>3. OnLists(stack, stack', t, p)
      BY <1>2, <3>2, OnListsSelf
    <3> QED
      BY <3>1, <3>3, OnListsMoves
  <2> QED
    BY <1>2, <2>1, <2>2
<1>7. /\ Table(P) /\ DOMAIN P = DOMAIN paths
      /\ \A q \in DOMAIN paths :
            /\ P[q].exclusive = paths[q].exclusive /\ P[q].occ = paths[q].occ
            /\ P[q].scope = (IF q = p THEN i ELSE paths[q].scope)
  BY <1>2, <1>3, ScopedIs
<1> HIDE DEF P
<1>8. /\ Table(paths') /\ DOMAIN paths' = DOMAIN paths
      /\ \A q \in DOMAIN paths :
            /\ paths'[q].exclusive = paths[q].exclusive
            /\ paths'[q].scope = (IF q = p THEN i ELSE paths[q].scope)
            /\ paths'[q].occ = paths[q].occ - (IF q = p THEN 1 ELSE 0)
  <2>1. p \in DOMAIN P => P[p].occ > 0
    BY <1>7, <1>18
  <2>2. /\ Table(LetGo(P, p)) /\ DOMAIN LetGo(P, p) = DOMAIN P
        /\ \A q \in DOMAIN P :
              /\ LetGo(P, p)[q].exclusive = P[q].exclusive
              /\ LetGo(P, p)[q].scope = P[q].scope
              /\ LetGo(P, p)[q].occ = P[q].occ - (IF q = p THEN 1 ELSE 0)
    BY <1>7, <2>1, LetGoIs
  <2> QED
    BY <1>1, <1>7, <2>2
<1>9. CoreOK'
  BY <1>1, <1>4, <1>6, <1>8, IInvFacts DEF CoreOK, ListsMoved
<1>10. Shape'
  <2>1. ShapesOf(stack', at) /\ Len(stack'[t]) = Len(stack[t])
    BY <1>2, <1>6 DEF Shape, ListsMoved
  <2>2. stack[t] = <<>> => Len(stack'[t]) = 0
    BY <1>2, <2>1
  <2>3. stack[t] # <<>> => Len(stack'[t]) > 0
    BY <1>2, <2>1 DEF Stacks
  <2>4. ShapesOf(stack', at')
    <3>1. ASSUME NEW u \in Threads PROVE ShapeOf(stack'[u], at'[u])
      <4>1. CASE u = t
        BY <1>4, <2>1, <2>2, <2>3, <4>1 DEF ShapesOf, ShapeOf
      <4>2. CASE u # t
        BY <1>4, <2>1, <4>2 DEF ShapesOf
      <4> QED
        BY <4>1, <4>2
    <3> QED
      BY <3>1 DEF ShapesOf
  <2> QED
    BY <2>4 DEF Shape
<1>11. Placed'
  <2>1. \A u \in Threads : Len(stack'[u]) = Len(stack[u])
    BY <1>6 DEF ListsMoved
  <2>2. ASSUME NEW u \in Threads PROVE PlacedAt(u)'
    BY <1>1, <1>2, <1>4, <2>1 DEF Placed, PlacedAt
  <2> QED
    BY <2>2 DEF Placed, PlacedAt
<1>12. Moved(Chan, t, t, 0)
  BY <1>1, <1>4, <1>6 DEF Moved, ButFor, ListsMoved, SameFrames
<1>13. StoresKept
  BY <1>1, <1>4 DEF StoresKept
<1>14. ASSUME NEW q \in DOMAIN paths PROVE GainsNothing(q)
  <2>1. q \in Tokens /\ q # NoTok
    BY IInvFacts
  <2>2. ASSUME NEW u \in Threads, HasIt(stack', flight', reg', slots', u, q)
        PROVE  HasIt(stack, flight, reg, slots, u, q)
    <3>1. CASE u = t /\ q = p
      BY <1>5, <3>1
    <3>2. CASE ~(u = t /\ q = p)
      <4>1. (q = flight'[u] => q = flight[u]) /\ (q = reg'[u] => q = reg[u])
        BY <1>4, <2>1, <3>2
      <4> QED
        BY <1>1, <1>6, <2>1, <2>2, <4>1 DEF HasIt, ListsMoved, SameFrames
    <3> QED
      BY <3>1, <3>2
  <2> QED
    BY <1>1, <2>2 DEF GainsNothing
<1>15. ASSUME NEW q \in DOMAIN paths PROVE paths'[q].occ = paths[q].occ + Change(Chan, t, t, 0, q)
  <2>1. q # NoTok /\ paths[q].occ \in Nat
    BY IInvFacts
  <2>2. Change(Chan, t, t, 0, q) = (IF q = p THEN -1 ELSE 0)
    BY <1>1, <1>2, <1>4, <2>1, ChangeIs DEF One, p
  <2> QED
    BY <1>8, <2>1, <2>2
<1>16. Settles(p)
  <2> SUFFICES ASSUME p \in DOMAIN paths
               PROVE  /\ OwnedAt(paths', stack', reg', at', cut', p)
                      /\ ApartAt(paths', stack', flight', reg', slots', p)
    BY DEF Settles
  <2>1. CASE stack[t] = <<>>
    <3>1. paths'[p].scope = None /\ at'[t] = "store" /\ reg'[t] = p
      BY <1>3, <1>4, <1>8, <2>1
    <3> QED
      BY <1>8, <1>14, <3>1, ApartKept DEF OwnedAt
  <2>2. CASE stack[t] # <<>>
    <3>1. ListsIt(stack', t, p)
      BY <1>3, <1>6, <2>2
    <3> QED
      BY <1>8, <1>14, <3>1, ApartKept DEF OwnedAt
  <2> QED
    BY <2>1, <2>2
<1>17. \A q \in DOMAIN paths : q # p => paths'[q].occ = paths[q].occ /\ paths'[q].scope = paths[q].scope
  BY <1>8, IInvFacts
<1> QED
  BY <1>2, <1>6, <1>8, <1>9, <1>10, <1>11, <1>12, <1>13, <1>14, <1>15, <1>16, <1>17, ListStep

LEMMA ChannelRecvStep == ASSUME IInv, NEW t \in Threads, ChannelRecv(t) PROVE IInv' /\ Ends
<1> Spared /\ CutsKept
  BY IInvFacts DEF ChannelRecv, LentByChannel, SideOK, Spared, CutsKept
<1> DEFINE p == slots[Chan]
<1>1. /\ at[t] = "run" /\ Top(t, "scope") /\ p # NoTok
      /\ stack' = detach_tok(stack, t, p) /\ paths' = Scoped(paths, p, None)
      /\ flight' = [flight EXCEPT ![t] = p] /\ reg' = [reg EXCEPT ![t] = NoTok]
      /\ at' = [at EXCEPT ![t] = "arrive"] /\ slots' = [slots EXCEPT ![Chan] = NoTok]
  BY DEF ChannelRecv, InStatement, Runs
<1>2. /\ Shape /\ Placed /\ Table(paths) /\ stack \in Stacks /\ NoTok \notin Tokens
      /\ p \in Tokens /\ Chan \in Cells /\ Len(stack[t]) \in Nat
  BY <1>1, IInvFacts, CellsApart DEF Cells, Stacks
<1>3. flight[t] = NoTok
  BY <1>1, <1>2 DEF Placed, PlacedAt
<1>4. /\ flight' \in [Threads -> Tokens \cup {NoTok}] /\ flight'[t] = p
      /\ reg' \in [Threads -> Tokens \cup {NoTok}] /\ reg'[t] = NoTok
      /\ at' \in [Threads -> Places] /\ at'[t] = "arrive"
      /\ slots' \in [Cells -> Tokens \cup {NoTok}] /\ slots'[Chan] = NoTok
      /\ \A u \in Threads : u # t => flight'[u] = flight[u] /\ reg'[u] = reg[u] /\ at'[u] = at[u]
      /\ \A d \in Cells : d # Chan => slots'[d] = slots[d]
  BY <1>1, <1>2, IInvFacts DEF Places
<1>5. p \in DOMAIN paths => paths[p].occ > 0
  BY <1>2, OccAtLeast
<1> HIDE DEF p
<1>6. ListsMoved(t, p)
  BY <1>1, <1>2, DetachIs, OnListsMoves
<1>8. /\ Table(paths') /\ DOMAIN paths' = DOMAIN paths
      /\ \A q \in DOMAIN paths :
            /\ paths'[q].exclusive = paths[q].exclusive
            /\ paths'[q].scope = (IF q = p THEN None ELSE paths[q].scope)
            /\ paths'[q].occ = paths[q].occ
  BY <1>1, <1>2, ScopedIs DEF None
<1>9. CoreOK'
  BY <1>1, <1>4, <1>6, <1>8, IInvFacts DEF CoreOK, ListsMoved
<1>10. Shape'
  <2>1. ShapesOf(stack', at) /\ Len(stack'[t]) = Len(stack[t])
    BY <1>2, <1>6 DEF Shape, ListsMoved
  <2>2. stack'[t][Len(stack'[t])].kind = "scope"
    <3>1. OnLists(stack, stack', t, p)
      BY <1>1, <1>2, DetachIs
    <3>2. \A j \in 1..Len(stack[t]) : stack'[t][j].kind = stack[t][j].kind
      BY <3>1 DEF OnLists
    <3>3. Len(stack[t]) \in 1..Len(stack[t]) /\ stack[t][Len(stack[t])].kind = "scope"
      BY <1>1, <1>2 DEF Top, Stacks
    <3> QED
      BY <2>1, <3>2, <3>3
  <2>4. ShapesOf(stack', at')
    <3>1. ASSUME NEW u \in Threads PROVE ShapeOf(stack'[u], at'[u])
      <4>1. CASE u = t
        BY <1>4, <2>1, <2>2, <4>1 DEF ShapesOf, ShapeOf
      <4>2. CASE u # t
        BY <1>4, <2>1, <4>2 DEF ShapesOf
      <4> QED
        BY <4>1, <4>2
    <3> QED
      BY <3>1 DEF ShapesOf
  <2> QED
    BY <2>4 DEF Shape
<1>11. Placed'
  <2>1. \A u \in Threads : Len(stack'[u]) = Len(stack[u])
    BY <1>6 DEF ListsMoved
  <2>2. ASSUME NEW u \in Threads PROVE PlacedAt(u)'
    <3>1. slots'[Local(u)] = slots[Local(u)] /\ slots'[Arg(u)] = slots[Arg(u)]
      BY <1>4, CellsApart
    <3> QED
      BY <1>1, <1>2, <1>4, <2>1, <3>1 DEF Placed, PlacedAt
  <2> QED
    BY <2>2 DEF Placed, PlacedAt
<1>12. Moved(Chan, t, t, 0)
  BY <1>1, <1>4, <1>6 DEF Moved, ButFor, ListsMoved, SameFrames
<1>13. StoresKept
  BY <1>1, <1>4 DEF StoresKept
<1>14. ASSUME NEW q \in DOMAIN paths, NEW u \in Threads, ~(u = t /\ q = p),
              HasIt(stack', flight', reg', slots', u, q)
       PROVE  HasIt(stack, flight, reg, slots, u, q)
  <2>1. q \in Tokens /\ q # NoTok
    BY IInvFacts
  <2>2. (q = flight'[u] => q = flight[u]) /\ (q = reg'[u] => q = reg[u])
    BY <1>4, <1>14, <2>1
  <2>3. \A d \in {Local(u), Arg(u), Res(u)} : slots'[d] = slots[d]
    BY <1>4, CellsApart
  <2> QED
    BY <1>6, <1>14, <2>1, <2>2, <2>3 DEF HasIt, ListsMoved, SameFrames
<1>15. ASSUME NEW q \in DOMAIN paths PROVE paths'[q].occ = paths[q].occ + Change(Chan, t, t, 0, q)
  <2>1. q # NoTok /\ paths[q].occ \in Nat
    BY IInvFacts
  <2>2. Change(Chan, t, t, 0, q) = 0
    BY <1>1, <1>2, <1>3, <1>4, <2>1, ChangeIs DEF One, p
  <2> QED
    BY <1>8, <2>1, <2>2
<1>16. Settles(p)
  <2> SUFFICES ASSUME p \in DOMAIN paths
               PROVE  /\ OwnedAt(paths', stack', reg', at', cut', p)
                      /\ ApartAt(paths', stack', flight', reg', slots', p)
    BY DEF Settles
  <2>1. OwnedAt(paths', stack', reg', at', cut', p)
    BY <1>5, <1>8 DEF OwnedAt
  <2>2. ApartAt(paths', stack', flight', reg', slots', p)
    <3>1. ASSUME paths[p].exclusive PROVE \A u \in Threads : ~HasIt(stack, flight, reg, slots, u, p)
      <4>1. ApartAt(paths, stack, flight, reg, slots, p)
        BY DEF IInv, Apart
      <4> QED
        BY <3>1, <4>1 DEF ApartAt, p
    <3>2. slots'[Chan] # p
      BY <1>2, <1>4
    <3> QED
      BY <1>8, <1>14, <3>1, <3>2 DEF ApartAt
  <2> QED
    BY <2>1, <2>2
<1>17. \A q \in DOMAIN paths : q # p => paths'[q].occ = paths[q].occ /\ paths'[q].scope = paths[q].scope
  BY <1>8, IInvFacts
<1>18. \A q \in DOMAIN paths : q # p => GainsNothing(q)
  BY <1>4, <1>14, IInvFacts DEF GainsNothing
<1> QED
  BY <1>2, <1>6, <1>8, <1>9, <1>10, <1>11, <1>12, <1>13, <1>15, <1>16, <1>17, <1>18, ListStep

LEMMA ResultStep == ASSUME IInv, NEW t \in Threads, Result(t) PROVE IInv' /\ Ends
<1> Spared /\ CutsKept
  BY IInvFacts DEF Result, SideOK, Spared, CutsKept
<1> DEFINE p == reg[t]
           cur == paths[p].scope
           base == IF cur = None THEN top_scope(t) ELSE cur
           i == scope_below(t, base)
           R == detach_tok(stack, t, p)
<1>1. /\ at[t] = "run" /\ Top(t, "scope") /\ Cardinality(Positions(t, "scope")) > 1
      /\ p \in DOMAIN paths
      /\ \A j \in Positions(t, "scope") \ {top_scope(t)} : stack[t][j].toks[p] = 0
      /\ stack' = stamp_tok(R, t, p, i) /\ paths' = Scoped(paths, p, i)
      /\ at' = [at EXCEPT ![t] = "result"] /\ slots' = slots /\ flight' = flight /\ reg' = reg
  BY DEF Result, InStatement, Runs
<1>2. /\ Shape /\ Placed /\ Table(paths) /\ stack \in Stacks /\ SInv
      /\ p \in Tokens /\ Chan \in Cells /\ Len(stack[t]) \in Nat /\ cur \in Nat
  BY <1>1, IInvFacts, CellsApart DEF Stacks
<1>3. base \in Nat
  BY <1>2, PositionsAre
<1>4. /\ at' \in [Threads -> Places] /\ at'[t] = "result"
      /\ \A u \in Threads : u # t => at'[u] = at[u]
  BY <1>1, IInvFacts DEF Places
<1> HIDE DEF p, base, i, R, cur
<1>5. /\ i \in Nat
      /\ i # None => i \in 1..Len(stack[t]) /\ stack[t][i].kind = "scope"
      /\ i = None => base # top_scope(t)
  <2>1. /\ scope_below(t, base) \in 0..Len(stack[t])
        /\ scope_below(t, base) # None =>
              /\ scope_below(t, base) \in 1..Len(stack[t]) /\ scope_below(t, base) < base
              /\ stack[t][scope_below(t, base)].kind = "scope"
        /\ Top(t, "scope") /\ base = top_scope(t) /\ Cardinality(Positions(t, "scope")) > 1
              => scope_below(t, base) # None
    BY <1>2, <1>3, BelowIs
  <2> QED
    BY <1>1, <1>2, <2>1 DEF i
<1>6. /\ OnLists(stack, R, t, p) /\ OnLists(stack, stack', t, p)
      /\ i # None => ListsIt(stack', t, p)
      /\ i = None => stack' = R
  <2>1. OnLists(stack, R, t, p)
    BY <1>2, DetachIs DEF R
  <2>2. R \in Stacks /\ (i # None => i \in 1..Len(R[t]) /\ R[t][i].kind = "scope")
    BY <1>5, <2>1 DEF OnLists
  <2>3. /\ OnLists(R, stamp_tok(R, t, p, i), t, p)
        /\ i # None /\ p \in DOMAIN paths => Tok(stamp_tok(R, t, p, i), "scope", t, i, p) > 0
        /\ i = None => stamp_tok(R, t, p, i) = R
    BY <1>2, <2>2, StampIs
  <2>4. OnLists(stack, stack', t, p)
    BY <1>1, <1>2, <2>1, <2>3, OnListsTrans
  <2> QED
    BY <1>1, <1>5, <2>1, <2>3, <2>4 DEF ListsIt
<1>7. ListsMoved(t, p)
  BY <1>6, OnListsMoves
<1>8. /\ Table(paths') /\ DOMAIN paths' = DOMAIN paths
      /\ \A q \in DOMAIN paths :
            /\ paths'[q].exclusive = paths[q].exclusive
            /\ paths'[q].scope = (IF q = p THEN i ELSE paths[q].scope)
            /\ paths'[q].occ = paths[q].occ
  BY <1>1, <1>2, <1>5, ScopedIs
<1>9. CoreOK'
  BY <1>1, <1>4, <1>7, <1>8, IInvFacts DEF CoreOK, ListsMoved
<1>10. Shape'
  <2>1. ShapesOf(stack', at)
    BY <1>2, <1>7 DEF Shape, ListsMoved
  <2>2. ASSUME NEW u \in Threads PROVE ShapeOf(stack'[u], at'[u])
    <3>1. CASE u = t
      BY <1>1, <1>4, <2>1, <3>1 DEF ShapesOf, ShapeOf
    <3>2. CASE u # t
      BY <1>4, <2>1, <3>2 DEF ShapesOf
    <3> QED
      BY <3>1, <3>2
  <2> QED
    BY <2>2 DEF Shape, ShapesOf
<1>11. Placed'
  <2>1. \A u \in Threads : Len(stack'[u]) = Len(stack[u])
    BY <1>7 DEF ListsMoved
  <2>2. ASSUME NEW u \in Threads PROVE PlacedAt(u)'
    BY <1>1, <1>2, <1>4, <2>1 DEF Placed, PlacedAt
  <2> QED
    BY <2>2 DEF Placed, PlacedAt
<1>12. Moved(Chan, t, t, 0) /\ \A q \in Tokens : Change(Chan, t, t, 0, q) = 0
  BY <1>1, <1>7, NothingMoves DEF ListsMoved
<1>13. StoresKept
  BY <1>1, <1>4 DEF StoresKept
<1>14. ASSUME NEW q \in DOMAIN paths PROVE GainsNothing(q)
  <2>1. q \in Tokens
    BY IInvFacts
  <2>2. reg'[t] = q => HasIt(stack, flight, reg, slots, t, q)
    BY <1>1 DEF HasIt
  <2> QED
    BY <1>1, <1>7, <2>1, <2>2, SameHands DEF ListsMoved
<1>15. \A q \in DOMAIN paths : paths'[q].occ = paths[q].occ + Change(Chan, t, t, 0, q)
  BY <1>8, <1>12, IInvFacts
<1>16. Settles(p)
  <2>1. CASE i # None
    BY <1>6, <1>8, <1>14, <2>1, ApartKept DEF Settles, OwnedAt
  <2>2. CASE i = None
    <3>1. cur # None /\ cur # top_scope(t)
      BY <1>5, <2>2 DEF base
    <3>2. ~(cur \in 1..Len(stack[t]) /\ stack[t][cur].kind = "scope" /\ stack[t][cur].toks[p] > 0)
      BY <1>1, <3>1 DEF Positions
    <3>3. stack' = stack
      <4>1. paths[p].scope = cur
        BY DEF cur
      <4>2. detach_tok(stack, t, p) = stack
        BY <1>1, <3>2, <4>1 DEF detach_tok
      <4> QED
        BY <1>6, <2>2, <4>2 DEF R
    <3>4. OwnedAt(paths, stack, reg, at, cut, p)
      BY <1>1 DEF IInv, Owned
    <3>5. p \in cut' \/ \E u \in Threads : ListsIt(stack', u, p)
      BY <1>1, <3>1, <3>3, <3>4 DEF OwnedAt, cur, CutsKept
    <3> QED
      BY <1>8, <1>14, <3>5, ApartKept DEF Settles, OwnedAt
  <2> QED
    BY <2>1, <2>2
<1>17. \A q \in DOMAIN paths : q # p => paths'[q].occ = paths[q].occ /\ paths'[q].scope = paths[q].scope
  BY <1>8
<1> QED
  BY <1>2, <1>7, <1>8, <1>9, <1>10, <1>11, <1>12, <1>13, <1>14, <1>15, <1>16, <1>17, ListStep

\* A thread that has ended has no path but its result, or none of that and a local
\* that a fault left behind.
LEMMA EndedHas ==
    ASSUME IInv, NEW u \in Threads, at[u] = "ended"
    PROVE  /\ Len(stack[u]) = 0 /\ reg[u] = NoTok /\ flight[u] = NoTok
           /\ slots[Res(u)] # NoTok => slots[Local(u)] = NoTok
           /\ slots[Arg(u)] = NoTok
<1>1. Len(stack[u]) = 0
  BY IInvFacts DEF Shape, ShapesOf, ShapeOf
<1> QED
  BY <1>1, IInvFacts DEF Placed, PlacedAt

LEMMA JoinStep ==
    ASSUME IInv, NEW t \in Threads, NEW u \in Threads, Join(t, u) PROVE IInv' /\ Ends
<1> Spared /\ CutsKept
  BY IInvFacts DEF Join, SideOK, Spared, CutsKept
<1> DEFINE p == slots[Res(u)]
           i == top_scope(t)
           R == detach_tok(stack, t, p)
           P == Scoped(paths, p, i)
<1>1. /\ at[t] = "run" /\ Top(t, "scope") /\ at[u] = "ended" /\ t # u
      /\ at' = [at EXCEPT ![u] = "joined"] /\ flight' = flight
      /\ IF p = NoTok THEN UNCHANGED <<paths, slots, stack, reg>>
         ELSE /\ stack' = stamp_tok(R, t, p, i) /\ paths' = drop_occ(P, p)
              /\ slots' = [slots EXCEPT ![Res(u)] = NoTok] /\ reg' = [reg EXCEPT ![t] = p]
  BY DEF Join, InStatement, Runs
<1>2. /\ Shape /\ Placed /\ Table(paths) /\ stack \in Stacks /\ SInv /\ NoTok \notin Tokens
      /\ p \in Tokens \cup {NoTok} /\ Res(u) \in Cells /\ Len(stack[t]) \in Nat
  BY <1>1, IInvFacts, CellsApart DEF Stacks
<1>3. /\ at' \in [Threads -> Places] /\ at'[u] = "joined"
      /\ \A v \in Threads : v # u => at'[v] = at[v]
  BY <1>1, IInvFacts DEF Places
<1>4. i \in Nat /\ i # None /\ i \in 1..Len(stack[t]) /\ stack[t][i].kind = "scope"
  <2>1. i = Len(stack[t]) /\ i # None /\ (i # None => stack[t][i].kind = "scope")
    BY <1>1, <1>2, PositionsAre
  <2> QED
    BY <1>2, <2>1 DEF None
<1>5. /\ Len(stack[u]) = 0 /\ reg[u] = NoTok /\ flight[u] = NoTok
      /\ p # NoTok => slots[Local(u)] = NoTok
      /\ slots[Arg(u)] = NoTok
  BY <1>1, EndedHas
<1>6. HasIt(stack, flight, reg, slots, u, p)
  BY DEF HasIt
<1>7. p \in DOMAIN paths => paths[p].occ > 0
  BY <1>2, OccAtLeast
<1>8. ASSUME ShapesOf(stack', at), \A v \in Threads : Len(stack'[v]) = Len(stack[v]) PROVE Shape'
  <2>1. ASSUME NEW v \in Threads PROVE ShapeOf(stack'[v], at'[v])
    <3>1. CASE v = u
      BY <1>1, <1>3, <1>5, <1>8, <3>1 DEF ShapesOf, ShapeOf
    <3>2. CASE v # u
      BY <1>3, <1>8, <3>2 DEF ShapesOf
    <3> QED
      BY <3>1, <3>2
  <2> QED
    BY <2>1 DEF Shape, ShapesOf
<1>9. CASE p = NoTok
  <2>1. paths' = paths /\ slots' = slots /\ stack' = stack /\ reg' = reg
    BY <1>1, <1>9
  <2>2. CoreOK'
    BY <1>1, <1>3, <2>1, IInvFacts DEF CoreOK
  <2>3. SameLists /\ SameFrames
    BY <2>1, SameStack
  <2>4. Shape'
    BY <1>2, <1>8, <2>1 DEF Shape
  <2>5. Placed'
    <3>1. ASSUME NEW v \in Threads PROVE PlacedAt(v)'
      <4>1. PlacedAt(v)
        BY <1>2 DEF Placed
      <4>2. CASE v = u
        BY <1>1, <1>3, <1>5, <1>9, <2>1, <4>1, <4>2 DEF PlacedAt
      <4>3. CASE v # u
        BY <1>1, <1>3, <2>1, <4>1, <4>3 DEF PlacedAt
      <4> QED
        BY <4>2, <4>3
    <3> QED
      BY <3>1 DEF Placed
  <2>6. \A q \in DOMAIN paths : StaysOwned(q)
    <3>1. \A v \in Threads : at[v] = "store" => at'[v] = "store" /\ reg'[v] = reg[v]
      BY <1>1, <1>3, <2>1
    <3> QED
      BY <2>3, <3>1, SameStores, IInvFacts
  <2>7. \A q \in DOMAIN paths : GainsNothing(q)
    <3>1. ASSUME NEW q \in DOMAIN paths PROVE reg'[t] = q => HasIt(stack, flight, reg, slots, t, q)
      BY <2>1 DEF HasIt
    <3> QED
      BY <1>1, <2>1, <2>3, <3>1, SameHands, IInvFacts
  <2> QED
    BY <1>1, <2>1, <2>2, <2>3, <2>4, <2>5, <2>6, <2>7, QuietStep
<1>10. CASE p # NoTok
  <2>1. /\ stack' = stamp_tok(R, t, p, i) /\ paths' = drop_occ(P, p)
        /\ slots' = [slots EXCEPT ![Res(u)] = NoTok] /\ reg' = [reg EXCEPT ![t] = p]
        /\ p \in Tokens
    BY <1>1, <1>2, <1>10
  <2>2. /\ reg' \in [Threads -> Tokens \cup {NoTok}] /\ reg'[t] = p
        /\ slots' \in [Cells -> Tokens \cup {NoTok}] /\ slots'[Res(u)] = NoTok
        /\ \A v \in Threads : v # t => reg'[v] = reg[v]
        /\ \A d \in Cells : d # Res(u) => slots'[d] = slots[d]
    BY <2>1, IInvFacts, CellsApart
  <2>3. slots[Res(u)] = p
    OBVIOUS
  <2> HIDE DEF p, i, R
  <2>4. OnLists(stack, stack', t, p) /\ (p \in DOMAIN paths => ListsIt(stack', t, p))
    <3>1. OnLists(stack, R, t, p)
      BY <1>2, <2>1, DetachIs DEF R
    <3>2. R \in Stacks /\ i \in 1..Len(R[t]) /\ R[t][i].kind = "scope"
      BY <1>4, <3>1 DEF OnLists
    <3>3. /\ OnLists(R, stamp_tok(R, t, p, i), t, p)
          /\ i # None /\ p \in DOMAIN paths => Tok(stamp_tok(R, t, p, i), "scope", t, i, p) > 0
      BY <2>1, <3>2, StampIs
    <3>4. OnLists(stack, stack', t, p)
      BY <1>2, <2>1, <3>1, <3>3, OnListsTrans
    <3> QED
      BY <1>4, <2>1, <3>3, <3>4 DEF ListsIt
  <2>5. ListsMoved(t, p)
    BY <2>4, OnListsMoves
  <2>6. /\ Table(P) /\ DOMAIN P = DOMAIN paths
        /\ \A q \in DOMAIN paths :
              /\ P[q].exclusive = paths[q].exclusive /\ P[q].occ = paths[q].occ
              /\ P[q].scope = (IF q = p THEN i ELSE paths[q].scope)
    BY <1>2, <1>4, ScopedIs
  <2> HIDE DEF P
  <2>7. /\ Table(paths') /\ DOMAIN paths' = DOMAIN paths
        /\ \A q \in DOMAIN paths :
              /\ paths'[q].exclusive = paths[q].exclusive
              /\ paths'[q].scope = (IF q = p THEN i ELSE paths[q].scope)
              /\ paths'[q].occ = paths[q].occ - (IF q = p THEN 1 ELSE 0)
    <3>1. p \in DOMAIN P => P[p].occ > 0
      BY <1>7, <2>6
    <3>2. /\ Table(drop_occ(P, p)) /\ DOMAIN drop_occ(P, p) \subseteq DOMAIN P
          /\ \A q \in DOMAIN drop_occ(P, p) :
                /\ drop_occ(P, p)[q].exclusive = P[q].exclusive
                /\ drop_occ(P, p)[q].scope = P[q].scope
                /\ drop_occ(P, p)[q].occ = P[q].occ - (IF q = p THEN 1 ELSE 0)
          /\ \A q \in DOMAIN P \ DOMAIN drop_occ(P, p) : q = p /\ P[q].scope = None
      BY <2>6, <3>1, DropIs
    <3>3. DOMAIN drop_occ(P, p) = DOMAIN paths
      BY <1>4, <2>6, <3>2
    <3> QED
      BY <2>1, <2>6, <3>2, <3>3
  <2>8. CoreOK'
    BY <1>1, <1>3, <2>2, <2>5, <2>7, IInvFacts DEF CoreOK, ListsMoved
  <2>9. Shape'
    BY <1>2, <1>8, <2>5 DEF Shape, ListsMoved
  <2>10. Placed'
    <3>1. \A v \in Threads : Len(stack'[v]) = Len(stack[v])
      BY <2>5 DEF ListsMoved
    <3>2. ASSUME NEW v \in Threads PROVE PlacedAt(v)'
      <4>1. /\ slots'[Local(v)] = slots[Local(v)] /\ slots'[Arg(v)] = slots[Arg(v)]
            /\ v # u => slots'[Res(v)] = slots[Res(v)]
        BY <2>2, CellsApart
      <4>2. PlacedAt(v)
        BY <1>2 DEF Placed
      <4>3. CASE v = u
        BY <1>1, <1>3, <1>5, <2>2, <3>1, <4>1, <4>2, <4>3 DEF PlacedAt
      <4>4. CASE v = t
        BY <1>1, <1>3, <2>2, <3>1, <4>1, <4>2, <4>4 DEF PlacedAt
      <4>5. CASE v # u /\ v # t
        BY <1>1, <1>3, <2>2, <3>1, <4>1, <4>2, <4>5 DEF PlacedAt
      <4> QED
        BY <4>3, <4>4, <4>5
    <3> QED
      BY <3>2 DEF Placed
  <2>11. Moved(Res(u), t, t, 0)
    BY <1>1, <2>2, <2>5 DEF Moved, ButFor, ListsMoved, SameFrames
  <2>12. StoresKept
    BY <1>1, <1>3, <2>2 DEF StoresKept
  <2>13. ASSUME NEW q \in DOMAIN paths, NEW v \in Threads, ~(v = t /\ q = p),
                HasIt(stack', flight', reg', slots', v, q)
         PROVE  HasIt(stack, flight, reg, slots, v, q) /\ ~(v = u /\ q = p)
    <3>1. q \in Tokens /\ q # NoTok
      BY IInvFacts
    <3>2. q = reg'[v] => q = reg[v]
      BY <2>2, <2>13, <3>1
    <3>3. \A d \in {Local(v), Arg(v), Res(v)} : slots'[d] = q => slots[d] = q
      BY <2>2, <3>1, CellsApart
    <3>4. HasIt(stack, flight, reg, slots, v, q)
      BY <1>1, <2>5, <2>13, <3>1, <3>2, <3>3 DEF HasIt, ListsMoved, SameFrames
    <3>5. ASSUME v = u, q = p PROVE FALSE
      <4>1. q # reg'[u] /\ q # flight'[u]
        BY <1>1, <1>5, <2>2, <3>1
      <4>2. q \notin {slots'[Local(u)], slots'[Arg(u)], slots'[Res(u)]}
        <5>1. slots[Local(u)] = NoTok /\ slots[Arg(u)] = NoTok
          BY <1>5, <1>10 DEF p
        <5> QED
          BY <2>2, <3>1, <5>1, CellsApart
      <4>3. \A j \in Nat : ~(Tok(stack', "frame", u, j, q) > 0)
        <5>1. \A j \in Nat : Tok(stack', "frame", u, j, q) = Tok(stack, "frame", u, j, q)
          BY <2>5, <3>1 DEF ListsMoved, SameFrames
        <5>2. \A j \in Nat : Tok(stack, "frame", u, j, q) = 0
          BY <1>5 DEF Tok
        <5> QED
          BY <5>1, <5>2
      <4> QED
        BY <2>13, <3>5, <4>1, <4>2, <4>3 DEF HasIt
    <3> QED
      BY <3>4, <3>5
  <2>14. ASSUME NEW q \in DOMAIN paths
         PROVE  paths'[q].occ = paths[q].occ + Change(Res(u), t, t, 0, q)
    <3>1. q # NoTok /\ paths[q].occ \in Nat
      BY IInvFacts
    <3>2. Change(Res(u), t, t, 0, q) = (IF q = p THEN -1 ELSE 0)
      BY <1>1, <1>2, <2>2, <2>3, <3>1, ChangeIs DEF One
    <3> QED
      BY <2>7, <3>1, <3>2
  <2>15. \A q \in DOMAIN paths : q # p => paths'[q].occ = paths[q].occ /\ paths'[q].scope = paths[q].scope
    BY <2>7, IInvFacts
  <2>16. slots'[Chan] = slots[Chan]
    BY <2>2, CellsApart
  <2>17. \A q \in DOMAIN paths : q # p => GainsNothing(q)
    BY <2>13, <2>16 DEF GainsNothing
  <2>18. Settles(p)
    <3> SUFFICES ASSUME p \in DOMAIN paths
                 PROVE  /\ OwnedAt(paths', stack', reg', at', cut', p)
                        /\ ApartAt(paths', stack', flight', reg', slots', p)
      BY DEF Settles
    <3>1. ApartAt(paths, stack, flight, reg, slots, p)
      BY DEF IInv, Apart
    <3>2. ASSUME paths[p].exclusive, NEW v \in Threads, HasIt(stack', flight', reg', slots', v, p)
          PROVE  v = t
      BY <1>6, <2>13, <3>1, <3>2 DEF ApartAt
    <3>3. paths[p].exclusive => slots'[Chan] # p
      BY <1>6, <2>16, <3>1 DEF ApartAt
    <3>4. ApartAt(paths', stack', flight', reg', slots', p)
      BY <2>7, <3>2, <3>3 DEF ApartAt
    <3> QED
      BY <2>4, <3>4 DEF OwnedAt
  <2> QED
    BY <1>2, <2>5, <2>7, <2>8, <2>9, <2>10, <2>11, <2>12, <2>14, <2>15, <2>17, <2>18, ListStep
<1> QED
  BY <1>9, <1>10

LEMMA BorrowStep ==
    ASSUME IInv, NEW t \in Threads, NEW b \in Bases(t), NEW ex \in BOOLEAN, Borrow(t, b, ex)
    PROVE  IInv' /\ Ends
<1> Spared /\ CutsKept
  <2>1. NewToken \notin DOMAIN paths
    BY IInvFacts, NewTokenIs DEF Borrow, Named
  <2> QED
    BY <2>1, IInvFacts DEF Borrow, LentBy, SideOK, Spared, CutsKept
<1> DEFINE n == NewToken
           i == top_scope(t)
           P == TakenOver(paths, t, b)
<1>1. /\ at[t] = "run" /\ Top(t, "scope") /\ Unnamed # {}
      /\ paths' = Minted(P, n, b, ex, i, t) /\ stack' = SetTok(stack, t, i, n, 1)
      /\ reg' = [reg EXCEPT ![t] = n] /\ slots' = slots /\ flight' = flight /\ at' = at
  BY DEF Borrow, InStatement, Runs, SetTok
<1>2. /\ Shape /\ Placed /\ Table(paths) /\ stack \in Stacks /\ SInv /\ CoreOK
      /\ Chan \in Cells /\ Len(stack[t]) \in Nat
  BY <1>1, IInvFacts, CellsApart DEF Stacks
<1>3. i \in Nat /\ i \in 1..Len(stack[t]) /\ stack[t][i].kind = "scope"
  <2>1. i = Len(stack[t]) /\ i # None /\ (i # None => stack[t][i].kind = "scope")
    BY <1>1, <1>2, PositionsAre
  <2> QED
    BY <1>2, <2>1 DEF None
<1>4. n \in Tokens /\ n \notin Named
  BY <1>1, <1>2, NewTokenIs
<1>5. Chain(b) \subseteq Tokens
  <2>1. b = Root \/ b \in DOMAIN paths
    BY DEF Bases, Known
  <2> QED
    BY <1>2, <2>1, ChainIs
<1> HIDE DEF n, i
<1>6. /\ n \notin DOMAIN paths
      /\ \A v \in Threads : reg[v] # n /\ flight[v] # n
      /\ \A c \in Cells : slots[c] # n
      /\ \A k \in Kinds, v \in Threads, j \in Nat : Tok(stack, k, v, j, n) = 0
  BY <1>2, <1>4, UnnamedIs
<1>7. /\ Table(P) /\ DOMAIN P = DOMAIN paths
      /\ \A q \in DOMAIN paths :
            /\ P[q].exclusive = paths[q].exclusive
            /\ P[q].occ = paths[q].occ /\ P[q].scope = paths[q].scope
  BY <1>2, TakenOverIs
<1> HIDE DEF P
<1>8. /\ Table(paths') /\ DOMAIN paths' = DOMAIN paths \cup {n}
      /\ \A q \in DOMAIN paths :
            /\ paths'[q].exclusive = paths[q].exclusive
            /\ paths'[q].occ = paths[q].occ /\ paths'[q].scope = paths[q].scope
      /\ paths'[n].occ = 0
  <2> DEFINE Q == Minted(P, n, b, ex, i, t)
  <2>1. n \in Tokens \ DOMAIN P
    BY <1>4, <1>6, <1>7
  <2>2. Table(P) /\ i \in Nat /\ t \in Threads \cup {Transit}
    BY <1>3, <1>7
  <2>3. /\ Table(Q) /\ DOMAIN Q = DOMAIN P \cup {n}
        /\ \A q \in DOMAIN P :
              Q[q].exclusive = P[q].exclusive /\ Q[q].occ = P[q].occ /\ Q[q].scope = P[q].scope
        /\ Q[n].exclusive = ex /\ Q[n].occ = 0 /\ Q[n].scope = i
    BY <1>5, <2>1, <2>2, MintedIs DEF Q, Minted
  <2> HIDE DEF Q
  <2>4. paths' = Q
    BY <1>1 DEF Q
  <2> QED
    BY <1>7, <2>3, <2>4
<1>9. OnLists(stack, stack', t, n) /\ ListsIt(stack', t, n)
  <2>1. /\ OnLists(stack, SetTok(stack, t, i, n, 1), t, n)
        /\ \A j \in Nat : Tok(SetTok(stack, t, i, n, 1), "scope", t, j, n)
                             = IF j = i THEN 1 ELSE Tok(stack, "scope", t, j, n)
    BY <1>2, <1>3, <1>4, SetOnLists
  <2> QED
    BY <1>1, <1>3, <2>1 DEF ListsIt
<1>10. ListsMoved(t, n)
  BY <1>9, OnListsMoves
<1>11. /\ reg' \in [Threads -> Tokens \cup {NoTok}] /\ reg'[t] = n
       /\ \A v \in Threads : v # t => reg'[v] = reg[v]
  BY <1>1, <1>4, IInvFacts
<1>12. CoreOK'
  BY <1>1, <1>8, <1>10, <1>11, IInvFacts DEF CoreOK, ListsMoved
<1>13. Shape'
  BY <1>1, <1>2, <1>10 DEF Shape, ListsMoved
<1>14. Placed'
  <2>1. \A v \in Threads : Len(stack'[v]) = Len(stack[v])
    BY <1>10 DEF ListsMoved
  <2>2. ASSUME NEW v \in Threads PROVE PlacedAt(v)'
    BY <1>1, <1>2, <1>11, <2>1 DEF Placed, PlacedAt
  <2> QED
    BY <2>2 DEF Placed, PlacedAt
<1>15. Moved(Chan, t, t, 0) /\ \A q \in Tokens : Change(Chan, t, t, 0, q) = 0
  BY <1>1, <1>10, NothingMoves DEF ListsMoved
<1>16. Follows(Chan, t, t, 0)
  <2>1. \A q \in DOMAIN paths : paths'[q].occ = paths[q].occ + Change(Chan, t, t, 0, q)
    BY <1>8, <1>15, IInvFacts
  <2>2. paths'[n].occ = Change(Chan, t, t, 0, n)
    BY <1>4, <1>8, <1>15
  <2>3. DOMAIN paths \ DOMAIN paths' = {} /\ DOMAIN paths' \ DOMAIN paths = {n}
    BY <1>6, <1>8
  <2> QED
    BY <1>4, <1>15, <2>1, <2>2, <2>3 DEF Follows
<1>17. ASSUME NEW q \in DOMAIN paths
       PROVE  /\ OwnedAt(paths', stack', reg', at', cut', q)
              /\ ApartAt(paths', stack', flight', reg', slots', q)
  <2>1. q \in Tokens /\ q # n /\ q \in DOMAIN paths'
    BY <1>6, <1>8, IInvFacts
  <2>2. \A v \in Threads, j \in Nat : Tok(stack', "scope", v, j, q) = Tok(stack, "scope", v, j, q)
    BY <1>10, <2>1 DEF ListsMoved
  <2>3. \A v \in Threads : ListsIt(stack, v, q) => ListsIt(stack', v, q)
    BY <2>2 DEF ListsIt
  <2>4. StaysOwned(q)
    BY <1>1, <1>11, <2>3 DEF StaysOwned
  <2>5. GainsNothing(q)
    BY <1>1, <1>10, <1>11, <2>1, SameHands DEF ListsMoved
  <2> QED
    BY <1>8, <1>12, <2>1, <2>4, <2>5, OwnedKept, ApartKept
<1>18. OwnedAt(paths', stack', reg', at', cut', n) /\ ApartAt(paths', stack', flight', reg', slots', n)
  <2>1. ASSUME NEW v \in Threads, HasIt(stack', flight', reg', slots', v, n) PROVE v = t
    <3>1. \A j \in Nat : Tok(stack', "frame", v, j, n) = 0
      BY <1>4, <1>6, <1>10 DEF ListsMoved, SameFrames, Kinds
    <3>2. n \notin {slots'[Local(v)], slots'[Arg(v)], slots'[Res(v)]}
      BY <1>1, <1>6, CellsApart
    <3> QED
      BY <1>1, <1>6, <1>11, <2>1, <3>1, <3>2 DEF HasIt
  <2>2. slots'[Chan] # n
    BY <1>1, <1>2, <1>6
  <2> QED
    BY <1>9, <2>1, <2>2 DEF OwnedAt, ApartAt
<1>19. \A q \in DOMAIN paths' : /\ OwnedAt(paths', stack', reg', at', cut', q)
                                /\ ApartAt(paths', stack', flight', reg', slots', q)
  BY <1>8, <1>17, <1>18
<1> QED
  BY <1>2, <1>12, <1>13, <1>14, <1>16, <1>19, StepIs

LEMMA LendSpares == ASSUME IInv, NEW t, NEW c, Lend(t, c) PROVE cut' \in SUBSET Tokens /\ CutsKept
<1>1. Unnamed # {} => NewToken \notin DOMAIN paths
  BY IInvFacts, NewTokenIs DEF Named
<1> QED
  BY <1>1, IInvFacts DEF Lend, SideOK, CutsKept

\* A cell that had none is given `r`, a path that is shared or one that nothing
\* names yet; every other path is held as it was, and ends only if nothing did.
Lent(c, t, r) ==
    /\ Table(paths') /\ Follows(c, t, t, 0)
    /\ r \in Tokens /\ slots' \in [Cells -> Tokens \cup {NoTok}] /\ slots'[c] = r
    /\ \A d \in Cells : d # c => slots'[d] = slots[d]
    /\ r \in DOMAIN paths' /\ paths'[r].occ > 0
    /\ \A q \in DOMAIN paths' :
          q # r => /\ q \in DOMAIN paths /\ paths'[q].exclusive = paths[q].exclusive
                   /\ paths'[q].occ = paths[q].occ /\ paths'[q].scope = paths[q].scope
    /\ \/ r \in DOMAIN paths /\ ~paths'[r].exclusive /\ paths'[r].scope = paths[r].scope
       \/ r \notin Named /\ paths'[r].scope = None

LEMMA LendIs ==
    ASSUME IInv, NEW t \in Threads, NEW c \in Cells, slots[c] = NoTok, reg[t] \in DOMAIN paths,
           Lend(t, c), flight' = flight, SameFrames
    PROVE  Lent(c, t, slots'[c])
<1> DEFINE p == reg[t]
           n == NewToken
           H == Held(paths, p)
           T == TakenOver(H, t, p)
           M == Minted(T, n, p, TRUE, None, Transit)
           D == store_ref(M, p, n)
<1>1. /\ Table(paths) /\ CoreOK /\ p \in DOMAIN paths /\ p \in Tokens /\ NoTok \notin Tokens
      /\ \A q \in DOMAIN paths : q \in Tokens /\ paths[q].occ \in Nat
  BY IInvFacts
<1>2. CASE ~paths[p].exclusive
  <2>1. paths' = store_ref(paths, slots[c], p) /\ slots' = [slots EXCEPT ![c] = p]
    BY <1>2 DEF Lend
  <2>2. slots'[c] = p /\ \A d \in Cells : d # c => slots'[d] = slots[d]
    BY <2>1, IInvFacts
  <2> HIDE DEF p
  <2>3. Given(c, t, p)
    BY <1>1, <2>1, CellFollows
  <2>4. ASSUME NEW q \in DOMAIN paths
        PROVE  Change(c, t, t, 0, q) = One(q, p)
    <3>1. Change(c, t, t, 0, q) = One(q, slots'[c]) - One(q, slots[c]) + One(q, flight'[t]) - One(q, flight[t])
      BY ChangeIs
    <3>2. One(q, slots[c]) = 0 /\ One(q, p) \in Nat /\ One(q, flight[t]) \in Nat
      BY <1>1 DEF One
    <3> QED
      BY <2>2, <3>1, <3>2
  <2>5. p \in DOMAIN paths'
    <3>1. p \notin DOMAIN paths' => paths[p].occ + Change(c, t, t, 0, p) = 0
      BY <1>1, <2>3 DEF Follows, Given
    <3>2. Change(c, t, t, 0, p) = 1
      BY <1>1, <2>4 DEF One
    <3> QED
      BY <1>1, <3>1, <3>2
  <2>6. \A q \in DOMAIN paths' : q # p => paths'[q].occ = paths[q].occ
    <3>1. ASSUME NEW q \in DOMAIN paths', q # p PROVE paths'[q].occ = paths[q].occ
      <4>1. q \in DOMAIN paths /\ paths'[q].occ = paths[q].occ + Change(c, t, t, 0, q)
        BY <2>3 DEF Follows, Given
      <4>2. Change(c, t, t, 0, q) = 0
        BY <2>4, <3>1, <4>1 DEF One
      <4> QED
        BY <1>1, <4>1, <4>2
    <3> QED
      BY <3>1
  <2> QED
    BY <1>1, <1>2, <2>2, <2>3, <2>5, <2>6 DEF Lent, Given
<1>3. CASE paths[p].exclusive
  <2>1. Unnamed # {} /\ paths' = D /\ slots' = [slots EXCEPT ![c] = n]
    BY <1>3 DEF Lend
  <2>2. n \in Tokens /\ n \notin Named /\ Chain(p) \subseteq Tokens
    BY <1>1, <2>1, NewTokenIs, ChainIs
  <2> HIDE DEF p, n
  <2>3. n \notin DOMAIN paths /\ n # p
    BY <1>1, <2>2, UnnamedIs
  <2>4. /\ Table(H) /\ DOMAIN H = DOMAIN paths
        /\ \A q \in DOMAIN paths :
              /\ H[q].exclusive = paths[q].exclusive /\ H[q].scope = paths[q].scope
              /\ H[q].occ = paths[q].occ + (IF q = p THEN 1 ELSE 0)
    BY <1>1, HeldIs
  <2> HIDE DEF H
  <2>5. /\ Table(T) /\ DOMAIN T = DOMAIN paths
        /\ \A q \in DOMAIN paths :
              /\ T[q].exclusive = paths[q].exclusive /\ T[q].scope = paths[q].scope
              /\ T[q].occ = paths[q].occ + (IF q = p THEN 1 ELSE 0)
    <3>1. /\ Table(T) /\ DOMAIN T = DOMAIN H
          /\ \A q \in DOMAIN H :
                T[q].exclusive = H[q].exclusive /\ T[q].occ = H[q].occ /\ T[q].scope = H[q].scope
      BY <2>4, TakenOverIs
    <3> HIDE DEF T
    <3> QED
      BY <2>4, <3>1
  <2> HIDE DEF T
  <2>6. /\ Table(M) /\ DOMAIN M = DOMAIN paths \cup {n}
        /\ \A q \in DOMAIN paths :
              /\ M[q].exclusive = paths[q].exclusive /\ M[q].scope = paths[q].scope
              /\ M[q].occ = paths[q].occ + (IF q = p THEN 1 ELSE 0)
        /\ M[n].occ = 0 /\ M[n].scope = None
    <3>1. n \in Tokens \ DOMAIN T
      BY <2>2, <2>3, <2>5
    <3> DEFINE ex == TRUE
               i == None
               w == Transit
               Q == Minted(T, n, p, ex, i, w)
    <3>2. Table(T) /\ i \in Nat /\ w \in Threads \cup {Transit} /\ ex \in BOOLEAN
      BY <2>5 DEF None
    <3>3. Q = M
      BY DEF M
    <3> HIDE DEF ex, i, w, M
    <3>4. /\ Table(Q) /\ DOMAIN Q = DOMAIN T \cup {n}
          /\ \A q \in DOMAIN T :
                Q[q].exclusive = T[q].exclusive /\ Q[q].occ = T[q].occ /\ Q[q].scope = T[q].scope
          /\ Q[n].exclusive = ex /\ Q[n].occ = 0 /\ Q[n].scope = i
      BY <2>2, <3>1, <3>2, MintedIs DEF Q, Minted
    <3> HIDE DEF Q
    <3> QED
      BY <2>5, <3>3, <3>4 DEF i
  <2> HIDE DEF M
  <2>7. /\ Table(D) /\ DOMAIN D \subseteq DOMAIN M
        /\ \A q \in DOMAIN D :
              /\ D[q].exclusive = M[q].exclusive /\ D[q].scope = M[q].scope
              /\ D[q].occ = M[q].occ + (IF q = n THEN 1 ELSE 0) - (IF q = p THEN 1 ELSE 0)
        /\ \A q \in DOMAIN M \ DOMAIN D :
              q = p /\ q # n /\ M[q].occ = 1 /\ M[q].scope = None
    <3>1. p \in DOMAIN M => M[p].occ > 0
      BY <1>1, <2>3, <2>6
    <3> QED
      BY <2>6, <3>1, StoreIs
  <2> HIDE DEF D
  <2>8. /\ slots'[c] = n /\ slots' \in [Cells -> Tokens \cup {NoTok}]
        /\ \A d \in Cells : d # c => slots'[d] = slots[d]
    BY <2>1, <2>2, IInvFacts
  <2>9. /\ n \in DOMAIN paths' /\ paths'[n].occ = 1 /\ paths'[n].scope = None
        /\ DOMAIN paths' \subseteq DOMAIN paths \cup {n}
    BY <2>1, <2>3, <2>6, <2>7
  <2>10. ASSUME NEW q \in DOMAIN paths', q # n
         PROVE  /\ q \in DOMAIN paths /\ paths'[q].exclusive = paths[q].exclusive
                /\ paths'[q].occ = paths[q].occ /\ paths'[q].scope = paths[q].scope
    <3>1. q \in DOMAIN paths /\ paths[q].occ \in Nat
      BY <1>1, <2>9, <2>10
    <3> QED
      BY <2>1, <2>6, <2>7, <2>10, <3>1
  <2>11. ASSUME NEW q \in DOMAIN paths \ DOMAIN paths' PROVE paths[q].occ = 0 /\ paths[q].scope = None
    <3>1. q = p /\ M[q].occ = 1 /\ M[q].scope = None
      BY <2>1, <2>6, <2>7
    <3>2. M[q].occ = paths[q].occ + 1 /\ M[q].scope = paths[q].scope /\ paths[q].occ \in Nat
      BY <1>1, <2>6, <3>1
    <3> QED
      BY <3>1, <3>2
  <2>12. ASSUME NEW q \in Tokens PROVE Change(c, t, t, 0, q) = One(q, n)
    <3>1. Change(c, t, t, 0, q) = One(q, slots'[c]) - One(q, slots[c]) + One(q, flight'[t]) - One(q, flight[t])
      BY ChangeIs
    <3>2. One(q, slots[c]) = 0 /\ One(q, n) \in Nat /\ One(q, flight[t]) \in Nat
      BY <1>1 DEF One
    <3> QED
      BY <2>8, <3>1, <3>2
  <2>13. Moved(c, t, t, 0)
    BY <2>8 DEF Moved, ButFor, SameFrames
  <2>14. Follows(c, t, t, 0)
    <3>1. ASSUME NEW q \in DOMAIN paths \cap DOMAIN paths'
          PROVE  paths'[q].occ = paths[q].occ + Change(c, t, t, 0, q)
      <4>1. q # n
        BY <2>3
      <4>2. Change(c, t, t, 0, q) = 0
        BY <1>1, <2>12, <4>1 DEF One
      <4> QED
        BY <1>1, <2>10, <4>1, <4>2
    <3>2. ASSUME NEW q \in DOMAIN paths \ DOMAIN paths'
          PROVE  paths[q].occ + Change(c, t, t, 0, q) = 0 /\ paths[q].scope = None
      <4>1. Change(c, t, t, 0, q) = 0
        BY <1>1, <2>3, <2>12 DEF One
      <4> QED
        BY <2>11, <4>1
    <3>3. ASSUME NEW q \in DOMAIN paths' \ DOMAIN paths
          PROVE  q \notin Named /\ paths'[q].occ = Change(c, t, t, 0, q)
      <4>1. q = n
        BY <2>9
      <4> QED
        BY <2>2, <2>9, <2>12, <4>1 DEF One
    <3> QED
      BY <2>13, <3>1, <3>2, <3>3 DEF Follows
  <2>15. Table(paths')
    BY <2>1, <2>7
  <2> QED
    BY <2>2, <2>8, <2>9, <2>10, <2>14, <2>15 DEF Lent
<1> QED
  BY <1>2, <1>3

LEMMA LentOwned ==
    ASSUME IInv, Spared, CoreOK', SameLists, NEW c \in Cells, NEW t \in Threads, NEW r, Lent(c, t, r),
           \A u \in Threads : at[u] = "store" => at'[u] = "store" /\ reg'[u] = reg[u],
           NEW q \in DOMAIN paths'
    PROVE  OwnedAt(paths', stack', reg', at', cut', q)
<1> CutsKept
  BY DEF Spared
<1>1. CASE q = r
  <2>1. q \in Tokens /\ paths'[q].occ > 0
    BY <1>1 DEF Lent
  <2>2. CASE paths'[q].scope = None
    BY <2>1, <2>2 DEF OwnedAt
  <2>3. CASE paths'[q].scope # None
    <3>1. q \in DOMAIN paths /\ paths[q].scope # None
      BY <1>1, <2>3 DEF Lent
    <3>2. OwnedAt(paths, stack, reg, at, cut, q)
      BY <3>1 DEF IInv, Owned
    <3>3. q \in cut' \/ \E u \in Threads : ListsIt(stack, u, q)
      BY <3>1, <3>2 DEF OwnedAt, CutsKept
    <3>4. \A u \in Threads : ListsIt(stack, u, q) => ListsIt(stack', u, q)
      BY <2>1 DEF ListsIt, SameLists
    <3> QED
      BY <3>3, <3>4 DEF OwnedAt
  <2> QED
    BY <2>2, <2>3
<1>2. CASE q # r
  <2>1. q \in DOMAIN paths /\ paths'[q].occ = paths[q].occ /\ paths'[q].scope = paths[q].scope
    BY <1>2 DEF Lent
  <2>2. StaysOwned(q)
    BY <2>1, SameStores, IInvFacts
  <2> QED
    BY <2>1, <2>2, OwnedKept
<1> QED
  BY <1>1, <1>2

LEMMA ChannelSendStep == ASSUME IInv, NEW t \in Threads, ChannelSend(t) PROVE IInv' /\ Ends
<1> Spared /\ CutsKept
  BY IInvFacts, LendSpares DEF ChannelSend, LentByChannel, SideOK, Spared, CutsKept
<1> DEFINE r == slots'[Chan]
<1>1. /\ slots[Chan] = NoTok /\ reg[t] \in DOMAIN paths /\ at[t] = "run" /\ Lend(t, Chan)
      /\ reg' = [reg EXCEPT ![t] = NoTok] /\ stack' = stack /\ flight' = flight /\ at' = at
  BY DEF ChannelSend, InStatement, Runs
<1>2. Chan \in Cells /\ CoreOK /\ Placed
  BY CellsApart, IInvFacts DEF Cells
<1>3. SameLists /\ SameFrames /\ Shape'
  BY <1>1, SameStack
<1>4. Lent(Chan, t, r)
  BY <1>1, <1>2, <1>3, LendIs
<1> HIDE DEF r
<1>5. /\ reg' \in [Threads -> Tokens \cup {NoTok}] /\ reg'[t] = NoTok
      /\ \A u \in Threads : u # t => reg'[u] = reg[u]
  BY <1>1, IInvFacts
<1>6. CoreOK'
  BY <1>1, <1>4, <1>5, IInvFacts DEF CoreOK, Lent
<1>7. \A u \in Threads : \A d \in {Local(u), Arg(u), Res(u)} : slots'[d] = slots[d]
  BY <1>4, CellsApart DEF Lent
<1>8. Placed'
  BY <1>1, <1>2, <1>5, <1>7 DEF Placed, PlacedAt
<1>9. ASSUME NEW q \in DOMAIN paths' PROVE OwnedAt(paths', stack', reg', at', cut', q)
  <2>1. \A u \in Threads : at[u] = "store" => at'[u] = "store" /\ reg'[u] = reg[u]
    BY <1>1, <1>5
  <2> QED
    BY <1>2, <1>3, <1>4, <1>6, <2>1, LentOwned
<1>10. ASSUME NEW u \in Threads, NEW q \in Tokens, HasIt(stack', flight', reg', slots', u, q)
       PROVE  HasIt(stack, flight, reg, slots, u, q)
  <2>1. q = reg'[u] => q = reg[u]
    BY <1>5, IInvFacts
  <2> QED
    BY <1>1, <1>7, <1>10, <2>1 DEF HasIt
<1>11. ASSUME NEW q \in DOMAIN paths' PROVE ApartAt(paths', stack', flight', reg', slots', q)
  <2>1. CASE q # r
    <3>1. q \in DOMAIN paths /\ paths'[q].exclusive = paths[q].exclusive /\ slots'[Chan] # q
      BY <1>4, <2>1 DEF Lent, r
    <3>2. GainsNothing(q)
      BY <1>10, <3>1, IInvFacts DEF GainsNothing
    <3> QED
      BY <3>1, <3>2, ApartKept
  <2>2. CASE q = r /\ ~paths'[q].exclusive
    BY <2>2 DEF ApartAt
  <2>3. CASE q = r /\ paths'[q].exclusive
    <3>1. q \in Tokens /\ q \notin Named
      BY <1>4, <2>3 DEF Lent
    <3>2. \A u \in Threads : ~HasIt(stack, flight, reg, slots, u, q)
      <4>1. /\ \A u \in Threads : reg[u] # q /\ flight[u] # q
            /\ \A d \in Cells : slots[d] # q
            /\ \A k \in Kinds, u \in Threads, j \in Nat : Tok(stack, k, u, j, q) = 0
        BY <1>2, <3>1, UnnamedIs
      <4> QED
        BY <4>1, CellsApart DEF HasIt, Kinds
    <3>3. \A u \in Threads : ~HasIt(stack', flight', reg', slots', u, q)
      BY <1>10, <3>1, <3>2
    <3> QED
      BY <3>3 DEF ApartAt
  <2> QED
    BY <2>1, <2>2, <2>3
<1>12. Follows(Chan, t, t, 0) /\ 0 \in Nat
  BY <1>4 DEF Lent
<1> QED
  BY <1>2, <1>3, <1>6, <1>8, <1>9, <1>11, <1>12, StepIs

LEMMA SpawnStep ==
    ASSUME IInv, NEW t \in Threads, NEW u \in Threads, Spawn(t, u) PROVE IInv' /\ Ends
<1> Spared /\ CutsKept
  BY IInvFacts, LendSpares DEF Spawn, LentBy, SideOK, Spared, CutsKept
<1> DEFINE r == slots'[Arg(u)]
           R == [stack EXCEPT ![u] = Append(@, Entry("frame"))]
<1>1. /\ reg[t] \in DOMAIN paths /\ at[t] = "run" /\ at[u] = "unborn" /\ t # u /\ Lend(t, Arg(u))
      /\ stack' = [stack EXCEPT ![u] = <<Entry("frame")>>]
      /\ reg' = [reg EXCEPT ![t] = NoTok, ![u] = r] /\ at' = [at EXCEPT ![u] = "run"]
      /\ flight' = flight
  BY DEF Spawn, InStatement, Runs
<1>2. /\ Arg(u) \in Cells /\ CoreOK /\ Placed /\ Shape /\ stack \in Stacks
      /\ slots[Arg(u)] = NoTok /\ Len(stack[u]) = 0
  <2>1. Arg(u) \in Cells /\ CoreOK /\ Placed /\ Shape /\ stack \in Stacks
    BY CellsApart, IInvFacts
  <2> QED
    BY <1>1, <2>1 DEF Placed, PlacedAt, Shape, ShapesOf, ShapeOf
<1>3. /\ stack' \in Stacks /\ Len(stack'[u]) = 1 /\ stack'[u][1].kind = "frame"
      /\ \A v \in Threads : v # u => stack'[v] = stack[v]
      /\ \A k \in Kinds, v \in Threads, j \in Nat, q \in Tokens : Tok(stack', k, v, j, q) = Tok(stack, k, v, j, q)
  <2>1. stack[u] = <<>>
    BY <1>2 DEF Stacks
  <2>2. stack' = R
    <3>1. Append(stack[u], Entry("frame")) = <<Entry("frame")>>
      BY <2>1
    <3> QED
      BY <1>1, <3>1
  <2> HIDE DEF R
  <2>3. Pushes(stack, R, u, "frame")
    BY <1>2, PushIs DEF R, Kinds
  <2>4. Len(stack[u]) + 1 = 1
    BY <1>2
  <2> QED
    BY <2>2, <2>3, <2>4 DEF Pushes
<1>4. SameLists /\ SameFrames
  BY <1>3 DEF SameLists, SameFrames, Kinds
<1>5. Lent(Arg(u), t, r)
  BY <1>1, <1>2, <1>4, LendIs
<1> HIDE DEF r
<1>6. /\ reg' \in [Threads -> Tokens \cup {NoTok}] /\ reg'[t] = NoTok /\ reg'[u] = r
      /\ \A v \in Threads \ {t, u} : reg'[v] = reg[v]
      /\ at' \in [Threads -> Places] /\ at'[u] = "run" /\ \A v \in Threads : v # u => at'[v] = at[v]
  BY <1>1, <1>5, IInvFacts DEF Lent, Places
<1>7. CoreOK'
  BY <1>1, <1>3, <1>5, <1>6, IInvFacts DEF CoreOK, Lent
<1>8. Shape'
  <2>1. ASSUME NEW v \in Threads PROVE ShapeOf(stack'[v], at'[v])
    <3>1. CASE v # u
      BY <1>2, <1>3, <1>6, <3>1 DEF Shape, ShapesOf
    <3>2. CASE v = u
      BY <1>3, <1>6, <3>2 DEF ShapeOf
    <3> QED
      BY <3>1, <3>2
  <2> QED
    BY <2>1 DEF Shape, ShapesOf
<1>9. ASSUME NEW v \in Threads
      PROVE  /\ slots'[Local(v)] = slots[Local(v)] /\ slots'[Res(v)] = slots[Res(v)]
             /\ v # u => slots'[Arg(v)] = slots[Arg(v)]
             /\ slots'[Chan] = slots[Chan]
  BY <1>5, CellsApart DEF Lent
<1>10. Placed'
  <2>1. ASSUME NEW v \in Threads PROVE PlacedAt(v)'
    <3>1. CASE v = u
      <4>1. PlacedAt(u)
        BY <1>2 DEF Placed
      <4> QED
        BY <1>1, <1>2, <1>3, <1>6, <1>9, <3>1, <4>1 DEF PlacedAt
    <3>2. CASE v # u
      <4>1. reg[v] = NoTok => reg'[v] = NoTok
        BY <1>6, <3>2
      <4> QED
        BY <1>1, <1>2, <1>3, <1>6, <1>9, <3>2, <4>1 DEF Placed, PlacedAt
    <3> QED
      BY <3>1, <3>2
  <2> QED
    BY <2>1 DEF Placed, PlacedAt
<1>11. ASSUME NEW q \in DOMAIN paths' PROVE OwnedAt(paths', stack', reg', at', cut', q)
  <2>1. \A v \in Threads : at[v] = "store" => at'[v] = "store" /\ reg'[v] = reg[v]
    BY <1>1, <1>6
  <2> QED
    BY <1>2, <1>4, <1>5, <1>7, <2>1, LentOwned
<1>12. ASSUME NEW v \in Threads, NEW q \in Tokens, HasIt(stack', flight', reg', slots', v, q),
              ~(v = u /\ q = r)
       PROVE  HasIt(stack, flight, reg, slots, v, q)
  <2>1. q = reg'[v] => q = reg[v]
    BY <1>6, <1>12, IInvFacts
  <2>2. q = slots'[Arg(v)] => q = slots[Arg(v)]
    BY <1>5, <1>9, <1>12 DEF Lent
  <2> QED
    BY <1>1, <1>4, <1>9, <1>12, <2>1, <2>2 DEF HasIt, SameFrames
<1>13. ASSUME NEW q \in DOMAIN paths' PROVE ApartAt(paths', stack', flight', reg', slots', q)
  <2>1. CASE q # r
    <3>1. q \in DOMAIN paths /\ paths'[q].exclusive = paths[q].exclusive /\ slots'[Chan] = slots[Chan]
      BY <1>5, <1>9, <2>1 DEF Lent
    <3>2. GainsNothing(q)
      BY <1>12, <2>1, <3>1, IInvFacts DEF GainsNothing
    <3> QED
      BY <3>1, <3>2, ApartKept
  <2>2. CASE q = r /\ ~paths'[q].exclusive
    BY <2>2 DEF ApartAt
  <2>3. CASE q = r /\ paths'[q].exclusive
    <3>1. q \in Tokens /\ q \notin Named
      BY <1>5, <2>3 DEF Lent
    <3>2. /\ \A v \in Threads : reg[v] # q /\ flight[v] # q
          /\ \A d \in Cells : slots[d] # q
          /\ \A k \in Kinds, v \in Threads, j \in Nat : Tok(stack, k, v, j, q) = 0
      BY <1>2, <3>1, UnnamedIs
    <3>3. \A v \in Threads : ~HasIt(stack, flight, reg, slots, v, q)
      BY <3>2, CellsApart DEF HasIt, Kinds
    <3>4. \A v \in Threads : HasIt(stack', flight', reg', slots', v, q) => v = u
      BY <1>12, <3>1, <3>3
    <3>5. slots'[Chan] # q
      BY <1>9, <3>2, CellsApart
    <3> QED
      BY <3>4, <3>5 DEF ApartAt
  <2> QED
    BY <2>1, <2>2, <2>3
<1>14. Follows(Arg(u), t, t, 0) /\ 0 \in Nat
  BY <1>5 DEF Lent
<1> QED
  BY <1>2, <1>7, <1>8, <1>10, <1>11, <1>13, <1>14, StepIs

LEMMA StutterStep == ASSUME IInv, UNCHANGED vars PROVE IInv' /\ Ends
<1> Spared /\ CutsKept
  BY IInvFacts DEF vars, SideOK, Spared, CutsKept
<1>1. /\ paths' = paths /\ slots' = slots /\ stack' = stack /\ flight' = flight /\ reg' = reg /\ at' = at
      /\ Main \in Threads
  BY BoundsAssumption DEF vars, Main, Threads
<1>2. CoreOK' /\ Placed'
  BY <1>1, IInvFacts DEF CoreOK, Placed, PlacedAt
<1>3. SameLists /\ SameFrames /\ Shape'
  BY <1>1, SameStack
<1>4. ASSUME NEW q \in DOMAIN paths PROVE StaysOwned(q) /\ GainsNothing(q)
  <2>1. q \in Tokens /\ (reg'[Main] = q => HasIt(stack, flight, reg, slots, Main, q))
    BY <1>1, IInvFacts DEF HasIt
  <2> QED
    BY <1>1, <1>3, <2>1, SameStores, SameHands
<1> QED
  BY <1>1, <1>2, <1>3, <1>4, QuietStep

-----------------------------------------------------------------------------
(* The theorems.                                                             *)

LEMMA InitIInv == Init => IInv
<1> SUFFICES ASSUME Init PROVE IInv
  OBVIOUS
<1> DEFINE e == Entry("frame")
<1>1. /\ paths = <<>> /\ slots = [c \in Cells |-> NoTok]
      /\ stack = [t \in Threads |-> IF t = Main THEN <<e>> ELSE <<>>]
      /\ flight = [t \in Threads |-> NoTok] /\ reg = [t \in Threads |-> NoTok]
      /\ at = [t \in Threads |-> IF t = Main THEN "run" ELSE "unborn"]
  BY DEF Init
<1>2. DOMAIN paths = {}
  BY <1>1
<1>3. e \in Item /\ e.kind = "frame" /\ \A q \in Tokens : e.toks[q] = 0
  BY DEF Entry, NoToks, Item, Bag
<1> HIDE DEF e
<1>4. /\ stack \in Stacks
      /\ \A t \in Threads : IF t = Main THEN Len(stack[t]) = 1 /\ stack[t][1] = e ELSE Len(stack[t]) = 0
  BY <1>1, <1>3 DEF Stacks
<1>5. at \in [Threads -> Places]
  BY <1>1 DEF Places
<1>6. CoreOK /\ SideOK
  <2>1. SideOK
    BY DEF Init, SideOK, NoToks, Bag
  <2> QED
    BY <1>1, <1>2, <1>4, <1>5, <2>1 DEF CoreOK, Table
<1>7. Shape
  <2>1. ASSUME NEW t \in Threads PROVE ShapeOf(stack[t], at[t])
    <3>1. CASE t = Main
      BY <1>1, <1>3, <1>4, <3>1 DEF ShapeOf
    <3>2. CASE t # Main
      BY <1>1, <1>4, <3>2 DEF ShapeOf
    <3> QED
      BY <3>1, <3>2
  <2> QED
    BY <2>1 DEF Shape, ShapesOf
<1>8. Placed
  BY <1>1, CellsApart DEF Placed, PlacedAt
<1>9. HoldsFinite
  <2>1. ASSUME NEW q \in Tokens, NEW h \in HoldsIn(stack, q) PROVE FALSE
    <3>1. PICK u \in Threads, i \in Nat, k \in Nat :
             h = <<<<u, i>>, k>> /\ k \in 1..Tok(stack, "frame", u, i, q)
      BY HoldsAre
    <3>2. Tok(stack, "frame", u, i, q) = 0
      BY <1>3, <1>4 DEF Tok
    <3> QED
      BY <3>1, <3>2
  <2>2. \A q \in Tokens : HoldsIn(stack, q) = {}
    BY <2>1
  <2> QED
    BY <2>2, FS_EmptySet DEF HoldsFinite
<1> QED
  BY <1>2, <1>6, <1>7, <1>8, <1>9 DEF IInv, SInv, OccIsHolds, Owned, Apart

LEMMA Step == IInv /\ [Next]_vars => IInv' /\ Ends
<1> SUFFICES ASSUME IInv, [Next]_vars PROVE IInv' /\ Ends
  OBVIOUS
<1>1. ASSUME NEW t \in Threads,
             \/ StmtPush(t) \/ StmtPop(t) \/ FramePush(t) \/ FramePop(t)
             \/ FrameHold(t) \/ Store(t) \/ Load(t) \/ LocalEnds(t)
      PROVE  IInv' /\ Ends
  BY <1>1, StmtPushStep, StmtPopStep, FramePushStep, FramePopStep, FrameHoldStep, StoreStep,
     LoadStep, LocalEndsStep
<1>2. ASSUME NEW t \in Threads, NEW p \in Tokens, FrameUnhold(t, p) PROVE IInv' /\ Ends
  BY <1>2, FrameUnholdStep
<1>3. ASSUME NEW t \in Threads, NEW b \in Bases(t), Access(t, b) PROVE IInv' /\ Ends
  BY <1>3, AccessStep
<1>4. ASSUME NEW t \in Threads, NEW b \in Bases(t), NEW ex \in BOOLEAN, Borrow(t, b, ex)
      PROVE  IInv' /\ Ends
  BY <1>4, BorrowStep
<1>5. ASSUME NEW t \in Threads,
             \/ Result(t) \/ SendRef(t) \/ RecvRef(t)
             \/ ChannelSend(t) \/ ChannelRecv(t) \/ StoreResult(t) \/ EnvForget(t)
      PROVE  IInv' /\ Ends
  BY <1>5, ResultStep, SendRefStep, RecvRefStep, ChannelSendStep, ChannelRecvStep,
     StoreResultStep, EnvForgetStep
<1>6. ASSUME NEW t \in Threads, NEW u \in Threads, Spawn(t, u) \/ Join(t, u) PROVE IInv' /\ Ends
  BY <1>6, SpawnStep, JoinStep
<1>7. ASSUME NEW t \in Threads, Fault(t) \/ StmtPopFault(t) \/ Unwind(t) \/ Contained(t) PROVE IInv' /\ Ends
  BY <1>7, FaultStep, StmtPopFaultStep, UnwindStep, ContainedStep
<1>8. ASSUME NEW t \in Threads, NEW kept \in SUBSET Tokens, NEW local \in BOOLEAN, FramePopFault(t, kept, local)
      PROVE  IInv' /\ Ends
  BY <1>8, FramePopFaultStep
<1>9. CASE Next
  BY <1>1, <1>2, <1>3, <1>4, <1>5, <1>6, <1>7, <1>8, <1>9 DEF Next
<1>10. CASE UNCHANGED vars
  BY <1>10, StutterStep
<1> QED
  BY <1>9, <1>10

THEOREM Invariance == Spec => []IInv
<1>1. IInv /\ [Next]_vars => IInv'
  BY Step
<1> QED
  BY InitIInv, <1>1, PTL DEF Spec

\* Every record, cell, stack and place is of its kind, however many threads there
\* are and however deep their frames and statements nest.
THEOREM TypeCorrect == Spec => []TypeOK
<1>1. IInv => TypeOK
  BY DEF IInv, SInv, CoreOK, SideOK, TypeOK, Table, Rec, Stacks, Item
<1> QED
  BY Invariance, <1>1, PTL

\* A path's count of holders is the number of cells, flights and frames that have it
\* (Rt.paths' occ; cb_store_ref, cb_frame_hold, cb_send_ref, cb_lend), and of those
\* that contained faults made the runtime forget (end_owned, contained_fault).
THEOREM CountsAreRight == Spec => []OccIsHolds
BY Invariance, PTL DEF IInv

\* No path is left over: what nothing holds is on the list of a statement, which
\* ends it, or is a thread's result about to be stored (end_scope, drop_occ); only a
\* contained fault leaves others, by a hold forgotten or a statement cut short.
THEOREM NoPathIsLeft == Spec => []EveryPathIsOwned
<1>1. IInv => EveryPathIsOwned
  <2> SUFFICES ASSUME IInv, NEW p \in DOMAIN paths
               PROVE  \/ Holders(p) > 0 \/ Listers(p) # {}
                      \/ \E t \in Threads : at[t] = "store" /\ reg[t] = p
                      \/ lost[p] > 0 \/ p \in cut
    BY DEF EveryPathIsOwned
  <2>1. OwnedAt(paths, stack, reg, at, cut, p) /\ CoreOK /\ p \in Tokens
    BY IInvFacts DEF IInv, Owned
  <2>2. \A u \in Threads : ListsIt(stack, u, p) => u \in Listers(p)
    BY <2>1, ListersAre
  <2>3. paths[p].occ > 0 => Holders(p) > 0 \/ lost[p] > 0
    <3>1. paths[p].occ = Holders(p) + lost[p] /\ lost[p] \in Nat
      BY <2>1 DEF IInv, OccIsHolds, SideOK, Bag
    <3>2. Holders(p) \in Nat
      BY <2>1, HoldersIsNat
    <3> QED
      BY <3>1, <3>2
  <2> QED
    BY <2>1, <2>2, <2>3 DEF OwnedAt
<1> QED
  BY Invariance, <1>1, PTL

\* Whatever is lent, sent, returned and joined, no two threads have one exclusive
\* path (affine, cb_lend).
THEOREM ExclusivesStayApart == Spec => []ExclusivesApart
<1>1. IInv => ExclusivesApart
  <2> SUFFICES ASSUME IInv, NEW p \in DOMAIN paths, paths[p].exclusive
               PROVE  Cardinality({t \in Live : Has(t, p)}) <= 1
    BY DEF ExclusivesApart
  <2> DEFINE S == {t \in Live : Has(t, p)}
  <2>1. ApartAt(paths, stack, flight, reg, slots, p) /\ Live \subseteq Threads
    BY DEF IInv, Apart, Live
  <2>2. ASSUME NEW t \in Threads, Has(t, p) PROVE HasIt(stack, flight, reg, slots, t, p)
    <3>1. CASE \E i \in Positions(t, "frame") : stack[t][i].toks[p] > 0
      BY <3>1 DEF Positions, HasIt, Tok
    <3>2. CASE ~(\E i \in Positions(t, "frame") : stack[t][i].toks[p] > 0)
      BY <2>2, <3>2 DEF Has, Known, HasIt
    <3> QED
      BY <3>1, <3>2
  <2>3. \A t, u \in S : t = u
    BY <2>1, <2>2 DEF ApartAt
  <2> HIDE DEF S
  <2>4. Cardinality(S) <= 1
    <3>1. CASE S = {}
      <4>1. Cardinality(S) = 0
        BY <3>1, FS_EmptySet
      <4> QED
        BY <4>1
    <3>2. CASE S # {}
      <4>1. PICK t \in S : TRUE
        BY <3>2
      <4>2. S = {t}
        BY <2>3, <4>1
      <4>3. Cardinality(S) = 1
        BY <4>2, FS_Singleton
      <4> QED
        BY <4>3
    <3> QED
      BY <3>1, <3>2
  <2> QED
    BY <2>4 DEF S
<1> QED
  BY Invariance, <1>1, PTL

\* A path ends when nothing holds it any more, and no thread's step ends one that
\* another has at hand unless other threads' statements listed it (retire_token).
THEOREM EndsAreLast == Spec => EndsWhenLetGo
<1>1. IInv /\ [Next]_vars => [Ends]_vars
  BY Step
<1> QED
  BY Invariance, <1>1, PTL DEF Spec, EndsWhenLetGo
=============================================================================
