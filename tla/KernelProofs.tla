---------------------------- MODULE KernelProofs ----------------------------
(***************************************************************************)
(* Lemmas about the kernel operators: what each of them does to the lists, *)
(* and that it keeps KernelOK.                                             *)
(***************************************************************************)
EXTENDS Kernel, SequenceTheorems, FiniteSetTheorems, WellFoundedInduction, TLAPS

\* A set of naturals that is not empty has a least element.
LEMMA LeastNumber ==
    ASSUME NEW T, T \subseteq Nat, T # {}
    PROVE  \E i \in T : \A j \in T : i <= j
<1>1. PICK i \in T : \A j \in T : ~(<<j, i>> \in OpToRel(<, Nat))
  BY NatLessThanWellFounded, WFMin, Zenon
<1>2. \A j \in T : <<j, i>> \in OpToRel(<, Nat) <=> j < i
  BY Zenon DEF OpToRel
<1>3. \A j \in T : ~(j < i)
  BY <1>1, <1>2, Zenon
<1>4. \A j \in T : i <= j
  BY <1>3
<1>5. QED BY <1>4, Zenon

(***************************************************************************)
(* Sequences as lists of nodes.                                            *)
(***************************************************************************)

\* A list is empty exactly when nothing is on it.
LEMMA EmptyList ==
    ASSUME NEW S, NEW s \in Seq(S)
    PROVE  s = <<>> <=> \A t \in S : ~In(s, t)
BY DEF In

\* rt_list_remove() takes the node out and leaves the others.
LEMMA UnlinkList ==
    ASSUME NEW S, NEW s \in Seq(S), NEW t, NoDuplicates(s)
    PROVE  /\ Unlink(s, t) \in Seq(S)
           /\ NoDuplicates(Unlink(s, t))
           /\ \A u : In(Unlink(s, t), u) <=> In(s, u) /\ u # t
<1>1. CASE ~In(s, t)
  BY <1>1, Zenon DEF Unlink, In
<1>2. CASE In(s, t)
  <2> DEFINE i == CHOOSE j \in 1 .. Len(s) : s[j] = t
             n == Len(s) - 1
             r == [j \in 1 .. n |-> IF j < i THEN s[j] ELSE s[j + 1]]
  <2>1. i \in 1 .. Len(s) /\ s[i] = t
    BY <1>2, Zenon DEF In
  <2>2. Unlink(s, t) = r
    BY <1>2, Zenon DEF Unlink
  <2> HIDE DEF i
  <2>3. n \in Nat /\ Len(s) = n + 1
    BY <2>1
  <2>4. r \in Seq(S) /\ Len(r) = n
    <3>1. \A j \in 1 .. n : r[j] \in S
      BY <2>1, <2>3
    <3>2. QED BY <3>1, <2>3, IsASeq, LenProperties
  <2>5. NoDuplicates(r)
    BY <2>1, <2>3, <2>4 DEF NoDuplicates
  <2>6. ASSUME NEW u PROVE In(r, u) <=> In(s, u) /\ u # t
    <3>1. ASSUME In(r, u) PROVE In(s, u) /\ u # t
      BY <3>1, <2>1, <2>3, <2>4 DEF In, NoDuplicates
    <3>2. ASSUME In(s, u), u # t PROVE In(r, u)
      <4>1. PICK j \in 1 .. Len(s) : s[j] = u
        BY <3>2, Zenon DEF In
      <4>2. CASE j < i
        BY <4>1, <4>2, <2>1, <2>3, <2>4 DEF In
      <4>3. CASE j > i
        <5>1. j - 1 \in 1 .. n /\ r[j - 1] = u
          BY <4>1, <4>3, <2>1, <2>3
        <5>2. QED BY <5>1, <2>4, Zenon DEF In
      <4>4. QED BY <4>1, <4>2, <4>3, <3>2, <2>1
    <3>3. QED BY <3>1, <3>2, Zenon
  <2>7. QED BY <2>2, <2>4, <2>5, <2>6, Zenon
<1>3. QED BY <1>1, <1>2, Zenon

\* rt_list_insert_before(list head, node).
LEMMA AppendList ==
    ASSUME NEW S, NEW s \in Seq(S), NEW t \in S
    PROVE  /\ Append(s, t) \in Seq(S)
           /\ \A u : In(Append(s, t), u) <=> In(s, u) \/ u = t
           /\ NoDuplicates(s) /\ ~In(s, t) => NoDuplicates(Append(s, t))
<1>1. /\ Append(s, t) \in Seq(S)
      /\ Len(Append(s, t)) = Len(s) + 1
      /\ \A i \in 1 .. Len(s) : Append(s, t)[i] = s[i]
      /\ Append(s, t)[Len(s) + 1] = t
  BY AppendProperties
<1>2. Len(s) \in Nat
  BY LenProperties, Zenon
<1>3. ASSUME NEW u PROVE In(Append(s, t), u) <=> In(s, u) \/ u = t
  BY <1>1, <1>2 DEF In
<1>4. NoDuplicates(s) /\ ~In(s, t) => NoDuplicates(Append(s, t))
  BY <1>1, <1>2 DEF In, NoDuplicates
<1>5. QED BY <1>1, <1>3, <1>4, Zenon

\* Inserting a node anywhere in a list (rt_list_insert_before / _after).
LEMMA InsertList ==
    ASSUME NEW S, NEW s \in Seq(S), NEW t \in S, NEW i \in 1 .. Len(s) + 1
    PROVE  /\ InsertAt(s, i, t) \in Seq(S)
           /\ \A u : In(InsertAt(s, i, t), u) <=> In(s, u) \/ u = t
           /\ NoDuplicates(s) /\ ~In(s, t) => NoDuplicates(InsertAt(s, i, t))
<1> DEFINE n == Len(s) + 1
           r == [j \in 1 .. n |-> IF j < i THEN s[j] ELSE IF j = i THEN t ELSE s[j - 1]]
<1>1. InsertAt(s, i, t) = r
  BY Zenon DEF InsertAt
<1>2. Len(s) \in Nat /\ n \in Nat /\ i \in 1 .. n
  BY LenProperties
<1>3. r \in Seq(S) /\ Len(r) = n
  <2>1. \A j \in 1 .. n : r[j] \in S
    BY <1>2
  <2>2. QED BY <2>1, <1>2, IsASeq, LenProperties
<1>4. ASSUME NEW u PROVE In(r, u) <=> In(s, u) \/ u = t
  <2>1. ASSUME In(r, u) PROVE In(s, u) \/ u = t
    BY <2>1, <1>2, <1>3 DEF In
  <2>2. ASSUME u = t PROVE In(r, u)
    BY <2>2, <1>2, <1>3 DEF In
  <2>3. ASSUME In(s, u) PROVE In(r, u)
    <3>1. PICK j \in 1 .. Len(s) : s[j] = u
      BY <2>3, Zenon DEF In
    <3>2. CASE j < i
      BY <3>1, <3>2, <1>2, <1>3 DEF In
    <3>3. CASE j >= i
      <4>1. j + 1 \in 1 .. n /\ r[j + 1] = u
        BY <3>1, <3>3, <1>2
      <4>2. QED BY <4>1, <1>3, Zenon DEF In
    <3>4. QED BY <3>1, <3>2, <3>3, <1>2
  <2>4. QED BY <2>1, <2>2, <2>3, Zenon
<1>5. ASSUME NoDuplicates(s), ~In(s, t) PROVE NoDuplicates(r)
  BY <1>5, <1>2, <1>3 DEF In, NoDuplicates
<1>6. QED BY <1>1, <1>3, <1>4, <1>5, Zenon

\* The first node of a list that is not empty.
LEMMA HeadList ==
    ASSUME NEW S, NEW s \in Seq(S), s # <<>>
    PROVE  Head(s) \in S /\ In(s, Head(s))
BY HeadTailProperties DEF In

\* rt_list_insert_after() on the head of a list.
LEMMA ConsList ==
    ASSUME NEW S, NEW s \in Seq(S), NEW t \in S, NoDuplicates(s), ~In(s, t)
    PROVE  LET r == <<t>> \o s
           IN  /\ r \in Seq(S)
               /\ NoDuplicates(r)
               /\ \A x : In(r, x) <=> In(s, x) \/ x = t
<1> DEFINE r == <<t>> \o s
<1>1. /\ r \in Seq(S)
      /\ Len(s) \in Nat
      /\ Len(r) = Len(s) + 1
      /\ \A i \in 1 .. Len(r) : r[i] = IF i = 1 THEN t ELSE s[i - 1]
  BY ConcatProperties, LenProperties
<1> HIDE DEF r
<1>2. NoDuplicates(r)
  <2> SUFFICES ASSUME NEW i \in 1 .. Len(r), NEW j \in 1 .. Len(r), r[i] = r[j], i # j
               PROVE  FALSE
    BY Zenon DEF NoDuplicates
  <2>1. CASE i # 1 /\ j # 1
    <3>1. i - 1 \in 1 .. Len(s) /\ j - 1 \in 1 .. Len(s) /\ s[i - 1] = s[j - 1]
      BY <1>1, <2>1
    <3>2. QED BY <1>1, <3>1 DEF NoDuplicates
  <2>2. CASE i = 1
    <3>1. j - 1 \in 1 .. Len(s) /\ s[j - 1] = t
      BY <1>1, <2>2
    <3>2. QED BY <3>1, Zenon DEF In
  <2>3. CASE j = 1
    <3>1. i - 1 \in 1 .. Len(s) /\ s[i - 1] = t
      BY <1>1, <2>3
    <3>2. QED BY <3>1, Zenon DEF In
  <2>4. QED BY <2>1, <2>2, <2>3, Zenon
<1>3. ASSUME NEW x PROVE In(r, x) <=> In(s, x) \/ x = t
  <2>1. In(r, x) => In(s, x) \/ x = t
    BY <1>1 DEF In
  <2>2. ASSUME NEW i \in 1 .. Len(s), s[i] = x PROVE In(r, x)
    <3>1. i + 1 \in 1 .. Len(r) /\ r[i + 1] = x
      BY <1>1, <2>2
    <3>2. QED BY <3>1, Zenon DEF In
  <2>3. x = t => In(r, x)
    <3>1. 1 \in 1 .. Len(r) /\ r[1] = t
      BY <1>1
    <3>2. QED BY <3>1, Zenon DEF In
  <2>4. QED BY <2>1, <2>2, <2>3, Zenon DEF In
<1>4. QED BY <1>1, <1>2, <1>3, Zenon DEF r

\* One list behind another.
LEMMA ConcatList ==
    ASSUME NEW S, NEW s \in Seq(S), NEW r \in Seq(S)
    PROVE  /\ s \o r \in Seq(S)
           /\ \A x : In(s \o r, x) <=> In(s, x) \/ In(r, x)
           /\ NoDuplicates(s) /\ NoDuplicates(r) /\ (\A x \in S : ~(In(s, x) /\ In(r, x)))
                 => NoDuplicates(s \o r)
<1> DEFINE c == s \o r
<1>1. /\ c \in Seq(S)
      /\ Len(s) \in Nat /\ Len(r) \in Nat
      /\ Len(c) = Len(s) + Len(r)
      /\ \A i \in 1 .. Len(c) : c[i] = IF i <= Len(s) THEN s[i] ELSE r[i - Len(s)]
  BY ConcatProperties, LenProperties, Zenon
<1> HIDE DEF c
<1>2. \A i \in 1 .. Len(c) : \/ i \in 1 .. Len(s) /\ c[i] = s[i]
                             \/ i - Len(s) \in 1 .. Len(r) /\ c[i] = r[i - Len(s)]
  BY <1>1
<1>3. \A i \in 1 .. Len(s) : i \in 1 .. Len(c) /\ c[i] = s[i]
  BY <1>1
<1>4. \A i \in 1 .. Len(r) : i + Len(s) \in 1 .. Len(c) /\ c[i + Len(s)] = r[i]
  BY <1>1
<1>5. \A x : In(c, x) <=> In(s, x) \/ In(r, x)
  <2> TAKE x
  <2>1. In(c, x) => In(s, x) \/ In(r, x)
    BY <1>2, Zenon DEF In
  <2>2. In(s, x) => In(c, x)
    BY <1>3, Zenon DEF In
  <2>3. In(r, x) => In(c, x)
    BY <1>4, Zenon DEF In
  <2>4. QED BY <2>1, <2>2, <2>3, Zenon
<1>6. ASSUME NoDuplicates(s), NoDuplicates(r), \A x \in S : ~(In(s, x) /\ In(r, x)),
             NEW i \in 1 .. Len(c), NEW j \in 1 .. Len(c), c[i] = c[j]
      PROVE  i = j
  <2>0. c[i] \in S
    BY <1>1
  <2>1. CASE i \in 1 .. Len(s) /\ c[i] = s[i] /\ j \in 1 .. Len(s) /\ c[j] = s[j]
    BY <1>6, <2>1, Zenon DEF NoDuplicates
  <2>2. CASE /\ i - Len(s) \in 1 .. Len(r) /\ c[i] = r[i - Len(s)]
             /\ j - Len(s) \in 1 .. Len(r) /\ c[j] = r[j - Len(s)]
    <3>1. i - Len(s) = j - Len(s)
      BY <1>6, <2>2, Zenon DEF NoDuplicates
    <3>2. QED BY <1>1, <3>1
  <2>3. CASE /\ i \in 1 .. Len(s) /\ c[i] = s[i]
             /\ j - Len(s) \in 1 .. Len(r) /\ c[j] = r[j - Len(s)]
    BY <1>6, <2>0, <2>3, Zenon DEF In
  <2>4. CASE /\ j \in 1 .. Len(s) /\ c[j] = s[j]
             /\ i - Len(s) \in 1 .. Len(r) /\ c[i] = r[i - Len(s)]
    BY <1>6, <2>0, <2>4, Zenon DEF In
  <2>5. QED BY <1>2, <2>1, <2>2, <2>3, <2>4, Zenon
<1>7. QED BY <1>1, <1>5, <1>6, Zenon DEF NoDuplicates, c

\* The rank of a place among finitely many of them is a bijection.
LEMMA Ranks ==
    ASSUME NEW n \in Nat, NEW P \in SUBSET (1 .. n)
    PROVE  LET rank(i) == Cardinality({m \in P : m <= i})
           IN  /\ Cardinality(P) \in Nat
               /\ \A i \in P : rank(i) \in 1 .. Cardinality(P)
               /\ \A i, j \in P : rank(i) = rank(j) => i = j
               /\ \A c \in 1 .. Cardinality(P) : \E i \in P : rank(i) = c
<1> DEFINE upto(i) == {m \in P : m <= i}
           rank(i) == Cardinality(upto(i))
           f == [i \in P |-> rank(i)]
<1>1. IsFiniteSet(P) /\ Cardinality(P) \in Nat
  <2>1. IsFiniteSet(1 .. n)
    BY FS_Interval
  <2>2. IsFiniteSet(P)
    BY <2>1, FS_Subset, Zenon
  <2>3. QED BY <2>2, FS_CardinalityType, Zenon
<1>2. \A i \in P : IsFiniteSet(upto(i)) /\ rank(i) \in Nat /\ rank(i) <= Cardinality(P)
  <2> TAKE i \in P
  <2>1. upto(i) \in SUBSET P
    BY Zenon
  <2>2. QED BY <1>1, <2>1, FS_Subset, FS_CardinalityType, Zenon
<1>3. \A i \in P : rank(i) \in 1 .. Cardinality(P)
  <2> TAKE i \in P
  <2>1. i \in upto(i)
    OBVIOUS
  <2>2. rank(i) # 0
    BY <1>2, <2>1, FS_EmptySet, Zenon
  <2>3. QED BY <1>1, <1>2, <2>2
<1>4. \A i, j \in P : rank(i) = rank(j) => i = j
  <2>1. ASSUME NEW i \in P, NEW j \in P, i < j PROVE rank(i) # rank(j)
    <3>0. \A m \in P : m <= i => m <= j
      BY <2>1
    <3>1. upto(i) \in SUBSET upto(j) /\ j \in upto(j) /\ j \notin upto(i)
      <4>1. upto(i) \in SUBSET upto(j)
        BY <3>0, Zenon
      <4>2. j \in Int /\ ~(j <= i)
        BY <2>1
      <4>3. QED BY <4>1, <4>2
    <3>2. IsFiniteSet(upto(j))
      BY <1>2, Zenon
    <3> HIDE DEF upto
    <3>3. Cardinality(upto(j)) = Cardinality(upto(i)) => upto(j) = upto(i)
      BY <3>1, <3>2, FS_Subset, Zenon
    <3>4. QED BY <3>1, <3>3, Zenon
  <2>2. \A i, j \in P : i < j \/ j < i \/ i = j
    OBVIOUS
  <2> HIDE DEF rank
  <2>3. QED BY <2>1, <2>2, Zenon
<1> HIDE DEF rank
<1>5. f \in Injection(P, 1 .. Cardinality(P))
  BY <1>3, <1>4, Zenon DEF Injection, IsInjective
<1>6. IsFiniteSet(1 .. Cardinality(P)) /\ Cardinality(1 .. Cardinality(P)) = Cardinality(P)
  BY <1>1, FS_Interval
<1>7. f \in Surjection(P, 1 .. Cardinality(P))
  BY <1>5, <1>6, FS_Injection, Zenon
<1>8. \A c \in 1 .. Cardinality(P) : \E i \in P : rank(i) = c
  BY <1>7, Zenon DEF Surjection
<1>9. QED BY <1>1, <1>3, <1>4, <1>8, Zenon DEF rank

\* The entries of a list that are in T, in the order of the list.
LEMMA InOrderList ==
    ASSUME NEW S, NEW s \in Seq(S), NEW T
    PROVE  /\ InOrder(s, T) \in Seq(S)
           /\ \A x : In(InOrder(s, T), x) <=> In(s, x) /\ x \in T
           /\ NoDuplicates(s) => NoDuplicates(InOrder(s, T))
<1> DEFINE P == {i \in 1 .. Len(s) : s[i] \in T}
           rank(i) == Cardinality({m \in P : m <= i})
           at(c) == CHOOSE i \in P : rank(i) = c
           n == Cardinality(P)
           r == [c \in 1 .. n |-> s[at(c)]]
<1>1. Len(s) \in Nat /\ P \in SUBSET (1 .. Len(s)) /\ \A i \in P : s[i] \in S
  OBVIOUS
<1>2. /\ n \in Nat
      /\ \A i \in P : rank(i) \in 1 .. n
      /\ \A i, j \in P : rank(i) = rank(j) => i = j
      /\ \A c \in 1 .. n : \E i \in P : rank(i) = c
  <2> HIDE DEF P
  <2>1. QED BY <1>1, Ranks, Zenon
<1>3. InOrder(s, T) = r
  BY Zenon DEF InOrder
<1>4. \A c \in 1 .. n : at(c) \in P /\ rank(at(c)) = c
  <2> HIDE DEF P, rank, n
  <2>1. QED BY <1>2, Zenon
<1>5. \A i \in P : at(rank(i)) = i
  <2> TAKE i \in P
  <2>1. rank(i) \in 1 .. n
    BY <1>2, Zenon
  <2> HIDE DEF P, rank, n, at
  <2>2. QED BY <1>2, <1>4, <2>1, Zenon
<1>6. \A i : i \in P <=> i \in 1 .. Len(s) /\ s[i] \in T
  BY Zenon
<1> HIDE DEF P, rank, n, at
<1>7. r \in Seq(S) /\ Len(r) = n
  <2>1. \A c \in 1 .. n : s[at(c)] \in S
    BY <1>1, <1>4, Zenon
  <2>2. r \in [1 .. n -> S]
    BY <2>1, Zenon
  <2>3. QED BY <1>2, <2>2
<1>8. \A x : In(r, x) <=> In(s, x) /\ x \in T
  <2> TAKE x
  <2>1. ASSUME In(r, x) PROVE In(s, x) /\ x \in T
    <3>1. PICK c \in 1 .. n : r[c] = x
      BY <1>7, <2>1, Zenon DEF In
    <3>2. at(c) \in P /\ s[at(c)] = x
      BY <1>4, <3>1, Zenon
    <3>3. QED BY <1>6, <3>2, Zenon DEF In
  <2>2. ASSUME In(s, x), x \in T PROVE In(r, x)
    <3>1. PICK i \in 1 .. Len(s) : s[i] = x
      BY <2>2, Zenon DEF In
    <3>2. i \in P
      BY <1>6, <2>2, <3>1, Zenon
    <3>3. rank(i) \in 1 .. n /\ at(rank(i)) = i
      BY <1>2, <1>5, <3>2, Zenon
    <3>4. r[rank(i)] = x
      BY <3>1, <3>3, Zenon
    <3>5. QED BY <1>7, <3>3, <3>4, Zenon DEF In
  <2>3. QED BY <2>1, <2>2, Zenon
<1>9. ASSUME NoDuplicates(s) PROVE NoDuplicates(r)
  <2> SUFFICES ASSUME NEW b \in 1 .. n, NEW c \in 1 .. n, r[b] = r[c] PROVE b = c
    BY <1>7, Zenon DEF NoDuplicates
  <2>1. at(b) \in P /\ at(c) \in P /\ s[at(b)] = s[at(c)]
    BY <1>4, Zenon
  <2>2. at(b) = at(c)
    BY <1>6, <1>9, <2>1, Zenon DEF NoDuplicates
  <2>3. QED BY <1>4, <2>2, Zenon
<1>10. QED
  <2> HIDE DEF r
  <2>1. QED BY <1>3, <1>7, <1>8, <1>9, Zenon

\* RT_IPC_FLAG_PRIO finds a position in the list.
LEMMA PrioPositionInList ==
    ASSUME NEW k \in KernelStates, NEW s \in Seq(Threads), NEW t \in Threads
    PROVE  PrioPosition(k, s, t) \in 1 .. Len(s) + 1
<1> DEFINE later == {i \in 1 .. Len(s) : k.priority[t] < k.priority[s[i]]}
<1>1. Len(s) \in Nat
  BY LenProperties, Zenon
<1>2. CASE later = {}
  BY <1>1, <1>2 DEF PrioPosition
<1>3. CASE later # {}
  <2>1. later \subseteq Nat /\ later # {}
    BY <1>1, <1>3
  <2>2. \E i \in later : \A j \in later : i <= j
    BY <2>1, LeastNumber, Zenon
  <2>3. (CHOOSE i \in later : \A j \in later : i <= j) \in later
    BY <2>2, Zenon
  <2>4. QED BY <2>3, <1>3, <1>1 DEF PrioPosition
<1>4. QED BY <1>2, <1>3, Zenon

(***************************************************************************)
(* The operators on kernel states.                                         *)
(***************************************************************************)

\* The lists of u are those of k without t.
Without(u, k, t) ==
    /\ \A p \in Priorities : \A x : In(u.table[p], x) <=> In(k.table[p], x) /\ x # t
    /\ \A l \in Lists : \A x : In(u.wait[l], x) <=> In(k.wait[l], x) /\ x # t
    /\ \A x : In(u.defunct, x) <=> In(k.defunct, x) /\ x # t

\* Everything else of u is as in k.
Frame(u, k) ==
    /\ u.stat = k.stat
    /\ u.priority = k.priority
    /\ u.error = k.error
    /\ u.current = k.current
    /\ u.lock_nest = k.lock_nest
    /\ u.timer = k.timer

LEMMA ListRemove ==
    ASSUME NEW k, Shape(k), NEW t \in Threads
    PROVE  LET u == rt_list_remove(k, t)
           IN  /\ u \in KernelStates
               /\ \A p \in Priorities : NoDuplicates(u.table[p])
               /\ \A l \in Lists : NoDuplicates(u.wait[l])
               /\ NoDuplicates(u.defunct)
               /\ Without(u, k, t)
               /\ Frame(u, k)
               /\ u.group = k.group
<1> DEFINE u == rt_list_remove(k, t)
<1>1. /\ k \in KernelStates
      /\ \A p \in Priorities : k.table[p] \in Seq(Threads) /\ NoDuplicates(k.table[p])
      /\ \A l \in Lists : k.wait[l] \in Seq(Threads) /\ NoDuplicates(k.wait[l])
      /\ k.defunct \in Seq(Threads) /\ NoDuplicates(k.defunct)
  BY Zenon DEF Shape, KernelStates
<1>2. /\ u.table = [p \in Priorities |-> Unlink(k.table[p], t)]
      /\ u.wait = [l \in Lists |-> Unlink(k.wait[l], t)]
      /\ u.defunct = Unlink(k.defunct, t)
      /\ Frame(u, k)
      /\ u.group = k.group
  BY <1>1, Zenon DEF rt_list_remove, KernelStates, Frame
<1>3. /\ \A p \in Priorities : /\ u.table[p] \in Seq(Threads)
                               /\ NoDuplicates(u.table[p])
                               /\ \A x : In(u.table[p], x) <=> In(k.table[p], x) /\ x # t
      /\ \A l \in Lists : /\ u.wait[l] \in Seq(Threads)
                          /\ NoDuplicates(u.wait[l])
                          /\ \A x : In(u.wait[l], x) <=> In(k.wait[l], x) /\ x # t
      /\ u.defunct \in Seq(Threads)
      /\ NoDuplicates(u.defunct)
      /\ \A x : In(u.defunct, x) <=> In(k.defunct, x) /\ x # t
  BY <1>1, <1>2, UnlinkList
<1>4. u \in KernelStates
  <2>1. /\ u.table \in [Priorities -> Seq(Threads)]
        /\ u.wait \in [Lists -> Seq(Threads)]
        /\ u.defunct \in Seq(Threads)
    BY <1>2, <1>3, Zenon
  <2>2. u = [k EXCEPT !.table = u.table, !.wait = u.wait, !.defunct = u.defunct]
    BY <1>1, <1>2, Zenon DEF rt_list_remove, KernelStates
  <2> HIDE DEF u
  <2>3. QED BY <1>1, <2>1, <2>2, Zenon DEF KernelStates
<1>5. QED BY <1>2, <1>3, <1>4, Zenon DEF Without

\* rt_schedule_remove_thread() keeps the bitmap right if the thread is on no
\* ready list other than that of its priority.
LEMMA RemoveThread ==
    ASSUME NEW k, Shape(k), NEW t \in Threads,
           \A p \in Priorities : In(k.table[p], t) => p = k.priority[t]
    PROVE  LET u == rt_schedule_remove_thread(k, t)
           IN  Shape(u) /\ Without(u, k, t) /\ Frame(u, k)
<1> DEFINE v == rt_list_remove(k, t)
           u == rt_schedule_remove_thread(k, t)
           q == k.priority[t]
<1>1. /\ v \in KernelStates
      /\ \A p \in Priorities : NoDuplicates(v.table[p])
      /\ \A l \in Lists : NoDuplicates(v.wait[l])
      /\ NoDuplicates(v.defunct)
      /\ Without(v, k, t)
      /\ Frame(v, k)
      /\ v.group = k.group
  BY ListRemove, Zenon
<1>2. /\ k \in KernelStates
      /\ q \in Priorities
      /\ k.group = {p \in Priorities : k.table[p] # <<>>}
      /\ \A p \in Priorities : k.table[p] \in Seq(Threads) /\ v.table[p] \in Seq(Threads)
  BY <1>1, Zenon DEF Shape, KernelStates
<1>3. u = IF v.table[q] = <<>> THEN [v EXCEPT !.group = @ \ {q}] ELSE v
  BY Zenon DEF rt_schedule_remove_thread
<1> HIDE DEF v
<1>4. \A p \in Priorities \ {q} : v.table[p] = <<>> <=> k.table[p] = <<>>
  <2> SUFFICES ASSUME NEW p \in Priorities \ {q}
               PROVE  v.table[p] = <<>> <=> k.table[p] = <<>>
    BY Zenon
  <2>1. \A x \in Threads : In(v.table[p], x) <=> In(k.table[p], x)
    BY <1>1, Zenon DEF Without
  <2>2. QED BY <2>1, <1>2, EmptyList
<1>5. v.table[q] # <<>> => k.table[q] # <<>>
  <2>1. \A x \in Threads : In(v.table[q], x) => In(k.table[q], x)
    BY <1>1, <1>2, Zenon DEF Without
  <2>2. QED BY <2>1, <1>2, EmptyList, Zenon
<1>6. /\ u \in KernelStates
      /\ u.table = v.table /\ u.wait = v.wait /\ u.defunct = v.defunct
      /\ Frame(u, v)
      /\ u.group = {p \in Priorities : v.table[p] # <<>>}
  <2>1. CASE v.table[q] = <<>>
    <3>1. k.group \ {q} = {p \in Priorities : v.table[p] # <<>>}
      BY <2>1, <1>2, <1>4, Zenon
    <3>2. u = [v EXCEPT !.group = k.group \ {q}]
      BY <2>1, <1>1, <1>3, Zenon
    <3> HIDE DEF u, q
    <3>3. QED BY <3>1, <3>2, <1>1, <1>2, Zenon DEF KernelStates, Frame
  <2>2. CASE v.table[q] # <<>>
    <3>1. k.group = {p \in Priorities : v.table[p] # <<>>}
      BY <2>2, <1>2, <1>4, <1>5, Zenon
    <3>2. u = v
      BY <2>2, <1>3, Zenon
    <3>3. QED BY <3>1, <3>2, <1>1, Zenon DEF Frame
  <2>3. QED BY <2>1, <2>2, Zenon
<1> HIDE DEF u, q
<1>7. Shape(u) /\ Without(u, k, t) /\ Frame(u, k)
  BY <1>1, <1>6, Zenon DEF Shape, Without, Frame
<1>8. QED BY <1>7, Zenon DEF u

\* t is on no list of k.
Free(k, t) ==
    /\ \A p \in Priorities : ~In(k.table[p], t)
    /\ \A l \in Lists : ~In(k.wait[l], t)
    /\ ~In(k.defunct, t)

LEMMA InsertThread ==
    ASSUME NEW k, Shape(k), NEW t \in Threads, Free(k, t), t # k.current
    PROVE  LET u == rt_schedule_insert_thread(k, t)
           IN  /\ Shape(u)
               /\ \A p \in Priorities : \A x :
                     In(u.table[p], x) <=> In(k.table[p], x) \/ (x = t /\ p = k.priority[t])
               /\ u.wait = k.wait
               /\ u.defunct = k.defunct
               /\ u.stat = [k.stat EXCEPT ![t] = "READY"]
               /\ u.priority = k.priority
               /\ u.error = k.error
               /\ u.current = k.current
               /\ u.lock_nest = k.lock_nest
               /\ u.timer = k.timer
<1> DEFINE q == k.priority[t]
           u == [k EXCEPT !.stat[t] = "READY",
                          !.table[q] = Append(@, t),
                          !.group = @ \cup {q}]
<1>1. /\ k \in KernelStates
      /\ q \in Priorities
      /\ k.table \in [Priorities -> Seq(Threads)]
      /\ k.group = {p \in Priorities : k.table[p] # <<>>}
      /\ \A p \in Priorities : NoDuplicates(k.table[p])
      /\ \A l \in Lists : NoDuplicates(k.wait[l])
      /\ NoDuplicates(k.defunct)
  BY Zenon DEF Shape, KernelStates
<1>2. /\ u.wait = k.wait
      /\ u.defunct = k.defunct
      /\ u.stat = [k.stat EXCEPT ![t] = "READY"]
      /\ u.priority = k.priority
      /\ u.error = k.error
      /\ u.current = k.current
      /\ u.lock_nest = k.lock_nest
      /\ u.timer = k.timer
      /\ u.table = [k.table EXCEPT ![q] = Append(k.table[q], t)]
      /\ u.group = k.group \cup {q}
  BY <1>1, Zenon DEF KernelStates
<1>3. /\ Append(k.table[q], t) \in Seq(Threads)
      /\ NoDuplicates(Append(k.table[q], t))
      /\ \A x : In(Append(k.table[q], t), x) <=> In(k.table[q], x) \/ x = t
  BY <1>1, AppendList DEF Free
<1>4. Append(k.table[q], t) # <<>>
  BY <1>1
<1>5. u \in KernelStates
  <2>1. /\ u.stat \in [Threads -> Stats]
        /\ u.table \in [Priorities -> Seq(Threads)]
        /\ u.group \in SUBSET Priorities
    BY <1>1, <1>2, <1>3, Zenon DEF KernelStates, Stats
  <2>2. u = [k EXCEPT !.stat = u.stat, !.table = u.table, !.group = u.group]
    BY <1>1, <1>2, Zenon DEF KernelStates
  <2> HIDE DEF u
  <2>3. QED BY <1>1, <2>1, <2>2, Zenon DEF KernelStates
<1>6. rt_schedule_insert_thread(k, t) = u
  BY Zenon DEF rt_schedule_insert_thread
<1> HIDE DEF u
<1>7. \A p \in Priorities : u.table[p] = IF p = q THEN Append(k.table[q], t) ELSE k.table[p]
  BY <1>1, <1>2, Zenon
<1>8. u.group = {p \in Priorities : u.table[p] # <<>>}
  BY <1>1, <1>2, <1>4, <1>7
<1>9. \A p \in Priorities : NoDuplicates(u.table[p])
  BY <1>1, <1>3, <1>7, Zenon
<1>10. \A p \in Priorities : \A x :
          In(u.table[p], x) <=> In(k.table[p], x) \/ (x = t /\ p = k.priority[t])
  BY <1>3, <1>7, Zenon
<1>11. Shape(u)
  BY <1>1, <1>2, <1>5, <1>8, <1>9, Zenon DEF Shape
<1>12. QED BY <1>2, <1>6, <1>10, <1>11, Zenon

\* The least bit of the bitmap leads to a READY thread of the highest priority.
LEMMA HighestReadyThread ==
    ASSUME NEW k, NEW D, KernelOK(k, D), k.group # {}
    PROVE  LET to == _get_highest_priority_thread(k)
           IN  /\ HighestReady(k) \in k.group
               /\ \A p \in k.group : HighestReady(k) <= p
               /\ to \in Threads \ D
               /\ k.stat[to] = "READY"
               /\ k.priority[to] = HighestReady(k)
               /\ to # k.current
<1> DEFINE h == HighestReady(k)
<1>1. /\ k \in KernelStates
      /\ k.group = {p \in Priorities : k.table[p] # <<>>}
  BY Zenon DEF KernelOK, Shape
<1>2. k.group \subseteq Nat
  BY <1>1, KernelAssumption DEF Priorities
<1>3. h \in k.group /\ \A p \in k.group : h <= p
  BY <1>2, LeastNumber, Zenon DEF HighestReady
<1> HIDE DEF h
<1>4. k.table[h] \in Seq(Threads) /\ k.table[h] # <<>> /\ h \in Priorities
  BY <1>1, <1>3, Zenon DEF KernelStates
<1>5. Head(k.table[h]) \in Threads /\ In(k.table[h], Head(k.table[h]))
  BY <1>4, HeadList, Zenon
<1>6. QED
  BY <1>3, <1>4, <1>5 DEF KernelOK, Linked, Occupied, _get_highest_priority_thread, h

\* Changing the state of a thread leaves the lists alone.
LEMMA SetStat ==
    ASSUME NEW k, Shape(k), NEW t \in Threads, NEW s \in Stats
    PROVE  LET u == [k EXCEPT !.stat[t] = s]
           IN  /\ Shape(u)
               /\ u.stat = [k.stat EXCEPT ![t] = s]
               /\ u.table = k.table
               /\ u.wait = k.wait
               /\ u.defunct = k.defunct
               /\ u.priority = k.priority
               /\ u.error = k.error
               /\ u.current = k.current
               /\ u.lock_nest = k.lock_nest
               /\ u.timer = k.timer
<1> DEFINE u == [k EXCEPT !.stat[t] = s]
<1>1. k \in KernelStates
  BY Zenon DEF Shape
<1>2. /\ u.stat = [k.stat EXCEPT ![t] = s]
      /\ u.table = k.table
      /\ u.group = k.group
      /\ u.wait = k.wait
      /\ u.defunct = k.defunct
      /\ u.priority = k.priority
      /\ u.error = k.error
      /\ u.current = k.current
      /\ u.lock_nest = k.lock_nest
      /\ u.timer = k.timer
  BY <1>1, Zenon DEF KernelStates
<1>3. u \in KernelStates
  BY <1>1, Zenon DEF KernelStates
<1> HIDE DEF u
<1>4. Shape(u)
  BY <1>2, <1>3, Zenon DEF Shape
<1>5. QED BY <1>2, <1>4, Zenon DEF u

\* What rt_schedule() promises: the current thread can run and no READY thread
\* is more urgent.
Settled(k) ==
    /\ k.stat[k.current] = "RUNNING"
    /\ \A p \in k.group : k.priority[k.current] <= p

\* What rt_schedule() leaves alone.
Rescheduled(u, k) ==
    /\ \A t \in Threads : u.stat[t] # k.stat[t] =>
          /\ k.stat[t] \in {"READY", "RUNNING"}
          /\ u.stat[t] \in {"READY", "RUNNING"}
    /\ u.priority = k.priority
    /\ u.error = k.error
    /\ u.lock_nest = k.lock_nest
    /\ u.timer = k.timer
    /\ \A l \in Lists : \A x : In(u.wait[l], x) <=> In(k.wait[l], x)
    /\ \A x : In(u.defunct, x) <=> In(k.defunct, x)
    /\ k.lock_nest # 0 => u.current = k.current

LEMMA ScheduleOK ==
    ASSUME NEW k, NEW D, KernelOK(k, D)
    PROVE  LET u == rt_schedule(k)
           IN  /\ KernelOK(u, D)
               /\ Rescheduled(u, k)
               /\ k.lock_nest = 0 => Settled(u)
<1> DEFINE me == k.current
           h  == HighestReady(k)
           to == _get_highest_priority_thread(k)
<1>1. Shape(k) /\ Linked(k, D) /\ Occupied(k, D) /\ k \in KernelStates /\ me \in Threads
  BY Zenon DEF KernelOK, Shape, KernelStates
<1>2. CASE k.lock_nest # 0 \/ k.group = {}
  <2>1. rt_schedule(k) = k
    BY <1>2, Zenon DEF rt_schedule
  <2>2. Rescheduled(k, k)
    BY Zenon DEF Rescheduled
  <2>3. k.lock_nest = 0 => Settled(k)
    <3> SUFFICES ASSUME k.group = {} PROVE k.stat[me] = "RUNNING" /\ \A p \in k.group : k.priority[me] <= p
      BY <1>2, Zenon DEF Settled
    <3>1. \A p \in Priorities : ~In(k.table[p], Idle)
      BY <1>1, EmptyList, KernelAssumption DEF Shape, KernelStates
    <3>2. k.stat[Idle] # "READY"
      BY <1>1, <3>1, KernelAssumption DEF Linked, Occupied, KernelStates
    <3>3. QED BY <1>1, <3>2, KernelAssumption, Zenon DEF Occupied
  <2>4. QED BY <2>1, <2>2, <2>3, Zenon
<1>3. CASE k.lock_nest = 0 /\ k.group # {}
  <2>1. /\ h \in k.group
        /\ \A p \in k.group : h <= p
        /\ to \in Threads \ D
        /\ k.stat[to] = "READY"
        /\ k.priority[to] = h
        /\ to # me
    BY <1>3, HighestReadyThread, Zenon
  <2>2. k.group \subseteq Priorities /\ h \in Priorities
    BY <1>1, <2>1, Zenon DEF KernelStates
  <2> HIDE DEF h, to
  <2>3. CASE k.stat[me] = "RUNNING" /\ k.priority[me] < h
    <3> DEFINE v == rt_schedule_remove_thread(k, me)
               u == [v EXCEPT !.stat[me] = "RUNNING"]
    <3>1. rt_schedule(k) = u
      BY <1>3, <2>3, Zenon DEF rt_schedule, Switch, KeepsProcessor, h, to
    <3>2. Free(k, me)
      BY <1>1, <2>3, Zenon DEF Free, Linked
    <3>3. Shape(v) /\ Without(v, k, me) /\ Frame(v, k)
      BY <1>1, <3>2, RemoveThread, Zenon DEF Free
    <3> HIDE DEF v
    <3>4. /\ Shape(u)
          /\ u.stat = [v.stat EXCEPT ![me] = "RUNNING"]
          /\ u.table = v.table
          /\ u.wait = v.wait
          /\ u.defunct = v.defunct
          /\ u.priority = v.priority
          /\ u.error = v.error
          /\ u.current = v.current
          /\ u.lock_nest = v.lock_nest
          /\ u.timer = v.timer
      BY <1>1, <3>3, SetStat, Zenon DEF Stats
    <3> HIDE DEF u
    <3>5. u.stat = k.stat
      BY <1>1, <2>3, <3>3, <3>4 DEF Frame, KernelStates
    <3>6. /\ \A p \in Priorities : \A x : In(u.table[p], x) <=> In(k.table[p], x)
          /\ \A l \in Lists : \A x : In(u.wait[l], x) <=> In(k.wait[l], x)
          /\ \A x : In(u.defunct, x) <=> In(k.defunct, x)
      BY <3>2, <3>3, <3>4, Zenon DEF Free, Without
    <3>7. Linked(u, D) /\ Occupied(u, D)
      <4>1. u.priority = k.priority /\ u.current = k.current /\ u.timer = k.timer
        BY <3>3, <3>4, Zenon DEF Frame
      <4>2. Linked(u, D)
        <5>1. \A p \in Priorities, t \in Threads :
                 In(u.table[p], t) <=> u.stat[t] = "READY" /\ u.priority[t] = p /\ t \notin D
          <6> SUFFICES ASSUME NEW p \in Priorities, NEW t \in Threads
                       PROVE  In(u.table[p], t) <=>
                                 u.stat[t] = "READY" /\ u.priority[t] = p /\ t \notin D
            BY Zenon
          <6>1. In(u.table[p], t) <=> In(k.table[p], t)
            BY <3>6, Zenon
          <6>2. In(k.table[p], t) <=> k.stat[t] = "READY" /\ k.priority[t] = p /\ t \notin D
            BY <1>1, Zenon DEF Linked
          <6>3. QED BY <3>5, <4>1, <6>1, <6>2, Zenon
        <5>2. \A l \in Lists, t \in Threads :
                 In(u.wait[l], t) => u.stat[t] = "SUSPEND" /\ t \notin D
          BY <1>1, <3>5, <3>6, Zenon DEF Linked
        <5>3. \A l, m \in Lists, t \in Threads :
                 In(u.wait[l], t) /\ In(u.wait[m], t) => l = m
          BY <1>1, <3>6, Zenon DEF Linked
        <5>4. /\ \A t \in Threads : In(u.defunct, t) => u.stat[t] = "CLOSE" /\ t \notin D
              /\ \A t \in u.timer : u.stat[t] = "SUSPEND" /\ t \notin D
          BY <1>1, <3>5, <3>6, <4>1, Zenon DEF Linked
        <5>5. QED BY <5>1, <5>2, <5>3, <5>4, Zenon DEF Linked
      <4>3. Occupied(u, D)
        BY <1>1, <3>5, <4>1, Zenon DEF Occupied
      <4>4. QED BY <4>2, <4>3, Zenon
    <3>8. Rescheduled(u, k)
      BY <3>3, <3>4, <3>5, <3>6, Zenon DEF Rescheduled, Frame
    <3>9. Settled(u)
      <4>1. \A p \in Priorities : u.table[p] = <<>> <=> k.table[p] = <<>>
        <5>1. \A p \in Priorities : u.table[p] \in Seq(Threads) /\ k.table[p] \in Seq(Threads)
          BY <1>1, <3>4, Zenon DEF Shape, KernelStates
        <5>2. QED BY <3>6, <5>1, EmptyList, Zenon
      <4>2. u.group = k.group
        BY <1>1, <3>4, <4>1, Zenon DEF Shape
      <4>3. k.priority[me] \in Int /\ h \in Int /\ \A p \in k.group : p \in Int
        BY <1>1, <2>2, KernelAssumption DEF KernelStates, Priorities
      <4>4. \A p \in k.group : k.priority[me] <= p
        BY <2>1, <2>3, <4>3
      <4>5. QED BY <2>3, <3>3, <3>4, <3>5, <4>2, <4>4, Zenon DEF Settled, Frame
    <3>10. QED BY <3>1, <3>4, <3>7, <3>8, <3>9, Zenon DEF KernelOK
  <2>4. CASE ~(k.stat[me] = "RUNNING" /\ k.priority[me] < h)
    <3> DEFINE running == k.stat[me] = "RUNNING"
               left == [k EXCEPT !.current = to]
               queued == IF running THEN rt_schedule_insert_thread(left, me) ELSE left
               v == rt_schedule_remove_thread(queued, to)
               u == [v EXCEPT !.stat[to] = "RUNNING"]
    <3>1. rt_schedule(k) = u
      BY <1>3, <2>1, <2>4, Zenon DEF rt_schedule, Switch, KeepsProcessor, h, to
    <3>2. /\ Shape(left)
          /\ left.stat = k.stat /\ left.priority = k.priority /\ left.error = k.error
          /\ left.table = k.table /\ left.wait = k.wait /\ left.defunct = k.defunct
          /\ left.lock_nest = k.lock_nest /\ left.timer = k.timer
          /\ left.current = to
      BY <1>1, <2>1, Zenon DEF Shape, KernelStates
    <3> HIDE DEF left
    <3>3. /\ Shape(queued)
          /\ queued.stat = [k.stat EXCEPT ![me] = IF running THEN "READY" ELSE @]
          /\ queued.priority = k.priority /\ queued.error = k.error
          /\ queued.lock_nest = k.lock_nest /\ queued.timer = k.timer
          /\ queued.current = to
          /\ queued.wait = k.wait /\ queued.defunct = k.defunct
          /\ \A p \in Priorities : \A x : In(queued.table[p], x) <=>
                In(k.table[p], x) \/ (running /\ x = me /\ p = k.priority[me])
      <4>1. CASE running
        <5>1. Free(left, me)
          BY <1>1, <3>2, <4>1, Zenon DEF Free, Linked
        <5> DEFINE w == rt_schedule_insert_thread(left, me)
        <5>2. left.current # me
          BY <2>1, <3>2, Zenon
        <5>3. /\ Shape(w)
              /\ \A p \in Priorities : \A x : In(w.table[p], x) <=>
                    In(left.table[p], x) \/ (x = me /\ p = left.priority[me])
              /\ w.wait = left.wait
              /\ w.defunct = left.defunct
              /\ w.stat = [left.stat EXCEPT ![me] = "READY"]
              /\ w.priority = left.priority
              /\ w.error = left.error
              /\ w.current = left.current
              /\ w.lock_nest = left.lock_nest
              /\ w.timer = left.timer
          <6> HIDE DEF me
          <6>1. QED BY <1>1, <3>2, <5>1, <5>2, InsertThread, Zenon
        <5> HIDE DEF w
        <5>4. queued = w
          BY <4>1, Zenon DEF w
        <5> HIDE DEF queued
        <5>5. QED BY <3>2, <4>1, <5>3, <5>4
      <4>2. CASE ~running
        BY <1>1, <3>2, <4>2, Zenon DEF KernelStates
      <4>3. QED BY <4>1, <4>2, Zenon
    <3> HIDE DEF queued
    <3>4. \A p \in Priorities : In(queued.table[p], to) => p = queued.priority[to]
      BY <1>1, <2>1, <3>3 DEF Linked
    <3>5. Shape(v) /\ Without(v, queued, to) /\ Frame(v, queued)
      BY <2>1, <3>3, <3>4, RemoveThread, Zenon
    <3> HIDE DEF v
    <3>6. /\ Shape(u)
          /\ u.stat = [v.stat EXCEPT ![to] = "RUNNING"]
          /\ u.table = v.table
          /\ u.wait = v.wait
          /\ u.defunct = v.defunct
          /\ u.priority = v.priority
          /\ u.error = v.error
          /\ u.current = v.current
          /\ u.lock_nest = v.lock_nest
          /\ u.timer = v.timer
      BY <2>1, <3>5, SetStat, Zenon DEF Stats
    <3> HIDE DEF u
    <3>7. \A t \in Threads : u.stat[t] = CASE t = to -> "RUNNING"
                                            [] t = me /\ running -> "READY"
                                            [] OTHER -> k.stat[t]
      BY <1>1, <2>1, <3>3, <3>5, <3>6 DEF Frame, KernelStates
    <3>8. /\ \A p \in Priorities : \A x : In(u.table[p], x) <=>
                /\ x # to
                /\ In(k.table[p], x) \/ (running /\ x = me /\ p = k.priority[me])
          /\ \A l \in Lists : \A x : In(u.wait[l], x) <=> In(k.wait[l], x)
          /\ \A x : In(u.defunct, x) <=> In(k.defunct, x)
      <4>1. \A l \in Lists : ~In(k.wait[l], to)
        BY <1>1, <2>1, Zenon DEF Linked
      <4>2. ~In(k.defunct, to)
        BY <1>1, <2>1, Zenon DEF Linked
      <4>3. QED BY <3>3, <3>5, <3>6, <4>1, <4>2 DEF Without
    <3>9. /\ u.priority = k.priority /\ u.error = k.error /\ u.timer = k.timer
          /\ u.lock_nest = k.lock_nest /\ u.current = to
      BY <3>3, <3>5, <3>6, Zenon DEF Frame
    <3>10. Linked(u, D)
      <4>1. \A p \in Priorities, t \in Threads :
               In(u.table[p], t) <=> u.stat[t] = "READY" /\ u.priority[t] = p /\ t \notin D
        BY <1>1, <2>1, <3>7, <3>8, <3>9 DEF Linked, Occupied
      <4>2. \A t \in Threads : k.stat[t] \in {"SUSPEND", "CLOSE"} => u.stat[t] = k.stat[t]
        BY <2>1, <3>7, Zenon
      <4>3. /\ \A l \in Lists, t \in Threads :
                  In(u.wait[l], t) => u.stat[t] = "SUSPEND" /\ t \notin D
            /\ \A l, m \in Lists, t \in Threads :
                  In(u.wait[l], t) /\ In(u.wait[m], t) => l = m
        BY <1>1, <3>8, <4>2 DEF Linked
      <4>4. \A t \in Threads : In(u.defunct, t) => u.stat[t] = "CLOSE" /\ t \notin D
        BY <1>1, <3>8, <4>2, Zenon DEF Linked
      <4>5. \A t \in u.timer : u.stat[t] = "SUSPEND" /\ t \notin D
        BY <1>1, <3>9, <4>2, Zenon DEF Linked, KernelStates
      <4>6. QED BY <4>1, <4>3, <4>4, <4>5, Zenon DEF Linked
    <3>11. Occupied(u, D)
      BY <1>1, <2>1, <3>7, <3>9, KernelAssumption DEF Occupied
    <3>12. Rescheduled(u, k)
      BY <1>1, <1>3, <2>1, <3>7, <3>8, <3>9, Zenon DEF Rescheduled
    <3>13. Settled(u)
      <4>1. \A p \in u.group : p \in k.group \/ (running /\ p = k.priority[me])
        <5> SUFFICES ASSUME NEW p \in u.group
                     PROVE  p \in k.group \/ (running /\ p = k.priority[me])
          BY Zenon
        <5>1. p \in Priorities /\ u.table[p] # <<>> /\ u.table[p] \in Seq(Threads)
          BY <3>6, Zenon DEF Shape, KernelStates
        <5>2. PICK x \in Threads : In(u.table[p], x)
          BY <5>1, EmptyList, Zenon
        <5>3. In(k.table[p], x) \/ (running /\ p = k.priority[me])
          BY <3>8, <5>1, <5>2, Zenon
        <5>4. In(k.table[p], x) => k.table[p] # <<>>
          BY <1>1, <5>1, EmptyList, Zenon DEF KernelStates
        <5>5. QED BY <1>1, <5>1, <5>3, <5>4, Zenon DEF Shape
      <4>2. k.priority[me] \in Int /\ h \in Int
        BY <1>1, <2>2, KernelAssumption DEF KernelStates, Priorities
      <4>3. running => h <= k.priority[me]
        BY <2>4, <4>2
      <4>4. QED BY <2>1, <3>7, <3>9, <4>1, <4>3, Zenon DEF Settled
    <3>14. QED BY <3>1, <3>6, <3>10, <3>11, <3>12, <3>13, Zenon DEF KernelOK
  <2>5. QED BY <2>3, <2>4, Zenon
<1>4. QED
  <2>1. k.lock_nest \in Nat
    BY <1>1, Zenon DEF KernelStates
  <2>2. QED BY <1>2, <1>3, <2>1, Zenon

\* u differs from k in thread t only, and t is not moved onto or off the
\* defunct list.
Only(u, k, t) ==
    /\ \A x \in Threads \ {t} : u.stat[x] = k.stat[x]
    /\ u.current = k.current
    /\ u.lock_nest = k.lock_nest
    /\ \A x : In(u.defunct, x) <=> In(k.defunct, x)

\* The timer and the error of a thread are not tied to the lists.
LEMMA StopTimerOK ==
    ASSUME NEW k, NEW D, KernelOK(k, D), NEW t \in Threads
    PROVE  LET u == rt_timer_stop(k, t)
           IN  /\ KernelOK(u, D) /\ Only(u, k, t) /\ u.stat = k.stat /\ u.group = k.group
               /\ u.priority = k.priority /\ u.timer = k.timer \ {t}
<1> DEFINE u == rt_timer_stop(k, t)
<1>1. /\ u \in KernelStates
      /\ u.stat = k.stat /\ u.priority = k.priority /\ u.table = k.table
      /\ u.group = k.group /\ u.current = k.current /\ u.lock_nest = k.lock_nest
      /\ u.wait = k.wait /\ u.defunct = k.defunct /\ u.timer = k.timer \ {t}
  BY Zenon DEF KernelOK, Shape, rt_timer_stop, KernelStates
<1> HIDE DEF u
<1>2. KernelOK(u, D) /\ Only(u, k, t)
  BY <1>1 DEF KernelOK, Shape, Linked, Occupied, Only
<1>3. QED BY <1>1, <1>2, Zenon DEF u

LEMMA SetErrorOK ==
    ASSUME NEW k, NEW D, KernelOK(k, D), NEW t \in Threads, NEW e \in Errors
    PROVE  LET u == [k EXCEPT !.error[t] = e]
           IN  /\ KernelOK(u, D) /\ Only(u, k, t) /\ u.stat = k.stat /\ u.group = k.group
               /\ u.priority = k.priority /\ u.timer = k.timer
<1> DEFINE u == [k EXCEPT !.error[t] = e]
<1>1. /\ u \in KernelStates
      /\ u.stat = k.stat /\ u.priority = k.priority /\ u.table = k.table
      /\ u.group = k.group /\ u.current = k.current /\ u.lock_nest = k.lock_nest
      /\ u.wait = k.wait /\ u.defunct = k.defunct /\ u.timer = k.timer
  BY Zenon DEF KernelOK, Shape, KernelStates
<1> HIDE DEF u
<1>2. KernelOK(u, D) /\ Only(u, k, t)
  BY <1>1 DEF KernelOK, Shape, Linked, Occupied, Only
<1>3. QED BY <1>1, <1>2, Zenon DEF u

\* A suspended thread whose timer is off is taken off its wait list and made
\* ready: what rt_thread_resume() and rt_thread_timeout() have in common.
LEMMA WakeOK ==
    ASSUME NEW k, NEW D, KernelOK(k, D), NEW t \in Threads \ D,
           k.stat[t] = "SUSPEND", t \notin k.timer
    PROVE  LET u == rt_schedule_insert_thread(rt_list_remove(k, t), t)
           IN  /\ KernelOK(u, D)
               /\ Only(u, k, t)
               /\ u.stat[t] = IF t = k.current THEN "RUNNING" ELSE "READY"
               /\ u.priority = k.priority
<1> DEFINE v == rt_list_remove(k, t)
           u == rt_schedule_insert_thread(v, t)
<1>1. Shape(k) /\ Linked(k, D) /\ Occupied(k, D) /\ k \in KernelStates
  BY Zenon DEF KernelOK, Shape
<1>2. /\ v \in KernelStates
      /\ \A p \in Priorities : NoDuplicates(v.table[p])
      /\ \A l \in Lists : NoDuplicates(v.wait[l])
      /\ NoDuplicates(v.defunct)
      /\ Without(v, k, t)
      /\ Frame(v, k)
      /\ v.group = k.group
  BY <1>1, ListRemove, Zenon
<1> HIDE DEF v
<1>3. /\ \A p \in Priorities : \A x : In(v.table[p], x) <=> In(k.table[p], x)
      /\ \A x : In(v.defunct, x) <=> In(k.defunct, x)
  BY <1>1, <1>2 DEF Linked, Without
<1>4. Shape(v)
  <2>1. \A p \in Priorities : v.table[p] \in Seq(Threads) /\ k.table[p] \in Seq(Threads)
    BY <1>1, <1>2, Zenon DEF KernelStates
  <2>2. \A p \in Priorities : v.table[p] = <<>> <=> k.table[p] = <<>>
    <3> SUFFICES ASSUME NEW p \in Priorities
                 PROVE  v.table[p] = <<>> <=> k.table[p] = <<>>
      BY Zenon
    <3>1. \A x \in Threads : In(v.table[p], x) <=> In(k.table[p], x)
      BY <1>3, Zenon
    <3>2. QED BY <2>1, <3>1, EmptyList, Zenon
  <2>3. QED BY <1>1, <1>2, <2>2, Zenon DEF Shape
<1>5. Free(v, t)
  BY <1>2, Zenon DEF Free, Without
<1>6. CASE t = k.current
  <2>1. u = [v EXCEPT !.stat[t] = "RUNNING"]
    BY <1>2, <1>6, Zenon DEF rt_schedule_insert_thread, Frame
  <2> HIDE DEF u
  <2>2. /\ Shape(u)
        /\ u.stat = [v.stat EXCEPT ![t] = "RUNNING"]
        /\ u.table = v.table /\ u.wait = v.wait /\ u.defunct = v.defunct
        /\ u.priority = v.priority /\ u.current = v.current
        /\ u.lock_nest = v.lock_nest /\ u.timer = v.timer
    BY <1>4, <2>1, SetStat, Zenon DEF Stats
  <2>3. \A x \in Threads : u.stat[x] = IF x = t THEN "RUNNING" ELSE k.stat[x]
    BY <1>1, <1>2, <2>2 DEF Frame, KernelStates
  <2>4. Linked(u, D) /\ Occupied(u, D)
    <3>1. \A p \in Priorities, x \in Threads :
             In(u.table[p], x) <=> u.stat[x] = "READY" /\ u.priority[x] = p /\ x \notin D
      BY <1>1, <1>2, <1>3, <2>2, <2>3 DEF Linked, Frame
    <3>2. /\ \A l \in Lists, x \in Threads :
                In(u.wait[l], x) => u.stat[x] = "SUSPEND" /\ x \notin D
          /\ \A l, m \in Lists, x \in Threads :
                In(u.wait[l], x) /\ In(u.wait[m], x) => l = m
      BY <1>1, <1>2, <2>2, <2>3 DEF Linked, Without
    <3>3. \A x \in Threads : In(u.defunct, x) => u.stat[x] = "CLOSE" /\ x \notin D
      BY <1>1, <1>3, <2>2, <2>3 DEF Linked
    <3>4. \A x \in u.timer : u.stat[x] = "SUSPEND" /\ x \notin D
      BY <1>1, <1>2, <2>2, <2>3 DEF Linked, Frame, KernelStates
    <3>5. Occupied(u, D)
      BY <1>1, <1>2, <1>6, <2>2, <2>3, KernelAssumption DEF Occupied, Frame, KernelStates
    <3>6. QED BY <3>1, <3>2, <3>3, <3>4, <3>5, Zenon DEF Linked
  <2>5. Only(u, k, t)
    BY <1>2, <1>3, <2>2, <2>3, Zenon DEF Only, Frame
  <2>6. KernelOK(u, D) /\ Only(u, k, t) /\ u.stat[t] = "RUNNING" /\ u.priority = k.priority
    BY <1>2, <2>2, <2>3, <2>4, <2>5, Zenon DEF KernelOK, Frame
  <2>7. QED BY <1>6, <2>6, Zenon DEF u, v
<1>7. CASE t # k.current
  <2>1. t # v.current
    BY <1>2, <1>7, Zenon DEF Frame
  <2>2. /\ Shape(u)
        /\ \A p \in Priorities : \A x :
              In(u.table[p], x) <=> In(v.table[p], x) \/ (x = t /\ p = v.priority[t])
        /\ u.stat = [v.stat EXCEPT ![t] = "READY"]
        /\ u.wait = v.wait /\ u.defunct = v.defunct
        /\ u.priority = v.priority /\ u.current = v.current
        /\ u.lock_nest = v.lock_nest /\ u.timer = v.timer
    <3> t \in Threads
      BY Zenon
    <3>1. QED BY <1>4, <1>5, <2>1, InsertThread
  <2> HIDE DEF u
  <2>3. \A x \in Threads : u.stat[x] = IF x = t THEN "READY" ELSE k.stat[x]
    BY <1>1, <1>2, <2>2 DEF Frame, KernelStates
  <2>4. Linked(u, D)
    <3>1. \A p \in Priorities, x \in Threads :
             In(u.table[p], x) <=> u.stat[x] = "READY" /\ u.priority[x] = p /\ x \notin D
      BY <1>1, <1>2, <1>3, <2>2, <2>3 DEF Linked, Frame
    <3>2. /\ \A l \in Lists, x \in Threads :
                In(u.wait[l], x) => u.stat[x] = "SUSPEND" /\ x \notin D
          /\ \A l, m \in Lists, x \in Threads :
                In(u.wait[l], x) /\ In(u.wait[m], x) => l = m
      BY <1>1, <1>2, <2>2, <2>3 DEF Linked, Without
    <3>3. \A x \in Threads : In(u.defunct, x) => u.stat[x] = "CLOSE" /\ x \notin D
      BY <1>1, <1>3, <2>2, <2>3 DEF Linked
    <3>4. \A x \in u.timer : u.stat[x] = "SUSPEND" /\ x \notin D
      BY <1>1, <1>2, <2>2, <2>3 DEF Linked, Frame, KernelStates
    <3>5. QED BY <3>1, <3>2, <3>3, <3>4, Zenon DEF Linked
  <2>5. Occupied(u, D)
    BY <1>1, <1>2, <1>7, <2>2, <2>3, KernelAssumption DEF Occupied, Frame, KernelStates
  <2>6. Only(u, k, t)
    BY <1>2, <1>3, <2>2, <2>3, Zenon DEF Only, Frame
  <2>7. KernelOK(u, D) /\ Only(u, k, t) /\ u.stat[t] = "READY" /\ u.priority = k.priority
    BY <1>2, <2>2, <2>3, <2>4, <2>5, <2>6, Zenon DEF KernelOK, Frame
  <2>8. QED BY <1>7, <2>7, Zenon DEF u, v
<1>8. QED BY <1>6, <1>7, Zenon

LEMMA ResumeOK ==
    ASSUME NEW k, NEW D, KernelOK(k, D), NEW t \in Threads \ D, k.stat[t] = "SUSPEND"
    PROVE  LET u == rt_thread_resume(k, t)
           IN  /\ KernelOK(u, D)
               /\ Only(u, k, t)
               /\ u.stat[t] = IF t = k.current THEN "RUNNING" ELSE "READY"
               /\ u.priority = k.priority
<1> DEFINE v == rt_timer_stop(k, t)
           w == rt_schedule_insert_thread(rt_list_remove(v, t), t)
<1>1. rt_timer_stop(rt_list_remove(k, t), t) = rt_list_remove(v, t)
  BY Zenon DEF KernelOK, Shape, KernelStates, rt_timer_stop, rt_list_remove
<1>2. rt_thread_resume(k, t) = w
  BY <1>1, Zenon DEF rt_thread_resume
<1>3. /\ KernelOK(v, D) /\ Only(v, k, t) /\ v.stat = k.stat
      /\ v.priority = k.priority /\ v.timer = k.timer \ {t}
  BY StopTimerOK, Zenon
<1> HIDE DEF v
<1>4. /\ KernelOK(w, D)
      /\ Only(w, v, t)
      /\ w.stat[t] = IF t = v.current THEN "RUNNING" ELSE "READY"
      /\ w.priority = v.priority
  BY <1>3, WakeOK, Zenon
<1> HIDE DEF w
<1>5. QED BY <1>2, <1>3, <1>4, Zenon DEF Only

\* The callback of an expired thread timer wakes its thread and reschedules.
LEMMA TimeoutOK ==
    ASSUME NEW k, NEW D, KernelOK(k, D), NEW t \in k.timer
    PROVE  LET u == rt_thread_timeout(k, t)
           IN  /\ KernelOK(u, D)
               /\ \A x \in Threads : u.stat[x] # k.stat[x] =>
                     /\ k.stat[x] \in {"READY", "RUNNING", "SUSPEND"}
                     /\ u.stat[x] \in {"READY", "RUNNING"}
               /\ u.lock_nest = k.lock_nest
               /\ \A x : In(u.defunct, x) <=> In(k.defunct, x)
               /\ k.lock_nest = 0 => Settled(u)
               /\ k.lock_nest # 0 => u.current = k.current
<1> DEFINE v == rt_timer_stop(k, t)
           e == [v EXCEPT !.error[t] = "ETIMEOUT"]
           w == rt_schedule_insert_thread(rt_list_remove(e, t), t)
           u == rt_schedule(w)
<1>1. rt_thread_timeout(k, t) = u
  BY Zenon DEF rt_thread_timeout
<1>2. t \in Threads \ D /\ k.stat[t] = "SUSPEND"
  BY Zenon DEF KernelOK, Linked, Shape, KernelStates
<1>3. KernelOK(v, D) /\ Only(v, k, t) /\ v.stat = k.stat /\ v.timer = k.timer \ {t}
  BY <1>2, StopTimerOK, Zenon
<1> HIDE DEF v
<1>4. KernelOK(e, D) /\ Only(e, v, t) /\ e.stat = v.stat /\ e.timer = v.timer
  BY <1>2, <1>3, SetErrorOK, Zenon DEF Errors
<1> HIDE DEF e
<1>5. /\ KernelOK(w, D)
      /\ Only(w, e, t)
      /\ w.stat[t] = IF t = e.current THEN "RUNNING" ELSE "READY"
  BY <1>2, <1>3, <1>4, WakeOK
<1> HIDE DEF w
<1>6. /\ KernelOK(u, D)
      /\ Rescheduled(u, w)
      /\ w.lock_nest = 0 => Settled(u)
  BY <1>5, ScheduleOK, Zenon
<1> HIDE DEF u
<1>7. /\ w.lock_nest = k.lock_nest /\ w.current = k.current
      /\ \A x \in Threads \ {t} : w.stat[x] = k.stat[x]
      /\ \A x : In(w.defunct, x) <=> In(k.defunct, x)
  BY <1>3, <1>4, <1>5, Zenon DEF Only
<1>8. \A x \in Threads : u.stat[x] # k.stat[x] =>
         /\ k.stat[x] \in {"READY", "RUNNING", "SUSPEND"}
         /\ u.stat[x] \in {"READY", "RUNNING"}
  BY <1>2, <1>5, <1>6, <1>7, Zenon DEF Rescheduled
<1>9. QED BY <1>1, <1>6, <1>7, <1>8, Zenon DEF Rescheduled

\* The current thread gives up the processor: it suspends itself or ends.
LEMMA LeaveOK ==
    ASSUME NEW k, NEW D, KernelOK(k, D), k.stat[k.current] = "RUNNING", k.current # Idle,
           NEW s \in {"SUSPEND", "CLOSE"}
    PROVE  LET t == k.current
               u == rt_timer_stop([rt_schedule_remove_thread(k, t) EXCEPT !.stat[t] = s], t)
           IN  /\ KernelOK(u, D)
               /\ Only(u, k, t)
               /\ Free(u, t)
               /\ u.stat[t] = s
               /\ t \notin u.timer
<1> DEFINE t == k.current
           v == rt_schedule_remove_thread(k, t)
           w == [v EXCEPT !.stat[t] = s]
           u == rt_timer_stop(w, t)
<1>1. Shape(k) /\ Linked(k, D) /\ Occupied(k, D) /\ k \in KernelStates /\ t \in Threads
  BY Zenon DEF KernelOK, Shape, KernelStates
<1>3. Free(k, t)
  BY <1>1, Zenon DEF Free, Linked
<1>4. Shape(v) /\ Without(v, k, t) /\ Frame(v, k)
  BY <1>1, <1>3, RemoveThread, Zenon DEF Free
<1> HIDE DEF v
<1>5. /\ Shape(w)
      /\ w.stat = [v.stat EXCEPT ![t] = s]
      /\ w.table = v.table /\ w.wait = v.wait /\ w.defunct = v.defunct
      /\ w.priority = v.priority /\ w.current = v.current
      /\ w.lock_nest = v.lock_nest /\ w.timer = v.timer
  <2>1. s \in Stats /\ Shape(v) /\ t \in Threads
    BY <1>1, <1>4, Zenon DEF Stats
  <2> HIDE DEF t
  <2>2. QED BY <2>1, SetStat
<1> HIDE DEF w
<1>6. \A x \in Threads : w.stat[x] = IF x = t THEN s ELSE k.stat[x]
  BY <1>1, <1>4, <1>5, Zenon DEF Frame, KernelStates
<1>7. Linked(w, D)
  <2>1. /\ \A p \in Priorities : \A x : In(w.table[p], x) <=> In(k.table[p], x)
        /\ \A l \in Lists : \A x : In(w.wait[l], x) <=> In(k.wait[l], x)
        /\ \A x : In(w.defunct, x) <=> In(k.defunct, x)
    BY <1>3, <1>4, <1>5, Zenon DEF Without, Free
  <2>2. t \notin k.timer
    BY <1>1, Zenon DEF Linked
  <2>3. \A p \in Priorities, x \in Threads :
           In(w.table[p], x) <=> w.stat[x] = "READY" /\ w.priority[x] = p /\ x \notin D
    BY <1>1, <1>4, <1>5, <1>6, <2>1 DEF Linked, Frame
  <2>4. /\ \A l \in Lists, x \in Threads :
              In(w.wait[l], x) => w.stat[x] = "SUSPEND" /\ x \notin D
        /\ \A l, m \in Lists, x \in Threads :
              In(w.wait[l], x) /\ In(w.wait[m], x) => l = m
    BY <1>1, <1>6, <2>1, Zenon DEF Linked
  <2>5. \A x \in Threads : In(w.defunct, x) => w.stat[x] = "CLOSE" /\ x \notin D
    BY <1>1, <1>6, <2>1, Zenon DEF Linked
  <2>6. \A x \in w.timer : w.stat[x] = "SUSPEND" /\ x \notin D
    BY <1>1, <1>4, <1>5, <1>6, <2>2 DEF Linked, Frame, KernelStates
  <2>7. QED BY <2>3, <2>4, <2>5, <2>6, Zenon DEF Linked
<1>8. Occupied(w, D)
  BY <1>1, <1>4, <1>5, <1>6, KernelAssumption, Zenon DEF Occupied, Frame
<1>9. Only(w, k, t)
  BY <1>3, <1>4, <1>5, <1>6, Zenon DEF Only, Without, Free, Frame
<1>10. /\ KernelOK(u, D) /\ Only(u, w, t) /\ u.stat = w.stat /\ u.timer = w.timer \ {t}
  BY <1>1, <1>5, <1>7, <1>8, StopTimerOK, Zenon DEF KernelOK
<1>11. u.table = w.table /\ u.wait = w.wait /\ u.defunct = w.defunct
  BY <1>5, Zenon DEF rt_timer_stop, Shape, KernelStates
<1> HIDE DEF u
<1>12. Free(u, t)
  BY <1>3, <1>4, <1>5, <1>11, Zenon DEF Free, Without
<1>13. KernelOK(u, D) /\ Only(u, k, t) /\ Free(u, t) /\ u.stat[t] = s /\ t \notin u.timer
  BY <1>1, <1>6, <1>9, <1>10, <1>12, Zenon DEF Only
<1>14. QED BY <1>13, Zenon DEF u, w, v

LEMMA SuspendOK ==
    ASSUME NEW k, NEW D, KernelOK(k, D), k.stat[k.current] = "RUNNING", k.current # Idle
    PROVE  LET t == k.current
               u == rt_thread_suspend(k, t)
           IN  /\ KernelOK(u, D)
               /\ Only(u, k, t)
               /\ Free(u, t)
               /\ u.stat[t] = "SUSPEND"
               /\ t \notin u.timer
BY LeaveOK, Zenon DEF rt_thread_suspend

\* A wait list takes the suspended thread in, at its end or by priority, and
\* the thread may set a timer.
LEMMA IpcSuspendOK ==
    ASSUME NEW k, NEW D, KernelOK(k, D), k.stat[k.current] = "RUNNING", k.current # Idle,
           NEW l \in Lists, NEW flag
    PROVE  LET t == k.current
               u == rt_ipc_list_suspend(k, l, t, flag)
           IN  /\ KernelOK(u, D)
               /\ Only(u, k, t)
               /\ u.stat[t] = "SUSPEND"
<1> DEFINE t == k.current
           v == rt_thread_suspend(k, t)
           s == v.wait[l]
           r == IF flag = "FIFO" THEN Append(s, t) ELSE InsertAt(s, PrioPosition(v, s, t), t)
           u == [v EXCEPT !.wait[l] = r]
<1>1. rt_ipc_list_suspend(k, l, t, flag) = u
  BY Zenon DEF rt_ipc_list_suspend
<1>2. /\ KernelOK(v, D)
      /\ Only(v, k, t)
      /\ Free(v, t)
      /\ v.stat[t] = "SUSPEND"
      /\ t \notin v.timer
  BY SuspendOK, Zenon
<1>3. t \in Threads /\ t \notin D
  BY Zenon DEF KernelOK, Shape, KernelStates, Occupied
<1> HIDE DEF v, t
<1>4. /\ Shape(v) /\ Linked(v, D) /\ Occupied(v, D) /\ v \in KernelStates
      /\ s \in Seq(Threads) /\ NoDuplicates(s) /\ ~In(s, t)
  BY <1>2, Zenon DEF KernelOK, Shape, KernelStates, Free
<1> HIDE DEF s
<1>5. /\ r \in Seq(Threads)
      /\ NoDuplicates(r)
      /\ \A x : In(r, x) <=> In(s, x) \/ x = t
  <2>1. PrioPosition(v, s, t) \in 1 .. Len(s) + 1
    BY <1>3, <1>4, PrioPositionInList, Zenon
  <2>2. QED BY <1>3, <1>4, <2>1, AppendList, InsertList
<1> HIDE DEF r
<1>6. /\ u \in KernelStates
      /\ u.stat = v.stat /\ u.priority = v.priority /\ u.table = v.table
      /\ u.group = v.group /\ u.current = v.current /\ u.lock_nest = v.lock_nest
      /\ u.defunct = v.defunct /\ u.timer = v.timer
      /\ u.wait = [v.wait EXCEPT ![l] = r]
  BY <1>4, <1>5, Zenon DEF KernelStates
<1> HIDE DEF u
<1>7. \A m \in Lists : u.wait[m] = IF m = l THEN r ELSE v.wait[m]
  BY <1>4, <1>6, Zenon DEF KernelStates
<1>8. Shape(u)
  BY <1>4, <1>5, <1>6, <1>7, Zenon DEF Shape
<1>9. \A m \in Lists : \A x : In(u.wait[m], x) <=> In(v.wait[m], x) \/ (m = l /\ x = t)
  BY <1>5, <1>7, Zenon DEF s
<1>10. Linked(u, D)
  <2>1. \A m \in Lists, x \in Threads :
           In(u.wait[m], x) => u.stat[x] = "SUSPEND" /\ x \notin D
    BY <1>2, <1>3, <1>4, <1>6, <1>9 DEF Linked
  <2>2. \A m, n \in Lists, x \in Threads :
           In(u.wait[m], x) /\ In(u.wait[n], x) => m = n
    BY <1>2, <1>4, <1>9 DEF Linked, Free
  <2>3. QED BY <1>4, <1>6, <2>1, <2>2 DEF Linked
<1>11. Occupied(u, D)
  BY <1>4, <1>6, Zenon DEF Occupied
<1>12. Only(u, k, t)
  BY <1>2, <1>6, Zenon DEF Only
<1>13. KernelOK(u, D) /\ Only(u, k, t) /\ u.stat[t] = "SUSPEND"
  BY <1>2, <1>6, <1>8, <1>10, <1>11, <1>12, Zenon DEF KernelOK
<1>14. QED BY <1>1, <1>13, Zenon DEF t

\* The timer of a suspended thread can be set.
LEMMA StartTimerOK ==
    ASSUME NEW k, NEW D, KernelOK(k, D), NEW t \in Threads \ D, k.stat[t] = "SUSPEND"
    PROVE  LET u == rt_timer_start(k, t)
           IN  KernelOK(u, D) /\ Only(u, k, t) /\ u.stat = k.stat
<1> DEFINE u == rt_timer_start(k, t)
<1>1. /\ u \in KernelStates
      /\ u.stat = k.stat /\ u.priority = k.priority /\ u.table = k.table
      /\ u.group = k.group /\ u.current = k.current /\ u.lock_nest = k.lock_nest
      /\ u.wait = k.wait /\ u.defunct = k.defunct /\ u.timer = k.timer \cup {t}
  BY Zenon DEF KernelOK, Shape, rt_timer_start, KernelStates
<1> HIDE DEF u
<1>2. KernelOK(u, D) /\ Only(u, k, t)
  BY <1>1 DEF KernelOK, Shape, Linked, Occupied, Only
<1>3. QED BY <1>1, <1>2, Zenon DEF u

\* A change of priority moves a READY thread to the list of its new level.
LEMMA ControlPriorityOK ==
    ASSUME NEW k, NEW D, KernelOK(k, D), NEW t \in Threads \ D, NEW p \in Priorities
    PROVE  LET u == rt_thread_control_priority(k, t, p)
           IN  /\ KernelOK(u, D)
               /\ Only(u, k, t)
               /\ u.stat[t] = k.stat[t]
<1> DEFINE u == rt_thread_control_priority(k, t, p)
<1>1. Shape(k) /\ Linked(k, D) /\ Occupied(k, D) /\ k \in KernelStates
  BY Zenon DEF KernelOK, Shape
<1>2. CASE k.stat[t] # "READY"
  <2>1. /\ u \in KernelStates
        /\ u.stat = k.stat /\ u.priority = [k.priority EXCEPT ![t] = p] /\ u.table = k.table
        /\ u.group = k.group /\ u.current = k.current /\ u.lock_nest = k.lock_nest
        /\ u.wait = k.wait /\ u.defunct = k.defunct /\ u.timer = k.timer
    BY <1>1, <1>2, Zenon DEF rt_thread_control_priority, KernelStates
  <2> HIDE DEF u
  <2>2. \A x \in Threads : u.priority[x] = IF x = t THEN p ELSE k.priority[x]
    BY <1>1, <2>1, Zenon DEF KernelStates
  <2>3. Shape(u) /\ Linked(u, D) /\ Occupied(u, D) /\ Only(u, k, t)
    BY <1>1, <1>2, <2>1, <2>2 DEF Shape, Linked, Occupied, Only
  <2>4. QED BY <2>1, <2>3, Zenon DEF KernelOK, u
<1>3. CASE k.stat[t] = "READY"
  <2> DEFINE v == rt_schedule_remove_thread(k, t)
             w == [v EXCEPT !.priority[t] = p]
  <2>1. u = rt_schedule_insert_thread(w, t)
    BY <1>3, Zenon DEF rt_thread_control_priority
  <2>2. Shape(v) /\ Without(v, k, t) /\ Frame(v, k)
    BY <1>1, RemoveThread, Zenon DEF Linked
  <2> HIDE DEF v
  <2>3. /\ Shape(w)
        /\ w.stat = v.stat /\ w.priority = [v.priority EXCEPT ![t] = p]
        /\ w.table = v.table /\ w.wait = v.wait /\ w.defunct = v.defunct
        /\ w.current = v.current /\ w.lock_nest = v.lock_nest /\ w.timer = v.timer
    BY <2>2, Zenon DEF Shape, KernelStates
  <2> HIDE DEF w
  <2>4. Free(w, t) /\ t # w.current
    BY <1>1, <1>3, <2>2, <2>3, Zenon DEF Free, Without, Frame, Occupied
  <2> HIDE DEF u
  <2>5. /\ Shape(u)
        /\ \A q \in Priorities : \A x :
              In(u.table[q], x) <=> In(w.table[q], x) \/ (x = t /\ q = w.priority[t])
        /\ u.wait = w.wait /\ u.defunct = w.defunct
        /\ u.stat = [w.stat EXCEPT ![t] = "READY"]
        /\ u.priority = w.priority /\ u.current = w.current
        /\ u.lock_nest = w.lock_nest /\ u.timer = w.timer
    <3> DEFINE i == rt_schedule_insert_thread(w, t)
    <3>0. t \in Threads /\ Shape(w)
      BY <2>3, Zenon
    <3>1. /\ Shape(i)
          /\ \A q \in Priorities : \A x :
                In(i.table[q], x) <=> In(w.table[q], x) \/ (x = t /\ q = w.priority[t])
          /\ i.wait = w.wait /\ i.defunct = w.defunct
          /\ i.stat = [w.stat EXCEPT ![t] = "READY"]
          /\ i.priority = w.priority /\ i.current = w.current
          /\ i.lock_nest = w.lock_nest /\ i.timer = w.timer
      BY <3>0, <2>4, InsertThread
    <3>2. QED BY <2>1, <3>1, Zenon
  <2>6. u.stat = k.stat /\ \A x \in Threads : u.priority[x] = IF x = t THEN p ELSE k.priority[x]
    BY <1>1, <1>3, <2>2, <2>3, <2>5 DEF Frame, KernelStates
  <2>7. /\ \A q \in Priorities : \A x :
              In(u.table[q], x) <=> (In(k.table[q], x) /\ x # t) \/ (x = t /\ q = p)
        /\ \A l \in Lists : \A x : In(u.wait[l], x) <=> In(k.wait[l], x)
        /\ \A x : In(u.defunct, x) <=> In(k.defunct, x)
    <3>1. w.priority[t] = p
      BY <2>5, <2>6, Zenon
    <3>2. (\A l \in Lists : ~In(k.wait[l], t)) /\ ~In(k.defunct, t)
      BY <1>1, <1>3, Zenon DEF Linked
    <3>3. QED BY <2>2, <2>3, <2>5, <3>1, <3>2 DEF Without
  <2>8. Linked(u, D)
    <3>1. \A q \in Priorities, x \in Threads :
             In(u.table[q], x) <=> u.stat[x] = "READY" /\ u.priority[x] = q /\ x \notin D
      BY <1>1, <1>3, <2>6, <2>7 DEF Linked
    <3>2. u.timer = k.timer
      BY <2>2, <2>3, <2>5, Zenon DEF Frame
    <3>3. QED BY <1>1, <2>6, <2>7, <3>1, <3>2 DEF Linked
  <2>9. Occupied(u, D) /\ Only(u, k, t)
    BY <1>1, <2>2, <2>3, <2>5, <2>6, <2>7 DEF Occupied, Only, Frame
  <2>10. QED BY <2>5, <2>6, <2>8, <2>9, Zenon DEF KernelOK, u
<1>4. QED BY <1>2, <1>3, Zenon

(***************************************************************************)
(* The steps of deleting a thread.                                         *)
(***************************************************************************)

\* A thread taken off its list counts as being deleted from then on.
LEMMA DeleteRemoveOK ==
    ASSUME NEW k, NEW D, KernelOK(k, D), NEW t \in Threads,
           t # k.current, t # Idle, t \notin k.timer, k.stat[t] # "CLOSE"
    PROVE  LET u == rt_schedule_remove_thread(k, t)
           IN  /\ KernelOK(u, D \cup {t})
               /\ Only(u, k, t)
               /\ u.stat = k.stat
               /\ u.priority = k.priority
               /\ u.group \subseteq k.group
<1> DEFINE u == rt_schedule_remove_thread(k, t)
<1>1. Shape(k) /\ Linked(k, D) /\ Occupied(k, D) /\ k \in KernelStates
  BY Zenon DEF KernelOK, Shape
<1>2. Shape(u) /\ Without(u, k, t) /\ Frame(u, k)
  BY <1>1, RemoveThread, Zenon DEF Linked
<1> HIDE DEF u
<1>3. ~In(k.defunct, t)
  BY <1>1, Zenon DEF Linked
<1>4. Linked(u, D \cup {t})
  <2>1. \A p \in Priorities, x \in Threads :
           In(u.table[p], x) <=> /\ u.stat[x] = "READY"
                                 /\ u.priority[x] = p
                                 /\ x \notin D \cup {t}
    BY <1>1, <1>2 DEF Linked, Without, Frame
  <2>2. QED BY <1>1, <1>2, <2>1 DEF Linked, Without, Frame
<1>5. Occupied(u, D \cup {t}) /\ Only(u, k, t)
  BY <1>1, <1>2, <1>3, Zenon DEF Occupied, Only, Frame, Without
<1>6. u.group \subseteq k.group
  <2> SUFFICES ASSUME NEW p \in u.group PROVE p \in k.group
    BY Zenon
  <2>1. p \in Priorities /\ u.table[p] # <<>> /\ u.table[p] \in Seq(Threads)
    BY <1>2, Zenon DEF Shape, KernelStates
  <2>2. PICK x \in Threads : In(u.table[p], x)
    BY <2>1, EmptyList, Zenon
  <2>3. In(k.table[p], x) /\ k.table[p] \in Seq(Threads)
    BY <1>1, <1>2, <2>1, <2>2, Zenon DEF Without, KernelStates
  <2>4. k.table[p] # <<>>
    BY <2>3, EmptyList, Zenon
  <2>5. QED BY <1>1, <2>1, <2>4, Zenon DEF Shape
<1>7. QED BY <1>2, <1>4, <1>5, <1>6, Zenon DEF KernelOK, Frame, u

\* Closing a thread that is being deleted, or forgetting a closed one.
LEMMA DeleteCloseOK ==
    ASSUME NEW k, NEW D, KernelOK(k, D), NEW t \in Threads, t \in D
    PROVE  LET u == [k EXCEPT !.stat[t] = "CLOSE"]
           IN  /\ KernelOK(u, D)
               /\ Only(u, k, t)
               /\ u.stat[t] = "CLOSE"
               /\ u.priority = k.priority
               /\ u.group = k.group
<1> DEFINE u == [k EXCEPT !.stat[t] = "CLOSE"]
<1>1. Shape(k) /\ Linked(k, D) /\ Occupied(k, D) /\ k \in KernelStates
  BY Zenon DEF KernelOK, Shape
<1>2. /\ Shape(u)
      /\ u.stat = [k.stat EXCEPT ![t] = "CLOSE"]
      /\ u.table = k.table /\ u.wait = k.wait /\ u.defunct = k.defunct
      /\ u.priority = k.priority /\ u.current = k.current
      /\ u.lock_nest = k.lock_nest /\ u.timer = k.timer
  BY <1>1, SetStat, Zenon DEF Stats
<1> HIDE DEF u
<1>3. \A x \in Threads : u.stat[x] = IF x = t THEN "CLOSE" ELSE k.stat[x]
  BY <1>1, <1>2, Zenon DEF KernelStates
<1>4. Linked(u, D)
  BY <1>1, <1>2, <1>3 DEF Linked, KernelStates
<1>5. Occupied(u, D) /\ Only(u, k, t)
  BY <1>1, <1>2, <1>3, KernelAssumption DEF Occupied, Only, KernelStates
<1>6. u.group = k.group
  BY <1>1, <1>2, Zenon DEF Shape
<1>7. QED BY <1>2, <1>3, <1>4, <1>5, <1>6, Zenon DEF KernelOK, u

LEMMA ForgetOK ==
    ASSUME NEW k, NEW D, KernelOK(k, D), NEW t \in Threads, k.stat[t] = "CLOSE"
    PROVE  KernelOK(k, D \ {t})
<1>1. Linked(k, D) /\ Occupied(k, D) /\ Shape(k)
  BY Zenon DEF KernelOK
<1>2. Linked(k, D \ {t})
  BY <1>1, Zenon DEF Linked
<1>3. Occupied(k, D \ {t})
  BY <1>1, Zenon DEF Occupied
<1>4. QED BY <1>1, <1>2, <1>3, Zenon DEF KernelOK

\* A closed thread goes onto the defunct list.
LEMMA DefunctOK ==
    ASSUME NEW k, NEW D, KernelOK(k, D), NEW t \in Threads \ D,
           k.stat[t] = "CLOSE", ~In(k.defunct, t)
    PROVE  LET u == [k EXCEPT !.defunct = <<t>> \o @]
           IN  /\ KernelOK(u, D)
               /\ u.stat = k.stat /\ u.priority = k.priority /\ u.group = k.group
               /\ u.current = k.current /\ u.lock_nest = k.lock_nest
               /\ \A x : In(u.defunct, x) <=> In(k.defunct, x) \/ x = t
<1> DEFINE u == [k EXCEPT !.defunct = <<t>> \o @]
<1>1. Shape(k) /\ Linked(k, D) /\ Occupied(k, D) /\ k \in KernelStates
  BY Zenon DEF KernelOK, Shape
<1>2. /\ u.stat = k.stat /\ u.priority = k.priority /\ u.error = k.error
      /\ u.table = k.table /\ u.group = k.group /\ u.current = k.current
      /\ u.lock_nest = k.lock_nest /\ u.wait = k.wait /\ u.timer = k.timer
      /\ u.defunct = <<t>> \o k.defunct
  BY <1>1, Zenon DEF KernelStates
<1>3. /\ u.defunct \in Seq(Threads)
      /\ NoDuplicates(u.defunct)
      /\ \A x : In(u.defunct, x) <=> In(k.defunct, x) \/ x = t
  <2>1. k.defunct \in Seq(Threads) /\ NoDuplicates(k.defunct)
    BY <1>1, Zenon DEF Shape, KernelStates
  <2>2. QED BY <1>2, <2>1, ConsList
<1>4. u \in KernelStates
  <2>1. u = [k EXCEPT !.defunct = u.defunct]
    BY <1>1, <1>2, Zenon DEF KernelStates
  <2> HIDE DEF u
  <2>2. QED BY <1>1, <1>3, <2>1, Zenon DEF KernelStates
<1> HIDE DEF u
<1>5. Shape(u) /\ Linked(u, D) /\ Occupied(u, D)
  <2>1. Shape(u)
    BY <1>1, <1>2, <1>3, <1>4, Zenon DEF Shape
  <2>2. Linked(u, D)
    BY <1>1, <1>2, <1>3 DEF Linked
  <2>3. Occupied(u, D)
    BY <1>1, <1>2, Zenon DEF Occupied
  <2>4. QED BY <2>1, <2>2, <2>3, Zenon
<1>6. QED BY <1>2, <1>3, <1>5, Zenon DEF KernelOK, u

\* The idle thread takes a thread off the defunct list.
LEMMA ReapOK ==
    ASSUME NEW k, NEW D, KernelOK(k, D), NEW t \in Threads, In(k.defunct, t)
    PROVE  LET u == rt_list_remove(k, t)
           IN  /\ KernelOK(u, D)
               /\ Frame(u, k)
               /\ \A x : In(u.defunct, x) <=> In(k.defunct, x) /\ x # t
<1> DEFINE u == rt_list_remove(k, t)
<1>1. Shape(k) /\ Linked(k, D) /\ Occupied(k, D) /\ k \in KernelStates
  BY Zenon DEF KernelOK, Shape
<1>2. /\ u \in KernelStates
      /\ \A p \in Priorities : NoDuplicates(u.table[p])
      /\ \A l \in Lists : NoDuplicates(u.wait[l])
      /\ NoDuplicates(u.defunct)
      /\ Without(u, k, t)
      /\ Frame(u, k)
      /\ u.group = k.group
  BY <1>1, ListRemove, Zenon
<1> HIDE DEF u
<1>3. /\ \A p \in Priorities : \A x : In(u.table[p], x) <=> In(k.table[p], x)
      /\ \A l \in Lists : \A x : In(u.wait[l], x) <=> In(k.wait[l], x)
  BY <1>1, <1>2 DEF Linked, Without
<1>4. Shape(u)
  <2>1. \A p \in Priorities : u.table[p] = <<>> <=> k.table[p] = <<>>
    <3> SUFFICES ASSUME NEW p \in Priorities
                 PROVE  u.table[p] = <<>> <=> k.table[p] = <<>>
      BY Zenon
    <3>1. \A x \in Threads : In(u.table[p], x) <=> In(k.table[p], x)
      BY <1>3, Zenon
    <3>2. u.table[p] \in Seq(Threads) /\ k.table[p] \in Seq(Threads)
      BY <1>1, <1>2, Zenon DEF KernelStates
    <3>3. QED BY <3>1, <3>2, EmptyList, Zenon
  <2>2. QED BY <1>1, <1>2, <2>1, Zenon DEF Shape
<1>5. Linked(u, D)
  <2>1. \A x \in Threads : In(u.defunct, x) => u.stat[x] = "CLOSE" /\ x \notin D
    BY <1>1, <1>2, Zenon DEF Linked, Without, Frame
  <2>2. u.stat = k.stat /\ u.priority = k.priority /\ u.timer = k.timer
    BY <1>2, Zenon DEF Frame
  <2>3. QED BY <1>1, <1>3, <2>1, <2>2 DEF Linked
<1>6. Occupied(u, D)
  BY <1>1, <1>2, Zenon DEF Occupied, Frame
<1>7. QED BY <1>2, <1>4, <1>5, <1>6, Zenon DEF KernelOK, Without, u

(***************************************************************************)
(* What the operators do to the three fields that an IPC object looks at:  *)
(* the wait lists, the errors and the priorities.                          *)
(***************************************************************************)

\* A step that takes a thread off the wait lists without changing who is on
\* them leaves them alone.
LEMMA SameWaits ==
    ASSUME NEW s, NEW D, KernelOK(s, D), NEW x, NEW w,
           w \in {s.wait, [l \in Lists |-> Unlink(s.wait[l], x)]},
           \A l \in Lists : \A y : In(w[l], y) <=> In(s.wait[l], y)
    PROVE  w = s.wait
<1>1. s.wait \in [Lists -> Seq(Threads)] /\ \A l \in Lists : NoDuplicates(s.wait[l])
  BY Zenon DEF KernelOK, Shape, KernelStates
<1>2. CASE w = [l \in Lists |-> Unlink(s.wait[l], x)]
  <2>1. ASSUME NEW l \in Lists PROVE Unlink(s.wait[l], x) = s.wait[l]
    <3>1. s.wait[l] \in Seq(Threads) /\ NoDuplicates(s.wait[l]) /\ w[l] = Unlink(s.wait[l], x)
      BY <1>1, <1>2, Zenon
    <3>2. ~In(w[l], x)
      BY <3>1, UnlinkList
    <3>3. ~In(s.wait[l], x)
      BY <3>2, Zenon
    <3>4. QED BY <3>3, Zenon DEF Unlink
  <2>2. QED BY <1>1, <1>2, <2>1, Zenon
<1>3. QED BY <1>2, Zenon

LEMMA InsertTypes ==
    ASSUME NEW s \in KernelStates, NEW t \in Threads
    PROVE  LET u == rt_schedule_insert_thread(s, t)
           IN  u \in KernelStates /\ u.wait = s.wait
<1> DEFINE u == rt_schedule_insert_thread(s, t)
<1>1. CASE t = s.current
  BY <1>1, Zenon DEF rt_schedule_insert_thread, KernelStates, Stats
<1>2. CASE t # s.current
  <2> DEFINE p == s.priority[t]
  <2>1. p \in Priorities /\ Append(s.table[p], t) \in Seq(Threads)
    BY AppendProperties DEF KernelStates
  <2> DEFINE a == Append(s.table[p], t)
  <2>2. u = [s EXCEPT !.stat[t] = "READY", !.table[p] = a, !.group = @ \cup {p}]
    BY <1>2, Zenon DEF rt_schedule_insert_thread, KernelStates
  <2>3. p \in Priorities /\ a \in Seq(Threads)
    BY <2>1, Zenon
  <2> HIDE DEF u, p, a
  <2>4. u \in KernelStates /\ u.wait = s.wait
    BY <2>2, <2>3, Zenon DEF KernelStates, Stats
  <2>5. QED BY <2>4, Zenon DEF u
<1>3. QED BY <1>1, <1>2, Zenon

LEMMA ScheduleEffect ==
    ASSUME NEW s, NEW D, KernelOK(s, D)
    PROVE  rt_schedule(s).wait = s.wait
<1> DEFINE u == rt_schedule(s)
<1>1. Rescheduled(u, s)
  BY ScheduleOK, Zenon
<1>2. \E x : u.wait \in {s.wait, [l \in Lists |-> Unlink(s.wait[l], x)]}
  <2>1. s \in KernelStates
    BY Zenon DEF KernelOK, Shape
  <2>2. CASE u = s
    BY <2>2, Zenon
  <2>3. CASE u # s
    <3> DEFINE cur == s.current
               to == _get_highest_priority_thread(s)
               left == [s EXCEPT !.current = to]
               queued == IF s.stat[cur] = "RUNNING" THEN rt_schedule_insert_thread(left, cur)
                         ELSE left
    <3>1. \/ u = [rt_schedule_remove_thread(s, cur) EXCEPT !.stat[cur] = "RUNNING"]
          \/ u = [rt_schedule_remove_thread(queued, to) EXCEPT !.stat[to] = "RUNNING"]
      BY <2>3, Zenon DEF rt_schedule, Switch
    <3>2. CASE u = [rt_schedule_remove_thread(s, cur) EXCEPT !.stat[cur] = "RUNNING"]
      <4>1. u.wait = [l \in Lists |-> Unlink(s.wait[l], cur)]
        BY <2>1, <3>2, Zenon DEF rt_schedule_remove_thread, rt_list_remove, KernelStates
      <4>2. QED BY <4>1, Zenon
    <3>3. CASE u = [rt_schedule_remove_thread(queued, to) EXCEPT !.stat[to] = "RUNNING"]
      <4>1. to \in Threads
        BY <2>3, HighestReadyThread, Zenon DEF rt_schedule, KernelOK
      <4> HIDE DEF to
      <4>2. queued.wait = s.wait /\ queued \in KernelStates
        <5>1. left.wait = s.wait /\ left \in KernelStates /\ cur \in Threads
          BY <2>1, <4>1, Zenon DEF KernelStates
        <5> HIDE DEF left, cur
        <5>2. QED BY <2>1, <5>1, InsertTypes, Zenon
      <4> HIDE DEF queued
      <4>3. u.wait = [l \in Lists |-> Unlink(queued.wait[l], to)]
        BY <3>3, <4>2, Zenon DEF rt_schedule_remove_thread, rt_list_remove, KernelStates
      <4>4. QED BY <4>2, <4>3, Zenon
    <3>4. QED BY <3>1, <3>2, <3>3, Zenon
  <2>4. QED BY <2>2, <2>3, Zenon
<1>3. QED BY <1>1, <1>2, SameWaits, Zenon DEF Rescheduled

LEMMA SuspendEffect ==
    ASSUME NEW s, NEW D, KernelOK(s, D), s.stat[s.current] = "RUNNING", s.current # Idle
    PROVE  LET t == s.current
               u == rt_thread_suspend(s, t)
           IN  /\ u.wait = s.wait
               /\ u.error = s.error
               /\ u.priority = s.priority
<1> DEFINE t == s.current
           u == rt_thread_suspend(s, t)
<1>1. s \in KernelStates /\ Linked(s, D)
  BY Zenon DEF KernelOK, Shape
<1>2. /\ u.wait = [l \in Lists |-> Unlink(s.wait[l], t)]
      /\ u.error = s.error
      /\ u.priority = s.priority
  BY <1>1, Zenon DEF rt_thread_suspend, rt_timer_stop, rt_schedule_remove_thread, rt_list_remove,
              KernelStates
<1>3. \A l \in Lists : ~In(s.wait[l], t)
  BY <1>1, Zenon DEF Linked, KernelStates
<1>4. u.wait = s.wait
  BY <1>1, <1>2, <1>3, Zenon DEF Unlink, KernelStates
<1>5. QED BY <1>2, <1>4, Zenon

LEMMA IpcSuspendEffect ==
    ASSUME NEW s, NEW D, KernelOK(s, D), s.stat[s.current] = "RUNNING", s.current # Idle,
           NEW l \in Lists, NEW flag
    PROVE  LET t == s.current
               u == rt_ipc_list_suspend(s, l, t, flag)
               q == s.wait[l]
           IN  /\ u.wait = [s.wait EXCEPT ![l] = IF flag = "FIFO" THEN Append(q, t)
                                                 ELSE InsertAt(q, PrioPosition(s, q, t), t)]
               /\ u.error = s.error
               /\ u.priority = s.priority
<1> DEFINE t == s.current
           v == rt_thread_suspend(s, t)
           q == s.wait[l]
<1>1. v.wait = s.wait /\ v.error = s.error /\ v.priority = s.priority
  BY SuspendEffect, Zenon
<1>2. v \in KernelStates
  BY SuspendOK, Zenon DEF KernelOK, Shape
<1>3. PrioPosition(v, q, t) = PrioPosition(s, q, t)
  BY <1>1 DEF PrioPosition
<1> HIDE DEF v
<1> DEFINE r == IF flag = "FIFO" THEN Append(q, t) ELSE InsertAt(q, PrioPosition(s, q, t), t)
           u == rt_ipc_list_suspend(s, l, t, flag)
<1>4. u = [v EXCEPT !.wait[l] = r]
  BY <1>1, <1>3, Zenon DEF rt_ipc_list_suspend, v
<1> HIDE DEF r, u
<1>5. u.wait = [v.wait EXCEPT ![l] = r] /\ u.error = v.error /\ u.priority = v.priority
  BY <1>2, <1>4, Zenon DEF KernelStates
<1>6. QED BY <1>1, <1>5, Zenon DEF r, u

\* A thread woken by rt_thread_resume() leaves the list it waits on.
LEMMA ResumeEffect ==
    ASSUME NEW s, NEW D, KernelOK(s, D), NEW t \in Threads, s.stat[t] = "SUSPEND"
    PROVE  LET u == rt_thread_resume(s, t)
           IN  /\ u.wait = [l \in Lists |-> Unlink(s.wait[l], t)]
               /\ u.error = s.error
               /\ u.priority = s.priority
BY Zenon DEF KernelOK, Shape, KernelStates, rt_thread_resume, rt_timer_stop, rt_list_remove,
       rt_schedule_insert_thread

\* So does a thread whose timer expires, with the error RT_ETIMEOUT.
LEMMA TimeoutEffect ==
    ASSUME NEW s, NEW D, KernelOK(s, D), NEW t \in s.timer
    PROVE  LET u == rt_thread_timeout(s, t)
           IN  /\ u.wait = [l \in Lists |-> Unlink(s.wait[l], t)]
               /\ u.error = [s.error EXCEPT ![t] = "ETIMEOUT"]
               /\ u.priority = s.priority
               /\ u.stat[t] \in {"READY", "RUNNING"}
<1> DEFINE v == rt_timer_stop(s, t)
           e == [v EXCEPT !.error[t] = "ETIMEOUT"]
           w == rt_schedule_insert_thread(rt_list_remove(e, t), t)
           u == rt_schedule(w)
<1>1. rt_thread_timeout(s, t) = u
  BY Zenon DEF rt_thread_timeout
<1>2. t \in Threads \ D /\ s.stat[t] = "SUSPEND" /\ s \in KernelStates
  BY Zenon DEF KernelOK, Linked, Shape, KernelStates
<1>3. /\ w.wait = [l \in Lists |-> Unlink(s.wait[l], t)]
      /\ w.error = [s.error EXCEPT ![t] = "ETIMEOUT"]
      /\ w.priority = s.priority
  BY <1>2, Zenon DEF KernelStates, rt_timer_stop, rt_list_remove, rt_schedule_insert_thread
<1>4. KernelOK(v, D) /\ v.stat = s.stat /\ v.timer = s.timer \ {t}
  BY <1>2, StopTimerOK, Zenon
<1> HIDE DEF v
<1>5. KernelOK(e, D) /\ e.stat = v.stat /\ e.timer = v.timer
  BY <1>2, <1>4, SetErrorOK, Zenon DEF Errors
<1> HIDE DEF e
<1>6. KernelOK(w, D) /\ w.stat[t] \in {"READY", "RUNNING"}
  BY <1>2, <1>4, <1>5, WakeOK
<1> HIDE DEF w
<1>7. u.wait = w.wait /\ Rescheduled(u, w)
  BY <1>6, ScheduleEffect, ScheduleOK, Zenon
<1>8. u.stat[t] \in {"READY", "RUNNING"}
  BY <1>2, <1>6, <1>7, Zenon DEF Rescheduled
<1>9. QED BY <1>1, <1>3, <1>7, <1>8, Zenon DEF Rescheduled

\* A new priority is all that rt_thread_control() changes for a mutex.
LEMMA ControlPriorityEffect ==
    ASSUME NEW s, NEW D, KernelOK(s, D), NEW t \in Threads, NEW p \in Priorities
    PROVE  LET u == rt_thread_control_priority(s, t, p)
           IN  /\ u.wait = s.wait
               /\ u.error = s.error
               /\ u.priority = [s.priority EXCEPT ![t] = p]
<1> DEFINE u == rt_thread_control_priority(s, t, p)
<1>1. s \in KernelStates /\ Linked(s, D)
  BY Zenon DEF KernelOK, Shape
<1>2. CASE s.stat[t] # "READY"
  BY <1>1, <1>2, Zenon DEF rt_thread_control_priority, KernelStates
<1>3. CASE s.stat[t] = "READY"
  <2>1. /\ u.wait = [l \in Lists |-> Unlink(s.wait[l], t)]
        /\ u.error = s.error
        /\ u.priority = [s.priority EXCEPT ![t] = p]
    BY <1>1, <1>3, Zenon DEF rt_thread_control_priority, rt_schedule_remove_thread, rt_list_remove,
                      rt_schedule_insert_thread, KernelStates
  <2>2. \A l \in Lists : ~In(s.wait[l], t)
    BY <1>1, <1>3, Zenon DEF Linked
  <2>3. u.wait = s.wait
    BY <1>1, <2>1, <2>2, Zenon DEF Unlink, KernelStates
  <2>4. QED BY <2>1, <2>3, Zenon
<1>4. QED BY <1>2, <1>3, Zenon

(***************************************************************************)
(* The same for what the users of an object do, in terms of who waits.     *)
(***************************************************************************)

\* The system in its initial state: nobody waits for an object.
LEMMA AsleepOK ==
    ASSUME NEW f \in [Threads -> Priorities]
    PROVE  LET s == Asleep(f)
           IN  /\ KernelOK(s, {})
               /\ s.current = Idle /\ s.lock_nest = 0 /\ s.priority = f
               /\ s.stat = [t \in Threads |-> IF t = Idle THEN "RUNNING" ELSE "SUSPEND"]
               /\ s.error = [t \in Threads |-> "EOK"]
               /\ s.timer = Workers
               /\ \A l \in Lists : s.wait[l] = <<>> /\ On(s, l) = {}
<1> DEFINE s == Asleep(f)
<1>1. /\ s \in KernelStates
      /\ s.stat = [t \in Threads |-> IF t = Idle THEN "RUNNING" ELSE "SUSPEND"]
      /\ s.error = [t \in Threads |-> "EOK"] /\ s.priority = f
      /\ s.table = [p \in Priorities |-> <<>>]
      /\ s.wait = [l \in Lists |-> <<>>]
      /\ s.group = {} /\ s.defunct = <<>> /\ s.timer = Workers
      /\ s.current = Idle /\ s.lock_nest = 0
  BY KernelAssumption DEF Asleep, KernelStates, Stats, Errors, Workers
<1>2. \A x : ~In(<<>>, x)
  BY DEF In
<1> HIDE DEF s
<1>3. KernelOK(s, {})
  BY <1>1, <1>2, KernelAssumption DEF KernelOK, Shape, Linked, Occupied, NoDuplicates, Workers
<1>4. \A l \in Lists : s.wait[l] = <<>> /\ On(s, l) = {}
  BY <1>1, <1>2 DEF On
<1>5. QED BY <1>1, <1>3, <1>4, Zenon DEF s

\* A thread is taken off whichever list it is on.
LEMMA OnUnlink ==
    ASSUME NEW s, NEW D, KernelOK(s, D), NEW t, NEW u,
           u.wait = [l \in Lists |-> Unlink(s.wait[l], t)]
    PROVE  \A l \in Lists : On(u, l) = On(s, l) \ {t}
<1> SUFFICES ASSUME NEW l \in Lists, NEW x \in Threads
             PROVE  In(u.wait[l], x) <=> In(s.wait[l], x) /\ x # t
  BY Zenon DEF On
<1>1. s.wait[l] \in Seq(Threads) /\ NoDuplicates(s.wait[l]) /\ u.wait[l] = Unlink(s.wait[l], t)
  BY Zenon DEF KernelOK, Shape, KernelStates
<1>2. QED BY <1>1, UnlinkList

\* A list on which nobody is waiting is empty.
LEMMA NobodyOn ==
    ASSUME NEW s, NEW D, KernelOK(s, D), NEW l \in Lists
    PROVE  s.wait[l] = <<>> <=> On(s, l) = {}
<1>1. s.wait[l] \in Seq(Threads)
  BY Zenon DEF KernelOK, Shape, KernelStates
<1>2. QED BY <1>1, EmptyList, Zenon DEF On

\* A list on which only t can be waiting is empty or holds t.
LEMMA OneOnList ==
    ASSUME NEW s, KernelOK(s, {}), NEW l \in Lists, NEW t, On(s, l) \subseteq {t}
    PROVE  IF t \in On(s, l) THEN Len(s.wait[l]) = 1 /\ s.wait[l][1] = t /\ Head(s.wait[l]) = t
           ELSE s.wait[l] = <<>> /\ Len(s.wait[l]) = 0
<1>1. s.wait[l] \in Seq(Threads) /\ NoDuplicates(s.wait[l])
  BY Zenon DEF KernelOK, Shape, KernelStates
<1>2. \A i \in 1 .. Len(s.wait[l]) : s.wait[l][i] \in On(s, l)
  BY <1>1 DEF On, In
<1>3. \A i \in 1 .. Len(s.wait[l]) : i = 1
  <2>1. SUFFICES ASSUME NEW i \in 1 .. Len(s.wait[l]) PROVE i = 1
    BY Zenon
  <2>2. 1 \in 1 .. Len(s.wait[l]) /\ s.wait[l][1] = s.wait[l][i]
    BY <1>1, <1>2
  <2>3. QED BY <1>1, <2>2, Zenon DEF NoDuplicates
<1>4. Len(s.wait[l]) \in {0, 1}
  <2>1. Len(s.wait[l]) \in Nat
    BY <1>1
  <2>2. Len(s.wait[l]) # 0 => Len(s.wait[l]) \in 1 .. Len(s.wait[l])
    BY <2>1
  <2>3. QED BY <1>3, <2>2, Zenon
<1>5. CASE t \in On(s, l)
  <2>1. In(s.wait[l], t)
    BY <1>5, Zenon DEF On
  <2>2. Len(s.wait[l]) = 1 /\ s.wait[l][1] = t
    BY <1>3, <1>4, <2>1 DEF In
  <2>3. QED BY <1>1, <1>5, <2>2
<1>6. CASE t \notin On(s, l)
  <2>1. On(s, l) = {}
    BY <1>6, Zenon
  <2>2. QED BY <1>1, <1>6, <2>1, NobodyOn
<1>7. QED BY <1>5, <1>6, Zenon

\* rt_thread_delay() up to its rt_schedule().
LEMMA SleepEffect ==
    ASSUME NEW s, NEW D, KernelOK(s, D), s.stat[s.current] = "RUNNING", s.current # Idle
    PROVE  LET t == s.current
               u == rt_thread_sleep(s, t)
           IN  /\ KernelOK(u, D)
               /\ u.current = t /\ u.lock_nest = s.lock_nest
               /\ u.stat[t] = "SUSPEND"
               /\ \A x \in Threads \ {t} : u.stat[x] = s.stat[x]
               /\ u.error = s.error /\ u.priority = s.priority
               /\ u.timer = s.timer \cup {t}
               /\ \A l \in Lists : On(u, l) = On(s, l)
<1> DEFINE t == s.current
           v == rt_thread_suspend(s, t)
           u == rt_timer_start(v, t)
<1>1. s \in KernelStates /\ t \in Threads /\ t \notin D
  BY Zenon DEF KernelOK, Shape, KernelStates, Occupied
<1>2. KernelOK(v, D) /\ Only(v, s, t) /\ v.stat[t] = "SUSPEND"
  BY SuspendOK, Zenon
<1>3. v.wait = s.wait /\ v.error = s.error /\ v.priority = s.priority
  BY SuspendEffect, Zenon
<1>4. v.timer = s.timer \ {t}
  BY <1>1, Zenon DEF rt_thread_suspend, rt_timer_stop, rt_schedule_remove_thread, rt_list_remove,
              KernelStates
<1> HIDE DEF v
<1>5. KernelOK(u, D) /\ Only(u, v, t) /\ u.stat = v.stat
  BY <1>1, <1>2, StartTimerOK, Zenon
<1>6. /\ u.wait = v.wait /\ u.error = v.error /\ u.priority = v.priority
      /\ u.timer = v.timer \cup {t}
  BY <1>2, Zenon DEF rt_timer_start, KernelOK, Shape, KernelStates
<1>7. rt_thread_sleep(s, t) = u
  BY Zenon DEF rt_thread_sleep, v
<1> HIDE DEF u
<1>8. \A l \in Lists : On(u, l) = On(s, l)
  BY <1>3, <1>6, Zenon DEF On
<1>9. QED BY <1>2, <1>3, <1>4, <1>5, <1>6, <1>7, <1>8, Zenon DEF Only

\* The current thread joins a list of waiters: rt_sem_take(), rt_event_recv() and
\* their like up to rt_schedule(), with a timeout or without.
Waiting(s, l, f, timed) ==
    LET t == s.current
        w == rt_ipc_list_suspend([s EXCEPT !.error[t] = "EOK"], l, t, f)
    IN  IF timed THEN rt_timer_start(w, t) ELSE w

Joined(u, s, l, timed) ==
    LET t == s.current
    IN  /\ u.current = t /\ u.lock_nest = s.lock_nest
        /\ u.stat[t] = "SUSPEND"
        /\ \A x \in Threads \ {t} : u.stat[x] = s.stat[x]
        /\ u.error = [s.error EXCEPT ![t] = "EOK"] /\ u.priority = s.priority
        /\ u.timer = IF timed THEN s.timer \cup {t} ELSE s.timer \ {t}
        /\ \A m \in Lists : On(u, m) = IF m = l THEN On(s, l) \cup {t} ELSE On(s, m)

LEMMA WaitEffect ==
    ASSUME NEW s, NEW D, KernelOK(s, D), s.stat[s.current] = "RUNNING", s.current # Idle,
           NEW l \in Lists, NEW f, NEW timed
    PROVE  LET u == Waiting(s, l, f, timed)
           IN  KernelOK(u, D) /\ Joined(u, s, l, timed)
<1> DEFINE t == s.current
           c == [s EXCEPT !.error[t] = "EOK"]
           w == rt_ipc_list_suspend(c, l, t, f)
           u == IF timed THEN rt_timer_start(w, t) ELSE w
<1>1. s \in KernelStates /\ t \in Threads /\ t \notin D
  BY Zenon DEF KernelOK, Shape, KernelStates, Occupied
<1>2. KernelOK(c, D) /\ Only(c, s, t) /\ c.stat = s.stat /\ c.priority = s.priority
      /\ c.timer = s.timer
  BY <1>1, SetErrorOK, Zenon DEF Errors
<1>3. c.wait = s.wait /\ c.error = [s.error EXCEPT ![t] = "EOK"] /\ c.current = t
  BY <1>1, Zenon DEF KernelStates
<1>4. c.stat[c.current] = "RUNNING" /\ c.current # Idle
  BY <1>2, <1>3, Zenon
<1> HIDE DEF c
<1> DEFINE v == rt_ipc_list_suspend(c, l, c.current, f)
<1>5. w = v
  BY <1>3, Zenon
<1>6. KernelOK(v, D) /\ Only(v, c, c.current) /\ v.stat[c.current] = "SUSPEND"
  BY <1>2, <1>4, IpcSuspendOK, Zenon
<1>7. /\ v.wait = [c.wait EXCEPT ![l] =
                      IF f = "FIFO" THEN Append(c.wait[l], c.current)
                      ELSE InsertAt(c.wait[l], PrioPosition(c, c.wait[l], c.current), c.current)]
      /\ v.error = c.error /\ v.priority = c.priority
  <2>1. KernelOK(c, D) /\ c.stat[c.current] = "RUNNING" /\ c.current # Idle /\ l \in Lists
    BY <1>2, <1>4, Zenon
  <2>2. v.error = c.error
    BY <2>1, IpcSuspendEffect, Zenon
  <2>3. v.priority = c.priority
    BY <2>1, IpcSuspendEffect, Zenon
  <2>4. v.wait = [c.wait EXCEPT ![l] =
                     IF f = "FIFO" THEN Append(c.wait[l], c.current)
                     ELSE InsertAt(c.wait[l], PrioPosition(c, c.wait[l], c.current), c.current)]
    BY <2>1, IpcSuspendEffect, Zenon
  <2>5. QED BY <2>2, <2>3, <2>4, Zenon
<1>8. v.timer = s.timer \ {t}
  <2>1. c \in KernelStates
    BY <1>2, Zenon DEF KernelOK, Shape
  <2> DEFINE a == rt_thread_suspend(c, c.current)
  <2>2. a.timer = c.timer \ {c.current}
    BY <1>4, <2>1, Zenon DEF rt_thread_suspend, rt_timer_stop, rt_schedule_remove_thread, rt_list_remove,
                      KernelStates
  <2>3. a \in KernelStates
    BY <1>2, <1>4, SuspendOK, Zenon DEF KernelOK, Shape
  <2> HIDE DEF a
  <2>4. v.timer = a.timer
    BY <2>3, Zenon DEF rt_ipc_list_suspend, KernelStates, a
  <2>5. QED BY <1>2, <1>3, <2>2, <2>4, Zenon
<1>9. \A m \in Lists : On(v, m) = IF m = l THEN On(s, l) \cup {t} ELSE On(s, m)
  <2> DEFINE q == c.wait[l]
             r == IF f = "FIFO" THEN Append(q, t) ELSE InsertAt(q, PrioPosition(c, q, t), t)
  <2>1. q \in Seq(Threads) /\ c \in KernelStates /\ c.wait \in [Lists -> Seq(Threads)]
    BY <1>2, Zenon DEF KernelOK, Shape, KernelStates
  <2>2. PrioPosition(c, q, t) \in 1 .. Len(q) + 1
    BY <1>1, <2>1, PrioPositionInList, Zenon
  <2>3. \A x : In(r, x) <=> In(q, x) \/ x = t
    BY <1>1, <2>1, <2>2, AppendList, InsertList
  <2>4. v.wait = [c.wait EXCEPT ![l] = r]
    BY <1>3, <1>7, Zenon
  <2> HIDE DEF r, q, v
  <2>5. \A m \in Lists : v.wait[m] = IF m = l THEN r ELSE c.wait[m]
    BY <2>1, <2>4, Zenon
  <2>6. QED BY <1>1, <1>3, <2>3, <2>5, Zenon DEF On, q
<1> HIDE DEF v, w
<1>10. /\ KernelOK(u, D) /\ u.stat = v.stat /\ u.current = v.current
       /\ u.lock_nest = v.lock_nest /\ u.wait = v.wait /\ u.error = v.error
       /\ u.priority = v.priority
       /\ u.timer = IF timed THEN v.timer \cup {t} ELSE v.timer
  <2>1. CASE timed
    <3>1. u = rt_timer_start(v, t)
      BY <1>5, <2>1, Zenon
    <3>2. KernelOK(u, D) /\ Only(u, v, t) /\ u.stat = v.stat
      BY <1>1, <1>3, <1>6, <3>1, StartTimerOK
    <3>3. /\ u.wait = v.wait /\ u.error = v.error /\ u.priority = v.priority
          /\ u.timer = v.timer \cup {t}
      BY <1>6, <3>1, Zenon DEF rt_timer_start, KernelOK, Shape, KernelStates
    <3>4. QED BY <2>1, <3>2, <3>3, Zenon DEF Only
  <2>2. CASE ~timed
    BY <1>5, <1>6, <2>2, Zenon
  <2>3. QED BY <2>1, <2>2, Zenon
<1> HIDE DEF u
<1>11. \A m \in Lists : On(u, m) = On(v, m)
  BY <1>10, Zenon DEF On
<1>12. u.timer = IF timed THEN s.timer \cup {t} ELSE s.timer \ {t}
  BY <1>8, <1>10, Zenon
<1>13. /\ u.current = t /\ u.lock_nest = s.lock_nest
       /\ u.stat[t] = "SUSPEND" /\ \A x \in Threads \ {t} : u.stat[x] = s.stat[x]
       /\ u.error = [s.error EXCEPT ![t] = "EOK"] /\ u.priority = s.priority
  BY <1>2, <1>3, <1>6, <1>7, <1>10 DEF Only
<1>14. u = Waiting(s, l, f, timed)
  BY Zenon DEF u, w, c, Waiting
<1>15. QED BY <1>9, <1>10, <1>11, <1>12, <1>13, <1>14, Zenon DEF Joined

\* rt_ipc_list_resume(): the first waiter of a list becomes ready.
LEMMA ResumeHeadEffect ==
    ASSUME NEW s, KernelOK(s, {}), NEW l \in Lists, s.wait[l] # <<>>
    PROVE  LET h == Head(s.wait[l])
               u == rt_ipc_list_resume(s, l)
           IN  /\ KernelOK(u, {})
               /\ h \in On(s, l) /\ h \in Threads /\ s.stat[h] = "SUSPEND"
               /\ u.current = s.current /\ u.lock_nest = s.lock_nest
               /\ u.stat[h] = IF h = s.current THEN "RUNNING" ELSE "READY"
               /\ \A x \in Threads \ {h} : u.stat[x] = s.stat[x]
               /\ u.error = s.error /\ u.priority = s.priority /\ u.timer = s.timer \ {h}
               /\ \A m \in Lists : On(u, m) = On(s, m) \ {h}
<1> DEFINE h == Head(s.wait[l])
           u == rt_thread_resume(s, h)
<1>1. s \in KernelStates /\ s.wait[l] \in Seq(Threads)
  BY Zenon DEF KernelOK, Shape, KernelStates
<1>2. h \in Threads /\ In(s.wait[l], h)
  BY <1>1, HeadList, Zenon
<1> HIDE DEF h
<1>3. s.stat[h] = "SUSPEND" /\ h \in On(s, l)
  BY <1>2, Zenon DEF KernelOK, Linked, On
<1>4. /\ KernelOK(u, {}) /\ Only(u, s, h)
      /\ u.stat[h] = IF h = s.current THEN "RUNNING" ELSE "READY"
  BY <1>2, <1>3, ResumeOK
<1>5. /\ u.wait = [i \in Lists |-> Unlink(s.wait[i], h)]
      /\ u.error = s.error /\ u.priority = s.priority
  BY <1>2, <1>3, ResumeEffect, Zenon
<1>6. u.timer = s.timer \ {h}
  BY <1>1, <1>3, Zenon DEF rt_thread_resume, rt_timer_stop, rt_list_remove, rt_schedule_insert_thread,
                    KernelStates
<1>7. rt_ipc_list_resume(s, l) = u
  BY Zenon DEF rt_ipc_list_resume, h
<1> HIDE DEF u
<1>8. \A m \in Lists : On(u, m) = On(s, m) \ {h}
  <2>1. KernelOK(s, {}) /\ u.wait = [i \in Lists |-> Unlink(s.wait[i], h)]
    BY <1>5, Zenon
  <2>2. QED BY <2>1, OnUnlink
<1>9. QED BY <1>2, <1>3, <1>4, <1>5, <1>6, <1>7, <1>8, Zenon DEF Only, h

\* One round of the loop of rt_ipc_list_resume_all(): the first waiter of a list
\* becomes ready and gets the error RT_ERROR.
LEMMA ResumeFirstEffect ==
    ASSUME NEW s, KernelOK(s, {}), NEW l \in Lists, s.wait[l] # <<>>
    PROVE  LET h == Head(s.wait[l])
               u == ResumeFirst(s, l)
           IN  /\ KernelOK(u, {})
               /\ h \in On(s, l) /\ h \in Threads /\ s.stat[h] = "SUSPEND"
               /\ u.current = s.current /\ u.lock_nest = s.lock_nest
               /\ u.stat[h] = IF h = s.current THEN "RUNNING" ELSE "READY"
               /\ \A x \in Threads \ {h} : u.stat[x] = s.stat[x]
               /\ u.error = [s.error EXCEPT ![h] = "ERROR"] /\ u.priority = s.priority
               /\ u.timer = s.timer \ {h}
               /\ \A m \in Lists : On(u, m) = On(s, m) \ {h}
<1> DEFINE h == Head(s.wait[l])
           v == [s EXCEPT !.error[h] = "ERROR"]
           u == rt_ipc_list_resume(v, l)
<1>1. s \in KernelStates /\ s.wait[l] \in Seq(Threads)
  BY Zenon DEF KernelOK, Shape, KernelStates
<1>2. h \in Threads
  BY <1>1, HeadList, Zenon
<1> HIDE DEF h
<1>3. v.wait = s.wait /\ v.error = [s.error EXCEPT ![h] = "ERROR"]
  BY <1>1, <1>2, Zenon DEF KernelStates
<1>4. /\ KernelOK(v, {}) /\ Only(v, s, h) /\ v.stat = s.stat
      /\ v.priority = s.priority /\ v.timer = s.timer
  BY <1>2, SetErrorOK, Zenon DEF Errors
<1>5. ResumeFirst(s, l) = u
  BY Zenon DEF ResumeFirst, h
<1> HIDE DEF v
<1>6. v.wait[l] # <<>> /\ Head(v.wait[l]) = h
  BY <1>3, Zenon DEF h
<1>7. /\ KernelOK(u, {})
      /\ h \in On(v, l) /\ v.stat[h] = "SUSPEND"
      /\ u.current = v.current /\ u.lock_nest = v.lock_nest
      /\ u.stat[h] = IF h = v.current THEN "RUNNING" ELSE "READY"
      /\ \A x \in Threads \ {h} : u.stat[x] = v.stat[x]
      /\ u.error = v.error /\ u.priority = v.priority /\ u.timer = v.timer \ {h}
      /\ \A m \in Lists : On(u, m) = On(v, m) \ {h}
  BY <1>4, <1>6, ResumeHeadEffect
<1> HIDE DEF u
<1>8. \A m \in Lists : On(v, m) = On(s, m)
  BY <1>3, Zenon DEF On
<1>9. QED BY <1>2, <1>3, <1>4, <1>5, <1>7, <1>8, Zenon DEF Only, h

\* rt_ipc_list_resume_all() with interrupts disabled: every waiter of a list, none
\* of which is the current thread, becomes ready and gets the error RT_ERROR.
LEMMA ResumeAllEffect ==
    ASSUME NEW s, KernelOK(s, {}), NEW l \in Lists, s.current \notin On(s, l)
    PROVE  LET u == rt_ipc_list_resume_all(s, l)
           IN  /\ KernelOK(u, {})
               /\ u.current = s.current /\ u.lock_nest = s.lock_nest
               /\ u.stat = [t \in Threads |-> IF t \in On(s, l) THEN "READY" ELSE s.stat[t]]
               /\ u.error = [t \in Threads |-> IF t \in On(s, l) THEN "ERROR" ELSE s.error[t]]
               /\ u.priority = s.priority /\ u.timer = s.timer \ On(s, l)
               /\ \A m \in Lists : On(u, m) = IF m = l THEN {} ELSE On(s, m)
<1> DEFINE u == rt_ipc_list_resume_all(s, l)
           q == s.wait[l]
           part(p) == InOrder(q, {t \in Threads : s.priority[t] = p})
<1>1. /\ s \in KernelStates /\ q \in Seq(Threads) /\ NoDuplicates(q)
      /\ \A p \in Priorities : s.table[p] \in Seq(Threads) /\ NoDuplicates(s.table[p])
  BY Zenon DEF KernelOK, Shape, KernelStates
<1>2. \A t \in Threads : In(q, t) <=> t \in On(s, l)
  BY Zenon DEF On
<1>3. \A p \in Priorities :
         /\ part(p) \in Seq(Threads) /\ NoDuplicates(part(p))
         /\ \A t \in Threads : In(part(p), t) <=> In(q, t) /\ s.priority[t] = p
  <2> TAKE p \in Priorities
  <2> DEFINE T == {t \in Threads : s.priority[t] = p}
  <2>1. \A t \in Threads : t \in T <=> s.priority[t] = p
    BY Zenon
  <2> HIDE DEF T, q
  <2>2. /\ InOrder(q, T) \in Seq(Threads)
        /\ \A x : In(InOrder(q, T), x) <=> In(q, x) /\ x \in T
        /\ NoDuplicates(InOrder(q, T))
    BY <1>1, InOrderList, Zenon
  <2>3. QED BY <2>1, <2>2, Zenon DEF T
<1>4. \A t \in Threads : In(q, t) => s.stat[t] = "SUSPEND" /\ t # s.current /\ t # Idle
  BY <1>2 DEF KernelOK, Linked, Occupied
<1> HIDE DEF part
<1> DEFINE lists == [p \in Priorities |-> s.table[p] \o part(p)]
<1>5. \A p \in Priorities :
         /\ lists[p] \in Seq(Threads) /\ NoDuplicates(lists[p])
         /\ \A t \in Threads : In(lists[p], t) <=> In(s.table[p], t) \/ In(part(p), t)
  <2> TAKE p \in Priorities
  <2>1. \A t \in Threads : ~(In(s.table[p], t) /\ In(part(p), t))
    BY <1>3, <1>4, Zenon DEF KernelOK, Linked
  <2> DEFINE a == s.table[p]
             b == part(p)
  <2>2. a \in Seq(Threads) /\ b \in Seq(Threads) /\ NoDuplicates(a) /\ NoDuplicates(b)
    BY <1>1, <1>3, Zenon
  <2>3. lists[p] = a \o b
    BY Zenon
  <2> HIDE DEF a, b, lists
  <2>4. /\ a \o b \in Seq(Threads)
        /\ \A x : In(a \o b, x) <=> In(a, x) \/ In(b, x)
        /\ NoDuplicates(a \o b)
    <3>1. \A t \in Threads : ~(In(a, t) /\ In(b, t))
      BY <2>1, Zenon DEF a, b
    <3>2. QED BY <2>2, <3>1, ConcatList, Zenon
  <2>5. QED BY <2>3, <2>4, Zenon DEF a, b
<1> DEFINE bits == {s.priority[q[i]] : i \in 1 .. Len(q)}
<1>6. \A p \in Priorities : p \in bits <=> part(p) # <<>>
  <2> TAKE p \in Priorities
  <2>1. p \in bits <=> \E t \in Threads : In(q, t) /\ s.priority[t] = p
    <3> HIDE DEF q
    <3>1. \A i \in 1 .. Len(q) : q[i] \in Threads
      BY <1>1
    <3>2. QED BY <3>1, Zenon DEF In
  <2>2. part(p) # <<>> <=> \E t \in Threads : In(part(p), t)
    BY <1>3, EmptyList, Zenon
  <2> HIDE DEF bits
  <2>3. QED BY <1>3, <2>1, <2>2, Zenon
<1>7. bits \subseteq Priorities
  BY <1>1 DEF KernelStates
<1> HIDE DEF bits
<1>8. /\ u.wait = [s.wait EXCEPT ![l] = <<>>]
      /\ u.stat = [t \in Threads |-> IF In(q, t) THEN "READY" ELSE s.stat[t]]
      /\ u.error = [t \in Threads |-> IF In(q, t) THEN "ERROR" ELSE s.error[t]]
      /\ u.timer = {t \in s.timer : ~In(q, t)}
      /\ u.table = lists
      /\ u.group = s.group \cup bits
      /\ u.priority = s.priority /\ u.current = s.current /\ u.lock_nest = s.lock_nest
      /\ u.defunct = s.defunct
  BY <1>1, Zenon DEF rt_ipc_list_resume_all, KernelStates, part, bits
<1>9. u \in KernelStates
  <2> DEFINE st == [t \in Threads |-> IF In(q, t) THEN "READY" ELSE s.stat[t]]
             er == [t \in Threads |-> IF In(q, t) THEN "ERROR" ELSE s.error[t]]
             ti == {t \in s.timer : ~In(q, t)}
             gr == s.group \cup bits
  <2>1. u = [s EXCEPT !.wait[l] = <<>>, !.stat = st, !.error = er, !.timer = ti,
                      !.table = lists, !.group = gr]
    BY Zenon DEF rt_ipc_list_resume_all, part, bits
  <2>2. st \in [Threads -> Stats] /\ er \in [Threads -> Errors] /\ ti \in SUBSET Threads
    BY <1>1, Zenon DEF KernelStates, Stats, Errors
  <2>3. lists \in [Priorities -> Seq(Threads)]
    BY <1>5, Zenon
  <2>4. gr \in SUBSET Priorities
    BY <1>1, <1>7, Zenon DEF KernelStates
  <2> DEFINE wt == [s.wait EXCEPT ![l] = <<>>]
  <2>5. wt \in [Lists -> Seq(Threads)]
    BY <1>1 DEF KernelStates
  <2> HIDE DEF u, st, er, ti, gr, lists, q
  <2>6. u = [s EXCEPT !.wait = wt, !.stat = st, !.error = er, !.timer = ti,
                      !.table = lists, !.group = gr]
    BY <1>1, <2>1, Zenon
  <2> HIDE DEF wt
  <2>7. QED BY <1>1, <2>2, <2>3, <2>4, <2>5, <2>6, Zenon DEF KernelStates
<1>10. rt_ipc_list_resume_all(s, l) = u
  BY Zenon
<1> HIDE DEF u
<1>11. \A m \in Lists : u.wait[m] = IF m = l THEN <<>> ELSE s.wait[m]
  BY <1>1, <1>8, Zenon DEF KernelStates
<1>12. \A p \in Priorities : u.table[p] = <<>> <=> s.table[p] = <<>> /\ part(p) = <<>>
  <2> TAKE p \in Priorities
  <2>1. lists[p] = <<>> <=> \A t \in Threads : ~In(lists[p], t)
    <3> HIDE DEF lists
    <3>1. QED BY <1>5, EmptyList, Zenon
  <2>2. s.table[p] = <<>> <=> \A t \in Threads : ~In(s.table[p], t)
    BY <1>1, EmptyList, Zenon
  <2>3. part(p) = <<>> <=> \A t \in Threads : ~In(part(p), t)
    BY <1>3, EmptyList, Zenon
  <2> HIDE DEF lists
  <2>4. QED BY <1>5, <1>8, <2>1, <2>2, <2>3, Zenon
<1>13. \A x : ~In(<<>>, x)
  BY DEF In
<1>14. Shape(u)
  <2>1. u.group = {p \in Priorities : u.table[p] # <<>>}
    BY <1>6, <1>7, <1>8, <1>12, Zenon DEF KernelOK, Shape
  <2>2. \A p \in Priorities : NoDuplicates(u.table[p])
    <3> HIDE DEF lists
    <3>1. QED BY <1>5, <1>8, Zenon
  <2>3. \A m \in Lists : NoDuplicates(u.wait[m])
    BY <1>11 DEF KernelOK, Shape, NoDuplicates
  <2>4. NoDuplicates(u.defunct)
    BY <1>8, Zenon DEF KernelOK, Shape
  <2>5. QED BY <1>9, <2>1, <2>2, <2>3, <2>4, Zenon DEF Shape
<1>15. \A t \in Threads : /\ u.stat[t] = IF In(q, t) THEN "READY" ELSE s.stat[t]
                          /\ u.priority[t] = s.priority[t]
  BY <1>8, Zenon
<1>16. Linked(u, {})
  <2>1. \A p \in Priorities, t \in Threads :
           In(u.table[p], t) <=> u.stat[t] = "READY" /\ u.priority[t] = p
    <3> TAKE p \in Priorities, t \in Threads
    <3>1. In(u.table[p], t) <=> In(s.table[p], t) \/ (In(q, t) /\ s.priority[t] = p)
      <4> HIDE DEF lists, q
      <4>1. u.table[p] = lists[p]
        BY <1>8, Zenon
      <4>2. In(lists[p], t) <=> In(s.table[p], t) \/ In(part(p), t)
        BY <1>5, Zenon
      <4>3. In(part(p), t) <=> In(q, t) /\ s.priority[t] = p
        BY <1>3, Zenon
      <4>4. QED BY <4>1, <4>2, <4>3, Zenon
    <3>2. In(s.table[p], t) <=> s.stat[t] = "READY" /\ s.priority[t] = p
      BY Zenon DEF KernelOK, Linked
    <3> HIDE DEF q
    <3>3. QED BY <1>15, <3>1, <3>2, Zenon
  <2>2. \A m \in Lists, t \in Threads :
           In(u.wait[m], t) => m # l /\ In(s.wait[m], t) /\ u.stat[t] = "SUSPEND"
    <3> TAKE m \in Lists, t \in Threads
    <3> HAVE In(u.wait[m], t)
    <3>1. m # l /\ In(s.wait[m], t)
      BY <1>11, <1>13, Zenon
    <3>2. ~In(q, t) /\ s.stat[t] = "SUSPEND"
      BY <3>1, Zenon DEF KernelOK, Linked
    <3>3. QED BY <1>15, <3>1, <3>2, Zenon
  <2>3. \A m, n \in Lists, t \in Threads :
           In(u.wait[m], t) /\ In(u.wait[n], t) => m = n
    BY <2>2, Zenon DEF KernelOK, Linked
  <2>4. \A t \in Threads : In(u.defunct, t) => u.stat[t] = "CLOSE"
    BY <1>4, <1>8, <1>15, Zenon DEF KernelOK, Linked
  <2>5. \A t \in u.timer : u.stat[t] = "SUSPEND"
    BY <1>1, <1>8, <1>15, Zenon DEF KernelOK, Linked, KernelStates
  <2>6. QED BY <2>1, <2>2, <2>3, <2>4, <2>5, Zenon DEF Linked
<1>17. Occupied(u, {})
  <2>1. s.current \in Threads /\ Idle \in Threads
    BY <1>1, KernelAssumption, Zenon DEF KernelStates
  <2>2. ~In(q, s.current) /\ ~In(q, Idle)
    BY <1>2, <1>4, <2>1, Zenon
  <2>3. QED BY <1>8, <1>15, <2>1, <2>2 DEF KernelOK, Occupied
<1>18. \A m \in Lists : On(u, m) = IF m = l THEN {} ELSE On(s, m)
  BY <1>11, <1>13, Zenon DEF On
<1>19. u.timer = s.timer \ On(s, l)
  BY <1>1, <1>2, <1>8, Zenon DEF KernelStates
<1>20. /\ u.stat = [t \in Threads |-> IF t \in On(s, l) THEN "READY" ELSE s.stat[t]]
       /\ u.error = [t \in Threads |-> IF t \in On(s, l) THEN "ERROR" ELSE s.error[t]]
  BY <1>2, <1>8, Zenon
<1>21. KernelOK(u, {})
  BY <1>14, <1>16, <1>17, Zenon DEF KernelOK
<1>22. QED BY <1>8, <1>10, <1>18, <1>19, <1>20, <1>21, Zenon

\* rt_schedule(), called with the scheduler unlocked.
LEMMA SwitchEffect ==
    ASSUME NEW s, KernelOK(s, {}), s.lock_nest = 0
    PROVE  LET u == rt_schedule(s)
           IN  /\ KernelOK(u, {}) /\ Settled(u)
               /\ u.lock_nest = 0
               /\ \A x \in Threads : u.stat[x] # s.stat[x] =>
                     s.stat[x] \in {"READY", "RUNNING"} /\ u.stat[x] \in {"READY", "RUNNING"}
               /\ u.error = s.error /\ u.priority = s.priority /\ u.timer = s.timer
               /\ u.wait = s.wait /\ \A l \in Lists : On(u, l) = On(s, l)
<1> DEFINE u == rt_schedule(s)
<1>1. KernelOK(u, {}) /\ Rescheduled(u, s) /\ Settled(u)
  BY ScheduleOK, Zenon
<1>2. u.wait = s.wait
  BY ScheduleEffect, Zenon
<1> HIDE DEF u
<1>3. \A l \in Lists : On(u, l) = On(s, l)
  BY <1>2, Zenon DEF On
<1>4. QED BY <1>1, <1>2, <1>3, Zenon DEF Rescheduled, u

\* A tick at which the timer of thread t expires.
LEMMA ExpiryEffect ==
    ASSUME NEW s, KernelOK(s, {}), s.lock_nest = 0, NEW t \in s.timer, NEW u \in Expiry(s, t)
    PROVE  /\ KernelOK(u, {}) /\ Settled(u)
           /\ u.lock_nest = 0 /\ t \in Threads /\ s.stat[t] = "SUSPEND"
           /\ \A x \in Threads : u.stat[x] # s.stat[x] =>
                 /\ u.stat[x] \in {"READY", "RUNNING"}
                 /\ x = t \/ s.stat[x] \in {"READY", "RUNNING"}
           /\ u.stat[t] \in {"READY", "RUNNING"}
           /\ u.error = [s.error EXCEPT ![t] = "ETIMEOUT"] /\ u.priority = s.priority
           /\ u.timer = s.timer \ {t}
           /\ \A l \in Lists : On(u, l) = On(s, l) \ {t}
<1>1. PICK v : v \in {s, rt_schedule(s)} /\ u = rt_thread_timeout(v, t)
  BY Zenon DEF Expiry, SliceEnd
<1>2. /\ KernelOK(v, {}) /\ v.lock_nest = 0 /\ t \in v.timer /\ v.timer = s.timer
      /\ v.wait = s.wait /\ v.error = s.error /\ v.priority = s.priority
      /\ \A x \in Threads : v.stat[x] # s.stat[x] =>
            s.stat[x] \in {"READY", "RUNNING"} /\ v.stat[x] \in {"READY", "RUNNING"}
  BY <1>1, SwitchEffect
<1>3. t \in Threads /\ s.stat[t] = "SUSPEND"
  BY Zenon DEF KernelOK, Linked, Shape, KernelStates
<1> DEFINE a == rt_timer_stop(v, t)
           b == [a EXCEPT !.error[t] = "ETIMEOUT"]
           w == rt_schedule_insert_thread(rt_list_remove(b, t), t)
<1>4. u = rt_schedule(w)
  BY <1>1, Zenon DEF rt_thread_timeout
<1>5. v \in KernelStates
  BY <1>2, Zenon DEF KernelOK, Shape
<1>6. /\ w.wait = [l \in Lists |-> Unlink(v.wait[l], t)]
      /\ w.error = [v.error EXCEPT ![t] = "ETIMEOUT"]
      /\ w.priority = v.priority /\ w.timer = v.timer \ {t}
  BY <1>3, <1>5, Zenon DEF KernelStates, rt_timer_stop, rt_list_remove, rt_schedule_insert_thread
<1>7. KernelOK(a, {}) /\ Only(a, v, t) /\ a.stat = v.stat /\ a.timer = v.timer \ {t}
  BY <1>2, <1>3, StopTimerOK
<1> HIDE DEF a
<1>8. KernelOK(b, {}) /\ Only(b, a, t) /\ b.stat = a.stat /\ b.timer = a.timer
  BY <1>3, <1>7, SetErrorOK, Zenon DEF Errors
<1> HIDE DEF b
<1>9. v.stat[t] = "SUSPEND"
  BY <1>2, <1>3, Zenon
<1>10. KernelOK(w, {}) /\ Only(w, b, t) /\ w.stat[t] \in {"READY", "RUNNING"}
  BY <1>3, <1>7, <1>8, <1>9, WakeOK
<1> HIDE DEF w
<1>11. w.lock_nest = 0 /\ \A x \in Threads \ {t} : w.stat[x] = v.stat[x]
  BY <1>2, <1>7, <1>8, <1>10, Zenon DEF Only
<1>12. /\ KernelOK(u, {}) /\ Settled(u) /\ u.lock_nest = 0
       /\ \A x \in Threads : u.stat[x] # w.stat[x] =>
             w.stat[x] \in {"READY", "RUNNING"} /\ u.stat[x] \in {"READY", "RUNNING"}
       /\ u.error = w.error /\ u.priority = w.priority /\ u.timer = w.timer
       /\ u.wait = w.wait
  BY <1>4, <1>10, <1>11, SwitchEffect, Zenon
<1>13. u.stat[t] \in {"READY", "RUNNING"}
  BY <1>3, <1>10, <1>12, Zenon
<1>14. \A x \in Threads : u.stat[x] # s.stat[x] =>
          u.stat[x] \in {"READY", "RUNNING"} /\ (x = t \/ s.stat[x] \in {"READY", "RUNNING"})
  BY <1>2, <1>11, <1>12, <1>13, Zenon
<1>15. \A l \in Lists : On(u, l) = On(s, l) \ {t}
  BY <1>2, <1>6, <1>12, OnUnlink
<1>16. QED BY <1>2, <1>3, <1>6, <1>12, <1>13, <1>14, <1>15, Zenon

(***************************************************************************)
(* The order of a wait list, by priority.                                  *)
(***************************************************************************)
Ordered(q, f) == \A i, j \in 1 .. Len(q) : i < j => f[q[i]] <= f[q[j]]

LEMMA OrderedUnlink ==
    ASSUME NEW q \in Seq(Threads), NEW t, NEW f, Ordered(q, f)
    PROVE  Ordered(Unlink(q, t), f)
<1>1. CASE ~In(q, t)
  BY <1>1, Zenon DEF Unlink
<1>2. CASE In(q, t)
  <2> DEFINE i == CHOOSE j \in 1 .. Len(q) : q[j] = t
             n == Len(q) - 1
             r == [j \in 1 .. n |-> IF j < i THEN q[j] ELSE q[j + 1]]
  <2>1. i \in 1 .. Len(q)
    BY <1>2, Zenon DEF In
  <2>2. Unlink(q, t) = r
    BY <1>2, Zenon DEF Unlink
  <2> HIDE DEF i
  <2>3. n \in Nat /\ Len(q) = n + 1
    BY <2>1
  <2>4. Len(r) = n
    <3>1. \A j \in 1 .. n : r[j] \in Threads
      BY <2>1, <2>3
    <3>2. QED BY <3>1, <2>3, IsASeq, LenProperties
  <2>5. ASSUME NEW a \in 1 .. n, NEW b \in 1 .. n, a < b PROVE f[r[a]] <= f[r[b]]
    <3> DEFINE c == IF a < i THEN a ELSE a + 1
               d == IF b < i THEN b ELSE b + 1
    <3>1. c \in 1 .. Len(q) /\ d \in 1 .. Len(q) /\ c < d
      BY <2>1, <2>3, <2>5
    <3>2. r[a] = q[c] /\ r[b] = q[d]
      BY Zenon
    <3>3. QED BY <3>1, <3>2, Zenon DEF Ordered
  <2> HIDE DEF r, n
  <2>6. Ordered(r, f)
    BY <2>4, <2>5, Zenon DEF Ordered
  <2>7. QED BY <2>2, <2>6, Zenon
<1>3. QED BY <1>1, <1>2, Zenon

\* RT_IPC_FLAG_PRIO puts a thread behind those at least as urgent and before
\* the others.
LEMMA OrderedInsert ==
    ASSUME NEW s \in KernelStates, NEW q \in Seq(Threads), NEW t \in Threads,
           Ordered(q, s.priority)
    PROVE  Ordered(InsertAt(q, PrioPosition(s, q, t), t), s.priority)
<1> DEFINE p == PrioPosition(s, q, t)
           n == Len(q) + 1
           r == [j \in 1 .. n |-> IF j < p THEN q[j] ELSE IF j = p THEN t ELSE q[j - 1]]
           f == s.priority
           later == {i \in 1 .. Len(q) : f[t] < f[q[i]]}
<1>1. Len(q) \in Nat /\ n \in Nat /\ f \in [Threads -> Nat] /\ \A i \in 1 .. Len(q) : q[i] \in Threads
  BY LenProperties DEF KernelStates, Priorities
<1>2. /\ p \in 1 .. n
      /\ \A i \in 1 .. Len(q) : i < p => f[q[i]] <= f[t]
      /\ p <= Len(q) => f[t] <= f[q[p]]
  <2>1. CASE later = {}
    <3>1. p = n
      BY <2>1, Zenon DEF PrioPosition
    <3> HIDE DEF p, f
    <3>2. \A i \in 1 .. Len(q) : f[q[i]] <= f[t]
      BY <1>1, <2>1
    <3>3. QED BY <1>1, <3>1, <3>2
  <2>2. CASE later # {}
    <3>1. p = CHOOSE i \in later : \A j \in later : i <= j
      BY <2>2, Zenon DEF PrioPosition
    <3>2. later \subseteq Nat
      BY <1>1
    <3>3. p \in later /\ \A j \in later : p <= j
      BY <2>2, <3>1, <3>2, LeastNumber, Zenon
    <3> HIDE DEF p, f
    <3>4. p \in 1 .. Len(q) /\ f[t] < f[q[p]]
      BY <3>3, Zenon
    <3>5. \A i \in 1 .. Len(q) : i < p => i \notin later
      BY <1>1, <3>3, <3>4
    <3>6. \A i \in 1 .. Len(q) : i < p => f[q[i]] <= f[t]
      BY <1>1, <3>5
    <3>7. QED BY <1>1, <3>4, <3>6
  <2>3. QED BY <2>1, <2>2, Zenon
<1>3. InsertAt(q, p, t) = r
  BY Zenon DEF InsertAt
<1> HIDE DEF p, f
<1>4. Len(r) = n
  <2>1. \A j \in 1 .. n : r[j] \in Threads
    BY <1>1, <1>2
  <2>2. QED BY <2>1, <1>1, IsASeq, LenProperties
<1>5. ASSUME NEW a \in 1 .. n, NEW b \in 1 .. n, a < b PROVE f[r[a]] <= f[r[b]]
  <2>1. \A i, j \in 1 .. Len(q) : i < j => f[q[i]] <= f[q[j]]
    BY Zenon DEF Ordered, f
  <2>2. \A i, j \in 1 .. Len(q) : i <= j => f[q[i]] <= f[q[j]]
    BY <1>1, <2>1
  <2>3. CASE b < p
    BY <1>1, <1>2, <1>5, <2>1, <2>3
  <2>4. CASE a < p /\ b = p
    BY <1>1, <1>2, <1>5, <2>4
  <2>5. CASE a < p /\ p < b
    <3>2. a \in 1 .. Len(q) /\ b - 1 \in 1 .. Len(q) /\ a <= b - 1
      BY <1>1, <1>2, <1>5, <2>5
    <3>3. r[a] = q[a] /\ r[b] = q[b - 1]
      BY <1>1, <1>2, <2>5
    <3>4. QED BY <2>2, <3>2, <3>3, Zenon
  <2>6. CASE a = p
    <3>1. p \in 1 .. Len(q) /\ b - 1 \in 1 .. Len(q) /\ p <= b - 1
      BY <1>1, <1>2, <1>5, <2>6
    <3>2. f[t] <= f[q[p]] /\ f[q[p]] <= f[q[b - 1]]
      BY <1>1, <1>2, <2>2, <3>1
    <3>3. r[a] = t /\ r[b] = q[b - 1]
      BY <1>1, <1>2, <1>5, <2>6
    <3>4. f[t] \in Nat /\ f[q[p]] \in Nat /\ f[q[b - 1]] \in Nat
      BY <1>1, <3>1, Zenon
    <3> HIDE DEF r, n
    <3>5. f[t] <= f[q[b - 1]]
      BY <3>2, <3>4
    <3>6. QED BY <3>3, <3>5, Zenon
  <2>7. CASE a > p
    <3>1. a - 1 \in 1 .. Len(q) /\ b - 1 \in 1 .. Len(q) /\ a - 1 < b - 1
      BY <1>1, <1>2, <1>5, <2>7
    <3>2. r[a] = q[a - 1] /\ r[b] = q[b - 1]
      BY <1>1, <1>2, <1>5, <2>7
    <3>3. QED BY <2>1, <3>1, <3>2, Zenon
  <2>8. QED BY <1>1, <1>2, <1>5, <2>3, <2>4, <2>5, <2>6, <2>7
<1> HIDE DEF r, n
<1>6. Ordered(r, f)
  BY <1>4, <1>5, Zenon DEF Ordered
<1>7. QED BY <1>3, <1>6, Zenon DEF p, f

LEMMA OrderedHead ==
    ASSUME NEW q \in Seq(Threads), q # <<>>, NEW f \in [Threads -> Nat], Ordered(q, f),
           NEW t, In(q, t)
    PROVE  f[Head(q)] <= f[t]
<1>1. Len(q) \in Nat /\ Len(q) >= 1 /\ Head(q) = q[1] /\ q[1] \in Threads
  BY LenProperties, HeadTailProperties, EmptySeq
<1>2. PICK i \in 1 .. Len(q) : q[i] = t
  BY Zenon DEF In
<1>3. 1 \in 1 .. Len(q) /\ f[q[1]] \in Nat
  BY <1>1
<1>4. CASE i = 1
  BY <1>1, <1>2, <1>3, <1>4
<1>5. CASE i # 1
  BY <1>1, <1>2, <1>3, <1>5 DEF Ordered
<1>6. QED BY <1>4, <1>5, Zenon

\* A list with one more thread, in whichever place.
LEMMA WaitInList ==
    ASSUME NEW q \in Seq(Threads), NEW t \in Threads, NEW f, NEW s \in KernelStates
    PROVE  LET r == IF f = "FIFO" THEN Append(q, t) ELSE InsertAt(q, PrioPosition(s, q, t), t)
           IN  \A x : In(r, x) <=> In(q, x) \/ x = t
<1>1. PrioPosition(s, q, t) \in 1 .. Len(q) + 1
  BY PrioPositionInList, Zenon
<1>2. QED BY <1>1, AppendList, InsertList

=============================================================================
